---------------------------- MODULE StreamConn ----------------------------
(* One direction of a StreamConn pair (stream_conn.go, stream_protocol.go):   *)
(* the writing end with its StreamSenderState, the reading end with its       *)
(* StreamReceiverState, and the two frame paths between them.  The two        *)
(* directions of a stream share no state but closeErr, so one is modelled.    *)
(*                                                                            *)
(* Threads of the writing end: the holder of writeMu (Write or Resume), the   *)
(* holder of handleMu (an ACK being handled) and Close.  Each section under   *)
(* sender.mu or c.mu is one step.  The k-th byte taken by Data is the         *)
(* number k.                                                                  *)
EXTENDS Integers, Sequences, FiniteSets

CONSTANTS Window,        \* StreamMuxConfig.Window, the same at both ends
          MaxFrameSize,  \* StreamMuxConfig.MaxFrameSize
          Faults,        \* what the frame paths may do
          MaxBytes,      \* bound: bytes handed to Write
          MaxResume,     \* bound: calls of Resume
          MaxFaults,     \* bound: faults of the frame paths
          MaxClose       \* bound: calls of Close, either end

ASSUME StreamConstants ==
    /\ Window \in Nat \ {0} /\ MaxFrameSize \in Nat \ {0}
    /\ Faults \subseteq {"lose", "duplicate", "delay", "sendError", "expire"}
    /\ MaxBytes \in Nat /\ MaxResume \in Nat /\ MaxFaults \in Nat /\ MaxClose \in Nat

VARIABLES sEpoch, sNext, sAcked, sWindow, sPending,  \* StreamSenderState
          sendWin, resumeEpoch, wErr,                \* StreamConn, writing end
          wpc, left, credit, frame, resend,          \* the holder of writeMu
          resumeCall, resumes,                       \* Resume waiting for writeMu
          hAck,                                      \* the ACK under handleMu
          closingEpoch, closes,                      \* Close between its two steps
          rEpoch, rOffset,                           \* StreamReceiverState
          readBuf, received, rErr,                   \* StreamConn, reading end
          dataPath, ackPath, faults                  \* frames in flight

senderVars == <<sEpoch, sNext, sAcked, sWindow, sPending>>
streamCallVars == <<wpc, left, credit, frame, resend>>
resumeVars == <<resumeCall, resumes>>
streamCloseVars == <<closingEpoch, closes>>
readerVars == <<rEpoch, rOffset, readBuf, received, rErr>>
pathVars == <<dataPath, ackPath, faults>>
streamVars == <<senderVars, sendWin, resumeEpoch, wErr, streamCallVars, resumeVars, hAck,
                streamCloseVars, readerVars, pathVars>>

DataFrame(e, o, d) == [kind |-> "data", epoch |-> e, off |-> o, data |-> d]
ControlFrame(k, e, o) == [kind |-> k, epoch |-> e, off |-> o, data |-> <<>>]
AckFrame(k, e, o, w) == [kind |-> k, epoch |-> e, off |-> o, win |-> w]

NoFrame == ControlFrame("none", 0, 0)
NoAck == AckFrame("none", 0, 0, 0)

End(f) == f.off + Len(f.data)
Min2(a, b) == IF a < b THEN a ELSE b

(* The bound on faults counts the calls of Close as well.                     *)
Calm == faults + closes < MaxFaults

(* NewStreamSenderState, NewStreamReceiverState, newStreamConn: a stream after *)
(* OpenAck.  A duplicated Open leaves a second OpenAck on its way.             *)
StreamInit ==
    /\ sEpoch = 1 /\ sNext = 0 /\ sAcked = 0 /\ sWindow = Window /\ sPending = {}
    /\ sendWin = Window /\ resumeEpoch = 0 /\ wErr = "none"
    /\ wpc = "idle" /\ left = 0 /\ credit = 0 /\ frame = NoFrame /\ resend = {}
    /\ resumeCall = "none" /\ resumes = 0 /\ hAck = NoAck
    /\ closingEpoch = 0 /\ closes = 0
    /\ rEpoch = 1 /\ rOffset = 0 /\ readBuf = <<>> /\ received = <<>> /\ rErr = "none"
    /\ dataPath = <<>> /\ faults = 0
    /\ \/ ackPath = <<>>
       \/ "duplicate" \in Faults /\ ackPath = <<AckFrame("openAck", 1, 0, Window)>>
-----------------------------------------------------------------------------
(* Write (stream_conn.go 360-391), holding writeMu.                           *)

WriteCall(n) ==
    /\ wpc = "idle"
    /\ wpc' = "credit" /\ left' = n
    /\ UNCHANGED <<senderVars, sendWin, resumeEpoch, wErr, credit, frame, resend,
                   resumeVars, hAck, streamCloseVars, readerVars, pathVars>>

(* waitSendCredit reads next and acked under sender.mu ...                    *)
CreditSnapshot ==
    /\ wpc = "credit"
    /\ wpc' = "check" /\ credit' = sNext - sAcked
    /\ UNCHANGED <<senderVars, sendWin, resumeEpoch, wErr, left, frame, resend,
                   resumeVars, hAck, streamCloseVars, readerVars, pathVars>>

(* ... and then closeErr and sendWin under c.mu.  Without credit it waits for *)
(* the state channel current at that moment.                                  *)
CreditCheck ==
    /\ wpc = "check"
    /\ IF wErr # "none" THEN wpc' = "idle" /\ credit' = 0
       ELSE IF sendWin > credit
       THEN wpc' = "data" /\ credit' = sendWin - credit
       ELSE wpc' = "wait" /\ credit' = 0
    /\ UNCHANGED <<senderVars, sendWin, resumeEpoch, wErr, left, frame, resend,
                   resumeVars, hAck, streamCloseVars, readerVars, pathVars>>

(* The chunk is cut to the frame size and to the credit.                      *)
Chunk == Min2(Min2(left, MaxFrameSize), credit)

(* StreamSenderState.Data refuses it if it exceeds the sender's own window.   *)
WriteData ==
    LET chunk == Chunk
        new == DataFrame(sEpoch, sNext, [i \in 1..chunk |-> sNext + i])
    IN /\ wpc = "data"
       /\ credit' = 0
       /\ IF sNext - sAcked + chunk > sWindow
          THEN wpc' = "idle" /\ UNCHANGED <<sNext, sPending, left, frame>>
          ELSE /\ sNext' = sNext + chunk /\ sPending' = sPending \cup {new}
               /\ left' = left - chunk /\ frame' = new /\ wpc' = "send"
       /\ UNCHANGED <<sEpoch, sAcked, sWindow, sendWin, resumeEpoch, wErr, resend,
                      resumeVars, hAck, streamCloseVars, readerVars, pathVars>>

(* mux.send takes the frame, or fails: Write then returns with the frame left *)
(* in pending.                                                                *)
WriteSend ==
    /\ wpc = "send"
    /\ frame' = NoFrame
    /\ \/ /\ dataPath' = Append(dataPath, frame)
          /\ wpc' = IF left = 0 THEN "idle" ELSE "credit"
          /\ UNCHANGED faults
       \/ /\ "sendError" \in Faults /\ Calm
          /\ faults' = faults + 1 /\ wpc' = "idle" /\ UNCHANGED dataPath
    /\ UNCHANGED <<senderVars, sendWin, resumeEpoch, wErr, left, credit, resend,
                   resumeVars, hAck, streamCloseVars, readerVars, ackPath>>

-----------------------------------------------------------------------------
(* Resume (stream_conn.go 416-466), called, then holding writeMu.             *)

ResumeCall ==
    /\ resumeCall = "none" /\ resumes < MaxResume
    /\ resumeCall' = "locking" /\ resumes' = resumes + 1
    /\ UNCHANGED <<senderVars, sendWin, resumeEpoch, wErr, streamCallVars, hAck,
                   streamCloseVars, readerVars, pathVars>>

(* The snapshot of epoch and acked; credit keeps acked.                       *)
ResumeSnapshot ==
    /\ resumeCall = "locking" /\ wpc = "idle"
    /\ resumeCall' = "none" /\ wpc' = "resume" /\ credit' = sAcked
    /\ UNCHANGED <<senderVars, sendWin, resumeEpoch, wErr, left, frame, resend,
                   resumes, hAck, streamCloseVars, readerVars, pathVars>>

\* Variant: the frame keeps the epoch of the old path.
ResumedOldEpoch(f, o) ==
    LET start == IF o < f.off THEN f.off ELSE o
    IN DataFrame(sEpoch, start, SubSeq(f.data, start - f.off + 1, Len(f.data)))

(* What StreamSenderState.Resume keeps of a pending frame: the part from      *)
(* offset o on, in the new epoch.                                             *)
Resumed(f, o) ==
    LET start == IF o < f.off THEN f.off ELSE o
    IN DataFrame(sEpoch + 1, start, SubSeq(f.data, start - f.off + 1, Len(f.data)))

(* StreamSenderState.Resume, refused when an ACK moved acked since the        *)
(* snapshot; then closeErr and resumeEpoch under c.mu.                        *)
ResumeState ==
    LET frames == {Resumed(f, credit) : f \in {g \in sPending : End(g) > credit}}
    IN /\ wpc = "resume"
       /\ credit' = 0
       /\ IF credit < sAcked
          THEN wpc' = "idle" /\ UNCHANGED <<sEpoch, sPending, resend, resumeEpoch>>
          ELSE /\ sEpoch' = sEpoch + 1 /\ sPending' = frames
               /\ IF wErr # "none"
                  THEN wpc' = "idle" /\ UNCHANGED <<resend, resumeEpoch>>
                  ELSE /\ wpc' = "resumeSend" /\ resend' = frames
                       /\ resumeEpoch' = sEpoch + 1
       /\ UNCHANGED <<sNext, sAcked, sWindow, sendWin, wErr, left, frame,
                      resumeVars, hAck, streamCloseVars, readerVars, pathVars>>

(* Resume gives up: clearResume, and the frames are not sent.                 *)
ResumeFails ==
    wpc' = "idle" /\ resumeEpoch' = 0 /\ resend' = {}

ResumeSend ==
    /\ wpc = "resumeSend"
    /\ \/ /\ dataPath' = Append(dataPath, ControlFrame("resume", sEpoch, sAcked))
          /\ wpc' = "resumeWait" /\ UNCHANGED <<faults, resend, resumeEpoch>>
       \/ /\ "sendError" \in Faults /\ Calm
          /\ faults' = faults + 1 /\ ResumeFails /\ UNCHANGED dataPath
    /\ UNCHANGED <<senderVars, sendWin, wErr, left, credit, frame,
                   resumeVars, hAck, streamCloseVars, readerVars, ackPath>>

(* The ACK handler closed resumeReady; the stream closed; the ctx ended.      *)
ResumeAnswered ==
    /\ wpc = "resumeWait" /\ resumeEpoch = 0
    /\ wpc' = "resend"
    /\ UNCHANGED <<senderVars, sendWin, resumeEpoch, wErr, left, credit, frame, resend,
                   resumeVars, hAck, streamCloseVars, readerVars, pathVars>>

ResumeClosed ==
    /\ wpc = "resumeWait" /\ wErr # "none"
    /\ wpc' = "idle" /\ resend' = {}
    /\ UNCHANGED <<senderVars, sendWin, resumeEpoch, wErr, left, credit, frame,
                   resumeVars, hAck, streamCloseVars, readerVars, pathVars>>

ResumeExpires ==
    /\ wpc = "resumeWait" /\ "expire" \in Faults /\ Calm
    /\ ResumeFails /\ faults' = faults + 1
    /\ UNCHANGED <<senderVars, sendWin, wErr, left, credit, frame,
                   resumeVars, hAck, streamCloseVars, readerVars, dataPath, ackPath>>

(* The unacknowledged suffix is sent again, in offset order.                  *)
ResumeResend ==
    /\ wpc = "resend"
    /\ \/ /\ resend = {} /\ wpc' = "idle" /\ UNCHANGED <<resend, dataPath, faults>>
       \/ \E f \in resend :
             /\ \A g \in resend : f.off <= g.off
             /\ resend' = resend \ {f} /\ dataPath' = Append(dataPath, f)
             /\ UNCHANGED <<wpc, faults>>
       \/ /\ resend # {} /\ "sendError" \in Faults /\ Calm
          /\ faults' = faults + 1 /\ wpc' = "idle" /\ resend' = {}
          /\ UNCHANGED dataPath
    /\ UNCHANGED <<senderVars, sendWin, resumeEpoch, wErr, left, credit, frame,
                   resumeVars, hAck, streamCloseVars, readerVars, ackPath>>
-----------------------------------------------------------------------------
(* handleFrame for the writing end (stream_conn.go 482-520), under handleMu.  *)

(* signalLocked: a Write waiting for credit looks again.                      *)
Woken == IF wpc = "wait" THEN "credit" ELSE wpc

\* Variant: a frame that starts at the acknowledged offset is dropped too.
AckAcknowledgeOneMore ==
    LET a == Head(ackPath)
        refused == \/ wErr # "none" \/ a.epoch # sEpoch
                   \/ a.off < sAcked \/ a.off > sNext
    IN /\ ackPath # <<>> /\ hAck = NoAck /\ a.kind # "close"
       /\ ackPath' = Tail(ackPath)
       /\ IF refused THEN UNCHANGED <<sAcked, sWindow, sPending, hAck>>
          ELSE /\ sAcked' = a.off
               /\ sWindow' = IF a.win > 0 THEN a.win ELSE sWindow
               /\ sPending' = {f \in sPending : f.off > a.off}
               /\ hAck' = a
       /\ UNCHANGED <<sEpoch, sNext, sendWin, resumeEpoch, wErr, streamCallVars, resumeVars,
                      streamCloseVars, readerVars, dataPath, faults>>

(* StreamSenderState.Acknowledge, under sender.mu.  A frame for a closed      *)
(* stream, of another epoch or outside acked..next is refused.  The Close of  *)
(* the reading end ends the stream.                                           *)
AckAcknowledge ==
    LET a == Head(ackPath)
        refused == \/ wErr # "none" \/ a.epoch # sEpoch
                   \/ a.off < sAcked \/ a.off > sNext
    IN /\ ackPath # <<>> /\ hAck = NoAck /\ a.kind # "close"
       /\ ackPath' = Tail(ackPath)
       /\ IF refused THEN UNCHANGED <<sAcked, sWindow, sPending, hAck>>
          ELSE /\ sAcked' = a.off
               /\ sWindow' = IF a.win > 0 THEN a.win ELSE sWindow
               /\ sPending' = {f \in sPending : End(f) > a.off}
               /\ hAck' = a
       /\ UNCHANGED <<sEpoch, sNext, sendWin, resumeEpoch, wErr, streamCallVars, resumeVars,
                      streamCloseVars, readerVars, dataPath, faults>>

(* The rest of the handler, under c.mu.                                       *)
AckApply ==
    /\ hAck # NoAck
    /\ sendWin' = hAck.win
    /\ resumeEpoch' = IF hAck.kind = "ack" /\ hAck.epoch = resumeEpoch
                      THEN 0 ELSE resumeEpoch
    /\ wpc' = Woken /\ hAck' = NoAck
    /\ UNCHANGED <<senderVars, wErr, left, credit, frame, resend, resumeVars,
                   streamCloseVars, readerVars, pathVars>>

(* A Close frame of the reading end: terminate(io.EOF), unless closed already. *)
WriterClosed ==
    /\ ackPath # <<>> /\ hAck = NoAck /\ Head(ackPath).kind = "close"
    /\ ackPath' = Tail(ackPath)
    /\ wErr' = IF wErr = "none" THEN "eof" ELSE wErr
    /\ wpc' = IF wErr = "none" THEN Woken ELSE wpc
    /\ UNCHANGED <<senderVars, sendWin, resumeEpoch, left, credit, frame, resend,
                   resumeVars, hAck, streamCloseVars, readerVars, dataPath, faults>>

-----------------------------------------------------------------------------
(* Close (stream_conn.go 469-480, 595-607).                                   *)

(* isClosed, then the epoch snapshot ...                                      *)
CloseSnapshot ==
    /\ wErr = "none" /\ closingEpoch = 0 /\ closes < MaxClose /\ Calm
    /\ closingEpoch' = sEpoch /\ closes' = closes + 1
    /\ UNCHANGED <<senderVars, sendWin, resumeEpoch, wErr, streamCallVars, resumeVars, hAck,
                   readerVars, pathVars>>

(* ... then terminate and the Close frame with that epoch.                    *)
CloseTerminate ==
    /\ closingEpoch # 0
    /\ closingEpoch' = 0
    /\ wErr' = IF wErr = "none" THEN "closed" ELSE wErr
    /\ wpc' = IF wErr = "none" THEN Woken ELSE wpc
    /\ dataPath' = Append(dataPath, ControlFrame("close", closingEpoch, 0))
    /\ UNCHANGED <<senderVars, sendWin, resumeEpoch, left, credit, frame, resend,
                   resumeVars, hAck, closes, readerVars, ackPath, faults>>

(* Close of the reading end.  Its own sending direction was never resumed, so *)
(* the epoch of its Close is the one the writing end expects.                 *)
ReaderClose ==
    /\ rErr = "none" /\ closes < MaxClose /\ Calm
    /\ rErr' = "closed" /\ closes' = closes + 1
    /\ ackPath' = Append(ackPath, AckFrame("close", 1, 0, 0))
    /\ UNCHANGED <<senderVars, sendWin, resumeEpoch, wErr, streamCallVars, resumeVars, hAck,
                   closingEpoch, rEpoch, rOffset, readBuf, received, dataPath, faults>>

-----------------------------------------------------------------------------
(* handleFrame for the reading end (stream_conn.go 498-539, 556-589) and Read. *)

\* Variant: an overlap with accepted bytes is not cut off.
UniqueAll(f) == f.data

(* The bytes of f that the receiver does not have yet.                        *)
Unique(f) == SubSeq(f.data, Min2(rOffset - f.off, Len(f.data)) + 1, Len(f.data))

\* Variant: only the offset is compared with the window, not the read buffer.
AcceptableUnread(f) ==
    /\ rErr = "none" /\ f.off <= rOffset
    /\ f.epoch = rEpoch /\ End(f) <= rOffset + Window

(* handleData's checks and those of StreamReceiverState.Accept.               *)
Acceptable(f) ==
    /\ rErr = "none"
    /\ f.off <= rOffset                               \* else ErrStreamGap
    /\ Len(readBuf) + Len(Unique(f)) <= Window        \* else ErrStreamCredit
    /\ f.epoch = rEpoch                               \* else ErrStreamEpoch
    /\ End(f) <= rOffset + Window                     \* else ErrStreamCredit

(* A refused frame changes nothing; an accepted one is buffered and answered  *)
(* with the new offset and the free space.  responseMu keeps ACKs in order.   *)
HandleData ==
    LET f == Head(dataPath)
    IN /\ dataPath # <<>> /\ f.kind = "data"
       /\ dataPath' = Tail(dataPath)
       /\ IF ~Acceptable(f) THEN UNCHANGED <<rOffset, readBuf, ackPath>>
          ELSE /\ readBuf' = readBuf \o Unique(f)
               /\ rOffset' = rOffset + Len(Unique(f))
               /\ ackPath' = Append(ackPath,
                     AckFrame("ack", rEpoch, rOffset', Window - Len(readBuf')))
       /\ UNCHANGED <<senderVars, sendWin, resumeEpoch, wErr, streamCallVars, resumeVars, hAck,
                      streamCloseVars, rEpoch, received, rErr, faults>>

(* StreamReceiverState.Resume: the epoch moves forward, the offset stays.     *)
HandleResume ==
    LET f == Head(dataPath)
    IN /\ dataPath # <<>> /\ f.kind = "resume"
       /\ dataPath' = Tail(dataPath)
       /\ IF rErr # "none" \/ f.epoch <= rEpoch \/ f.off > rOffset
          THEN UNCHANGED <<rEpoch, ackPath>>
          ELSE /\ rEpoch' = f.epoch
               /\ ackPath' = Append(ackPath,
                     AckFrame("ack", f.epoch, rOffset, Window - Len(readBuf)))
       /\ UNCHANGED <<senderVars, sendWin, resumeEpoch, wErr, streamCallVars, resumeVars, hAck,
                      streamCloseVars, rOffset, readBuf, received, rErr, faults>>

(* A Close of the current path ends the stream; buffered bytes stay readable. *)
HandleClose ==
    LET f == Head(dataPath)
    IN /\ dataPath # <<>> /\ f.kind = "close"
       /\ dataPath' = Tail(dataPath)
       /\ rErr' = IF rErr = "none" /\ f.epoch = rEpoch THEN "eof" ELSE rErr
       /\ UNCHANGED <<senderVars, sendWin, resumeEpoch, wErr, streamCallVars, resumeVars, hAck,
                      streamCloseVars, rEpoch, rOffset, readBuf, received, ackPath, faults>>

(* Read takes n buffered bytes and, while the stream is open, advertises the  *)
(* space.                                                                     *)
Read(n) ==
    /\ n \in 1..Len(readBuf)
    /\ received' = received \o SubSeq(readBuf, 1, n)
    /\ readBuf' = SubSeq(readBuf, n + 1, Len(readBuf))
    /\ ackPath' = IF rErr # "none" THEN ackPath
                  ELSE Append(ackPath, AckFrame("ack", rEpoch, rOffset, Window - Len(readBuf')))
    /\ UNCHANGED <<senderVars, sendWin, resumeEpoch, wErr, streamCallVars, resumeVars, hAck,
                   streamCloseVars, rEpoch, rOffset, rErr, dataPath, faults>>

-----------------------------------------------------------------------------
(* The frame paths, between two calls of the application-provided transport.  *)

Without(s, i) == [j \in 1..(Len(s) - 1) |-> IF j < i THEN s[j] ELSE s[j + 1]]

(* A path loses a frame, delivers it twice, or delivers it late.              *)
Faulty(path) ==
    \E i \in 1..Len(path) :
       \/ "lose" \in Faults /\ path' = Without(path, i)
       \/ "duplicate" \in Faults /\ path' = Append(path, path[i])
       \/ "delay" \in Faults /\ path' = Append(Without(path, i), path[i])

PathFault ==
    /\ Calm /\ faults' = faults + 1
    /\ \/ Faulty(dataPath) /\ UNCHANGED ackPath
       \/ Faulty(ackPath) /\ UNCHANGED dataPath
    /\ UNCHANGED <<senderVars, sendWin, resumeEpoch, wErr, streamCallVars, resumeVars, hAck,
                   streamCloseVars, readerVars>>
-----------------------------------------------------------------------------

CallStep ==
    \/ CreditSnapshot \/ CreditCheck \/ WriteData \/ WriteSend
    \/ ResumeSnapshot \/ ResumeState \/ ResumeSend
    \/ ResumeAnswered \/ ResumeClosed \/ ResumeResend

FrameStep ==
    \/ AckAcknowledge \/ AckApply \/ WriterClosed
    \/ HandleData \/ HandleResume \/ HandleClose

UserStep ==
    \/ \E n \in 1..(MaxBytes - sNext) : WriteCall(n)
    \/ ResumeCall \/ ResumeExpires
    \/ CloseSnapshot \/ CloseTerminate \/ ReaderClose
    \/ \E n \in 1..Window : Read(n)

StreamNext == CallStep \/ FrameStep \/ UserStep \/ PathFault

StreamSpec == StreamInit /\ [][StreamNext]_streamVars

(* A goroutine that can run does: the holder of writeMu, the handler of a     *)
(* frame, the path that carries one, a Close under way and a reader that      *)
(* keeps reading.  Nothing obliges anyone to call Write, Resume or Close.     *)
StreamFairSpec ==
    /\ StreamSpec
    /\ WF_streamVars(CallStep)
    /\ WF_streamVars(AckAcknowledge \/ AckApply \/ WriterClosed)
    /\ WF_streamVars(HandleData \/ HandleResume \/ HandleClose)
    /\ WF_streamVars(CloseTerminate)
    /\ WF_streamVars(\E n \in 1..Window : Read(n))

-----------------------------------------------------------------------------
(* What Read has returned, followed by what it will return, is exactly the    *)
(* first offset bytes taken by Write: no byte is lost, repeated or swapped,   *)
(* whatever the paths do and however often the stream is resumed.             *)
BytesInOrder == received \o readBuf = [i \in 1..rOffset |-> i]

(* "bytes included in n remain pending for Resume": a byte Write counted is   *)
(* accepted by the peer or held in a frame that Resume would send again.      *)
NothingLost ==
    \A k \in 1..sNext :
       k <= rOffset \/ \E f \in sPending : f.off < k /\ k <= End(f) /\ f.data[k - f.off] = k

(* "Window bounds each direction's unread or unacknowledged bytes": neither   *)
(* the sender's unacknowledged bytes nor the receiver's unread ones exceed it. *)
WindowBounds == sNext - sAcked <= Window /\ Len(readBuf) <= Window

(* Write "waits for peer-advertised credit": no byte is taken beyond what was *)
(* read plus the window.  The code breaks this: the handler of an ACK moves   *)
(* acked (and ignores a window of 0) before it updates sendWin, and a Write   *)
(* between the two computes a credit the peer never gave.  The peer refuses   *)
(* the frame, which stays pending until a Resume.                             *)
WithinCredit == sNext <= Len(received) + Window

(* A Write that waits although credit is there goes on: the test of the       *)
(* zero-window writer calls the opposite "writer remained blocked after Read  *)
(* advertised credit".                                                        *)
WriterWakes ==
    (wpc = "wait" /\ wErr = "none" /\ sendWin > sNext - sAcked) ~> (wpc # "wait")

(* A Resume that got its answer repairs the stream: once the paths are well,  *)
(* every byte taken so far is accepted.  Excepted are the Resumes answered    *)
(* while Write is beyond the peer's credit (WithinCredit, which the code does *)
(* not keep): the peer refuses the frames sent again as it refused the first. *)
ResumeRepairs ==
    \A k \in 1..MaxBytes :
       (/\ wpc = "resumeWait" /\ resumeEpoch = 0 /\ sNext = k
        /\ WithinCredit /\ ~Calm)
          ~> (rOffset >= k \/ wErr # "none" \/ rErr # "none")
=============================================================================
