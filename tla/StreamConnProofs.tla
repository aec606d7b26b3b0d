-------------------------- MODULE StreamConnProofs --------------------------
(***************************************************************************)
(* Proofs about one direction of a stream, for any window, frame size,     *)
(* faults and bounds: the bytes read are the bytes written, in order; a    *)
(* byte Write has counted is accepted or held for Resume; the windows hold. *)
(***************************************************************************)
EXTENDS Integers, StreamConn, TLAPS

(* A frame carries the bytes its offset says.                                 *)
Genuine(f) == \A i \in 1..Len(f.data) : f.data[i] = f.off + i
Frame == {f \in [kind : {"none", "data", "resume", "close"}, epoch : Nat, off : Nat,
                 data : Seq(Nat)] : Genuine(f)}

(* An answer names an offset the receiver has reached and a window within     *)
(* the limit.                                                                 *)
Ack(o) == [kind : {"none", "openAck", "ack", "close"}, epoch : Nat, off : 0..o, win : 0..Window]

CallStates == {"idle", "credit", "check", "data", "wait", "send", "resume", "resumeSend",
               "resumeWait", "resend"}

StreamTypeOK ==
    /\ sEpoch \in Nat /\ sNext \in Nat /\ sAcked \in Nat /\ sWindow \in 0..Window
    /\ sPending \subseteq Frame /\ resend \subseteq Frame /\ frame \in Frame
    /\ sendWin \in Nat /\ wpc \in CallStates /\ left \in Nat /\ credit \in Nat /\ closingEpoch \in Nat
    /\ rEpoch \in Nat /\ rOffset \in Nat /\ readBuf \in Seq(Nat) /\ received \in Seq(Nat)
    /\ dataPath \in Seq(Frame) /\ ackPath \in Seq(Ack(rOffset)) /\ hAck \in Ack(rOffset)

(* What was read and what is buffered are the bytes up to the offset.         *)
ReaderInv ==
    /\ Len(received) + Len(readBuf) = rOffset /\ Len(readBuf) <= Window
    /\ \A i \in 1..Len(received) : received[i] = i
    /\ \A i \in 1..Len(readBuf) : readBuf[i] = Len(received) + i

(* Every byte from the acknowledged offset on is in a pending frame.  The     *)
(* offset Resume keeps is one that was acknowledged.                          *)
HeldByte(k) == \E f \in sPending : f.off < k /\ k <= End(f)
WriterInv ==
    /\ sAcked <= sNext /\ sNext - sAcked <= Window /\ sAcked <= rOffset
    /\ wpc = "resume" => credit <= sAcked
    /\ \A k \in 1..sNext : k > sAcked => HeldByte(k)

StreamInv == StreamTypeOK /\ ReaderInv /\ WriterInv
-----------------------------------------------------------------------------
(* A suffix of a run of consecutive bytes.                                    *)
LEMMA Suffix ==
    ASSUME NEW s \in Seq(Nat), NEW n \in 0..Len(s), NEW o \in Nat,
           \A i \in 1..Len(s) : s[i] = o + i
    PROVE  LET t == SubSeq(s, n + 1, Len(s))
           IN  /\ t \in Seq(Nat) /\ Len(t) = Len(s) - n
               /\ \A i \in 1..Len(t) : t[i] = o + n + i
  OBVIOUS

(* A prefix of a sequence of bytes.                                           *)
LEMMA Prefix ==
    ASSUME NEW s \in Seq(Nat), NEW n \in 0..Len(s)
    PROVE  LET t == SubSeq(s, 1, n)
           IN  /\ t \in Seq(Nat) /\ Len(t) = n
               /\ \A i \in 1..n : t[i] = s[i]
  OBVIOUS

(* Two runs of consecutive bytes make one.                                    *)
LEMMA Joined ==
    ASSUME NEW s \in Seq(Nat), NEW t \in Seq(Nat), NEW o \in Nat,
           \A i \in 1..Len(s) : s[i] = o + i,
           \A i \in 1..Len(t) : t[i] = o + Len(s) + i
    PROVE  /\ s \o t \in Seq(Nat) /\ Len(s \o t) = Len(s) + Len(t)
           /\ \A i \in 1..Len(s \o t) : (s \o t)[i] = o + i
  OBVIOUS

(* What a path carries after a step on it.                                    *)
LEMMA PathTail ==
    ASSUME NEW S, NEW p \in Seq(S), p # <<>>
    PROVE  Head(p) \in S /\ Tail(p) \in Seq(S)
  OBVIOUS

(* Sending a frame keeps the kind of what a path carries.                      *)
LEMMA PathAppend ==
    ASSUME NEW S, NEW p \in Seq(S), NEW f \in S
    PROVE  Append(p, f) \in Seq(S)
  OBVIOUS

(* Taking any one frame from a path keeps the kind of the others.              *)
LEMMA PathWithout ==
    ASSUME NEW S, NEW p \in Seq(S), NEW i \in 1..Len(p)
    PROVE  Without(p, i) \in Seq(S) /\ p[i] \in S
  BY DEF Without

(* A path of answers up to an offset is one up to a later offset.              *)
LEMMA PathWider ==
    ASSUME NEW S, NEW T, S \subseteq T, NEW p \in Seq(S)
    PROVE  p \in Seq(T)
  OBVIOUS

(* A sequence whose entry i is i is the run of the first bytes.                *)
LEMMA Counted ==
    ASSUME NEW s \in Seq(Nat), NEW n \in Nat, Len(s) = n, \A i \in 1..n : s[i] = i
    PROVE  s = [i \in 1..n |-> i]
  OBVIOUS
-----------------------------------------------------------------------------
(* The frames and answers the code builds.                                    *)
LEMMA MadeFrame ==
    ASSUME NEW k \in {"none", "data", "resume", "close"}, NEW e \in Nat, NEW o \in Nat,
           NEW d \in Seq(Nat), \A i \in 1..Len(d) : d[i] = o + i
    PROVE  [kind |-> k, epoch |-> e, off |-> o, data |-> d] \in Frame
<1> DEFINE f == [kind |-> k, epoch |-> e, off |-> o, data |-> d]
<1>1. f \in [kind : {"none", "data", "resume", "close"}, epoch : Nat, off : Nat, data : Seq(Nat)]
  BY Zenon
<1>2. f.data = d /\ f.off = o
  BY Zenon
<1> HIDE DEF f
<1>3. Genuine(f)
  BY <1>2, Zenon DEF Genuine
<1>4. f \in Frame
  BY <1>1, <1>3, Zenon DEF Frame
<1> QED
  BY <1>4, Zenon DEF f

(* A RESUME or CLOSE frame carries no bytes.                                   *)
LEMMA MadeControl ==
    ASSUME NEW k \in {"none", "resume", "close"}, NEW e \in Nat, NEW o \in Nat
    PROVE  ControlFrame(k, e, o) \in Frame
<1>1. <<>> \in Seq(Nat) /\ \A i \in 1..Len(<<>>) : <<>>[i] = o + i
  OBVIOUS
<1> QED
  BY <1>1, MadeFrame, Zenon DEF ControlFrame

(* An answer that names an offset the receiver has reached.                    *)
LEMMA MadeAck ==
    ASSUME NEW k \in {"none", "openAck", "ack", "close"}, NEW e \in Nat, NEW r \in Nat,
           NEW o \in 0..r, NEW w \in 0..Window
    PROVE  AckFrame(k, e, o, w) \in Ack(r)
  BY Zenon DEF AckFrame, Ack

(* A stream that has just been opened satisfies the invariant.                 *)
LEMMA StreamInvInit == StreamInit => StreamInv
<1> SUFFICES ASSUME StreamInit PROVE StreamInv
  BY Zenon
<1>1. rOffset = 0 /\ Window \in 0..Window /\ 0 \in 0..Window /\ 0 \in 0..0
  BY StreamConstants DEF StreamInit
<1>2. frame \in Frame /\ hAck \in Ack(rOffset)
  BY <1>1, MadeControl, MadeAck, Zenon DEF StreamInit, NoFrame, NoAck
<1>3. AckFrame("openAck", 1, 0, Window) \in Ack(rOffset)
  BY <1>1, MadeAck, Zenon
<1>4. ackPath = <<>> \/ ackPath = <<AckFrame("openAck", 1, 0, Window)>>
  BY Zenon DEF StreamInit
<1>5. ackPath \in Seq(Ack(rOffset))
  <2>1. ASSUME NEW S, NEW x \in S PROVE <<>> \in Seq(S) /\ <<x>> \in Seq(S)
    OBVIOUS
  <2> QED
    BY <1>3, <1>4, <2>1, Zenon
<1>6. dataPath \in Seq(Frame)
  BY DEF StreamInit
<1>7. StreamTypeOK
  BY <1>2, <1>5, <1>6, StreamConstants DEF StreamInit, StreamTypeOK, CallStates
<1> QED
  BY <1>7, StreamConstants DEF StreamInit, StreamInv, ReaderInv, WriterInv

(* What Resume keeps of a frame ends where the frame ends and starts no       *)
(* earlier than the offset it keeps.                                          *)
LEMMA ResumedFrame ==
    ASSUME NEW f \in Frame, NEW o \in Nat, End(f) > o, sEpoch \in Nat
    PROVE  /\ Resumed(f, o) \in Frame /\ End(Resumed(f, o)) = End(f)
           /\ \A k \in Nat : f.off < k /\ o < k => Resumed(f, o).off < k
<1> DEFINE start == IF o < f.off THEN f.off ELSE o
           n == start - f.off
           t == SubSeq(f.data, n + 1, Len(f.data))
<1>1. f.off \in Nat /\ f.data \in Seq(Nat) /\ \A i \in 1..Len(f.data) : f.data[i] = f.off + i
  BY Zenon DEF Frame, Genuine
<1>2. start \in Nat /\ n \in 0..Len(f.data) /\ f.off + n = start
  BY <1>1 DEF End
<1>3. Resumed(f, o) = [kind |-> "data", epoch |-> sEpoch + 1, off |-> start, data |-> t]
  BY Zenon DEF Resumed, DataFrame
<1>4. \A k \in Nat : f.off < k /\ o < k => start < k
  BY Zenon
<1> HIDE DEF start, n
<1>5. t \in Seq(Nat) /\ Len(t) = Len(f.data) - n /\ \A i \in 1..Len(t) : t[i] = f.off + n + i
  BY <1>1, <1>2, Suffix, Zenon
<1> HIDE DEF t
<1>6. \A i \in 1..Len(t) : t[i] = start + i
  BY <1>2, <1>5, Zenon
<1>7. [kind |-> "data", epoch |-> sEpoch + 1, off |-> start, data |-> t] \in Frame
  <2>1. sEpoch + 1 \in Nat
    OBVIOUS
  <2> QED
    BY <1>2, <1>5, <1>6, <2>1, MadeFrame, Zenon
<1>8. End(Resumed(f, o)) = End(f)
  <2>1. Resumed(f, o).off = start /\ Resumed(f, o).data = t
    BY <1>3
  <2>2. End(Resumed(f, o)) = start + Len(t)
    BY <2>1, Zenon DEF End
  <2>3. Len(f.data) \in Nat /\ End(f) = f.off + Len(f.data)
    BY <1>1 DEF End
  <2>4. Len(t) = Len(f.data) - n /\ f.off \in Nat
    BY <1>1, <1>5, Zenon
  <2> QED
    BY <1>2, <2>2, <2>3, <2>4
<1> QED
  BY <1>3, <1>4, <1>7, <1>8

(* The part of a frame that is new continues what the receiver has.           *)
LEMMA UniqueBytes ==
    ASSUME NEW f \in Frame, rOffset \in Nat, f.off <= rOffset
    PROVE  /\ Unique(f) \in Seq(Nat)
           /\ \A i \in 1..Len(Unique(f)) : Unique(f)[i] = rOffset + i
<1> DEFINE n == Min2(rOffset - f.off, Len(f.data))
           t == SubSeq(f.data, n + 1, Len(f.data))
<1>1. f.off \in Nat /\ f.data \in Seq(Nat) /\ \A i \in 1..Len(f.data) : f.data[i] = f.off + i
  BY Zenon DEF Frame, Genuine
<1>2. n \in 0..Len(f.data) /\ (n < Len(f.data) => f.off + n = rOffset)
  BY <1>1 DEF Min2
<1>3. Unique(f) = t
  BY Zenon DEF Unique
<1> HIDE DEF n
<1>4. t \in Seq(Nat) /\ Len(t) = Len(f.data) - n /\ \A i \in 1..Len(t) : t[i] = f.off + n + i
  BY <1>1, <1>2, Suffix, Zenon
<1> HIDE DEF t
<1>5. ASSUME NEW i \in 1..Len(t) PROVE t[i] = rOffset + i
  <2>1. Len(f.data) \in Nat /\ t[i] = f.off + n + i
    BY <1>1, <1>4
  <2>2. f.off + n = rOffset
    BY <1>2, <1>4, <2>1
  <2> QED
    BY <1>1, <1>2, <2>1, <2>2, Zenon
<1> QED
  BY <1>3, <1>4, <1>5, Zenon
-----------------------------------------------------------------------------
(* A step that leaves the sender's state and the accepted bytes alone has     *)
(* only to keep the types and the offset of Resume.                           *)
LEMMA Aside ==
    ASSUME StreamInv, UNCHANGED <<senderVars, rOffset, readBuf, received>>,
           resend' \subseteq Frame, frame' \in Frame, hAck' \in Ack(rOffset),
           sendWin' \in Nat, left' \in Nat, credit' \in Nat, closingEpoch' \in Nat, rEpoch' \in Nat,
           wpc' \in CallStates, wpc' = "resume" => credit' <= sAcked,
           dataPath' \in Seq(Frame), ackPath' \in Seq(Ack(rOffset))
    PROVE  StreamInv'
<1>1. Ack(rOffset') = Ack(rOffset)
  BY Zenon
<1>2. StreamTypeOK'
  BY <1>1, Zenon DEF StreamInv, StreamTypeOK, senderVars
<1>3. ReaderInv'
  BY Zenon DEF StreamInv, ReaderInv
<1>4. WriterInv'
  BY Zenon DEF StreamInv, WriterInv, HeldByte, senderVars
<1> QED
  BY <1>2, <1>3, <1>4, Zenon DEF StreamInv

(* The steps between two operations on the state of sender or receiver.       *)
LEMMA CallKeeps ==
    ASSUME StreamInv,
           \/ \E n \in 1..(MaxBytes - sNext) : WriteCall(n)
           \/ CreditSnapshot \/ CreditCheck \/ ResumeCall \/ ResumeSnapshot \/ ResumeAnswered
           \/ ResumeClosed \/ ResumeExpires \/ CloseSnapshot \/ AckApply
    PROVE  StreamInv'
<1> USE StreamConstants DEF CallStates, senderVars, streamCallVars, resumeVars, streamCloseVars, readerVars,
    pathVars
<1>1. /\ StreamTypeOK /\ sAcked <= sNext
      /\ wpc = "resume" => credit <= sAcked
  BY Zenon DEF StreamInv, WriterInv
<1>2. hAck.win \in Nat /\ NoAck \in Ack(rOffset)
  BY <1>1, MadeAck DEF StreamTypeOK, Ack, NoAck
<1>3. ASSUME NEW n \in 1..(MaxBytes - sNext), WriteCall(n) PROVE StreamInv'
  BY <1>1, <1>3, Aside DEF WriteCall, StreamTypeOK
<1>4. CASE CreditSnapshot
  BY <1>1, <1>4, Aside DEF CreditSnapshot, StreamTypeOK
<1>5. CASE CreditCheck
  BY <1>1, <1>5, Aside DEF CreditCheck, StreamTypeOK
<1>6. CASE ResumeCall \/ ResumeSnapshot
  BY <1>1, <1>6, Aside, SMTT(30) DEF ResumeCall, ResumeSnapshot, StreamTypeOK
<1>7. CASE ResumeAnswered \/ ResumeClosed \/ ResumeExpires
  BY <1>1, <1>7, Aside, Zenon DEF ResumeAnswered, ResumeClosed, ResumeExpires, ResumeFails, StreamTypeOK
<1>8. CASE CloseSnapshot
  BY <1>1, <1>8, Aside, Zenon DEF CloseSnapshot, StreamTypeOK
<1>9. CASE AckApply
  BY <1>1, <1>2, <1>9, Aside, Zenon DEF AckApply, Woken, StreamTypeOK
<1> QED
  BY <1>3, <1>4, <1>5, <1>6, <1>7, <1>8, <1>9, Zenon

(* The steps that move a frame from or to a path.                             *)
LEMMA PathKeeps ==
    ASSUME StreamInv,
           \/ WriteSend \/ ResumeSend \/ ResumeResend \/ WriterClosed \/ CloseTerminate
           \/ ReaderClose \/ HandleResume \/ HandleClose \/ PathFault
    PROVE  StreamInv'
<1> USE StreamConstants DEF CallStates, senderVars, streamCallVars, resumeVars, streamCloseVars, readerVars
<1>1. /\ StreamTypeOK /\ Len(readBuf) <= Window
      /\ wpc = "resume" => credit <= sAcked
  BY Zenon DEF StreamInv, WriterInv, ReaderInv
<1>2. NoFrame \in Frame /\ ControlFrame("resume", sEpoch, sAcked) \in Frame
      /\ (closingEpoch \in Nat => ControlFrame("close", closingEpoch, 0) \in Frame)
  BY <1>1, MadeControl, Zenon DEF StreamTypeOK, NoFrame
<1>3. AckFrame("close", 1, 0, 0) \in Ack(rOffset)
  BY <1>1, MadeAck DEF StreamTypeOK
<1>4. \A e \in Nat : AckFrame("ack", e, rOffset, Window - Len(readBuf)) \in Ack(rOffset)
  BY <1>1, MadeAck DEF StreamTypeOK
<1>5. CASE WriteSend
  <2>1. dataPath' \in Seq(Frame)
    BY <1>1, <1>5, PathAppend, Zenon DEF WriteSend, StreamTypeOK
  <2> QED
    BY <1>1, <1>2, <1>5, <2>1, Aside, Zenon DEF WriteSend, StreamTypeOK
<1>6. CASE ResumeSend
  <2>1. dataPath' \in Seq(Frame)
    BY <1>1, <1>2, <1>6, PathAppend, ZenonT(30) DEF ResumeSend, StreamTypeOK
  <2> QED
    BY <1>1, <1>6, <2>1, Aside, Zenon DEF ResumeSend, ResumeFails, StreamTypeOK
<1>7. CASE ResumeResend
  <2>1. ASSUME NEW f \in resend, dataPath' = Append(dataPath, f) PROVE dataPath' \in Seq(Frame)
    BY <1>1, <2>1, PathAppend, Zenon DEF StreamTypeOK
  <2>2. dataPath' \in Seq(Frame) /\ resend' \subseteq Frame
    BY <1>1, <1>7, <2>1, Zenon DEF ResumeResend, StreamTypeOK
  <2> QED
    BY <1>1, <1>7, <2>2, Aside, Zenon DEF ResumeResend, StreamTypeOK
<1>8. CASE WriterClosed
  <2>1. ackPath' \in Seq(Ack(rOffset))
    BY <1>1, <1>8, PathTail, Zenon DEF WriterClosed, StreamTypeOK
  <2> QED
    BY <1>1, <1>8, <2>1, Aside, Zenon DEF WriterClosed, Woken, StreamTypeOK
<1>9. CASE CloseTerminate
  <2>1. dataPath' \in Seq(Frame)
    BY <1>1, <1>2, <1>9, PathAppend, Zenon DEF CloseTerminate, StreamTypeOK
  <2> QED
    BY <1>1, <1>9, <2>1, Aside, Zenon DEF CloseTerminate, Woken, StreamTypeOK
<1>10. CASE ReaderClose
  <2>1. ackPath' \in Seq(Ack(rOffset))
    BY <1>1, <1>3, <1>10, PathAppend, Zenon DEF ReaderClose, StreamTypeOK
  <2> QED
    BY <1>1, <1>10, <2>1, Aside, Zenon DEF ReaderClose, StreamTypeOK
<1>11. CASE HandleResume
  <2>1. Head(dataPath) \in Frame /\ dataPath' \in Seq(Frame)
    BY <1>1, <1>11, PathTail, Zenon DEF HandleResume, StreamTypeOK
  <2>2. Head(dataPath).epoch \in Nat
    BY <2>1, Zenon DEF Frame
  <2>3. rEpoch' \in Nat /\ ackPath' \in Seq(Ack(rOffset))
    BY <1>1, <1>4, <1>11, <2>2, PathAppend, ZenonT(30) DEF HandleResume, StreamTypeOK
  <2> QED
    BY <1>1, <1>11, <2>1, <2>3, Aside, Zenon DEF HandleResume, StreamTypeOK
<1>12. CASE HandleClose
  <2>1. dataPath' \in Seq(Frame)
    BY <1>1, <1>12, PathTail, Zenon DEF HandleClose, StreamTypeOK
  <2> QED
    BY <1>1, <1>12, <2>1, Aside, Zenon DEF HandleClose, StreamTypeOK
<1>13. CASE PathFault
  <2>1. ASSUME Faulty(dataPath) PROVE dataPath' \in Seq(Frame)
    <3>1. PICK i \in 1..Len(dataPath) :
             \/ dataPath' = Without(dataPath, i) \/ dataPath' = Append(dataPath, dataPath[i])
             \/ dataPath' = Append(Without(dataPath, i), dataPath[i])
      BY <2>1, Zenon DEF Faulty
    <3>2. dataPath \in Seq(Frame) /\ Without(dataPath, i) \in Seq(Frame) /\ dataPath[i] \in Frame
      BY <1>1, PathWithout, Zenon DEF StreamTypeOK
    <3> QED
      BY <3>1, <3>2, PathAppend, Zenon
  <2>2. ASSUME Faulty(ackPath) PROVE ackPath' \in Seq(Ack(rOffset))
    <3>1. PICK i \in 1..Len(ackPath) :
             \/ ackPath' = Without(ackPath, i) \/ ackPath' = Append(ackPath, ackPath[i])
             \/ ackPath' = Append(Without(ackPath, i), ackPath[i])
      BY <2>2 DEF Faulty
    <3>2. /\ ackPath \in Seq(Ack(rOffset)) /\ Without(ackPath, i) \in Seq(Ack(rOffset))
          /\ ackPath[i] \in Ack(rOffset)
      BY <1>1, PathWithout, Zenon DEF StreamTypeOK
    <3> QED
      BY <3>1, <3>2, PathAppend, Zenon
  <2>3. dataPath' \in Seq(Frame) /\ ackPath' \in Seq(Ack(rOffset))
    BY <1>1, <1>13, <2>1, <2>2, Zenon DEF PathFault, StreamTypeOK
  <2> QED
    BY <1>1, <1>13, <2>3, Aside, Zenon DEF PathFault, StreamTypeOK
<1> QED
  BY <1>5, <1>6, <1>7, <1>8, <1>9, <1>10, <1>11, <1>12, <1>13, Zenon
-----------------------------------------------------------------------------
(* Data adds the bytes that follow, within the sender's window.               *)
LEMMA WriteDataKeeps == ASSUME StreamInv, WriteData PROVE StreamInv'
<1> USE DEF CallStates, senderVars, streamCallVars, resumeVars, streamCloseVars, readerVars, pathVars
<1>1. StreamTypeOK /\ ReaderInv /\ WriterInv
  BY Zenon DEF StreamInv
<1> DEFINE data == [i \in 1..Chunk |-> sNext + i]
           new == DataFrame(sEpoch, sNext, data)
<1>2. Chunk \in Nat /\ Chunk <= left
  BY <1>1, StreamConstants DEF Chunk, Min2, StreamTypeOK
<1>3. data \in Seq(Nat) /\ Len(data) = Chunk /\ \A i \in 1..Len(data) : data[i] = sNext + i
  BY <1>1, <1>2 DEF StreamTypeOK
<1>4. new \in Frame /\ new.off = sNext /\ End(new) = sNext + Chunk
  <2> HIDE DEF data
  <2>1. new \in Frame
    BY <1>1, <1>3, MadeFrame, Zenon DEF StreamTypeOK, DataFrame
  <2> QED
    BY <1>3, <2>1, Zenon DEF DataFrame, End
<1>5. \/ /\ wpc' = "idle" /\ UNCHANGED <<sNext, sPending, left, frame>>
      \/ /\ sNext - sAcked + Chunk <= sWindow
         /\ sNext' = sNext + Chunk /\ sPending' = sPending \cup {new}
         /\ left' = left - Chunk /\ frame' = new /\ wpc' = "send"
  BY <1>1, <1>2 DEF WriteData, StreamTypeOK
<1>6. /\ credit' = 0
      /\ UNCHANGED <<sEpoch, sAcked, sWindow, sendWin, resend, hAck, closingEpoch, readerVars,
                     dataPath, ackPath>>
  BY Zenon DEF WriteData
<1> HIDE DEF new
<1>7. StreamTypeOK'
  BY <1>1, <1>2, <1>4, <1>5, <1>6 DEF StreamTypeOK
<1>8. ReaderInv'
  BY <1>1, <1>6, Zenon DEF ReaderInv
<1>9. WriterInv'
  <2>1. sAcked' <= sNext' /\ sNext' - sAcked' <= Window /\ sAcked' <= rOffset' /\ wpc' # "resume"
    BY <1>1, <1>2, <1>5, <1>6, StreamConstants DEF WriterInv, StreamTypeOK
  <2>2. ASSUME NEW k \in 1..sNext', k > sAcked' PROVE HeldByte(k)'
    <3>1. CASE k <= sNext
      <4>1. HeldByte(k)
        BY <1>1, <1>6, <2>2, <3>1 DEF WriterInv, StreamTypeOK
      <4> QED
        BY <1>5, <4>1, Zenon DEF HeldByte
    <3>2. CASE k > sNext
      <4>1. sNext' = sNext + Chunk /\ sPending' = sPending \cup {new}
        BY <1>1, <1>5, <1>6, <3>2 DEF StreamTypeOK
      <4>2. new.off < k /\ k <= End(new) /\ new \in sPending'
        BY <1>1, <1>4, <3>2, <4>1 DEF StreamTypeOK
      <4> QED
        BY <4>2, Zenon DEF HeldByte, End
    <3> QED
      BY <1>1, <1>5, <1>6, <3>1, <3>2 DEF StreamTypeOK
  <2> QED
    BY <2>1, <2>2, Zenon DEF WriterInv
<1> QED
  BY <1>7, <1>8, <1>9, Zenon DEF StreamInv

(* Resume sends again what lies beyond the offset it kept, and nothing that   *)
(* is not acknowledged drops out: the offset is the acknowledged one.         *)
LEMMA ResumeKeeps == ASSUME StreamInv, ResumeState PROVE StreamInv'
<1> USE DEF CallStates, senderVars, streamCallVars, resumeVars, streamCloseVars, readerVars, pathVars
<1>1. StreamTypeOK /\ ReaderInv /\ WriterInv
  BY DEF StreamInv
<1> DEFINE frames == {Resumed(f, credit) : f \in {g \in sPending : End(g) > credit}}
<1>2. frames \subseteq Frame
  BY <1>1, ResumedFrame, Zenon DEF StreamTypeOK
<1>3. ASSUME NEW k \in 1..sNext, k > sAcked, credit = sAcked
      PROVE  \E f \in frames : f.off < k /\ k <= End(f)
  <2>1. PICK f \in sPending : f.off < k /\ k <= End(f)
    BY <1>1, <1>3, Zenon DEF WriterInv, HeldByte
  <2>2. End(f) > credit /\ f \in Frame /\ k \in Nat /\ credit < k
    BY <1>1, <1>3, <2>1, SMTT(30) DEF StreamTypeOK, Frame, End
  <2>3. End(Resumed(f, credit)) = End(f) /\ Resumed(f, credit).off < k
    BY <1>1, <2>1, <2>2, ResumedFrame, Zenon DEF StreamTypeOK
  <2> QED
    BY <2>1, <2>2, <2>3, Zenon
<1>4. \/ wpc' = "idle" /\ UNCHANGED <<sEpoch, sPending, resend>>
      \/ /\ credit = sAcked /\ sEpoch' = sEpoch + 1 /\ sPending' = frames
         /\ wpc' \in {"idle", "resumeSend"} /\ resend' \in {resend, frames}
  BY <1>1 DEF ResumeState, WriterInv, StreamTypeOK
<1>5. /\ credit' = 0
      /\ UNCHANGED <<sNext, sAcked, sWindow, sendWin, left, frame, hAck, closingEpoch, readerVars,
                     dataPath, ackPath>>
  BY Zenon DEF ResumeState
<1> HIDE DEF frames
<1>6. StreamTypeOK'
  BY <1>1, <1>2, <1>4, <1>5 DEF StreamTypeOK
<1>7. ReaderInv'
  BY <1>1, <1>5, Zenon DEF ReaderInv
<1>8. WriterInv'
  <2>1. ASSUME NEW k \in 1..sNext, k > sAcked PROVE HeldByte(k)'
    BY <1>1, <1>3, <1>4, <2>1, Zenon DEF WriterInv, HeldByte
  <2> QED
    BY <1>1, <1>4, <1>5, <2>1, Zenon DEF WriterInv
<1> QED
  BY <1>6, <1>7, <1>8 DEF StreamInv
-----------------------------------------------------------------------------
(* An accepted ACK moves acked to an offset the receiver has reached, and     *)
(* drops the frames that end there.                                           *)
LEMMA AckKeeps == ASSUME StreamInv, AckAcknowledge PROVE StreamInv'
<1> USE DEF senderVars, streamCallVars, resumeVars, streamCloseVars, readerVars
<1>1. StreamTypeOK /\ ReaderInv /\ WriterInv
  BY DEF StreamInv
<1> DEFINE a == Head(ackPath)
<1>2. a \in Ack(rOffset) /\ ackPath' \in Seq(Ack(rOffset))
  BY <1>1, PathTail, Zenon DEF AckAcknowledge, StreamTypeOK
<1>3. a.off \in Nat /\ a.off <= rOffset /\ a.win \in 0..Window
  BY <1>1, <1>2, SMTT(30) DEF Ack, StreamTypeOK
<1>4. \/ UNCHANGED <<sAcked, sWindow, sPending, hAck>>
      \/ /\ a.off >= sAcked /\ a.off <= sNext /\ sAcked' = a.off
         /\ sWindow' \in {a.win, sWindow} /\ sPending' = {f \in sPending : End(f) > a.off}
         /\ hAck' = a
  BY <1>1, <1>3 DEF AckAcknowledge, StreamTypeOK
<1>5. UNCHANGED <<sEpoch, sNext, sendWin, streamCallVars, closingEpoch, readerVars, dataPath>>
  BY Zenon DEF AckAcknowledge
<1> HIDE DEF a
<1>6. StreamTypeOK'
  BY <1>1, <1>2, <1>3, <1>4, <1>5, Zenon DEF StreamTypeOK
<1>7. ReaderInv'
  BY <1>1, <1>5, Zenon DEF ReaderInv
<1>8. WriterInv'
  <2>1. sAcked \in Nat /\ sNext \in Nat /\ rOffset \in Nat /\ Window \in Nat
    BY <1>1, StreamConstants, Zenon DEF StreamTypeOK
  <2>2. sAcked' \in Nat /\ sAcked <= sAcked' /\ sAcked' <= sNext /\ sAcked' <= rOffset
    BY <1>1, <1>3, <1>4 DEF WriterInv, StreamTypeOK
  <2>3. /\ sNext' - sAcked' <= Window /\ (wpc' = "resume" => credit' <= sAcked')
    <3>1. /\ sNext' = sNext /\ wpc' = wpc /\ credit' = credit /\ credit \in Nat
          /\ sNext - sAcked <= Window /\ (wpc = "resume" => credit <= sAcked)
      BY <1>1, <1>5, Zenon DEF WriterInv, StreamTypeOK
    <3>2. ASSUME NEW q \in Nat, sAcked <= q
          PROVE  sNext - q <= Window /\ (wpc = "resume" => credit <= q)
      BY <2>1, <3>1, <3>2
    <3> QED
      BY <2>2, <3>1, <3>2, Zenon
  <2>4. ASSUME NEW k \in 1..sNext, k > sAcked' PROVE HeldByte(k)'
    <3>1. k \in Nat /\ k > sAcked
      BY <2>1, <2>2, <2>4
    <3>2. PICK f \in sPending : f.off < k /\ k <= End(f)
      BY <1>1, <3>1, Zenon DEF WriterInv, HeldByte
    <3>3. End(f) \in Nat
      BY <1>1 DEF StreamTypeOK, Frame, End
    <3>4. End(f) > sAcked'
      BY <2>2, <2>4, <3>1, <3>2, <3>3
    <3>5. f \in sPending'
      BY <1>4, <3>4, Zenon
    <3> QED
      BY <3>2, <3>5, Zenon DEF HeldByte, End
  <2> QED
    BY <1>5, <2>2, <2>3, <2>4, Zenon DEF WriterInv
<1> QED
  BY <1>6, <1>7, <1>8 DEF StreamInv

(* The offset only grows: an older answer still names a reached offset.       *)
LEMMA AckWider ==
    ASSUME NEW o \in Nat, NEW q \in Nat, o <= q
    PROVE  /\ \A a \in Ack(o) : a \in Ack(q)
           /\ \A p \in Seq(Ack(o)) : p \in Seq(Ack(q))
<1>1. Ack(o) \subseteq Ack(q)
  BY DEF Ack
<1> QED
  BY <1>1, PathWider, Zenon

(* An accepted frame continues the buffer where it ended.                     *)
LEMMA DataKeeps == ASSUME StreamInv, HandleData PROVE StreamInv'
<1> USE DEF senderVars, streamCallVars, resumeVars, streamCloseVars
<1>1. StreamTypeOK /\ ReaderInv /\ WriterInv
  BY DEF StreamInv
<1> DEFINE f == Head(dataPath)
           new == Unique(f)
<1>2. f \in Frame /\ dataPath' \in Seq(Frame)
  BY <1>1, PathTail, Zenon DEF HandleData, StreamTypeOK
<1>3. UNCHANGED <<senderVars, sendWin, streamCallVars, hAck, closingEpoch, rEpoch, received>>
  BY Zenon DEF HandleData
<1>4. CASE ~Acceptable(f)
  <2>1. UNCHANGED <<rOffset, readBuf, ackPath>>
    BY <1>4, Zenon DEF HandleData
  <2> QED
    BY <1>1, <1>2, <1>3, <2>1, Aside, Zenon DEF StreamTypeOK, WriterInv
<1>5. CASE Acceptable(f)
  <2>1. f.off <= rOffset /\ Len(readBuf) + Len(new) <= Window
    BY <1>5, Zenon DEF Acceptable
  <2>2. new \in Seq(Nat) /\ \A i \in 1..Len(new) : new[i] = rOffset + i
    BY <1>1, <1>2, <2>1, UniqueBytes, Zenon DEF StreamTypeOK
  <2>3. /\ readBuf' = readBuf \o new /\ rOffset' = rOffset + Len(new)
        /\ ackPath' = Append(ackPath, AckFrame("ack", rEpoch, rOffset', Window - Len(readBuf')))
    BY <1>5, Zenon DEF HandleData
  <2> HIDE DEF new
  <2>4. /\ readBuf' \in Seq(Nat) /\ Len(readBuf') = Len(readBuf) + Len(new)
        /\ \A i \in 1..Len(readBuf') : readBuf'[i] = Len(received) + i
    <3>1. Len(received) \in Nat /\ rOffset = Len(received) + Len(readBuf)
      BY <1>1 DEF ReaderInv, StreamTypeOK
    <3>2. \A i \in 1..Len(new) : new[i] = Len(received) + Len(readBuf) + i
      BY <2>2, <3>1, Zenon
    <3> QED
      BY <1>1, <2>2, <2>3, <3>1, <3>2, Joined, SMTT(30) DEF ReaderInv, StreamTypeOK
  <2>5. /\ rOffset' \in Nat /\ rOffset <= rOffset'
        /\ Window - Len(readBuf') \in 0..Window /\ rOffset' \in 0..rOffset'
    BY <1>1, <2>1, <2>2, <2>3, <2>4, StreamConstants DEF StreamTypeOK
  <2>6. hAck' \in Ack(rOffset') /\ ackPath' \in Seq(Ack(rOffset'))
    <3>1. hAck \in Ack(rOffset') /\ ackPath \in Seq(Ack(rOffset'))
      BY <1>1, <2>5, AckWider, Zenon DEF StreamTypeOK
    <3>2. AckFrame("ack", rEpoch, rOffset', Window - Len(readBuf')) \in Ack(rOffset')
      BY <1>1, <2>5, MadeAck, Zenon DEF StreamTypeOK
    <3> QED
      BY <1>3, <2>3, <3>1, <3>2, PathAppend, Zenon
  <2>7. StreamTypeOK'
    BY <1>1, <1>2, <1>3, <2>4, <2>5, <2>6, Zenon DEF StreamTypeOK
  <2>8. ReaderInv'
    <3>1. Len(received) + Len(readBuf') = rOffset' /\ Len(readBuf') <= Window
      <4>1. /\ Len(received) \in Nat /\ Len(readBuf) \in Nat /\ Len(new) \in Nat
            /\ Len(received) + Len(readBuf) = rOffset
        BY <1>1, <2>2 DEF ReaderInv, StreamTypeOK
      <4> QED
        BY <2>1, <2>3, <2>4, <4>1
    <3> QED
      BY <1>1, <1>3, <2>4, <3>1, Zenon DEF ReaderInv
  <2>9. WriterInv'
    BY <1>1, <1>3, <2>5 DEF WriterInv, HeldByte, StreamTypeOK
  <2> QED
    BY <2>7, <2>8, <2>9 DEF StreamInv
<1> QED
  BY <1>4, <1>5, Zenon

(* Read moves the front of the buffer to what was read.                       *)
LEMMA ReadKeeps == ASSUME StreamInv, NEW n \in 1..Window, Read(n) PROVE StreamInv'
<1> USE DEF senderVars, streamCallVars, resumeVars, streamCloseVars
<1>1. StreamTypeOK /\ ReaderInv /\ WriterInv
  BY Zenon DEF StreamInv
<1>2. /\ n \in 0..Len(readBuf) /\ Len(readBuf) \in Nat /\ Len(received) \in Nat
      /\ UNCHANGED <<senderVars, sendWin, streamCallVars, hAck, closingEpoch, rEpoch, rOffset, dataPath>>
  BY <1>1, SMTT(30) DEF Read, StreamTypeOK
<1> DEFINE front == SubSeq(readBuf, 1, n)
           rest == SubSeq(readBuf, n + 1, Len(readBuf))
<1>3. /\ front \in Seq(Nat) /\ Len(front) = n
      /\ \A i \in 1..Len(front) : front[i] = Len(received) + i
  <2>1. front \in Seq(Nat) /\ Len(front) = n /\ \A i \in 1..n : front[i] = readBuf[i]
    BY <1>1, <1>2, Prefix, Zenon DEF StreamTypeOK
  <2>2. \A i \in 1..n : i \in 1..Len(readBuf)
    BY <1>2
  <2> HIDE DEF front
  <2> QED
    BY <1>1, <2>1, <2>2, Zenon DEF ReaderInv
<1>4. /\ rest \in Seq(Nat) /\ Len(rest) = Len(readBuf) - n
      /\ \A i \in 1..Len(rest) : rest[i] = Len(received) + n + i
  BY <1>1, <1>2, Suffix, ZenonT(30) DEF ReaderInv, StreamTypeOK
<1>5. received' = received \o front /\ readBuf' = rest
  BY Zenon DEF Read
<1> HIDE DEF front, rest
<1>6. /\ received' \in Seq(Nat) /\ Len(received') = Len(received) + n
      /\ \A i \in 1..Len(received') : received'[i] = i
  <2>1. /\ \A i \in 1..Len(received) : received[i] = 0 + i
        /\ \A i \in 1..Len(front) : front[i] = 0 + Len(received) + i
    BY <1>1, <1>2, <1>3 DEF ReaderInv
  <2>2. /\ received' \in Seq(Nat) /\ Len(received') = Len(received) + n
        /\ \A i \in 1..Len(received') : received'[i] = 0 + i
    <3>1. received \in Seq(Nat) /\ 0 \in Nat
      BY <1>1, Zenon DEF StreamTypeOK
    <3> QED
      BY <1>3, <1>5, <2>1, <3>1, Joined, ZenonT(30)
  <2> QED
    BY <1>2, <2>2
<1>7. ReaderInv'
  <2>1. Len(received') + Len(readBuf') = rOffset' /\ Len(readBuf') <= Window
    <3>1. Len(received) + Len(readBuf) = rOffset /\ Len(readBuf) <= Window /\ Window \in Nat
      BY <1>1, StreamConstants, Zenon DEF ReaderInv
    <3>2. /\ Len(received') = Len(received) + n /\ Len(readBuf') = Len(readBuf) - n
          /\ rOffset' = rOffset /\ rOffset \in Nat
      BY <1>1, <1>2, <1>4, <1>5, <1>6, Zenon DEF StreamTypeOK
    <3> QED
      BY <1>2, <3>1, <3>2
  <2>2. \A i \in 1..Len(readBuf') : readBuf'[i] = Len(received') + i
    BY <1>4, <1>5, <1>6, Zenon
  <2> QED
    BY <1>6, <2>1, <2>2, Zenon DEF ReaderInv
<1>8. ackPath' \in Seq(Ack(rOffset))
  <2>1. Window - Len(readBuf') \in 0..Window /\ rOffset \in 0..rOffset
    BY <1>1, <1>2, <1>4, <1>5, StreamConstants, SMTT(30) DEF ReaderInv, StreamTypeOK
  <2>2. AckFrame("ack", rEpoch, rOffset, Window - Len(readBuf')) \in Ack(rOffset)
    BY <1>1, <2>1, MadeAck, Zenon DEF StreamTypeOK
  <2> QED
    BY <1>1, <2>2, PathAppend, Zenon DEF Read, StreamTypeOK
<1>9. StreamTypeOK'
  BY <1>1, <1>2, <1>4, <1>5, <1>6, <1>8, Zenon DEF StreamTypeOK
<1>10. WriterInv'
  BY <1>1, <1>2, Zenon DEF WriterInv, HeldByte
<1> QED
  BY <1>7, <1>9, <1>10, Zenon DEF StreamInv
-----------------------------------------------------------------------------
(* Every step of the two sides and of the paths keeps the invariant.           *)
LEMMA StreamInvStep == StreamInv /\ [StreamNext]_streamVars => StreamInv'
<1> SUFFICES ASSUME StreamInv, [StreamNext]_streamVars PROVE StreamInv'
  BY Zenon
<1>1. CASE UNCHANGED streamVars
  <2>1. StreamTypeOK /\ (wpc = "resume" => credit <= sAcked)
    BY Zenon DEF StreamInv, WriterInv
  <2> QED
    BY <1>1, <2>1, Aside, Zenon DEF streamVars, StreamTypeOK, streamCallVars, streamCloseVars, readerVars, pathVars
<1> QED
  BY <1>1, CallKeeps, PathKeeps, WriteDataKeeps, ResumeKeeps, AckKeeps, DataKeeps, ReadKeeps, Zenon
     DEF StreamNext, CallStep, FrameStep, UserStep

(* The invariant of the stream holds in every state.                           *)
LEMMA StreamInvAlways == StreamSpec => []StreamInv
  BY StreamInvInit, StreamInvStep, PTL DEF StreamSpec

(* Read returns the bytes Write took, in order, without a gap or a repeat,    *)
(* however the paths lose, repeat and delay frames and however often the      *)
(* stream is resumed: Accept cuts off what the receiver has and refuses what  *)
(* does not continue it.                                                      *)
THEOREM ReadsInOrder == StreamSpec => []BytesInOrder
<1>1. StreamInv => BytesInOrder
  <2> SUFFICES ASSUME StreamInv PROVE BytesInOrder
    BY Zenon
  <2>1. /\ received \in Seq(Nat) /\ readBuf \in Seq(Nat) /\ rOffset \in Nat /\ 0 \in Nat
        /\ Len(received) + Len(readBuf) = rOffset /\ Len(received) \in Nat
        /\ \A i \in 1..Len(received) : received[i] = 0 + i
        /\ \A i \in 1..Len(readBuf) : readBuf[i] = 0 + Len(received) + i
    BY DEF StreamInv, StreamTypeOK, ReaderInv
  <2> DEFINE s == received \o readBuf
  <2>2. s \in Seq(Nat) /\ Len(s) = rOffset /\ \A i \in 1..Len(s) : s[i] = 0 + i
    BY <2>1, Joined, Zenon
  <2>3. \A i \in 1..rOffset : s[i] = i
    BY <2>1, <2>2
  <2> QED
    BY <2>1, <2>2, <2>3, Counted, Zenon DEF BytesInOrder
<1> QED
  BY StreamInvAlways, <1>1, PTL

(* A byte Write has counted is accepted by the peer or held in a pending      *)
(* frame, at its place: an ACK drops only what the peer has, a failed send    *)
(* drops nothing and Resume keeps the rest.                                   *)
THEOREM CountedIsHeld == StreamSpec => []NothingLost
<1>1. StreamInv => NothingLost
  <2> SUFFICES ASSUME StreamInv, NEW k \in 1..sNext, ~(k <= rOffset)
               PROVE  \E f \in sPending : f.off < k /\ k <= End(f) /\ f.data[k - f.off] = k
    BY Zenon DEF NothingLost
  <2>1. k \in 1..sNext /\ k > sAcked
    BY DEF StreamInv, StreamTypeOK, WriterInv
  <2>2. PICK f \in sPending : f.off < k /\ k <= End(f)
    BY <2>1, Zenon DEF StreamInv, WriterInv, HeldByte
  <2>3. f.off \in Nat /\ f.data \in Seq(Nat) /\ \A i \in 1..Len(f.data) : f.data[i] = f.off + i
    BY Zenon DEF StreamInv, StreamTypeOK, Frame, Genuine
  <2>4. k - f.off \in 1..Len(f.data) /\ f.off + (k - f.off) = k
    BY <2>1, <2>2, <2>3 DEF End, StreamInv, StreamTypeOK
  <2> QED
    BY <2>2, <2>3, <2>4, Zenon
<1> QED
  BY StreamInvAlways, <1>1, PTL

(* Neither the unacknowledged bytes of the sender nor the unread ones of the  *)
(* receiver exceed Window: Data and handleData check each against its own     *)
(* end, and no answer grants more.                                            *)
THEOREM WithinWindow == StreamSpec => []WindowBounds
<1>1. StreamInv => WindowBounds
  BY Zenon DEF StreamInv, ReaderInv, WriterInv, WindowBounds
<1> QED
  BY StreamInvAlways, <1>1, PTL
=============================================================================
