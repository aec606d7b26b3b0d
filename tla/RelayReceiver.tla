--------------------------- MODULE RelayReceiver ---------------------------
(***************************************************************************)
(* The receiving half of a RelayConnection.  The client's reader goroutine *)
(* admits packets (enqueueEnvelope), one dispatcher per connection handles *)
(* them in order (dispatchLoop, handleEnvelope, handleData), one worker    *)
(* sends the coalesced ACK (queueACK, receiveACKLoop), the application     *)
(* reads recvCh (ReceiveTimeout) and may Close, which must not overtake    *)
(* the ACKs it owes (waitReceiveACK).                                      *)
(***************************************************************************)
EXTENDS Integers, FiniteSets, Sequences

CONSTANTS
    RecvReliability, \* RelayConfig.Reliability of the receiving side
    RecvWindow,      \* RelayConfig.WindowSize of the receiving side
    RecvCap,         \* cap(recvCh), 64 in the code
    Reserve,         \* queue slots beyond the budget, 8 in the code
    MaxAckRetries,   \* RelayConfig.MaxRetransmits of the receiving side
    MaxRead,         \* bound: number of payloads the application reads
    MaxSeq,          \* bound: largest number a peer uses
    MaxTerminal,     \* bound: CLOSE and ERROR frames queued at a time
    MaxRClose,       \* bound: number of calls to Close of this side, 0 or 1
    RecvFaults       \* which failures happen: "abort", "ack"

ASSUME ReceiverAssumption ==
    /\ RecvReliability \in {"BestEffort", "AtLeastOnce", "ReliableOrdered"}
    /\ RecvWindow \in Nat \ {0}
    /\ RecvCap \in Nat \ {0}
    /\ Reserve \in Nat
    /\ MaxAckRetries \in Nat
    /\ MaxRead \in Nat /\ MaxSeq \in Nat /\ MaxTerminal \in Nat /\ MaxRClose \in {0, 1}
    /\ RecvFaults \subseteq {"abort", "ack"}

VARIABLES
    rState,        \* state of the receiving connection, once open
    rCloseErr,     \* closeErr
    expectedSeq, recvBuf, recvDelivered,
    ready,         \* payloads taken from recvBuf and not yet in recvCh (recvReady counts them)
    batchAck,      \* the ACK handleData sends once ready is delivered
    recvCh,
    read,          \* what the application has read, in order
    reader,        \* what enqueueEnvelope read under c.mu, or no call
    inbox, inboxSeq, inboxData,
    admission,     \* inboxTerminal and inboxFailed
    dispatch,      \* where dispatchLoop is
    active,        \* the envelope it handles
    ackGenerating, ackPending, ackSending, ackIdle, ackOut,
    ackRetries,    \* rejections of the ACK being sent
    ackWorker,     \* where receiveACKLoop is
    waiting,       \* who waits on the present ackIdle channel
    app,           \* "ended" once ReceiveTimeout has reported the end of the connection
    rCloser,       \* where a Close call of this side is
    closeMark,     \* what recvCh had received when that call began to wait for ACKs
    ackNet         \* ACKs the server accepted for the peer

recvConnVars == <<rState, rCloseErr>>
orderVars == <<expectedSeq, recvBuf, recvDelivered, ready, batchAck>>
appVars == <<recvCh, read, app>>
rCloseVars == <<rCloser, closeMark>>
inboxVars == <<inbox, inboxSeq, inboxData, admission>>
dispatchVars == <<dispatch, active>>
ackVars == <<ackGenerating, ackPending, ackSending, ackIdle, ackOut, ackRetries, ackWorker,
             waiting>>
receiverVars == <<recvConnVars, orderVars, appVars, reader, inboxVars, dispatchVars,
                  ackVars, rCloseVars, ackNet>>

Envelope == [kind : {"data", "close", "error"}, seq : Nat, id : Nat]
NoEnvelope == [kind |-> "none", seq |-> 0, id |-> 0]
NoCall == [env |-> NoEnvelope, state |-> "Open", buffered |-> 0, copy |-> "none",
           expected |-> 0, delivered |-> 0]

RecvOrdered == RecvReliability = "ReliableOrdered"
RecvBestEffort == RecvReliability = "BestEffort"
Budget == RecvCap + 2 * RecvWindow

\* closeWithSource records remote only for a CLOSE of the peer
remoteClosed == rCloseErr = "remote_close"

\* every payload that reached recvCh, in order
delivered == read \o recvCh

StreamTypeOK ==
    /\ rState \in {"Open", "Closing", "Closed"}
    /\ rCloseErr \in {"none", "nil", "remote_close", "remote_error",
                      "overflow", "ack_error", "external"}
    /\ expectedSeq \in Nat \ {0} /\ recvDelivered \in Nat /\ batchAck \in Nat
    /\ recvBuf \in SUBSET [seq : Nat, id : Nat] /\ IsFiniteSet(recvBuf)
    /\ app \in {"reading", "ended"}
    /\ ready \in Seq(Nat) /\ recvCh \in Seq(Nat) /\ read \in Seq(Nat)
    /\ reader \in {NoCall} \cup
          [env : Envelope, state : {"Open", "Closing", "Closed"}, buffered : Nat,
           copy : {"buffered", "none"}, expected : Nat, delivered : Nat]
    /\ inbox \in Seq(Envelope)
    /\ inboxSeq \in SUBSET Nat /\ inboxData \in Int
    /\ admission \in {"open", "terminal", "failed"}
    /\ dispatch \in {"none", "idle", "handle", "waitACK", "deliver", "finish", "release", "stopped"}
    /\ active \in Envelope \cup {NoEnvelope}

AckTypeOK ==
    /\ ackGenerating \in Int /\ ackPending \in Nat /\ ackSending \in Nat /\ ackRetries \in Nat
    /\ ackIdle \in {"nil", "open"} /\ ackOut \in 0..1
    /\ ackWorker \in {"wait", "loop", "send", "failed", "gone", "exited"}
    /\ waiting \in SUBSET {"dispatcher", "closer"}
    /\ closeMark \in Nat
    /\ rCloser \in {"idle", "receiveACK", "sending", "done"}
    /\ ackNet \in SUBSET Nat

ReceiverTypeOK == StreamTypeOK /\ AckTypeOK

ReceiverInit ==
    /\ rState = "Open" /\ rCloseErr = "none"
    /\ expectedSeq = 1 /\ recvBuf = {} /\ recvDelivered = 0 /\ ready = <<>> /\ batchAck = 0
    /\ recvCh = <<>> /\ read = <<>>
    /\ reader = NoCall
    /\ inbox = <<>> /\ inboxSeq = {} /\ inboxData = 0
    /\ admission = "open"
    /\ dispatch = "none" /\ active = NoEnvelope
    /\ ackGenerating = 0 /\ ackPending = 0 /\ ackSending = 0 /\ ackIdle = "nil"
    /\ ackOut = 0 /\ ackRetries = 0 /\ ackWorker = "wait" /\ waiting = {}
    /\ app = "reading" /\ rCloser = "idle" /\ closeMark = 0
    /\ ackNet = {}

(***************************************************************************)
(* closeWithSource: the first close wins.                                  *)
(***************************************************************************)
CloseWithSource(reason) ==
    /\ rState' = "Closed"
    /\ rCloseErr' = IF rState = "Closed" THEN rCloseErr ELSE reason

(***************************************************************************)
(* closeACKIdleLocked: once no ACK is being generated, pending or sent,    *)
(* the channel ackIdle is closed, which releases those who wait on it.     *)
(***************************************************************************)
CloseACKIdle(generating, pending, sending) ==
    IF generating = 0 /\ pending = 0 /\ sending = 0
    THEN ackIdle' = "nil" /\ waiting' = {}
    ELSE UNCHANGED <<ackIdle, waiting>>

\* waitReceiveACK: who waits, if ackIdle exists
WaitReceiveACK(who) == waiting' = IF ackIdle = "open" THEN waiting \cup {who} ELSE waiting
Released(who) == who \notin waiting \/ rState = "Closed"

\* queueACK keeps the larger of the pending and the new ACK
QueueACK(ackSeq) ==
    IF rState = "Closed"
    THEN UNCHANGED <<ackPending, ackIdle, ackOut>>
    ELSE /\ ackPending' = IF ackSeq > ackPending THEN ackSeq ELSE ackPending
         /\ ackIdle' = "open"
         /\ ackOut' = 1

\* the first number from n on that is not in S
Frontier(n, S) ==
    CHOOSE m \in n..(n + Cardinality(S)) : m \notin S /\ \A k \in n..(m - 1) : k \in S

Seqs(F) == {f.seq : f \in F}
IdAt(F, s) == (CHOOSE f \in F : f.seq = s).id

(***************************************************************************)
(* enqueueEnvelope runs under inboxMu, which dispatchLoop needs to release *)
(* a frame.  It reads the connection under c.mu, lets go of c.mu, and then *)
(* decides on what it has read: two steps, between which the dispatcher    *)
(* moves frames into recvBuf and recvCh.                                   *)
(***************************************************************************)
EnqueueRead(env) ==
    /\ reader = NoCall
    /\ reader' = [env       |-> env,
                  state     |-> rState,
                  buffered  |-> Cardinality(recvBuf) + (IF RecvOrdered THEN Len(ready) ELSE 0),
                  copy      |-> IF env.seq \in Seqs(recvBuf) THEN "buffered" ELSE "none",
                  expected  |-> expectedSeq,
                  delivered |-> recvDelivered]
    /\ UNCHANGED <<recvConnVars, orderVars, appVars, inboxVars, dispatchVars, ackVars,
                   rCloseVars, ackNet>>

IsData == reader.env.kind = "data"
Dedup == IsData /\ RecvOrdered
\* Variant: DATA behind an admitted CLOSE or ERROR is admitted.
IgnoredNotTerminal == reader.state = "Closed" \/ admission = "failed"

Ignored == reader.state = "Closed" \/ admission = "failed" \/ (IsData /\ admission = "terminal")
Duplicate == Dedup /\ (reader.env.seq \in inboxSeq \/ reader.copy = "buffered")
Old == Dedup /\ ~Duplicate /\ reader.env.seq < reader.expected
\* Variant: the reorder window is off by one.
BeyondWindowOneMore ==
    /\ Dedup
    /\ reader.env.seq - Frontier(reader.expected, inboxSeq) > RecvWindow

BeyondWindow ==
    /\ Dedup
    /\ reader.env.seq - Frontier(reader.expected, inboxSeq) >= RecvWindow

\* Variant: the budget is off by one.
OverBudgetOneMore == IsData /\ inboxData + Len(recvCh) + reader.buffered > Budget

OverBudget == IsData /\ inboxData + Len(recvCh) + reader.buffered >= Budget
InboxFull == Len(inbox) >= Budget + Reserve
AckWork == IsData /\ ~RecvBestEffort

\* the connection closed while the call was under way: seen where the inbox is
\* created, and by beginReceiveACK
InboxRefused == dispatch = "none" /\ rState = "Closed"
AckRefused == AckWork /\ rState = "Closed"

EnqueueDrop ==
    /\ reader # NoCall
    /\ \/ Ignored
       \/ Duplicate
       \/ Old /\ reader.delivered = 0
       \/ ~Old /\ BeyondWindow
       \/ ~Old /\ (InboxRefused \/ (~OverBudget /\ AckRefused))
       \/ ~Old /\ Dedup /\ (OverBudget \/ InboxFull)
    /\ reader' = NoCall
    /\ UNCHANGED <<recvConnVars, orderVars, appVars, inboxVars, dispatchVars, ackVars,
                   rCloseVars, ackNet>>

\* Variant: the replayed ACK covers a batch that is still being delivered.
EnqueueReplayACKExpected ==
    /\ reader # NoCall /\ ~Ignored
    /\ Old /\ reader.delivered > 0
    /\ QueueACK(reader.expected - 1)
    /\ reader' = NoCall
    /\ UNCHANGED <<recvConnVars, orderVars, appVars, inboxVars, dispatchVars, ackGenerating,
                   ackSending, ackRetries, ackWorker, waiting, rCloseVars, ackNet>>

\* a frame already taken: repeat the ACK of what has been delivered, no more
EnqueueReplayACK ==
    /\ reader # NoCall /\ ~Ignored
    /\ Old /\ reader.delivered > 0
    /\ QueueACK(reader.delivered)
    /\ reader' = NoCall
    /\ UNCHANGED <<recvConnVars, orderVars, appVars, inboxVars, dispatchVars, ackGenerating,
                   ackSending, ackRetries, ackWorker, waiting, rCloseVars, ackNet>>

\* failAdmission
EnqueueOverflow ==
    /\ reader # NoCall /\ ~Ignored /\ ~Dedup /\ ~InboxRefused
    /\ OverBudget \/ (~AckRefused /\ InboxFull)
    /\ admission' = "failed"
    /\ CloseWithSource("overflow")
    /\ reader' = NoCall
    /\ UNCHANGED <<orderVars, appVars, inbox, inboxSeq, inboxData, dispatchVars,
                   ackVars, rCloseVars, ackNet>>

\* Variant: the ACK that DATA will need is not registered at admission.
EnqueuePushUnregistered ==
    /\ reader # NoCall
    /\ ~(Ignored \/ Duplicate \/ Old \/ BeyondWindow \/ InboxRefused \/ OverBudget \/ AckRefused
         \/ InboxFull)
    /\ inbox' = Append(inbox, reader.env)
    /\ admission' = IF IsData THEN admission ELSE "terminal"
    /\ inboxData' = IF IsData THEN inboxData + 1 ELSE inboxData
    /\ inboxSeq' = IF Dedup THEN inboxSeq \cup {reader.env.seq} ELSE inboxSeq
    /\ dispatch' = IF dispatch = "none" THEN "idle" ELSE dispatch
    /\ reader' = NoCall
    /\ UNCHANGED <<recvConnVars, orderVars, appVars, active, ackVars, rCloseVars, ackNet>>

EnqueuePush ==
    /\ reader # NoCall
    /\ ~(Ignored \/ Duplicate \/ Old \/ BeyondWindow \/ InboxRefused \/ OverBudget \/ AckRefused
         \/ InboxFull)
    /\ inbox' = Append(inbox, reader.env)
    /\ admission' = IF IsData THEN admission ELSE "terminal"
    /\ inboxData' = IF IsData THEN inboxData + 1 ELSE inboxData
    /\ inboxSeq' = IF Dedup THEN inboxSeq \cup {reader.env.seq} ELSE inboxSeq
    /\ dispatch' = IF dispatch = "none" THEN "idle" ELSE dispatch
    /\ ackGenerating' = IF AckWork THEN ackGenerating + 1 ELSE ackGenerating
    /\ ackIdle' = IF AckWork THEN "open" ELSE ackIdle
    /\ reader' = NoCall
    /\ UNCHANGED <<recvConnVars, orderVars, appVars, active, ackPending, ackSending,
                   ackOut, ackRetries, ackWorker, waiting, rCloseVars, ackNet>>

(***************************************************************************)
(* dispatchLoop: one envelope at a time.                                   *)
(***************************************************************************)
DispatchTake ==
    /\ dispatch = "idle" /\ inbox # <<>> /\ rState # "Closed"
    /\ active' = Head(inbox) /\ inbox' = Tail(inbox)
    /\ IF active'.kind = "data"
       THEN dispatch' = "handle" /\ UNCHANGED waiting
       ELSE dispatch' = "waitACK" /\ WaitReceiveACK("dispatcher")
    /\ UNCHANGED <<recvConnVars, orderVars, appVars, reader, inboxSeq, inboxData, admission,
                   ackGenerating, ackPending, ackSending, ackIdle, ackOut,
                   ackRetries, ackWorker, rCloseVars, ackNet>>

\* handleEnvelope of CLOSE and of ERROR, after the ACKs of the DATA before it
DispatchTerminal ==
    /\ dispatch = "waitACK" /\ Released("dispatcher")
    /\ IF active.kind = "close"
       THEN CloseWithSource("remote_close")
       ELSE CloseWithSource("remote_error")
    /\ dispatch' = "idle" /\ active' = NoEnvelope
    /\ waiting' = waiting \ {"dispatcher"}
    /\ UNCHANGED <<orderVars, appVars, reader, inboxVars, ackGenerating, ackPending, ackSending,
                   ackIdle, ackOut, ackRetries, ackWorker, rCloseVars, ackNet>>

\* Variant: a frame beyond the expected one is delivered at once.
HandleDataAnyOrder ==
    /\ dispatch = "handle"
    /\ ready' = <<active.id>> /\ batchAck' = active.seq /\ dispatch' = "deliver"
    /\ expectedSeq' = active.seq + 1
    /\ UNCHANGED <<recvConnVars, recvBuf, recvDelivered, appVars, reader, inboxVars, active, ackVars,
                   rCloseVars, ackNet>>

\* handleData, up to the first deliverOrdered
HandleData ==
    /\ dispatch = "handle"
    /\ IF ~RecvOrdered
       THEN /\ ready' = <<active.id>> /\ batchAck' = active.seq /\ dispatch' = "deliver"
            /\ UNCHANGED <<expectedSeq, recvBuf>>
       ELSE IF active.seq = expectedSeq
       THEN LET next == Frontier(expectedSeq + 1, Seqs(recvBuf))
            IN  /\ ready' = <<active.id>> \o
                            [i \in 1..(next - expectedSeq - 1) |-> IdAt(recvBuf, expectedSeq + i)]
                /\ recvBuf' = {f \in recvBuf : f.seq >= next}
                /\ expectedSeq' = next
                /\ batchAck' = next - 1 /\ dispatch' = "deliver"
       ELSE IF active.seq > expectedSeq /\ active.seq - expectedSeq >= RecvWindow
       THEN dispatch' = "finish" /\ UNCHANGED <<ready, recvBuf, expectedSeq, batchAck>>
       ELSE /\ recvBuf' = IF active.seq > expectedSeq
                          THEN recvBuf \cup {[seq |-> active.seq, id |-> active.id]}
                          ELSE recvBuf
            /\ batchAck' = expectedSeq - 1 /\ dispatch' = "deliver"
            /\ UNCHANGED <<ready, expectedSeq>>
    /\ UNCHANGED <<recvConnVars, recvDelivered, appVars, reader, inboxVars, active, ackVars,
                   rCloseVars, ackNet>>

\* deliverOrdered: recvCh has room
Deliver ==
    /\ dispatch = "deliver" /\ ready # <<>> /\ Len(recvCh) < RecvCap
    /\ recvCh' = Append(recvCh, Head(ready))
    /\ ready' = Tail(ready)
    /\ UNCHANGED <<recvConnVars, expectedSeq, recvBuf, recvDelivered, batchAck, read, app,
                   reader, inboxVars, dispatchVars, ackVars, rCloseVars, ackNet>>

\* deliverOrdered: the connection closed instead
DeliverAbandon ==
    /\ dispatch = "deliver" /\ ready # <<>> /\ rState = "Closed"
    /\ dispatch' = "finish"
    /\ UNCHANGED <<recvConnVars, orderVars, appVars, reader, inboxVars, active, ackVars,
                   rCloseVars, ackNet>>

\* the whole batch is in recvCh: advance the watermark and queue its ACK
DeliverEnd ==
    /\ dispatch = "deliver" /\ ready = <<>>
    /\ recvDelivered' = IF RecvOrdered THEN batchAck ELSE recvDelivered
    /\ IF RecvBestEffort \/ (RecvOrdered /\ batchAck = 0)
       THEN UNCHANGED <<ackPending, ackIdle, ackOut>>
       ELSE QueueACK(batchAck)
    /\ dispatch' = "finish" /\ batchAck' = 0
    /\ UNCHANGED <<recvConnVars, expectedSeq, recvBuf, ready, appVars, reader, inboxVars,
                   active, ackGenerating, ackSending, ackRetries, ackWorker, waiting, rCloseVars,
                   ackNet>>

FinishReceiveACK ==
    /\ dispatch = "finish"
    /\ dispatch' = "release"
    /\ IF RecvBestEffort
       THEN UNCHANGED <<ackGenerating, ackIdle, waiting>>
       ELSE /\ ackGenerating' = ackGenerating - 1
            /\ CloseACKIdle(ackGenerating', ackPending, ackSending)
    /\ UNCHANGED <<recvConnVars, orderVars, appVars, reader, inboxVars, active, ackPending,
                   ackSending, ackOut, ackRetries, ackWorker, rCloseVars, ackNet>>

DispatchRelease ==
    /\ dispatch = "release" /\ reader = NoCall
    /\ inboxData' = inboxData - 1
    /\ inboxSeq' = inboxSeq \ {active.seq}
    /\ dispatch' = "idle" /\ active' = NoEnvelope
    /\ UNCHANGED <<recvConnVars, orderVars, appVars, reader, inbox, admission,
                   ackVars, rCloseVars, ackNet>>

\* the deferred clean-up of dispatchLoop
DispatchStop ==
    /\ dispatch = "idle" /\ rState = "Closed" /\ reader = NoCall
    /\ dispatch' = "stopped"
    /\ admission' = "failed" /\ inbox' = <<>> /\ inboxSeq' = {} /\ inboxData' = 0
    /\ UNCHANGED <<recvConnVars, orderVars, appVars, reader, active, ackVars,
                   rCloseVars, ackNet>>

(***************************************************************************)
(* receiveACKLoop and sendACKWithRetry.                                    *)
(***************************************************************************)
AckWake ==
    /\ ackWorker = "wait" /\ ackOut = 1
    /\ ackOut' = 0 /\ ackWorker' = "loop"
    /\ UNCHANGED <<recvConnVars, orderVars, appVars, reader, inboxVars, dispatchVars, ackGenerating,
                   ackPending, ackSending, ackIdle, ackRetries, waiting, rCloseVars, ackNet>>

AckTake ==
    /\ ackWorker = "loop"
    /\ ackSending' = ackPending /\ ackPending' = 0 /\ ackRetries' = 0
    /\ ackWorker' = IF ackPending = 0 THEN "wait" ELSE "send"
    /\ CloseACKIdle(ackGenerating, 0, ackPending)
    /\ UNCHANGED <<recvConnVars, orderVars, appVars, reader, inboxVars, dispatchVars, ackGenerating,
                   ackOut, rCloseVars, ackNet>>

\* the server accepts the ACK; its response is still to come
AckTransmit ==
    /\ ackWorker = "send" /\ ackSending \notin ackNet
    /\ ackNet' = ackNet \cup {ackSending}
    /\ UNCHANGED <<recvConnVars, orderVars, appVars, reader, inboxVars, dispatchVars, ackVars,
                   rCloseVars>>

AckSent ==
    /\ ackWorker = "send" /\ ackSending \in ackNet
    /\ ackSending' = 0 /\ ackWorker' = "loop"
    /\ CloseACKIdle(ackGenerating, ackPending, 0)
    /\ UNCHANGED <<recvConnVars, orderVars, appVars, reader, inboxVars, dispatchVars, ackGenerating,
                   ackPending, ackOut, ackRetries, rCloseVars, ackNet>>

\* service_unavailable, with retries left
AckReject ==
    /\ "ack" \in RecvFaults /\ ackWorker = "send" /\ ackRetries < MaxAckRetries /\ rState # "Closed"
    /\ ackRetries' = ackRetries + 1
    /\ UNCHANGED <<recvConnVars, orderVars, appVars, reader, inboxVars, dispatchVars, ackGenerating,
                   ackPending, ackSending, ackIdle, ackOut, ackWorker, waiting, rCloseVars, ackNet>>

\* the RPC fails for good, or is cancelled with the connection: ackSending is
\* reset under c.mu, the connection is not closed yet
AckFail ==
    /\ "ack" \in RecvFaults \/ rState = "Closed"
    /\ ackWorker = "send"
    /\ ackSending' = 0 /\ ackWorker' = "failed"
    /\ UNCHANGED <<recvConnVars, orderVars, appVars, reader, inboxVars, dispatchVars, ackGenerating,
                   ackPending, ackIdle, ackOut, ackRetries, waiting, rCloseVars, ackNet>>

\* handleClose, after c.mu was free for others; the worker returns
AckFailClose ==
    /\ ackWorker = "failed"
    /\ ackWorker' = "gone"
    /\ CloseWithSource("ack_error")
    /\ UNCHANGED <<orderVars, appVars, reader, inboxVars, dispatchVars, ackGenerating, ackPending,
                   ackSending, ackIdle, ackOut, ackRetries, waiting, rCloseVars, ackNet>>

AckExit ==
    /\ ackWorker = "wait" /\ rState = "Closed"
    /\ ackWorker' = "exited"
    /\ UNCHANGED <<recvConnVars, orderVars, appVars, reader, inboxVars, dispatchVars, ackGenerating,
                   ackPending, ackSending, ackIdle, ackOut, ackRetries, waiting, rCloseVars, ackNet>>

(***************************************************************************)
(* The application: ReceiveTimeout, and Close of this side, which has      *)
(* nothing of its own to send.  After a remote CLOSE ReceiveTimeout drains *)
(* recvCh before it reports the end (receiveTerminal).                     *)
(***************************************************************************)
AppRead ==
    /\ recvCh # <<>> /\ Len(read) < MaxRead /\ app = "reading"
    /\ read' = Append(read, Head(recvCh)) /\ recvCh' = Tail(recvCh)
    /\ UNCHANGED <<recvConnVars, orderVars, app, reader, inboxVars, dispatchVars, ackVars,
                   rCloseVars, ackNet>>

AppEnd ==
    /\ rState = "Closed" /\ app = "reading"
    /\ remoteClosed => recvCh = <<>>
    /\ app' = "ended"
    /\ UNCHANGED <<recvConnVars, orderVars, recvCh, read, reader, inboxVars, dispatchVars, ackVars,
                   rCloseVars, ackNet>>

RCloseCall ==
    /\ rCloser = "idle" /\ MaxRClose = 1 /\ rState = "Open"
    /\ rState' = "Closing" /\ rCloser' = "receiveACK"
    /\ closeMark' = Len(delivered)
    /\ WaitReceiveACK("closer")
    /\ UNCHANGED <<rCloseErr, orderVars, appVars, reader, inboxVars, dispatchVars,
                   ackGenerating, ackPending, ackSending, ackIdle, ackOut, ackRetries, ackWorker,
                   ackNet>>

RCloseSend ==
    /\ rCloser = "receiveACK" /\ Released("closer")
    /\ rCloser' = IF rState = "Closed" THEN "done" ELSE "sending"
    /\ waiting' = waiting \ {"closer"}
    /\ UNCHANGED <<recvConnVars, orderVars, appVars, reader, inboxVars, dispatchVars, ackGenerating,
                   ackPending, ackSending, ackIdle, ackOut, ackRetries, ackWorker, closeMark,
                   ackNet>>

RCloseSent ==
    /\ rCloser = "sending"
    /\ rCloser' = "done"
    /\ CloseWithSource("nil")
    /\ UNCHANGED <<orderVars, appVars, reader, inboxVars, dispatchVars, ackVars, closeMark, ackNet>>

\* Abort, the deadline of Close, closeAll on disconnect
ReceiverAbort ==
    /\ "abort" \in RecvFaults /\ rState # "Closed"
    /\ CloseWithSource("external")
    /\ UNCHANGED <<orderVars, appVars, reader, inboxVars, dispatchVars, ackVars, rCloseVars, ackNet>>

EnqueueDecide == EnqueueDrop \/ EnqueueReplayACK \/ EnqueueOverflow \/ EnqueuePush

DispatchStep ==
    \/ DispatchTake \/ DispatchTerminal \/ HandleData \/ Deliver \/ DeliverAbandon \/ DeliverEnd
    \/ FinishReceiveACK \/ DispatchRelease \/ DispatchStop

AckStep ==
    \/ AckWake \/ AckTake \/ AckTransmit \/ AckSent \/ AckReject \/ AckFail \/ AckFailClose \/ AckExit

AppStep == AppRead \/ AppEnd \/ RCloseCall \/ RCloseSend \/ RCloseSent

ReceiverStep == EnqueueDecide \/ DispatchStep \/ AckStep \/ AppStep \/ ReceiverAbort

(***************************************************************************)
(* The receiving half against a peer that sends any DATA up to MaxSeq,     *)
(* CLOSE and ERROR, in any order and as often as it likes.                 *)
(***************************************************************************)
Offered ==
    {[kind |-> "data", seq |-> n, id |-> n] : n \in 1..MaxSeq}
        \cup {[kind |-> k, seq |-> 0, id |-> 0] : k \in {"close", "error"}}

Terminals == Cardinality({i \in 1..Len(inbox) : inbox[i].kind # "data"})

PeerPacket ==
    \E env \in Offered :
        /\ env.kind # "data" => Terminals < MaxTerminal
        /\ EnqueueRead(env)

ReceiverNext == ReceiverStep \/ PeerPacket

ReceiverSpec == ReceiverInit /\ [][ReceiverNext]_receiverVars

AckProgress == AckWake \/ AckTake \/ AckTransmit \/ AckSent \/ AckFailClose \/ AckExit

\* goroutines that can run do run and an ACK's RPC ends; the application need
\* not read, the peer need not send
ReceiverFairness ==
    /\ WF_receiverVars(EnqueueDecide)
    /\ WF_receiverVars(DispatchStep)
    /\ WF_receiverVars(AckProgress)

ReceiverFairSpec == ReceiverSpec /\ ReceiverFairness

(***************************************************************************)
(* Properties.                                                             *)
(***************************************************************************)
\* recvCh receives the payloads in the order of their numbers, none twice and
\* none left out, whatever arrives.
InOrder == RecvOrdered => \A i \in 1..Len(delivered) : delivered[i] = i

\* enqueueEnvelope decides on values it read before the dispatcher moved on;
\* still, a frame it admits is neither old nor beyond the reorder window when
\* handleData gets it.
AdmittedFits ==
    RecvOrdered /\ dispatch = "handle" =>
        active.seq - expectedSeq \in 0..(RecvWindow - 1)

\* The frames a connection stores, wherever they are, never exceed the budget
\* although the parts are counted at different times.
WithinBudget ==
    Cardinality({i \in 1..Len(inbox) : inbox[i].kind = "data"})
        + (IF dispatch = "handle" THEN 1 ELSE 0)
        + Cardinality(recvBuf) + Len(ready) + Len(recvCh) <= Budget

\* No ACK, sent, pending or replayed, covers a payload that is not in recvCh.
AckIsDelivered ==
    RecvOrdered =>
        \A a \in ackNet \cup {ackPending, ackSending, recvDelivered} : a <= Len(delivered)

\* "Close must not overtake a failed ACK" (sendACKWithRetry): CLOSE of this side
\* is sent only after the server has accepted the ACK of everything that was in
\* recvCh when the call began.  False: see CloseNotBeforeAck.
CloseNeverBeforeAck ==
    RecvOrdered /\ rCloser = "sending" /\ closeMark > 0 =>
        \E a \in ackNet : a >= closeMark

\* an ACK has failed for good and the worker no longer sends any
AckFailed == ackWorker \in {"failed", "gone"}

\* What waitReceiveACK achieves: CLOSE of this side is sent only after the server
\* has accepted the ACK of everything that was in recvCh when the call began,
\* whatever is admitted, delivered, replayed or retried meanwhile.  The exception
\* is an ACK that failed for good: receiveACKLoop resets ackSending before it
\* closes the connection, and in between finishReceiveACK can release Close.
CloseNotBeforeAck == AckFailed \/ CloseNeverBeforeAck

\* A CLOSE or ERROR that the dispatcher has reached closes the connection, even
\* if the peer goes on repeating DATA.
TerminalProcessed == dispatch = "waitACK" ~> rState = "Closed"
(***************************************************************************)
(* The strengthening that makes InOrder and AckIsDelivered inductive when  *)
(* every DATA frame n that arrives carries payload n.                      *)
(***************************************************************************)
Genuine(e) == e.kind = "data" => e.seq > 0 /\ e.id = e.seq

GenuineInv ==
    /\ IsFiniteSet(Seqs(recvBuf)) /\ \A f \in recvBuf : f.seq > 0 /\ f.id = f.seq
    /\ Genuine(reader.env) /\ Genuine(active)
    /\ \A i \in 1..Len(inbox) : Genuine(inbox[i])

\* read, recvCh and ready hold the payloads 1 .. expectedSeq-1, in this order
OrderInv ==
    /\ \A i \in 1..Len(read) : read[i] = i
    /\ \A i \in 1..Len(recvCh) : recvCh[i] = Len(read) + i
    /\ \A i \in 1..Len(ready) : ready[i] = Len(read) + Len(recvCh) + i
    /\ Len(read) + Len(recvCh) + Len(ready) = expectedSeq - 1
    /\ dispatch \in {"handle", "waitACK"} => ready = <<>> /\ active # NoEnvelope
    /\ ready # <<>> => dispatch = "deliver" \/ rState = "Closed"
    /\ dispatch = "handle" => active.kind = "data"

\* an ACK at every stage covers delivered payloads only
AckInv ==
    /\ dispatch = "deliver" => batchAck = expectedSeq - 1
    /\ \A a \in ackNet \cup {ackPending, ackSending, recvDelivered, reader.delivered} :
          a <= Len(read) + Len(recvCh)

\* the end of the stream, once a CLOSE of the peer has taken effect
EndInv ==
    /\ app = "ended" => rState = "Closed"
    /\ remoteClosed => rState = "Closed" /\ dispatch \in {"idle", "stopped"}
    /\ app = "ended" /\ remoteClosed => recvCh = <<>>

ReceiverInv == GenuineInv /\ OrderInv /\ AckInv /\ EndInv
=============================================================================
