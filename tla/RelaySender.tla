---------------------------- MODULE RelaySender ----------------------------
(***************************************************************************)
(* The sending half of a RelayConnection: Send, Flush and Close enqueue    *)
(* items under enqueueMu, sendLoop gives every DATA item a sequence number *)
(* and hands it to an acceptance RPC, retransmit repeats what the peer has *)
(* not acknowledged, handleAck retires it.                                 *)
(*                                                                         *)
(* The payload of the n-th Send that returned nil is identified by n.  The *)
(* packets handed to the server accumulate in dataNet, from which the peer *)
(* may take any packet, at any time, any number of times: this network     *)
(* loses (never delivers), duplicates and reorders.                        *)
(***************************************************************************)
EXTENDS Integers, FiniteSets, Sequences

CONSTANTS
    Reliability,     \* RelayConfig.Reliability of the sending side
    WindowSize,      \* RelayConfig.WindowSize of the sending side
    MaxSlots,        \* the literal 64 of sendLoop
    SendCap,         \* cap(sendCh): SendBufferSize / 1024
    MaxRetransmits,  \* RelayConfig.MaxRetransmits
    MaxSend,         \* bound: number of Sends that return nil
    MaxFlush,        \* bound: number of calls to Flush
    MaxClose,        \* bound: number of calls to Close, 0 or 1
    SendFaults       \* which failures happen: "abort", "timeout", "rpc"

ASSUME SenderAssumption ==
    /\ Reliability \in {"BestEffort", "AtLeastOnce", "ReliableOrdered"}
    /\ WindowSize \in Nat \ {0}
    /\ MaxSlots \in Nat \ {0}
    /\ SendCap \in Nat \ {0}
    /\ MaxRetransmits \in Nat
    /\ MaxSend \in Nat /\ MaxFlush \in Nat /\ MaxClose \in {0, 1}
    /\ SendFaults \subseteq {"abort", "timeout", "rpc"}

VARIABLES
    sState,      \* state of the sending connection, once open
    sCloseErr,   \* closeErr: why it closed
    enqueueMu,   \* which call holds enqueueMu
    sendCh,      \* the items between the application and sendLoop
    sent,        \* how many Sends have returned nil
    loop,        \* where sendLoop is
    held,        \* the item sendLoop took from sendCh
    nextSeq, sendBase, unacked, retransCnt,
    ackCh,       \* tokens in the window-progress channel, 0 or 1
    timer,       \* ackTimer: armed also when it has fired unseen
    rpcs,        \* acceptance RPCs outstanding; each one holds a slot of inflight
    retry,       \* the retry round: none, start, running, done (retryDone closed)
    frames,      \* what the round still has to repeat
    flushNo,     \* number of the current Flush call
    flush,       \* where it is
    flushMark,   \* what had been sent when its barrier was enqueued
    flushTarget, \* target: nextSeq when sendLoop met the barrier
    flushCh,     \* closed when sendLoop meets the item of Close
    closer,      \* where the Close call is
    closeRpc,    \* whether the goroutine that sends CLOSE runs
    dataNet      \* packets accepted by the server for the peer

(* The capacity of inflight: the acceptance RPCs that may be outstanding.     *)
SlotLimit == IF WindowSize < MaxSlots THEN WindowSize ELSE MaxSlots

connVars == <<sState, sCloseErr>>
queueVars == <<enqueueMu, sendCh, sent>>
seqVars == <<nextSeq, sendBase, unacked, retransCnt, ackCh>>
loopVars == <<loop, held, timer>>
rpcVars == <<rpcs, retry, frames>>
flushVars == <<flushNo, flush, flushMark, flushTarget>>
closeVars == <<flushCh, closer, closeRpc>>
callVars == <<flushVars, closeVars>>
senderVars == <<connVars, queueVars, seqVars, loopVars, rpcVars, callVars, dataNet>>

Item == [kind : {"data", "barrier", "close"}, id : Nat]
Frame == [seq : Nat, id : Nat]
Rpc == [seq : Nat, id : Nat, round : {"first", "repeat"}]
NoItem == [kind |-> "data", id |-> 0]
DataPacket(f) == [kind |-> "data", seq |-> f.seq, id |-> f.id]
ClosePacket == [kind |-> "close", seq |-> 0, id |-> 0]
Packet == [kind : {"data"}, seq : Nat, id : Nat] \cup {ClosePacket}

SenderTypeOK ==
    /\ sState \in {"Open", "Closing", "Closed"}
    /\ sCloseErr \in {"none", "nil", "send_error", "max_retransmit", "timeout", "external"}
    /\ enqueueMu \in {"free", "send", "flush", "close"}
    /\ sendCh \in Seq(Item) /\ Len(sendCh) <= SendCap
    /\ sent \in Nat
    /\ loop \in {"select", "check", "window", "slot", "drain", "inline", "exited"}
    /\ held \in Item
    /\ nextSeq \in Nat \ {0} /\ sendBase \in Nat \ {0} /\ unacked \in SUBSET Frame
    /\ retransCnt \in Nat
    /\ ackCh \in 0..1 /\ timer \in {"stopped", "armed"}
    /\ rpcs \in SUBSET Rpc
    /\ retry \in {"none", "start", "running", "done"}
    /\ frames \in SUBSET Frame
    /\ flushNo \in Nat
    /\ flush \in {"idle", "enqueue", "barrier", "poll", "ok", "failed"}
    /\ flushMark \in Nat /\ flushTarget \in Nat /\ flushCh \in {"open", "closed"}
    /\ closer \in {"idle", "lock", "enqueue", "flush", "acks", "receiveACK", "sending", "done"}
    /\ closeRpc \in {"none", "running"}
    /\ dataNet \in SUBSET Packet

SenderInit ==
    /\ sState = "Open" /\ sCloseErr = "none"
    /\ enqueueMu = "free" /\ sendCh = <<>> /\ sent = 0
    /\ loop = "select" /\ held = NoItem /\ timer = "stopped"
    /\ nextSeq = 1 /\ sendBase = 1 /\ unacked = {} /\ retransCnt = 0 /\ ackCh = 0
    /\ rpcs = {} /\ retry = "none" /\ frames = {}
    /\ flushNo = 0 /\ flush = "idle" /\ flushMark = 0 /\ flushTarget = 0 /\ flushCh = "open"
    /\ closer = "idle" /\ closeRpc = "none"
    /\ dataNet = {}

Ordered == Reliability = "ReliableOrdered"
BestEffort == Reliability = "BestEffort"

(***************************************************************************)
(* closeWithSource: the first reason wins, everything after is a no-op.    *)
(***************************************************************************)
CloseConnection(reason) ==
    /\ sState' = "Closed"
    /\ sCloseErr' = IF sState = "Closed" THEN sCloseErr ELSE reason

(***************************************************************************)
(* Send.  enqueueMu is held while sendCh is full; a timeout, or a close,   *)
(* ends the wait.  With both ready the select takes either.                *)
(***************************************************************************)
SendBegin ==
    /\ enqueueMu = "free" /\ sState = "Open" /\ sent < MaxSend
    /\ enqueueMu' = "send"
    /\ UNCHANGED <<connVars, sendCh, sent, seqVars, loopVars, rpcVars, callVars, dataNet>>

SendPush ==
    /\ enqueueMu = "send" /\ Len(sendCh) < SendCap
    /\ sent' = sent + 1
    /\ sendCh' = Append(sendCh, [kind |-> "data", id |-> sent'])
    /\ enqueueMu' = "free"
    /\ UNCHANGED <<connVars, seqVars, loopVars, rpcVars, callVars, dataNet>>

SendFail ==
    /\ enqueueMu = "send" /\ ("timeout" \in SendFaults \/ sState = "Closed")
    /\ enqueueMu' = "free"
    /\ UNCHANGED <<connVars, sendCh, sent, seqVars, loopVars, rpcVars, callVars, dataNet>>

(***************************************************************************)
(* Flush: enqueue a barrier, learn the target from sendLoop, poll unacked. *)
(* Its context may end the wait at any point; the barrier then stays       *)
(* queued.  A close that falls between the check of c.ctx and the scan of  *)
(* unacked is not seen by that round of polling.                           *)
(***************************************************************************)
FlushBegin ==
    /\ flush \in {"idle", "ok", "failed"} /\ flushNo < MaxFlush
    /\ enqueueMu = "free"
    /\ flushNo' = flushNo + 1
    /\ IF sState = "Open"
       THEN flush' = "enqueue" /\ enqueueMu' = "flush"
       ELSE flush' = "failed" /\ UNCHANGED enqueueMu
    /\ UNCHANGED <<connVars, sendCh, sent, seqVars, loopVars, rpcVars, flushMark,
                   flushTarget, closeVars, dataNet>>

FlushPush ==
    /\ flush = "enqueue" /\ Len(sendCh) < SendCap
    /\ sendCh' = Append(sendCh, [kind |-> "barrier", id |-> flushNo])
    /\ enqueueMu' = "free" /\ flush' = "barrier" /\ flushMark' = sent
    /\ UNCHANGED <<connVars, sent, seqVars, loopVars, rpcVars, flushNo, flushTarget,
                   closeVars, dataNet>>

\* Variant: Flush returns as soon as the barrier is met.
FlushPollBlind ==
    /\ flush = "poll"
    /\ flush' = "ok"
    /\ UNCHANGED <<connVars, queueVars, seqVars, loopVars, rpcVars, flushNo, flushMark,
                   flushTarget, closeVars, dataNet>>

FlushPoll ==
    /\ flush = "poll"
    /\ \A f \in unacked : f.seq >= flushTarget
    /\ flush' = "ok"
    /\ UNCHANGED <<connVars, queueVars, seqVars, loopVars, rpcVars, flushNo, flushMark,
                   flushTarget, closeVars, dataNet>>

FlushAbandon ==
    /\ flush \in {"enqueue", "barrier", "poll"} /\ ("timeout" \in SendFaults \/ sState = "Closed")
    /\ flush' = "failed"
    /\ enqueueMu' = IF flush = "enqueue" THEN "free" ELSE enqueueMu
    /\ UNCHANGED <<connVars, sendCh, sent, seqVars, loopVars, rpcVars, flushNo, flushMark,
                   flushTarget, closeVars, dataNet>>

(***************************************************************************)
(* sendLoop.  LoopRunning: outside ReliableOrdered, retry runs inline.     *)
(***************************************************************************)
LoopRunning == Ordered \/ retry = "none"

LoopTake ==
    /\ loop = "select" /\ LoopRunning /\ sendCh # <<>>
    /\ held' = Head(sendCh) /\ sendCh' = Tail(sendCh)
    /\ IF held'.kind # "data"
       THEN loop' = "drain" /\ UNCHANGED rpcs
       ELSE IF BestEffort
       THEN loop' = "inline" /\ rpcs' = {[seq |-> 0, id |-> held'.id, round |-> "first"]}
       ELSE loop' = "check" /\ UNCHANGED rpcs
    /\ UNCHANGED <<connVars, enqueueMu, sent, seqVars, timer, retry, frames, callVars, dataNet>>

\* Variant: the window test is off by one.
LoopCheckOneMore ==
    /\ loop = "check" /\ LoopRunning
    /\ IF nextSeq - sendBase > WindowSize
       THEN loop' = "window" /\ UNCHANGED <<nextSeq, unacked, timer>>
       ELSE /\ loop' = "slot"
            /\ nextSeq' = nextSeq + 1
            /\ unacked' = unacked \cup {[seq |-> nextSeq, id |-> held.id]}
            /\ timer' = "armed"
    /\ UNCHANGED <<connVars, queueVars, sendBase, retransCnt, ackCh, held, rpcVars, callVars, dataNet>>

\* for c.nextSeq-c.sendBase >= WindowSize: wait, else number the frame
LoopCheck ==
    /\ loop = "check" /\ LoopRunning
    /\ IF nextSeq - sendBase >= WindowSize
       THEN loop' = "window" /\ UNCHANGED <<nextSeq, unacked, timer>>
       ELSE /\ loop' = "slot"
            /\ nextSeq' = nextSeq + 1
            /\ unacked' = unacked \cup {[seq |-> nextSeq, id |-> held.id]}
            /\ timer' = "armed"
    /\ UNCHANGED <<connVars, queueVars, sendBase, retransCnt, ackCh, held, rpcVars, callVars, dataNet>>

LoopWake ==
    /\ loop = "window" /\ LoopRunning /\ ackCh = 1
    /\ ackCh' = 0 /\ loop' = "check"
    /\ UNCHANGED <<connVars, queueVars, nextSeq, sendBase, unacked, retransCnt, held, timer,
                   rpcVars, callVars, dataNet>>

LoopSlot ==
    /\ loop = "slot" /\ Cardinality(rpcs) < SlotLimit
    /\ rpcs' = rpcs \cup {[seq |-> nextSeq - 1, id |-> held.id, round |-> "first"]}
    /\ loop' = "select" /\ held' = NoItem
    /\ UNCHANGED <<connVars, queueVars, seqVars, timer, retry, frames, callVars, dataNet>>

\* Variant: the barrier does not wait for the sends under way.
LoopDrainNoWait ==
    /\ loop = "drain"
    /\ loop' = "select" /\ held' = NoItem
    /\ IF held.kind = "close"
       THEN flushCh' = "closed" /\ UNCHANGED <<flush, flushTarget>>
       ELSE /\ UNCHANGED flushCh
            /\ IF flush = "barrier" /\ held.id = flushNo
               THEN flush' = "poll" /\ flushTarget' = nextSeq
               ELSE UNCHANGED <<flush, flushTarget>>
    /\ UNCHANGED <<connVars, queueVars, seqVars, timer, rpcVars, flushNo, flushMark,
                   closer, closeRpc, dataNet>>

\* Variant: flushCh is not closed for the item of Close.
LoopDrainNoClose ==
    /\ loop = "drain" /\ rpcs = {} /\ retry \in {"none", "done"}
    /\ loop' = "select" /\ held' = NoItem
    /\ IF flush = "barrier" /\ held.id = flushNo
       THEN flush' = "poll" /\ flushTarget' = nextSeq
       ELSE UNCHANGED <<flush, flushTarget>>
    /\ UNCHANGED <<connVars, queueVars, seqVars, timer, rpcVars, flushNo, flushMark,
                   closeVars, dataNet>>

\* sends.Wait() covers the initial sends, the retry coordinator and its workers
LoopDrain ==
    /\ loop = "drain" /\ rpcs = {} /\ retry \in {"none", "done"}
    /\ loop' = "select" /\ held' = NoItem
    /\ IF held.kind = "close"
       THEN flushCh' = "closed" /\ UNCHANGED <<flush, flushTarget>>
       ELSE /\ UNCHANGED flushCh
            /\ IF flush = "barrier" /\ held.id = flushNo
               THEN flush' = "poll" /\ flushTarget' = nextSeq
               ELSE UNCHANGED <<flush, flushTarget>>
    /\ UNCHANGED <<connVars, queueVars, seqVars, timer, rpcVars, flushNo, flushMark,
                   closer, closeRpc, dataNet>>

\* case <-ackTimerC: retry()
LoopTimer ==
    /\ loop \in {"select", "window"} /\ LoopRunning /\ timer = "armed"
    /\ timer' = "stopped"
    /\ retry' = IF retry = "none" THEN "start" ELSE retry
    /\ loop' = IF loop = "window" THEN "check" ELSE loop
    /\ UNCHANGED <<connVars, queueVars, seqVars, held, rpcs, frames, callVars, dataNet>>

ResetRetryTimer ==
    timer' = IF unacked # {} /\ sState # "Closed" THEN "armed" ELSE timer

\* Variant: finishRetry forgets to arm the timer again.
LoopRetryDoneNoTimer ==
    /\ loop \in {"select", "window"} /\ retry = "done"
    /\ retry' = "none"
    /\ loop' = IF loop = "window" THEN "check" ELSE loop
    /\ UNCHANGED <<connVars, queueVars, seqVars, held, timer, rpcs, frames, callVars, dataNet>>

\* case <-retryDone: finishRetry()
LoopRetryDone ==
    /\ loop \in {"select", "window"} /\ retry = "done"
    /\ retry' = "none"
    /\ ResetRetryTimer
    /\ loop' = IF loop = "window" THEN "check" ELSE loop
    /\ UNCHANGED <<connVars, queueVars, seqVars, held, rpcs, frames, callVars, dataNet>>

LoopExit ==
    /\ loop \in {"select", "window", "slot"} /\ LoopRunning /\ sState = "Closed"
    /\ loop' = "exited"
    /\ UNCHANGED <<connVars, queueVars, seqVars, held, timer, rpcVars, callVars, dataNet>>

(***************************************************************************)
(* retransmit: count the round, copy unacked, repeat each frame that is    *)
(* still pending once a slot is free.  Outside ReliableOrdered one at a    *)
(* time.                                                                   *)
(***************************************************************************)
RetryStillPending(f) == f \in unacked /\ sState # "Closed"

RetryFinished ==
    IF Ordered
    THEN retry' = "done" /\ UNCHANGED timer
    ELSE retry' = "none" /\ ResetRetryTimer

\* Variant: rounds are not counted.
RetryBeginUncounted ==
    /\ retry = "start"
    /\ IF unacked = {}
       THEN RetryFinished /\ UNCHANGED frames
       ELSE retry' = "running" /\ frames' = unacked /\ UNCHANGED timer
    /\ UNCHANGED <<connVars, queueVars, seqVars, loop, held, rpcs, callVars, dataNet>>

RetryBegin ==
    /\ retry = "start"
    /\ IF unacked = {}
       THEN RetryFinished /\ UNCHANGED <<connVars, retransCnt, frames>>
       ELSE /\ retransCnt' = retransCnt + 1
            /\ IF retransCnt' > MaxRetransmits
               THEN /\ CloseConnection("max_retransmit")
                    /\ retry' = IF Ordered THEN "done" ELSE "none"
                    /\ UNCHANGED <<frames, timer>>
               ELSE retry' = "running" /\ frames' = unacked /\ UNCHANGED <<connVars, timer>>
    /\ UNCHANGED <<queueVars, nextSeq, sendBase, unacked, ackCh, loop, held, rpcs, callVars, dataNet>>

NextFrame(f) == f \in frames /\ \A g \in frames : f.seq <= g.seq

RetrySkip ==
    /\ retry = "running"
    /\ \E f \in frames :
          NextFrame(f) /\ ~RetryStillPending(f) /\ frames' = frames \ {f}
    /\ UNCHANGED <<connVars, queueVars, seqVars, loopVars, rpcs, retry, callVars, dataNet>>

RetrySend ==
    /\ retry = "running" /\ Cardinality(rpcs) < SlotLimit
    /\ Ordered \/ ~\E r \in rpcs : r.round = "repeat"
    /\ \E f \in frames :
          /\ NextFrame(f) /\ RetryStillPending(f)
          /\ frames' = frames \ {f}
          /\ rpcs' = rpcs \cup {[seq |-> f.seq, id |-> f.id, round |-> "repeat"]}
    /\ UNCHANGED <<connVars, queueVars, seqVars, loopVars, retry, callVars, dataNet>>

RetryEnd ==
    /\ retry = "running" /\ frames = {} /\ ~\E r \in rpcs : r.round = "repeat"
    /\ RetryFinished
    /\ UNCHANGED <<connVars, queueVars, seqVars, loop, held, rpcs, frames, callVars, dataNet>>

(***************************************************************************)
(* sendRelayEnvelope, one RPC.  While it is outstanding the server may     *)
(* pass the packet on (RpcTransmit), so that the peer's ACK can overtake   *)
(* the response.  A service_unavailable response counts as success for     *)
(* DATA that an ACK has yet to retire; every other error closes.           *)
(***************************************************************************)
RpcTransmit ==
    /\ \E r \in rpcs : dataNet' = dataNet \cup {DataPacket(r)}
    /\ UNCHANGED <<connVars, queueVars, seqVars, loopVars, rpcVars, callVars>>

\* BestEffort sends from sendLoop itself
InlineReturn ==
    IF loop = "inline"
    THEN loop' = "select" /\ held' = NoItem
    ELSE UNCHANGED <<loop, held>>

RpcReturn ==
    /\ \E r \in rpcs : rpcs' = rpcs \ {r}
    /\ InlineReturn
    /\ UNCHANGED <<connVars, queueVars, seqVars, timer, retry, frames, callVars, dataNet>>

RpcFail ==
    /\ "rpc" \in SendFaults
    /\ \E r \in rpcs : rpcs' = rpcs \ {r}
    /\ CloseConnection("send_error")
    /\ InlineReturn
    /\ UNCHANGED <<queueVars, seqVars, timer, retry, frames, callVars, dataNet>>

\* Variant: an ACK does not notify sendLoop.
HandleAckNoToken(ackSeq) ==
    /\ ~BestEffort
    /\ ackSeq >= sendBase /\ ackSeq < nextSeq
    /\ unacked' = {f \in unacked : f.seq > ackSeq}
    /\ sendBase' = ackSeq + 1
    /\ retransCnt' = 0
    /\ UNCHANGED <<connVars, queueVars, nextSeq, ackCh, loopVars, rpcVars, callVars, dataNet>>

(***************************************************************************)
(* handleAck.  enqueueEnvelope has seen the connection alive, but it may    *)
(* have closed since.                                                      *)
(***************************************************************************)
HandleAck(ackSeq) ==
    /\ ~BestEffort
    /\ ackSeq >= sendBase /\ ackSeq < nextSeq
    /\ unacked' = {f \in unacked : f.seq > ackSeq}
    /\ sendBase' = ackSeq + 1
    /\ retransCnt' = 0
    /\ ackCh' = 1
    /\ UNCHANGED <<connVars, queueVars, nextSeq, loopVars, rpcVars, callVars, dataNet>>

(***************************************************************************)
(* Close: mark Closing, enqueue the last item, wait until sendLoop met it, *)
(* until nothing is unacknowledged and until the receiving half has its    *)
(* ACKs accepted (waitReceiveACK), then send CLOSE.  The deadline closes   *)
(* the connection wherever the call is.                                    *)
(***************************************************************************)
CloseCall ==
    /\ closer = "idle" /\ MaxClose = 1
    /\ closer' = "lock"
    /\ UNCHANGED <<connVars, queueVars, seqVars, loopVars, rpcVars, flushVars, flushCh, closeRpc, dataNet>>

CloseLock ==
    /\ closer = "lock" /\ enqueueMu = "free"
    /\ IF sState = "Open"
       THEN sState' = "Closing" /\ enqueueMu' = "close" /\ closer' = "enqueue"
       ELSE closer' = "done" /\ UNCHANGED <<sState, enqueueMu>>
    /\ UNCHANGED <<sCloseErr, sendCh, sent, seqVars, loopVars, rpcVars, flushVars, flushCh, closeRpc, dataNet>>

ClosePush ==
    /\ closer = "enqueue" /\ Len(sendCh) < SendCap
    /\ sendCh' = Append(sendCh, [kind |-> "close", id |-> 0])
    /\ enqueueMu' = "free" /\ closer' = "flush"
    /\ UNCHANGED <<connVars, sent, seqVars, loopVars, rpcVars, flushVars, flushCh, closeRpc, dataNet>>

CloseFlushed ==
    /\ closer = "flush" /\ flushCh = "closed"
    /\ closer' = IF BestEffort THEN "receiveACK" ELSE "acks"
    /\ UNCHANGED <<connVars, queueVars, seqVars, loopVars, rpcVars, flushVars, flushCh, closeRpc, dataNet>>

\* Variant: Close does not wait for the ACKs.
CloseAckedEarly ==
    /\ closer = "acks"
    /\ closer' = "receiveACK"
    /\ UNCHANGED <<connVars, queueVars, seqVars, loopVars, rpcVars, flushVars, flushCh, closeRpc, dataNet>>

CloseAcked ==
    /\ closer = "acks" /\ unacked = {}
    /\ closer' = "receiveACK"
    /\ UNCHANGED <<connVars, queueVars, seqVars, loopVars, rpcVars, flushVars, flushCh, closeRpc, dataNet>>

\* waitReceiveACK returns at once where no DATA comes in, the case of this module; the wait
\* itself is in RelayReceiver (RCloseSend)
CloseReceiveACK ==
    /\ closer = "receiveACK" /\ sState # "Closed"
    /\ closer' = "sending" /\ closeRpc' = "running"
    /\ UNCHANGED <<connVars, queueVars, seqVars, loopVars, rpcVars, flushVars, flushCh, dataNet>>

\* the caller may have left on the deadline: the WebSocket write goes on
CloseTransmit ==
    /\ closeRpc = "running" /\ ClosePacket \notin dataNet
    /\ dataNet' = dataNet \cup {ClosePacket}
    /\ UNCHANGED <<connVars, queueVars, seqVars, loopVars, rpcVars, callVars>>

CloseSent ==
    /\ closer = "sending"
    /\ closer' = "done" /\ closeRpc' = "none"
    /\ \/ CloseConnection("nil")
       \/ "rpc" \in SendFaults /\ CloseConnection("send_error")
    /\ UNCHANGED <<queueVars, seqVars, loopVars, rpcVars, flushVars, flushCh, dataNet>>

CloseReleased ==
    /\ closer \in {"enqueue", "flush", "acks", "receiveACK", "sending"} /\ sState = "Closed"
    /\ closer' = "done"
    /\ enqueueMu' = IF closer = "enqueue" THEN "free" ELSE enqueueMu
    /\ UNCHANGED <<connVars, sendCh, sent, seqVars, loopVars, rpcVars, flushVars, flushCh, closeRpc, dataNet>>

CloseDeadline ==
    /\ "timeout" \in SendFaults /\ closer \notin {"idle", "done"} /\ sState # "Closed"
    /\ CloseConnection("timeout")
    /\ UNCHANGED <<queueVars, seqVars, loopVars, rpcVars, callVars, dataNet>>

\* Abort, a remote CLOSE or ERROR, closeAll on disconnect
SenderAbort ==
    /\ "abort" \in SendFaults /\ sState # "Closed"
    /\ CloseConnection("external")
    /\ UNCHANGED <<queueVars, seqVars, loopVars, rpcVars, callVars, dataNet>>

CallSteps ==
    \/ SendBegin \/ SendPush \/ SendFail
    \/ FlushBegin \/ FlushPush \/ FlushPoll \/ FlushAbandon
    \/ CloseCall \/ CloseLock \/ ClosePush \/ CloseFlushed \/ CloseAcked
    \/ CloseReceiveACK \/ CloseTransmit \/ CloseSent \/ CloseReleased \/ CloseDeadline

LoopSteps ==
    \/ LoopTake \/ LoopCheck \/ LoopWake \/ LoopSlot \/ LoopDrain
    \/ LoopTimer \/ LoopRetryDone \/ LoopExit

RetrySteps == RetryBegin \/ RetrySkip \/ RetrySend \/ RetryEnd

RpcSteps == RpcTransmit \/ RpcReturn \/ RpcFail

SenderStep == CallSteps \/ LoopSteps \/ RetrySteps \/ RpcSteps \/ SenderAbort

(***************************************************************************)
(* The sending half against a peer that acknowledges whatever it likes.    *)
(***************************************************************************)
PeerAck == \E ackSeq \in 0..(MaxSend + 1) : HandleAck(ackSeq)

SenderNext == SenderStep \/ PeerAck

SenderSpec == SenderInit /\ [][SenderNext]_senderVars

(***************************************************************************)
(* Fairness: goroutines that can run do run, an armed timer fires, and an  *)
(* RPC returns (SendPacket runs under RequestTimeout).  No ACK ever has to *)
(* arrive, no deadline and no context has to expire.                       *)
(***************************************************************************)
SenderFairness ==
    /\ WF_senderVars(LoopTake) /\ WF_senderVars(LoopCheck) /\ WF_senderVars(LoopWake)
    /\ WF_senderVars(LoopSlot) /\ WF_senderVars(LoopDrain) /\ WF_senderVars(LoopTimer)
    /\ WF_senderVars(LoopRetryDone) /\ WF_senderVars(LoopExit)
    /\ WF_senderVars(RetryBegin) /\ WF_senderVars(RetrySkip) /\ WF_senderVars(RetrySend)
    /\ WF_senderVars(RetryEnd) /\ WF_senderVars(RpcReturn)
    /\ WF_senderVars(SendPush) /\ WF_senderVars(SendFail /\ sState = "Closed")
    /\ WF_senderVars(FlushPush) /\ WF_senderVars(FlushPoll)
    /\ WF_senderVars(FlushAbandon /\ sState = "Closed")
    /\ SF_senderVars(CloseLock) /\ WF_senderVars(ClosePush) /\ WF_senderVars(CloseFlushed)
    /\ WF_senderVars(CloseAcked) /\ WF_senderVars(CloseReceiveACK) /\ WF_senderVars(CloseSent)
    /\ WF_senderVars(CloseReleased)

SenderFairSpec == SenderSpec /\ SenderFairness

(***************************************************************************)
(* Properties.                                                             *)
(***************************************************************************)
\* The unacknowledged frames are exactly the numbers sendBase .. nextSeq-1, at
\* most WindowSize of them, so the unsigned nextSeq-sendBase never wraps; and
\* first sends and repeats together never exceed the slots of inflight.
UnackedIsWindow ==
    /\ {f.seq : f \in unacked} = sendBase..(nextSeq - 1)
    /\ nextSeq - sendBase \in 0..WindowSize
    /\ Cardinality(rpcs) <= SlotLimit

\* While a live connection has unacknowledged frames, the retransmission timer
\* is armed or a retry round is under way: no interleaving of ACKs, rounds and
\* new frames leaves them without a next attempt.
NoSilentStall ==
    sState # "Closed" /\ unacked # {} => timer = "armed" \/ retry # "none"

\* sendLoop never sleeps on a full window that an ACK has opened meanwhile
\* without the wake-up token being there.
NoLostWakeup ==
    loop = "window" /\ nextSeq - sendBase < WindowSize => ackCh = 1

\* When Flush returns nil, every Send that had returned nil before the barrier
\* was queued is numbered, accepted by the server and acknowledged.
FlushCovers ==
    flush = "ok" =>
        /\ \A i \in 1..Len(sendCh) : sendCh[i].kind = "data" => sendCh[i].id > flushMark
        /\ loop \in {"check", "window", "slot", "inline"} => held.id > flushMark
        /\ \A f \in unacked : f.id > flushMark
        /\ \A r \in rpcs : r.round = "first" => r.id > flushMark

\* CLOSE leaves only after every Send that returned nil has been numbered and,
\* unless the connection is best effort, acknowledged.
CloseAfterAcks ==
    ClosePacket \in dataNet =>
        /\ ~\E i \in 1..Len(sendCh) : sendCh[i].kind = "data"
        /\ loop \notin {"check", "window", "slot", "inline"}
        /\ BestEffort \/ sendBase = sent + 1

\* A Flush whose barrier is queued comes back even if the peer is silent and
\* its context never ends: it succeeds or the retry budget closes the connection.
FlushReturns == flush = "barrier" ~> flush \in {"ok", "failed"}

\* Close comes back by the retry budget alone, without its deadline, on a
\* connection that receives no DATA: with some, waitReceiveACK may hold it until
\* the deadline while the dispatcher is stuck on a full recvCh.
CloseReturns == closer = "lock" ~> closer = "done"

(***************************************************************************)
(* The strengthening that makes FlushCovers and CloseAfterAcks inductive   *)
(* for ReliableOrdered.                                                    *)
(***************************************************************************)
\* the last payload that sendLoop took out of sendCh
Taken == IF loop \in {"check", "window"} THEN nextSeq ELSE nextSeq - 1

IsDataAt(i) == sendCh[i].kind = "data"

\* frame n carries payload n, wherever it is
NumberingInv ==
    /\ sendBase \in 1..nextSeq
    /\ unacked = {[seq |-> n, id |-> n] : n \in sendBase..(nextSeq - 1)}
    /\ \A f \in frames : f.id = f.seq /\ f.seq \in 1..(nextSeq - 1)
    /\ \A r \in rpcs : r.id = r.seq /\ r.seq \in 1..(nextSeq - 1)
    /\ \A p \in dataNet : p.kind = "data" => p.id = p.seq /\ p.seq \in 1..(nextSeq - 1)
    /\ loop # "inline" /\ (loop = "drain" => held.kind # "data")
    /\ loop \in {"check", "window"} => held.id = nextSeq
    /\ loop = "slot" => held.id = nextSeq - 1 /\ nextSeq > 1
    /\ Taken <= sent

\* sendCh holds the payloads not taken, in order
QueueInv ==
    /\ \A i \in 1..Len(sendCh) : IsDataAt(i) => sendCh[i].id \in (Taken + 1)..sent
    /\ loop # "exited" => \A n \in (Taken + 1)..sent : \E i \in 1..Len(sendCh) : IsDataAt(i) /\ sendCh[i].id = n
    /\ \A i, j \in 1..Len(sendCh) :
          i < j /\ IsDataAt(i) /\ IsDataAt(j) => sendCh[i].id < sendCh[j].id

\* barrier b, with sendCh[from], ... behind it: what was sent before it stays before it
BarrierInv(b, from) ==
    /\ b.id <= flushNo
    /\ flush \in {"enqueue", "idle"} => b.id < flushNo
    /\ flush = "barrier" /\ b.id = flushNo =>
          \A j \in from..Len(sendCh) : IsDataAt(j) => sendCh[j].id > flushMark

FlushInv ==
    /\ flushMark <= sent
    /\ \A i \in 1..Len(sendCh) : sendCh[i].kind = "barrier" => BarrierInv(sendCh[i], i + 1)
    /\ loop = "drain" /\ held.kind = "barrier" => BarrierInv(held, 1)
    /\ flush = "poll" => flushMark < flushTarget /\ flushTarget <= nextSeq
    /\ flush = "ok" => flushMark < sendBase

\* the sends that were under way at the barrier have returned
AcceptedInv ==
    /\ flush = "poll" =>
          /\ loop = "slot" => flushTarget < nextSeq
          /\ \A r \in rpcs : r.round = "first" => r.id >= flushTarget
    /\ flush = "ok" =>
          /\ loop = "slot" => flushMark < nextSeq - 1
          /\ \A r \in rpcs : r.round = "first" => r.id > flushMark

\* nothing is sent behind the item of Close
CloseQueued ==
    \/ \E i \in 1..Len(sendCh) : sendCh[i].kind = "close"
    \/ loop = "drain" /\ held.kind = "close"
    \/ flushCh = "closed"
    \/ closer \in {"flush", "acks", "receiveACK", "sending"}
    \/ closeRpc = "running"
    \/ ClosePacket \in dataNet

CloseInv ==
    /\ flush = "enqueue" => enqueueMu = "flush"
    /\ closer = "enqueue" => sState # "Open" /\ enqueueMu = "close"
    /\ CloseQueued => sState # "Open" /\ enqueueMu # "send"
    /\ \A i, j \in 1..Len(sendCh) : i < j /\ sendCh[i].kind = "close" => ~IsDataAt(j)
    /\ (loop = "drain" /\ held.kind = "close") \/ flushCh = "closed" => Taken = sent
    /\ flushCh = "closed" => loop \notin {"check", "window", "slot"}
    /\ closer \in {"acks", "receiveACK", "sending"} \/ closeRpc = "running" \/ ClosePacket \in dataNet =>
          flushCh = "closed"
    /\ closer \in {"receiveACK", "sending"} \/ closeRpc = "running" \/ ClosePacket \in dataNet =>
          sendBase = nextSeq

SenderInv == NumberingInv /\ QueueInv /\ FlushInv /\ AcceptedInv /\ CloseInv
=============================================================================
