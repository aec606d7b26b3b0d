---------------------------- MODULE RelayChannel ----------------------------
(***************************************************************************)
(* What one direction of a ReliableOrdered Relay promises, without         *)
(* packets, ACKs or windows: a queue.  Payload n is the one of the n-th    *)
(* Send that returned nil.                                                 *)
(***************************************************************************)
EXTENDS Integers, Sequences

VARIABLES
    accepted,  \* how many Sends have returned nil
    queue,     \* payloads that wait to be read at the peer
    received,  \* payloads read at the peer
    end,       \* how the peer saw the connection end
    flushCall, \* the state of the latest Flush call
    mark       \* what had been accepted when its barrier was queued

channelVars == <<accepted, queue, received, end, flushCall, mark>>

Arrived == Len(received) + Len(queue)

ChannelInit ==
    /\ accepted = 0 /\ queue = <<>> /\ received = <<>> /\ end = "open"
    /\ flushCall = "none" /\ mark = 0

\* no Send succeeds once the peer has seen the orderly end
ChannelSend ==
    /\ end # "complete"
    /\ accepted' = accepted + 1
    /\ UNCHANGED <<queue, received, end, flushCall, mark>>

\* nothing is lost in between, repeated or reordered
ChannelArrive ==
    /\ Arrived < accepted
    /\ queue' = Append(queue, Arrived + 1)
    /\ UNCHANGED <<accepted, received, end, flushCall, mark>>

ChannelRead ==
    /\ end = "open" /\ queue # <<>>
    /\ received' = Append(received, Head(queue)) /\ queue' = Tail(queue)
    /\ UNCHANGED <<accepted, end, flushCall, mark>>

ChannelEnd ==
    /\ end = "open"
    /\ \/ end' = "broken"
       \/ end' = "complete" /\ queue = <<>> /\ Len(received) = accepted
    /\ UNCHANGED <<accepted, queue, received, flushCall, mark>>

ChannelFlushBegin ==
    /\ flushCall # "waiting"
    /\ flushCall' \in {"none", "failed"}
    /\ UNCHANGED <<accepted, queue, received, end, mark>>

ChannelFlushBarrier ==
    /\ flushCall = "none"
    /\ flushCall' = "waiting" /\ mark' = accepted
    /\ UNCHANGED <<accepted, queue, received, end>>

ChannelFlushEnd ==
    /\ flushCall = "waiting"
    /\ \/ flushCall' = "failed"
       \/ flushCall' = "ok" /\ mark <= Arrived
    /\ UNCHANGED <<accepted, queue, received, end, mark>>

ChannelNext ==
    \/ ChannelSend \/ ChannelArrive \/ ChannelRead \/ ChannelEnd
    \/ ChannelFlushBegin \/ ChannelFlushBarrier \/ ChannelFlushEnd

ChannelSpec == ChannelInit /\ [][ChannelNext]_channelVars
=============================================================================
