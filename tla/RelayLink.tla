----------------------------- MODULE RelayLink -----------------------------
(***************************************************************************)
(* One direction of a Relay: the sending half at one client, the receiving *)
(* half at its peer, and the server between them, which may lose,          *)
(* duplicate, delay and reorder packets in both directions.                *)
(***************************************************************************)
EXTENDS RelaySender, RelayReceiver

vars == <<senderVars, receiverVars>>

Init == SenderInit /\ ReceiverInit

\* a packet reaches enqueueEnvelope of the receiving side
NetData == (\E p \in dataNet : EnqueueRead(p)) /\ UNCHANGED senderVars

\* an ACK reaches handleAck of the sending side
NetAck == (\E a \in ackNet : HandleAck(a)) /\ UNCHANGED receiverVars

Next ==
    \/ SenderStep /\ UNCHANGED receiverVars
    \/ ReceiverStep /\ UNCHANGED senderVars
    \/ NetData
    \/ NetAck

Spec == Init /\ [][Next]_vars

TypeOK == SenderTypeOK /\ ReceiverTypeOK

(***************************************************************************)
(* Properties.                                                             *)
(***************************************************************************)
\* An ACK never covers a payload that has not reached recvCh: what handleAck
\* retires has been delivered.
AckedDelivered == sendBase - 1 <= Len(delivered)

\* Flush returns nil only when every Send that had returned nil before its
\* barrier was queued has been delivered at the peer.
Received(n) == \E i \in 1..Len(delivered) : delivered[i] = n
FlushDelivered == flush = "ok" => \A n \in 1..flushMark : Received(n)

\* The end of the connection that ReceiveTimeout reports after a CLOSE of the
\* peer comes after everything the peer sent has been read.
RemoteCloseComplete ==
    app = "ended" /\ remoteClosed => \A n \in 1..sent : \E i \in 1..Len(read) : read[i] = n

\* The refinement mapping to RelayChannel.
PeerEnd == IF app = "reading" THEN "open" ELSE IF remoteClosed THEN "complete" ELSE "broken"
FlushOutcome ==
    CASE flush \in {"idle", "enqueue"} -> "none"
      [] flush \in {"barrier", "poll"} -> "waiting"
      [] flush \in {"ok", "failed"} -> flush
Channel == INSTANCE RelayChannel WITH
    accepted <- sent, queue <- recvCh, received <- read, mark <- flushMark,
    end <- PeerEnd, flushCall <- FlushOutcome

\* One direction of a ReliableOrdered Relay behaves as a queue: every Send that
\* returned nil arrives once and in order, Flush waits for what was sent before
\* it, and the orderly end comes last.
IsChannel == Channel!ChannelSpec

(***************************************************************************)
(* What the receiving half holds comes from the sending half: the          *)
(* strengthening that makes these properties inductive.                    *)
(***************************************************************************)
FromPeer(e) ==
    /\ e.kind = "data" => e.seq < nextSeq
    /\ e.kind = "close" => ClosePacket \in dataNet

LinkInv ==
    /\ FromPeer(reader.env) /\ FromPeer(active) /\ \A i \in 1..Len(inbox) : FromPeer(inbox[i])
    /\ \A f \in recvBuf : f.seq < nextSeq
    /\ expectedSeq <= nextSeq
    /\ remoteClosed => ClosePacket \in dataNet
    /\ sendBase - 1 <= Len(read) + Len(recvCh)
=============================================================================
