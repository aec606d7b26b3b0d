--------------------------- MODULE RelayLinkProofs ---------------------------
(***************************************************************************)
(* One direction of a ReliableOrdered Relay, for every window, queue size  *)
(* and number of calls, over a network that loses, repeats and reorders:   *)
(* no step of either half breaks LinkInv, which joins their invariants.    *)
(* Hence what the two applications see, and that the direction implements  *)
(* the queue of RelayChannel.                                              *)
(***************************************************************************)
EXTENDS RelayLink, RelaySenderProofs, RelayReceiverProofs

RecvCloseStep == RCloseCall \/ RCloseSend \/ RCloseSent \/ ReceiverAbort

\* ackLoop touches no payload, and ends the connection at most once.
LEMMA AckFrame ==
    ASSUME AckStep
    PROVE  /\ UNCHANGED <<reader, active, inbox, recvBuf, expectedSeq, read, recvCh, app>>
           /\ rCloseErr' = rCloseErr \/ (rState # "Closed" /\ rCloseErr' = "ack_error")
<1> USE DEF recvConnVars, orderVars, appVars, inboxVars, dispatchVars
<1>1. CASE AckFail \/ AckFailClose
  BY <1>1, Zenon DEF AckFail, AckFailClose, CloseWithSource
<1>2. CASE AckWake \/ AckTake \/ AckTransmit
  BY <1>2, Zenon DEF AckWake, AckTake, AckTransmit
<1>3. CASE AckSent \/ AckReject \/ AckExit
  BY <1>3, Zenon DEF AckSent, AckReject, AckExit
<1> QED
  BY <1>1, <1>2, <1>3, Zenon DEF AckStep

\* Nor does closing the receiving half from this side.
LEMMA RecvCloseFrame ==
    ASSUME RecvCloseStep
    PROVE  /\ UNCHANGED <<reader, active, inbox, recvBuf, expectedSeq, read, recvCh, app>>
           /\ rCloseErr' = rCloseErr \/ (rState # "Closed" /\ rCloseErr' \in {"nil", "external"})
<1> USE DEF recvConnVars, orderVars, appVars, inboxVars, dispatchVars
<1>1. CASE RCloseCall \/ RCloseSend
  BY <1>1, Zenon DEF RCloseCall, RCloseSend
<1>2. CASE RCloseSent
  BY <1>2, Zenon DEF RCloseSent, CloseWithSource
<1>3. CASE ReceiverAbort
  BY <1>3, Zenon DEF ReceiverAbort, CloseWithSource
<1> QED
  BY <1>1, <1>2, <1>3, Zenon DEF RecvCloseStep

\* Whatever the network hands over is an envelope the sending half made.
LEMMA NetPacket ==
    ASSUME SenderTypeOK, NumberingInv, NEW p \in dataNet
    PROVE  p \in Envelope /\ Genuine(p)
<1>1. p \in Packet /\ nextSeq \in Nat
  BY Zenon DEF SenderTypeOK
<1>2. p \in Envelope
  BY <1>1 DEF Packet, Envelope, ClosePacket
<1>3. p.kind = "data" => p.seq > 0 /\ p.id = p.seq
  BY <1>1, SMTT(30) DEF NumberingInv, Packet
<1> QED
  BY <1>2, <1>3, Zenon DEF Genuine

\* The sending half never takes back a number or a packet.
LEMMA SenderMonotone ==
    ASSUME SenderTypeOK, SenderStep
    PROVE  /\ nextSeq' \in Nat /\ nextSeq <= nextSeq'
           /\ dataNet \subseteq dataNet' /\ sendBase' = sendBase
<1> USE DEF senderVars, connVars, queueVars, seqVars, loopVars, rpcVars, flushVars, closeVars,
            callVars
<1>0. nextSeq \in Nat
  BY Zenon DEF SenderTypeOK
<1>1. CASE CallSteps
  <2>1. CASE \/ SendBegin \/ SendPush \/ SendFail \/ FlushBegin \/ FlushPush \/ FlushPoll
             \/ FlushAbandon
    BY <1>0, <2>1, SMTT(30) DEF SendBegin, SendPush, SendFail, FlushBegin, FlushPush, FlushPoll, FlushAbandon
  <2>2. CASE CloseCall \/ CloseLock \/ ClosePush \/ CloseFlushed \/ CloseAcked \/ CloseReceiveACK
    BY <1>0, <2>2 DEF CloseCall, CloseLock, ClosePush, CloseFlushed, CloseAcked, CloseReceiveACK
  <2>3. CASE CloseTransmit \/ CloseSent \/ CloseReleased \/ CloseDeadline
    BY <1>0, <2>3 DEF CloseTransmit, CloseSent, CloseReleased, CloseDeadline
  <2> QED
    BY <1>1, <2>1, <2>2, <2>3, ZenonT(30) DEF CallSteps
<1>2. CASE LoopSteps
  <2>1. CASE LoopCheck
    BY <1>0, <2>1, SMTT(30) DEF LoopCheck
  <2>2. CASE ~LoopCheck
    BY <1>0, <1>2, <2>2, SMTT(30) DEF LoopSteps, LoopTake, LoopWake, LoopSlot, LoopDrain, LoopTimer,
                            LoopRetryDone, LoopExit
  <2> QED
    BY <2>1, <2>2, Zenon
<1>3. CASE RetrySteps
  BY <1>0, <1>3 DEF RetrySteps, RetryBegin, RetrySkip, RetrySend, RetryEnd
<1>4. CASE RpcSteps \/ SenderAbort
  BY <1>0, <1>4 DEF RpcSteps, RpcTransmit, RpcReturn, RpcFail, SenderAbort
<1> QED
  BY <1>1, <1>2, <1>3, <1>4, Zenon DEF SenderStep

\* A step of the sending half keeps LinkInv.
LEMMA LinkSenderStep ==
    ASSUME SenderTypeOK, ReceiverTypeOK, LinkInv, SenderStep, UNCHANGED receiverVars
    PROVE  LinkInv'
<1> USE DEF receiverVars, recvConnVars, orderVars, appVars, rCloseVars, inboxVars, dispatchVars,
            ackVars
<1>1. /\ nextSeq \in Nat /\ nextSeq' \in Nat /\ nextSeq <= nextSeq'
      /\ dataNet \subseteq dataNet' /\ sendBase' = sendBase
  BY SenderMonotone, Zenon DEF SenderTypeOK
<1>2. UNCHANGED <<reader, active, inbox, recvBuf, expectedSeq, rCloseErr, read, recvCh>>
  BY Zenon
<1>3. ASSUME NEW e, e.kind = "data" => e.seq \in Nat, FromPeer(e) PROVE FromPeer(e)'
  BY <1>1, <1>3 DEF FromPeer
<1>4. /\ reader.env.kind = "data" => reader.env.seq \in Nat
      /\ active.kind = "data" => active.seq \in Nat
      /\ \A i \in 1..Len(inbox) : inbox[i].seq \in Nat
      /\ \A f \in recvBuf : f.seq \in Nat
      /\ expectedSeq \in Nat
  <2>1. inbox \in Seq(Envelope)
    BY Zenon DEF ReceiverTypeOK, StreamTypeOK
  <2>2. \A i \in 1..Len(inbox) : inbox[i] \in Envelope
    BY <2>1
  <2> QED
    BY <2>2 DEF ReceiverTypeOK, StreamTypeOK, NoCall, NoEnvelope, Envelope
<1>5. /\ FromPeer(reader.env)' /\ FromPeer(active)'
  BY <1>2, <1>1, <1>4, SMTT(30) DEF LinkInv, FromPeer
<1>6. \A i \in 1..Len(inbox') : FromPeer(inbox[i])'
  BY <1>2, <1>1, <1>4, SMTT(30) DEF LinkInv, FromPeer
<1>7. /\ \A f \in recvBuf' : f.seq < nextSeq'
      /\ expectedSeq' <= nextSeq'
  BY <1>2, <1>1, <1>4 DEF LinkInv
<1>8. (remoteClosed => ClosePacket \in dataNet)' /\ (sendBase - 1 <= Len(read) + Len(recvCh))'
  BY <1>1, <1>2, Zenon DEF LinkInv, remoteClosed, ClosePacket
<1> QED
  BY <1>5, <1>6, <1>7, <1>8, Zenon DEF LinkInv

\* The frames that end the batch were sent: expectedSeq stays within nextSeq.
LEMMA FrontierSent ==
    ASSUME RecvOrdered, SenderTypeOK, ReceiverTypeOK, GenuineInv, OrderInv, LinkInv, HandleData
    PROVE  expectedSeq' <= nextSeq
<1>1. /\ expectedSeq \in Nat /\ nextSeq \in Nat /\ expectedSeq <= nextSeq
      /\ active.kind = "data" /\ active.seq < nextSeq
  BY Zenon DEF SenderTypeOK, ReceiverTypeOK, StreamTypeOK, LinkInv, FromPeer, HandleData, OrderInv
<1>2. CASE active.seq = expectedSeq
  <2> DEFINE next == Frontier(expectedSeq + 1, Seqs(recvBuf))
  <2>1. expectedSeq' = next
    BY <1>2, Zenon DEF HandleData
  <2>2. /\ next \in Nat /\ next >= expectedSeq + 1
        /\ \A k \in (expectedSeq + 1)..(next - 1) : k \in Seqs(recvBuf)
    BY <1>1, FrontierFacts, SMTT(30) DEF GenuineInv
  <2> HIDE DEF next
  <2>3. \A k \in Seqs(recvBuf) : k < nextSeq
    BY Zenon DEF LinkInv, Seqs
  <2>4. CASE next = expectedSeq + 1
    BY <1>1, <1>2, <2>1, <2>4
  <2>5. CASE next # expectedSeq + 1
    <3>1. next - 1 \in (expectedSeq + 1)..(next - 1)
      BY <1>1, <2>2, <2>5
    <3>2. next - 1 < nextSeq
      BY <2>2, <2>3, <3>1, Zenon
    <3> QED
      BY <1>1, <2>1, <2>2, <3>2
  <2> QED
    BY <2>4, <2>5, Zenon
<1>3. CASE active.seq # expectedSeq
  <2>1. expectedSeq' = expectedSeq
    BY <1>3, Zenon DEF HandleData, RecvOrdered
  <2> QED
    BY <1>1, <2>1, Zenon
<1> QED
  BY <1>2, <1>3, Zenon

\* LinkInv after a step of the receiving half, from what it says of the new state.
LEMMA LinkKept ==
    ASSUME UNCHANGED <<nextSeq, sendBase, dataNet>>,
           FromPeer(reader'.env), FromPeer(active'), \A i \in 1..Len(inbox') : FromPeer(inbox'[i]),
           \A f \in recvBuf' : f.seq < nextSeq, expectedSeq' <= nextSeq,
           sendBase - 1 <= Len(read') + Len(recvCh'),
           rCloseErr' = "remote_close" => remoteClosed \/ ClosePacket \in dataNet,
           LinkInv
    PROVE  LinkInv'
<1>1. FromPeer(reader.env)' /\ FromPeer(active)' /\ (\A i \in 1..Len(inbox) : FromPeer(inbox[i]))'
  BY Zenon DEF FromPeer, ClosePacket
<1>2. (remoteClosed => ClosePacket \in dataNet)'
  BY Zenon DEF LinkInv, remoteClosed, ClosePacket
<1> QED
  BY <1>1, <1>2, Zenon DEF LinkInv

\* A step of the receiving half keeps LinkInv.
LEMMA LinkReceiverStep ==
    ASSUME RecvOrdered, SenderTypeOK, ReceiverTypeOK, NumberingInv, GenuineInv, OrderInv, LinkInv,
           UNCHANGED senderVars
    PROVE  ReceiverStep \/ (\E p \in dataNet : EnqueueRead(p)) => LinkInv'
<1> USE DEF receiverVars, recvConnVars, orderVars, appVars, rCloseVars, inboxVars, dispatchVars,
            ackVars
<1>0. UNCHANGED <<nextSeq, sendBase, dataNet>>
  BY Zenon DEF senderVars, seqVars
<1>a. \A e : FromPeer(e)' = FromPeer(e)
  BY <1>0, Zenon DEF FromPeer, ClosePacket
<1>b. /\ read \in Seq(Nat) /\ recvCh \in Seq(Nat) /\ ready \in Seq(Nat)
      /\ Len(read) \in Nat /\ Len(recvCh) \in Nat /\ sendBase \in Nat /\ inbox \in Seq(Envelope)
  BY DEF ReceiverTypeOK, StreamTypeOK, SenderTypeOK
<1>c. /\ FromPeer(reader.env) /\ FromPeer(active) /\ \A i \in 1..Len(inbox) : FromPeer(inbox[i])
      /\ rCloseErr = "remote_close" => remoteClosed
      /\ (\A f \in recvBuf : f.seq < nextSeq) /\ expectedSeq <= nextSeq
      /\ sendBase - 1 <= Len(read) + Len(recvCh)
  BY Zenon DEF LinkInv, remoteClosed
<1>d. ASSUME FromPeer(reader'.env), FromPeer(active'), \A i \in 1..Len(inbox') : FromPeer(inbox'[i]),
             \A f \in recvBuf' : f.seq < nextSeq, expectedSeq' <= nextSeq,
             sendBase - 1 <= Len(read') + Len(recvCh'),
             rCloseErr' = "remote_close" => remoteClosed \/ ClosePacket \in dataNet
      PROVE  LinkInv'
  BY <1>0, <1>d, LinkKept, Zenon
<1>1. ASSUME FromPeer(reader'.env), FromPeer(active'), \A i \in 1..Len(inbox') : FromPeer(inbox'[i]),
             UNCHANGED <<recvBuf, expectedSeq, read, recvCh>>,
             rCloseErr' = "remote_close" => remoteClosed \/ ClosePacket \in dataNet
      PROVE  LinkInv'
  BY <1>c, <1>d, <1>1, Zenon
<1>2. FromPeer(NoCall.env) /\ FromPeer(NoEnvelope)
  BY Zenon DEF FromPeer, NoCall, NoEnvelope
<1>3. ASSUME NEW p \in dataNet, EnqueueRead(p) PROVE LinkInv'
  <2>1. reader'.env = p /\ UNCHANGED <<active, inbox, recvBuf, expectedSeq, read, recvCh, rCloseErr>>
    BY <1>3, Zenon DEF EnqueueRead
  <2>2. FromPeer(p)
    <3>1. p \in Packet /\ nextSeq \in Nat
      BY Zenon DEF SenderTypeOK
    <3>2. p.kind = "data" => p.seq < nextSeq
      BY <3>1 DEF NumberingInv, Packet
    <3>3. p.kind = "close" => p = ClosePacket
      BY <3>1, Zenon DEF Packet
    <3> QED
      BY <3>2, <3>3, Zenon DEF FromPeer
  <2> QED
    BY <1>c, <1>1, <2>1, <2>2, Zenon
<1>4. ASSUME EnqueueDrop \/ EnqueueReplayACK \/ EnqueueOverflow PROVE LinkInv'
  <2>1. /\ reader' = NoCall /\ UNCHANGED <<active, inbox, recvBuf, expectedSeq, read, recvCh>>
        /\ rCloseErr' = rCloseErr \/ rCloseErr' = "overflow"
    <3>1. CASE EnqueueDrop \/ EnqueueReplayACK
      BY <3>1, Zenon DEF EnqueueDrop, EnqueueReplayACK
    <3>2. CASE EnqueueOverflow
      BY <3>2, Zenon DEF EnqueueOverflow, CloseWithSource
    <3> QED
      BY <1>4, <3>1, <3>2, Zenon
  <2> QED
    BY <1>c, <1>1, <1>2, <2>1, Zenon
<1>5. ASSUME EnqueuePush PROVE LinkInv'
  <2>1. /\ reader' = NoCall /\ UNCHANGED <<active, recvBuf, expectedSeq, read, recvCh, rCloseErr>>
        /\ inbox' = Append(inbox, reader.env)
    BY <1>5, Zenon DEF EnqueuePush
  <2>2. inbox \in Seq(Envelope) /\ reader.env \in Envelope
    BY <1>5, Zenon DEF EnqueuePush, ReceiverTypeOK, StreamTypeOK
  <2>3. /\ Len(inbox) \in Nat /\ Len(inbox') = Len(inbox) + 1
        /\ \A i \in 1..Len(inbox) : inbox'[i] = inbox[i]
        /\ inbox'[Len(inbox) + 1] = reader.env
    BY <2>1, <2>2, PutLast, SMTT(30)
  <2>4. \A i \in 1..Len(inbox') : FromPeer(inbox'[i])
    BY <1>c, <2>3, SMTT(30)
  <2> QED
    BY <1>c, <1>1, <1>2, <2>1, <2>4, Zenon
<1>6. ASSUME DispatchTake PROVE LinkInv'
  <2>1. /\ inbox \in Seq(Envelope) /\ inbox # <<>> /\ active' = Head(inbox) /\ inbox' = Tail(inbox)
        /\ UNCHANGED <<reader, recvBuf, expectedSeq, read, recvCh, rCloseErr>>
    BY <1>b, <1>6, Zenon DEF DispatchTake
  <2>2. /\ active' = inbox[1] /\ Len(inbox) \in Nat \ {0} /\ Len(inbox') = Len(inbox) - 1
        /\ \A i \in 1..(Len(inbox) - 1) : inbox'[i] = inbox[i + 1]
    BY <2>1, TakeHead, Zenon
  <2>3. FromPeer(active') /\ \A i \in 1..Len(inbox') : FromPeer(inbox'[i])
    BY <1>c, <2>2, SMTT(30)
  <2> QED
    BY <1>c, <1>1, <2>1, <2>3, Zenon
<1>7. ASSUME DispatchTerminal PROVE LinkInv'
  <2>1. /\ active' = NoEnvelope
        /\ UNCHANGED <<reader, inbox, recvBuf, expectedSeq, read, recvCh>>
        /\ rCloseErr' = "remote_close" => remoteClosed \/ active.kind = "close"
    BY <1>7, Zenon DEF DispatchTerminal, CloseWithSource, remoteClosed
  <2>2. active.kind = "close" => ClosePacket \in dataNet
    BY Zenon DEF LinkInv, FromPeer
  <2>3. FromPeer(reader'.env) /\ FromPeer(active') /\ \A i \in 1..Len(inbox') : FromPeer(inbox'[i])
    BY <1>2, <2>1, Zenon DEF LinkInv
  <2> QED
    BY <1>1, <2>1, <2>2, <2>3, Zenon
<1>8. ASSUME DispatchRelease \/ DispatchStop PROVE LinkInv'
  <2>1. /\ active' \in {active, NoEnvelope} /\ inbox' \in {inbox, <<>>}
        /\ UNCHANGED <<reader, recvBuf, expectedSeq, read, recvCh, rCloseErr>>
    BY <1>8, Zenon DEF DispatchRelease, DispatchStop
  <2>2. FromPeer(active') /\ FromPeer(reader'.env)
    BY <1>2, <2>1, Zenon DEF LinkInv
  <2>3. \A i \in 1..Len(inbox') : FromPeer(inbox'[i])
    BY <2>1 DEF LinkInv
  <2> QED
    BY <1>c, <1>1, <2>1, <2>2, <2>3, Zenon
<1>9. ASSUME HandleData PROVE LinkInv'
  <2>1. /\ UNCHANGED <<reader, active, inbox, read, recvCh, rCloseErr>> /\ active.kind = "data"
        /\ \/ recvBuf' \in SUBSET recvBuf
           \/ recvBuf' = recvBuf \cup {[seq |-> active.seq, id |-> active.id]}
    BY <1>9, Zenon DEF HandleData, OrderInv, RecvOrdered
  <2>2. expectedSeq' <= nextSeq
    BY <1>9, FrontierSent, Zenon
  <2>3. active.seq < nextSeq
    BY <2>1, Zenon DEF LinkInv, FromPeer
  <2>4. \A f \in recvBuf' : f.seq < nextSeq
    BY <2>1, <2>3 DEF LinkInv
  <2> QED
    BY <1>c, <1>d, <2>1, <2>2, <2>4, Zenon
<1>10. ASSUME UNCHANGED <<reader, active, inbox, recvBuf, expectedSeq, rCloseErr>>,
              Len(read') + Len(recvCh') \in Nat,
              Len(read) + Len(recvCh) <= Len(read') + Len(recvCh')
       PROVE  LinkInv'
  <2>1. sendBase - 1 <= Len(read') + Len(recvCh')
    BY <1>b, <1>c, <1>10
  <2> QED
    BY <1>c, <1>d, <1>10, <2>1, Zenon
<1>11. ASSUME Deliver PROVE LinkInv'
  <2>1. /\ ready # <<>> /\ recvCh' = Append(recvCh, Head(ready))
        /\ UNCHANGED <<reader, active, inbox, recvBuf, expectedSeq, rCloseErr, read>>
    BY <1>11, Zenon DEF Deliver
  <2>2. Head(ready) \in Nat
    BY <1>b, <2>1, TakeHead, Zenon
  <2>3. Len(recvCh') = Len(recvCh) + 1 /\ Len(read') = Len(read)
    BY <1>b, <2>1, <2>2
  <2> QED
    BY <1>b, <1>10, <2>1, <2>3, SMTT(30)
<1>12. ASSUME AppRead PROVE LinkInv'
  <2>1. /\ recvCh # <<>> /\ read' = Append(read, Head(recvCh)) /\ recvCh' = Tail(recvCh)
        /\ UNCHANGED <<reader, active, inbox, recvBuf, expectedSeq, rCloseErr>>
    BY <1>12, Zenon DEF AppRead
  <2>2. Head(recvCh) \in Nat /\ Len(recvCh) \in Nat \ {0} /\ Len(recvCh') = Len(recvCh) - 1
    BY <1>b, <2>1, TakeHead, Zenon
  <2>3. Len(read') = Len(read) + 1
    BY <1>b, <2>1, <2>2
  <2> QED
    BY <1>b, <1>10, <2>1, <2>2, <2>3, SMTT(30)
<1>13. ASSUME DeliverAbandon \/ DeliverEnd \/ FinishReceiveACK \/ AppEnd
       PROVE  UNCHANGED <<reader, active, inbox, recvBuf, expectedSeq, read, recvCh, rCloseErr>>
  BY <1>13, Zenon DEF DeliverAbandon, DeliverEnd, FinishReceiveACK, AppEnd
<1>14. ASSUME DeliverAbandon \/ DeliverEnd \/ FinishReceiveACK \/ AppEnd \/ AckStep \/ RecvCloseStep
       PROVE  LinkInv'
  <2>1. UNCHANGED <<reader, active, inbox, recvBuf, expectedSeq, read, recvCh>>
    BY <1>13, <1>14, AckFrame, RecvCloseFrame, Zenon
  <2>2. rCloseErr' = rCloseErr \/ rCloseErr' \in {"ack_error", "nil", "external"}
    BY <1>13, <1>14, AckFrame, RecvCloseFrame, ZenonT(30)
  <2> QED
    BY <1>c, <1>1, <2>1, <2>2, Zenon
<1> QED
  BY <1>3, <1>4, <1>5, <1>6, <1>7, <1>8, <1>9, <1>11, <1>12, <1>14, Zenon
  DEF ReceiverStep, EnqueueDecide, DispatchStep, AppStep, RecvCloseStep

\* An ACK that reaches handleAck covers delivered payloads only.
LEMMA LinkAckStep ==
    ASSUME SenderTypeOK, ReceiverTypeOK, AckInv, LinkInv, NetAck
    PROVE  LinkInv'
<1> USE DEF receiverVars, recvConnVars, orderVars, appVars, rCloseVars, inboxVars, dispatchVars,
            ackVars
<1>1. PICK a \in ackNet : HandleAck(a)
  BY Zenon DEF NetAck
<1>2. UNCHANGED <<reader, active, inbox, recvBuf, expectedSeq, rCloseErr, read, recvCh>>
  BY Zenon DEF NetAck
<1>3. sendBase' = a + 1 /\ UNCHANGED <<nextSeq, dataNet>>
  BY <1>1, Zenon DEF HandleAck
<1>4. /\ a \in Nat /\ a <= Len(read) + Len(recvCh)
      /\ Len(read) \in Nat /\ Len(recvCh) \in Nat
  BY DEF AckInv, ReceiverTypeOK, StreamTypeOK, AckTypeOK
<1>5. sendBase' - 1 <= Len(read') + Len(recvCh')
  BY <1>2, <1>3, <1>4, SMTT(30)
<1> QED
  BY <1>2, <1>3, <1>5, Zenon DEF LinkInv, FromPeer, remoteClosed, ClosePacket
-----------------------------------------------------------------------------

AllInv == TypeOK /\ SenderInv /\ ReceiverInv /\ LinkInv
BothOrdered == Ordered /\ RecvOrdered

\* The joint invariant is inductive.
LEMMA AllInvStep ==
    ASSUME BothOrdered, AllInv, [Next]_vars
    PROVE  AllInv'
<1> USE DEF AllInv, TypeOK, BothOrdered
<1>1. CASE SenderStep /\ UNCHANGED receiverVars
  <2>1. SenderTypeOK' /\ SenderInv'
    BY <1>1, SenderInvStep, Zenon
  <2>2. (ReceiverTypeOK /\ ReceiverInv)'
    BY <1>1, ReceiverInvStep, Zenon
  <2>3. LinkInv'
    BY <1>1, LinkSenderStep, Zenon
  <2> QED
    BY <2>1, <2>2, <2>3, Zenon
<1>2. CASE ReceiverStep /\ UNCHANGED senderVars
  <2>1. SenderTypeOK' /\ SenderInv'
    BY <1>2, SenderInvStep, Zenon
  <2>2. (ReceiverTypeOK /\ ReceiverInv)'
    BY <1>2, ReceiverInvStep, Zenon
  <2>3. LinkInv'
    BY <1>2, LinkReceiverStep, Zenon DEF SenderInv, ReceiverInv
  <2> QED
    BY <2>1, <2>2, <2>3
<1>3. CASE NetData
  <2>0. UNCHANGED senderVars
    BY <1>3, Zenon DEF NetData
  <2>1. SenderTypeOK' /\ SenderInv'
    BY <2>0, SenderInvStep, Zenon
  <2>2. AnyPacket
    <3>1. PICK p \in dataNet : EnqueueRead(p)
      BY <1>3, Zenon DEF NetData
    <3>2. p \in Envelope /\ Genuine(p)
      BY NetPacket, Zenon DEF SenderInv
    <3> QED
      BY <3>1, <3>2, Zenon DEF AnyPacket
  <2>3. (ReceiverTypeOK /\ ReceiverInv)'
    BY <2>2, ReceiverInvStep, Zenon
  <2>4. LinkInv'
    BY <1>3, <2>0, LinkReceiverStep, Zenon DEF SenderInv, ReceiverInv, NetData
  <2> QED
    BY <2>1, <2>3, <2>4
<1>4. CASE NetAck
  <2>1. AnyAck /\ UNCHANGED receiverVars
    BY <1>4, Zenon DEF NetAck, AnyAck, ReceiverTypeOK, AckTypeOK
  <2>2. SenderTypeOK' /\ SenderInv'
    BY <2>1, SenderInvStep, Zenon
  <2>3. (ReceiverTypeOK /\ ReceiverInv)'
    BY <2>1, ReceiverInvStep, Zenon
  <2>4. LinkInv'
    BY <1>4, LinkAckStep, Zenon DEF ReceiverInv
  <2> QED
    BY <2>2, <2>3, <2>4
<1>5. CASE UNCHANGED vars
  <2>1. UNCHANGED senderVars /\ UNCHANGED receiverVars
    BY <1>5, Zenon DEF vars
  <2>2. SenderTypeOK' /\ SenderInv'
    BY <2>1, SenderInvStep, Zenon
  <2>3. (ReceiverTypeOK /\ ReceiverInv)'
    BY <2>1, ReceiverInvStep, Zenon
  <2>4. UNCHANGED <<sendBase, nextSeq, dataNet, reader, active, inbox, recvBuf, expectedSeq, ready, read,
                    recvCh, rCloseErr>>
    <3>1. UNCHANGED <<sendBase, nextSeq, dataNet>>
      BY <2>1, Zenon DEF senderVars, seqVars
    <3>2. UNCHANGED <<reader, active, inbox, recvBuf, expectedSeq, ready, read, recvCh, rCloseErr>>
      BY <2>1, Zenon DEF receiverVars, recvConnVars, orderVars, appVars, inboxVars, dispatchVars
    <3> QED
      BY <3>1, <3>2, Zenon
  <2>5. LinkInv'
    BY <2>4, Zenon DEF LinkInv, FromPeer, remoteClosed, ClosePacket
  <2> QED
    BY <2>2, <2>3, <2>5
<1> QED
  BY <1>1, <1>2, <1>3, <1>4, <1>5, Zenon DEF Next

(* Two connections that have just been opened satisfy the invariant.           *)
LEMMA AllInvInit == Init => AllInv
<1> SUFFICES ASSUME Init PROVE AllInv
  BY Zenon
<1>1. SenderTypeOK /\ SenderInv /\ ReceiverTypeOK /\ ReceiverInv
  BY SenderInvInit, ReceiverInvInit, Zenon DEF Init
<1>2. LinkInv
  BY SMTT(30) DEF Init, SenderInit, ReceiverInit, LinkInv, FromPeer, NoCall, NoEnvelope,
     remoteClosed
<1> QED
  BY <1>1, <1>2, Zenon DEF AllInv, TypeOK

(* The invariants of the two halves and of the link hold in every state.       *)
LEMMA LinkInvariant == ASSUME BothOrdered PROVE Spec => []AllInv
<1>1. AllInv /\ [Next]_vars => AllInv'
  BY AllInvStep, Zenon
<1> QED
  BY <1>1, AllInvInit, PTL DEF Spec

\* What the joint invariant says end to end.
LEMMA AllInvSafe ==
    ASSUME BothOrdered, AllInv
    PROVE  TypeOK /\ AckedDelivered /\ FlushDelivered /\ RemoteCloseComplete
<1>1. /\ Len(delivered) = Len(read) + Len(recvCh) /\ InOrder
      /\ Len(read) \in Nat /\ Len(recvCh) \in Nat /\ sendBase \in Nat /\ flushMark \in Nat /\ sent \in Nat
  BY ReceiverInvSafe, SMTT(30) DEF AllInv, TypeOK, SenderTypeOK, ReceiverTypeOK,
     StreamTypeOK
<1>2. AckedDelivered
  BY <1>1, Zenon DEF AllInv, LinkInv, AckedDelivered
<1>3. FlushDelivered
  <2> SUFFICES ASSUME flush = "ok", NEW n \in 1..flushMark PROVE Received(n)
    BY Zenon DEF FlushDelivered
  <2>1. flushMark < sendBase
    BY Zenon DEF AllInv, SenderInv, FlushInv
  <2>2. n \in 1..Len(delivered)
    BY <1>1, <1>2, <2>1 DEF AckedDelivered
  <2>3. delivered[n] = n
    BY <1>1, <2>2, Zenon DEF InOrder, BothOrdered
  <2> QED
    BY <2>2, <2>3, Zenon DEF Received
<1>4. RemoteCloseComplete
  <2> SUFFICES ASSUME app = "ended", remoteClosed, NEW n \in 1..sent
               PROVE  \E i \in 1..Len(read) : read[i] = n
    BY Zenon DEF RemoteCloseComplete
  <2>1. recvCh = <<>> /\ ClosePacket \in dataNet
    BY Zenon DEF AllInv, ReceiverInv, EndInv, LinkInv
  <2>2. sendBase = sent + 1
    BY <2>1, SenderInvSafe, Zenon DEF AllInv, TypeOK, BothOrdered, CloseAfterAcks, Ordered, BestEffort
  <2>3. Len(recvCh) = 0
    BY <2>1, Zenon
  <2>4. n \in 1..Len(read)
    BY <1>1, <2>2, <2>3 DEF AllInv, LinkInv
  <2>5. read[n] = n
    BY <2>4, Zenon DEF AllInv, ReceiverInv, OrderInv
  <2> QED
    BY <2>4, <2>5, Zenon
<1> QED
  BY <1>2, <1>3, <1>4, ZenonT(30) DEF AllInv

\* Both halves keep their types together.
THEOREM LinkTypeCorrect == ASSUME BothOrdered PROVE Spec => []TypeOK
BY LinkInvariant, AllInvSafe, PTL

\* What handleAck retires at the sender is in recvCh at the peer or has been
\* read, for every window and every loss, repetition or reordering.
THEOREM AckedDeliveredCorrect == ASSUME BothOrdered PROVE Spec => []AckedDelivered
BY LinkInvariant, AllInvSafe, PTL

\* Flush that returns nil means that every earlier Send has been delivered at
\* the peer, not only acknowledged.
THEOREM FlushDeliveredCorrect == ASSUME BothOrdered PROVE Spec => []FlushDelivered
BY LinkInvariant, AllInvSafe, PTL

\* When ReceiveTimeout reports the orderly end, all that was ever sent was read.
THEOREM RemoteCloseCompleteCorrect == ASSUME BothOrdered PROVE Spec => []RemoteCloseComplete
BY LinkInvariant, AllInvSafe, PTL

\* What has arrived has been sent.
LEMMA ArrivedSent ==
    ASSUME BothOrdered, AllInv
    PROVE  /\ Len(read) \in Nat /\ Len(recvCh) \in Nat /\ Len(ready) \in Nat /\ sent \in Nat
           /\ Len(read) + Len(recvCh) + Len(ready) <= sent
           /\ app = "ended" /\ remoteClosed => recvCh = <<>> /\ Len(read) = sent /\ enqueueMu # "send"
           /\ remoteClosed => Len(read) + Len(recvCh) = sent
<1>1. /\ Len(read) \in Nat /\ Len(recvCh) \in Nat /\ Len(ready) \in Nat /\ sent \in Nat
      /\ nextSeq \in Nat /\ sendBase \in Nat /\ expectedSeq \in Nat
  BY SMTT(30) DEF AllInv, TypeOK, SenderTypeOK, ReceiverTypeOK, StreamTypeOK
<1>2. nextSeq - 1 <= sent
  BY <1>1, SMTT(30) DEF AllInv, SenderInv, NumberingInv, Taken
<1>3. Len(read) + Len(recvCh) + Len(ready) <= sent
  BY <1>1, <1>2, SMTT(30) DEF AllInv, ReceiverInv, OrderInv, LinkInv
<1>4. ASSUME remoteClosed PROVE Len(read) + Len(recvCh) = sent /\ enqueueMu # "send"
  <2>1. ClosePacket \in dataNet
    BY <1>4, Zenon DEF AllInv, LinkInv
  <2>2. sendBase = sent + 1
    BY <2>1, SenderInvSafe, Zenon DEF AllInv, TypeOK, BothOrdered, CloseAfterAcks, Ordered, BestEffort
  <2>3. enqueueMu # "send"
    BY <2>1, Zenon DEF AllInv, SenderInv, CloseInv, CloseQueued
  <2> QED
    BY <1>1, <1>3, <2>2, <2>3, SMTT(30) DEF AllInv, LinkInv
<1>5. ASSUME app = "ended", remoteClosed PROVE recvCh = <<>> /\ Len(read) = sent
  <2>1. recvCh = <<>>
    BY <1>5, Zenon DEF AllInv, ReceiverInv, EndInv
  <2>2. Len(recvCh) = 0
    BY <2>1, Zenon
  <2> QED
    BY <1>1, <1>4, <1>5, <2>1, <2>2
<1> QED
  BY <1>1, <1>3, <1>4, <1>5, ZenonT(30)

\* What the queue is shown of Flush.
LEMMA FlushShown ==
    ASSUME SenderTypeOK, SenderTypeOK'
    PROVE  /\ flush \in {"idle", "enqueue"} => FlushOutcome = "none"
           /\ flush \in {"barrier", "poll"} => FlushOutcome = "waiting"
           /\ flush \in {"ok", "failed"} => FlushOutcome = flush
           /\ flush' \in {"idle", "enqueue"} => FlushOutcome' = "none"
           /\ flush' \in {"barrier", "poll"} => FlushOutcome' = "waiting"
           /\ flush' \in {"ok", "failed"} => FlushOutcome' = flush'
BY Zenon DEF SenderTypeOK, FlushOutcome

\* A step of the sending half is a step of the queue.
LEMMA ChannelSenderStep ==
    ASSUME BothOrdered, AllInv, AllInv', SenderStep \/ AnyAck, UNCHANGED receiverVars
    PROVE  [Channel!ChannelNext]_(Channel!channelVars)
<1> USE DEF connVars, queueVars, seqVars, loopVars, rpcVars, flushVars, closeVars, callVars
<1>0. UNCHANGED <<recvCh, read, PeerEnd>>
  BY Zenon DEF receiverVars, appVars, recvConnVars, PeerEnd, remoteClosed
<1>1. ASSUME UNCHANGED <<sent, flush, flushMark>>
      PROVE  [Channel!ChannelNext]_(Channel!channelVars)
  BY <1>0, <1>1, Zenon DEF FlushOutcome, Channel!ChannelNext, Channel!channelVars
<1>2. SenderTypeOK /\ SenderTypeOK'
  BY Zenon DEF AllInv, TypeOK
<1>3. CASE SendPush
  <2>1. sent' = sent + 1 /\ UNCHANGED <<flush, flushMark>> /\ enqueueMu = "send"
    BY <1>3, ZenonT(30) DEF SendPush
  <2>2. PeerEnd # "complete"
    BY <2>1, ArrivedSent, Zenon DEF PeerEnd, AllInv, TypeOK, ReceiverTypeOK, StreamTypeOK
  <2>3. FlushOutcome' = FlushOutcome
    BY <2>1, Zenon DEF FlushOutcome
  <2> QED
    BY <1>0, <2>1, <2>2, <2>3, Zenon DEF Channel!ChannelSend, Channel!ChannelNext, Channel!channelVars
<1>4. CASE FlushBegin
  <2>1. /\ flush \in {"idle", "ok", "failed"} /\ flush' \in {"enqueue", "failed"}
        /\ UNCHANGED <<sent, flushMark>>
    BY <1>4, Zenon DEF FlushBegin
  <2> QED
    BY <1>0, <1>2, <2>1, FlushShown, Zenon DEF Channel!ChannelFlushBegin,
       Channel!ChannelNext, Channel!channelVars
<1>5. CASE FlushPush
  <2>1. flush = "enqueue" /\ flush' = "barrier" /\ flushMark' = sent /\ UNCHANGED sent
    BY <1>5, Zenon DEF FlushPush
  <2> QED
    BY <1>0, <1>2, <2>1, FlushShown, Zenon DEF Channel!ChannelFlushBarrier,
       Channel!ChannelNext, Channel!channelVars
<1>6. CASE FlushPoll
  <2>1. flush = "poll" /\ flush' = "ok" /\ UNCHANGED <<sent, flushMark, sendBase>>
    BY <1>6, ZenonT(30) DEF FlushPoll
  <2>2. flushMark < sendBase /\ sendBase - 1 <= Len(read) + Len(recvCh)
    <3>1. FlushInv' /\ LinkInv
      BY Zenon DEF AllInv, SenderInv
    <3>2. flushMark < sendBase
      BY <2>1, <3>1, Zenon DEF FlushInv
    <3> QED
      BY <3>1, <3>2, Zenon DEF LinkInv
  <2>3. flushMark \in Nat /\ sendBase \in Nat /\ Len(read) \in Nat /\ Len(recvCh) \in Nat
    BY <1>2, ArrivedSent, Zenon DEF SenderTypeOK
  <2>4. flushMark <= Len(read) + Len(recvCh)
    BY <2>2, <2>3
  <2> QED
    BY <1>0, <1>2, <2>1, <2>4, FlushShown, Zenon DEF Channel!ChannelFlushEnd, Channel!Arrived,
       Channel!ChannelNext, Channel!channelVars
<1>7. CASE FlushAbandon
  <2>1. /\ flush \in {"enqueue", "barrier", "poll"} /\ flush' = "failed"
        /\ UNCHANGED <<sent, flushMark>>
    BY <1>7, ZenonT(30) DEF FlushAbandon
  <2> QED
    BY <1>0, <1>2, <2>1, FlushShown, Zenon DEF Channel!ChannelFlushBegin, Channel!ChannelFlushEnd,
       Channel!ChannelNext, Channel!channelVars
<1>8. CASE LoopDrain
  <2>1. UNCHANGED <<sent, flushMark>> /\ (flush' = flush \/ (flush = "barrier" /\ flush' = "poll"))
    BY <1>8, Zenon DEF LoopDrain
  <2> QED
    BY <1>0, <1>1, <1>2, <2>1, FlushShown, Zenon DEF Channel!ChannelNext, Channel!channelVars
<1>9. CASE \/ SendBegin \/ SendFail \/ CloseCall \/ CloseLock \/ ClosePush \/ CloseFlushed \/ CloseAcked
           \/ CloseReceiveACK \/ CloseTransmit \/ CloseSent \/ CloseReleased \/ CloseDeadline
  <2>1. UNCHANGED <<sent, flush, flushMark>>
    BY <1>9, ZenonT(30) DEF SendBegin, SendFail, CloseCall, CloseLock, ClosePush, CloseFlushed,
       CloseAcked,
                CloseReceiveACK, CloseTransmit, CloseSent, CloseReleased, CloseDeadline
  <2> QED
    BY <1>1, <2>1, Zenon
<1>10. CASE \/ LoopTake \/ LoopCheck \/ LoopWake \/ LoopSlot \/ LoopTimer \/ LoopRetryDone \/ LoopExit
            \/ RetrySteps \/ RpcSteps \/ SenderAbort \/ AnyAck
  <2>1. UNCHANGED <<sent, flush, flushMark>>
    BY <1>10, ZenonT(30) DEF LoopTake, LoopCheck, LoopWake, LoopSlot, LoopTimer, LoopRetryDone,
       LoopExit,
                 RetrySteps, RetryBegin, RetrySkip, RetrySend, RetryEnd, RpcSteps, RpcTransmit,
                 RpcReturn, RpcFail, SenderAbort, AnyAck, HandleAck
  <2> QED
    BY <1>1, <2>1
<1> QED
  BY <1>3, <1>4, <1>5, <1>6, <1>7, <1>8, <1>9, <1>10, Zenon DEF SenderStep, CallSteps, LoopSteps

\* A step of the receiving half is a step of the queue.
LEMMA ChannelReceiverStep ==
    ASSUME BothOrdered, AllInv, UNCHANGED senderVars
    PROVE  ReceiverStep \/ AnyPacket => [Channel!ChannelNext]_(Channel!channelVars)
<1> USE DEF recvConnVars, orderVars, appVars, rCloseVars, inboxVars, dispatchVars,
            ackVars
<1>0. UNCHANGED <<sent, flushMark, FlushOutcome>>
  BY Zenon DEF senderVars, queueVars, callVars, flushVars, FlushOutcome
<1>1. ASSUME UNCHANGED <<recvCh, read, app>>, rState # "Closed" \/ rCloseErr' = rCloseErr
      PROVE  [Channel!ChannelNext]_(Channel!channelVars)
  <2>1. app = "ended" => rState = "Closed"
    BY Zenon DEF AllInv, ReceiverInv, EndInv
  <2>2. app \in {"reading", "ended"}
    BY Zenon DEF AllInv, TypeOK, ReceiverTypeOK, StreamTypeOK
  <2>3. PeerEnd' = PeerEnd
    BY <1>1, <2>1, <2>2, Zenon DEF PeerEnd, remoteClosed
  <2> QED
    BY <1>0, <1>1, <2>3, Zenon DEF Channel!ChannelNext, Channel!channelVars
<1>2. ASSUME Deliver PROVE [Channel!ChannelNext]_(Channel!channelVars)
  <2>1. /\ ready # <<>> /\ recvCh' = Append(recvCh, Head(ready)) /\ UNCHANGED <<read, app, rCloseErr>>
    BY <1>2, Zenon DEF Deliver
  <2>2. ready \in Seq(Nat)
    BY Zenon DEF AllInv, TypeOK, ReceiverTypeOK, StreamTypeOK
  <2>3. Head(ready) = ready[1] /\ Len(ready) \in Nat \ {0}
    BY <2>1, <2>2, TakeHead, Zenon
  <2>4. Head(ready) = Len(read) + Len(recvCh) + 1
    BY <2>3 DEF AllInv, ReceiverInv, OrderInv
  <2>5. Len(read) + Len(recvCh) < sent
    BY <2>3, ArrivedSent
  <2>6. PeerEnd' = PeerEnd
    BY <2>1, Zenon DEF PeerEnd, remoteClosed
  <2> QED
    BY <1>0, <2>1, <2>4, <2>5, <2>6, Zenon DEF Channel!ChannelArrive, Channel!Arrived,
       Channel!ChannelNext, Channel!channelVars
<1>3. ASSUME AppRead PROVE [Channel!ChannelNext]_(Channel!channelVars)
  <2>1. /\ recvCh # <<>> /\ read' = Append(read, Head(recvCh)) /\ recvCh' = Tail(recvCh)
        /\ app = "reading" /\ UNCHANGED <<app, rCloseErr>>
    BY <1>3, Zenon DEF AppRead
  <2>2. PeerEnd = "open" /\ PeerEnd' = "open"
    BY <2>1, Zenon DEF PeerEnd
  <2> QED
    BY <1>0, <2>1, <2>2, Zenon DEF Channel!ChannelRead,
       Channel!ChannelNext, Channel!channelVars
<1>4. ASSUME AppEnd PROVE [Channel!ChannelNext]_(Channel!channelVars)
  <2>1. /\ app = "reading" /\ app' = "ended" /\ UNCHANGED <<recvCh, read, rCloseErr>>
        /\ remoteClosed => recvCh = <<>>
    BY <1>4, Zenon DEF AppEnd
  <2>2. PeerEnd = "open" /\ PeerEnd' = IF remoteClosed THEN "complete" ELSE "broken"
    BY <2>1, Zenon DEF PeerEnd, remoteClosed
  <2>3. ASSUME remoteClosed PROVE recvCh = <<>> /\ Len(read) = sent
    <3>1. Len(recvCh) = 0 /\ recvCh = <<>>
      BY <2>1, <2>3, Zenon
    <3> QED
      BY <3>1, <2>3, ArrivedSent
  <2> QED
    BY <1>0, <2>1, <2>2, <2>3, Zenon DEF Channel!ChannelEnd,
       Channel!ChannelNext, Channel!channelVars
<1>5. ASSUME \/ AnyPacket \/ EnqueueDecide \/ DispatchTake \/ DispatchTerminal \/ HandleData
             \/ DeliverAbandon \/ DeliverEnd \/ FinishReceiveACK \/ DispatchRelease \/ DispatchStop
      PROVE  [Channel!ChannelNext]_(Channel!channelVars)
  <2>1. UNCHANGED <<recvCh, read, app>> /\ (rState # "Closed" \/ rCloseErr' = rCloseErr)
    BY <1>5, ZenonT(30) DEF AnyPacket, EnqueueRead, EnqueueDecide, EnqueueDrop, EnqueueReplayACK,
                EnqueueOverflow, EnqueuePush, DispatchTake, DispatchTerminal, HandleData,
                DeliverAbandon, DeliverEnd, FinishReceiveACK, DispatchRelease, DispatchStop,
                CloseWithSource
  <2> QED
    BY <1>1, <2>1, Zenon
<1>6. ASSUME AckStep \/ RecvCloseStep
      PROVE  [Channel!ChannelNext]_(Channel!channelVars)
  <2>1. UNCHANGED <<recvCh, read, app>> /\ (rState # "Closed" \/ rCloseErr' = rCloseErr)
    BY <1>6, AckFrame, RecvCloseFrame, Zenon
  <2> QED
    BY <1>1, <2>1
<1> QED
  BY <1>2, <1>3, <1>4, <1>5, <1>6, Zenon DEF ReceiverStep, DispatchStep, AppStep, RecvCloseStep

\* One direction of a ReliableOrdered Relay implements the queue RelayChannel.
THEOREM LinkIsChannel == ASSUME BothOrdered PROVE Spec => IsChannel
<1>1. Init => Channel!ChannelInit
  BY Zenon DEF Init, SenderInit, ReceiverInit, Channel!ChannelInit, PeerEnd, FlushOutcome
<1>2. AllInv /\ AllInv' /\ [Next]_vars => [Channel!ChannelNext]_(Channel!channelVars)
  <2> SUFFICES ASSUME AllInv, AllInv', [Next]_vars
               PROVE  [Channel!ChannelNext]_(Channel!channelVars)
    BY Zenon
  <2>1. CASE SenderStep /\ UNCHANGED receiverVars
    BY <2>1, ChannelSenderStep, Zenon
  <2>2. CASE ReceiverStep /\ UNCHANGED senderVars
    BY <2>2, ChannelReceiverStep, Zenon
  <2>3. CASE NetData
    <3>1. PICK p \in dataNet : EnqueueRead(p)
      BY <2>3, Zenon DEF NetData
    <3>3. p \in Envelope /\ Genuine(p)
      BY NetPacket, Zenon DEF AllInv, TypeOK, SenderInv
    <3>4. AnyPacket /\ UNCHANGED senderVars
      BY <2>3, <3>1, <3>3, Zenon DEF AnyPacket, NetData
    <3> QED
      BY <3>4, ChannelReceiverStep, Zenon
  <2>4. CASE NetAck
    <3>1. AnyAck /\ UNCHANGED receiverVars
      BY <2>4, Zenon DEF NetAck, AnyAck, AllInv, TypeOK, ReceiverTypeOK, AckTypeOK
    <3> QED
      BY <3>1, ChannelSenderStep, Zenon
  <2>5. CASE UNCHANGED vars
    BY <2>5, Zenon DEF vars, senderVars, queueVars, callVars, flushVars, receiverVars, appVars,
                recvConnVars, Channel!channelVars, PeerEnd, FlushOutcome, remoteClosed
  <2> QED
    BY <2>1, <2>2, <2>3, <2>4, <2>5, Zenon DEF Next
<1> QED
  BY <1>1, <1>2, LinkInvariant, PTL DEF Spec, IsChannel, Channel!ChannelSpec
=============================================================================
