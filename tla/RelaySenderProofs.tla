------------------------- MODULE RelaySenderProofs --------------------------
(***************************************************************************)
(* The sending half of a RelayConnection, for every window, queue size,    *)
(* retry budget and number of messages: types, numbering and the queue,    *)
(* then window, slots, wake-ups and the retransmission timer, then what    *)
(* Flush and Close wait for.                                               *)
(***************************************************************************)
EXTENDS RelaySender, FiniteSetTheorems, TLAPS

\* What taking the head off a channel leaves.
LEMMA TakeHead ==
    ASSUME NEW S, NEW q \in Seq(S), q # <<>>
    PROVE  /\ Head(q) \in S /\ Head(q) = q[1]
           /\ Tail(q) \in Seq(S) /\ Len(q) \in Nat \ {0} /\ Len(Tail(q)) = Len(q) - 1
           /\ \A i \in 1..(Len(q) - 1) : Tail(q)[i] = q[i + 1]
OBVIOUS

\* What appending to a channel yields.
LEMMA PutLast ==
    ASSUME NEW S, NEW q \in Seq(S), NEW x \in S
    PROVE  /\ Append(q, x) \in Seq(S) /\ Len(q) \in Nat /\ Len(Append(q, x)) = Len(q) + 1
           /\ \A i \in 1..Len(q) : Append(q, x)[i] = q[i]
           /\ Append(q, x)[Len(q) + 1] = x
OBVIOUS

\* any ACK may reach handleAck
AnyAck == \E a \in Nat : HandleAck(a)

\* NewRelayConnection starts from a state of the right type.
LEMMA SenderTypeInit == SenderInit => SenderTypeOK
BY SenderAssumption DEF SenderInit, SenderTypeOK, Item, NoItem

\* The type invariant is inductive: one case per action of the sending half.
LEMMA SenderTypeStep ==
    ASSUME SenderTypeOK, [SenderStep \/ AnyAck]_senderVars
    PROVE  SenderTypeOK'
<1> USE SenderAssumption
<1> USE DEF SenderTypeOK, Item, Frame, Rpc, Packet, connVars, queueVars, seqVars,
            loopVars, rpcVars, callVars, flushVars, closeVars
<1>1. CASE SendBegin
  BY <1>1 DEF SendBegin
<1>2. CASE SendPush
  BY <1>2 DEF SendPush
<1>3. CASE SendFail
  BY <1>3 DEF SendFail
<1>4. CASE FlushBegin
  BY <1>4 DEF FlushBegin
<1>5. CASE FlushPush
  BY <1>5 DEF FlushPush
<1>6. CASE FlushPoll
  BY <1>6 DEF FlushPoll
<1>7. CASE FlushAbandon
  BY <1>7 DEF FlushAbandon
<1>8. CASE CloseCall
  BY <1>8 DEF CloseCall
<1>9. CASE CloseLock
  BY <1>9 DEF CloseLock
<1>10. CASE ClosePush
  BY <1>10 DEF ClosePush
<1>11. CASE CloseFlushed
  BY <1>11 DEF CloseFlushed
<1>12. CASE CloseAcked
  BY <1>12 DEF CloseAcked
<1>13. CASE CloseReceiveACK
  BY <1>13 DEF CloseReceiveACK
<1>14. CASE CloseTransmit
  BY <1>14 DEF CloseTransmit, ClosePacket
<1>15. CASE CloseSent
  BY <1>15 DEF CloseSent, CloseConnection
<1>16. CASE CloseReleased
  BY <1>16 DEF CloseReleased
<1>17. CASE CloseDeadline
  BY <1>17 DEF CloseDeadline, CloseConnection
<1>18. CASE LoopTake
  <2>1. held' \in Item /\ sendCh' \in Seq(Item) /\ Len(sendCh') <= SendCap
    <3> HIDE DEF Item
    <3>1. sendCh \in Seq(Item) /\ sendCh # <<>> /\ Len(sendCh) <= SendCap
      BY <1>18, Zenon DEF LoopTake
    <3>2. /\ Head(sendCh) \in Item /\ Tail(sendCh) \in Seq(Item)
          /\ Len(sendCh) \in Nat \ {0} /\ Len(Tail(sendCh)) = Len(sendCh) - 1
      BY <3>1, TakeHead, Zenon
    <3>3. held' = Head(sendCh) /\ sendCh' = Tail(sendCh)
      BY <1>18, Zenon DEF LoopTake
    <3>4. held' \in Item /\ sendCh' \in Seq(Item) /\ Len(sendCh') = Len(sendCh) - 1
      BY <3>2, <3>3, Zenon
    <3> QED
      BY <3>1, <3>2, <3>4
  <2>2. rpcs' \in SUBSET Rpc /\ loop' \in {"drain", "inline", "check"}
    BY <1>18, <2>1 DEF LoopTake
  <2> QED
    BY <1>18, <2>1, <2>2 DEF LoopTake
<1>19. CASE LoopCheck
  BY <1>19 DEF LoopCheck
<1>20. CASE LoopWake
  BY <1>20 DEF LoopWake
<1>21. CASE LoopSlot
  BY <1>21 DEF LoopSlot, NoItem
<1>22. CASE LoopDrain
  BY <1>22 DEF LoopDrain, NoItem
<1>23. CASE LoopTimer
  BY <1>23 DEF LoopTimer
<1>24. CASE LoopRetryDone
  BY <1>24 DEF LoopRetryDone, ResetRetryTimer
<1>25. CASE LoopExit
  BY <1>25 DEF LoopExit
<1>26. CASE RetryBegin
  BY <1>26 DEF RetryBegin, CloseConnection, RetryFinished, ResetRetryTimer
<1>27. CASE RetrySkip
  BY <1>27 DEF RetrySkip
<1>28. CASE RetrySend
  BY <1>28 DEF RetrySend
<1>29. CASE RetryEnd
  BY <1>29 DEF RetryEnd, RetryFinished, ResetRetryTimer
<1>30. CASE RpcTransmit
  BY <1>30 DEF RpcTransmit, DataPacket
<1>31. CASE RpcReturn
  BY <1>31, SMTT(30) DEF RpcReturn, InlineReturn, NoItem
<1>32. CASE RpcFail
  BY <1>32 DEF RpcFail, CloseConnection, InlineReturn, NoItem
<1>33. CASE SenderAbort
  BY <1>33 DEF SenderAbort, CloseConnection
<1>34. ASSUME NEW a \in Nat, HandleAck(a) PROVE SenderTypeOK'
  BY <1>34 DEF HandleAck
<1>35. CASE UNCHANGED senderVars
  BY <1>35 DEF senderVars
<1> QED
  BY <1>1, <1>2, <1>3, <1>4, <1>5, <1>6, <1>7, <1>8, <1>9, <1>10, <1>11, <1>12, <1>13, <1>14, <1>15,
     <1>16, <1>17, <1>18, <1>19, <1>20, <1>21, <1>22, <1>23, <1>24, <1>25, <1>26, <1>27, <1>28,
     <1>29, <1>30, <1>31, <1>32, <1>33, <1>34, <1>35, ZenonT(30)
     DEF SenderStep, CallSteps, LoopSteps, RetrySteps, RpcSteps, AnyAck

\* The sending half keeps its types.
THEOREM SenderTypeCorrect == SenderSpec => []SenderTypeOK
<1>1. SenderInit => SenderTypeOK
  BY SenderTypeInit, Zenon
<1>2. SenderTypeOK /\ [SenderNext]_senderVars => SenderTypeOK'
  BY SenderTypeStep, SenderAssumption DEF SenderNext, PeerAck, AnyAck
<1> QED
  BY <1>1, <1>2, PTL DEF SenderSpec

\* what QueueInv and NumberingInv speak of
numberVars == <<sent, sendCh, loop, held, nextSeq, sendBase, unacked, rpcs, frames, dataNet>>

\* A step that leaves the queue and the frames alone.
LEMMA Bystanders ==
    ASSUME \/ SendBegin \/ SendFail \/ FlushBegin \/ FlushPoll \/ FlushAbandon \/ CloseCall
           \/ CloseLock \/ CloseFlushed \/ CloseAcked \/ CloseReceiveACK \/ CloseSent
           \/ CloseReleased \/ CloseDeadline \/ SenderAbort \/ UNCHANGED senderVars
    PROVE  UNCHANGED numberVars
BY Zenon DEF SendBegin, SendFail, FlushBegin, FlushPoll, FlushAbandon, CloseCall, CloseLock,
   CloseFlushed, CloseAcked, CloseReceiveACK, CloseSent, CloseReleased, CloseDeadline, SenderAbort,
   numberVars, senderVars, connVars, queueVars, seqVars, loopVars, rpcVars, callVars, flushVars,
   closeVars

\* Outside LoopCheck and the wait for the window, the first DATA of sendCh is the next payload.
LEMMA HeadIsNext ==
    ASSUME SenderTypeOK, NumberingInv, QueueInv, loop = "select", sendCh # <<>>,
           sendCh[1].kind = "data"
    PROVE  sendCh[1].id = nextSeq /\ nextSeq <= sent
<1>1. Len(sendCh) \in Nat \ {0} /\ 1 \in 1..Len(sendCh)
  BY TakeHead DEF SenderTypeOK
<1>2. sendCh[1].id \in nextSeq..sent /\ nextSeq \in Nat /\ sent \in Nat
  BY <1>1 DEF QueueInv, Taken, IsDataAt, SenderTypeOK
<1>3. PICK i \in 1..Len(sendCh) : IsDataAt(i) /\ sendCh[i].id = nextSeq
  BY <1>2, SMTT(30) DEF QueueInv, Taken
<1>4. CASE i = 1
  BY <1>2, <1>3, <1>4
<1>5. CASE i # 1
  BY <1>1, <1>2, <1>3, <1>5 DEF QueueInv, IsDataAt
<1> QED
  BY <1>4, <1>5, Zenon

\* What LoopTake does to sendCh.
LEMMA TakeItem ==
    ASSUME SenderTypeOK, LoopTake
    PROVE  /\ Len(sendCh) \in Nat \ {0} /\ Len(sendCh') = Len(sendCh) - 1
           /\ held' = sendCh[1] /\ held' \in Item
           /\ \A i \in 1..Len(sendCh') : sendCh'[i] = sendCh[i + 1]
<1>1. sendCh \in Seq(Item) /\ sendCh # <<>> /\ held' = Head(sendCh) /\ sendCh' = Tail(sendCh)
  BY Zenon DEF SenderTypeOK, LoopTake
<1> QED
  BY <1>1, TakeHead, Zenon

\* Items of sendCh are items.
LEMMA ItemIds ==
    ASSUME SenderTypeOK
    PROVE  /\ held.id \in Nat /\ held.kind \in {"data", "barrier", "close"}
           /\ \A i \in 1..Len(sendCh) : sendCh[i] \in Item /\ sendCh[i].id \in Nat
<1>1. \A i \in 1..Len(sendCh) : sendCh[i] \in Item
  BY DEF SenderTypeOK
<1> QED
  BY <1>1, Zenon DEF SenderTypeOK, Item

\* What enqueueing does to sendCh.
LEMMA PushItem ==
    ASSUME SenderTypeOK, NEW x \in Item, sendCh' = Append(sendCh, x)
    PROVE  /\ Len(sendCh) \in Nat /\ Len(sendCh') = Len(sendCh) + 1
           /\ \A i \in 1..Len(sendCh) : sendCh'[i] = sendCh[i]
           /\ sendCh'[Len(sendCh) + 1] = x
<1>1. sendCh \in Seq(Item)
  BY Zenon DEF SenderTypeOK
<1> QED
  BY <1>1, PutLast, SMTT(30)

\* Frames keep the payload of their number.
LEMMA NumberingStep ==
    ASSUME Ordered, SenderTypeOK, NumberingInv, QueueInv, [SenderStep \/ AnyAck]_senderVars
    PROVE  NumberingInv'
<1> USE SenderAssumption
<1> USE DEF SenderTypeOK, Item, Frame, Rpc, Packet, connVars, queueVars, seqVars,
            loopVars, rpcVars, callVars, flushVars, closeVars, NumberingInv, Taken,
            Ordered, BestEffort
<1>1. CASE UNCHANGED numberVars
  BY <1>1, Zenon DEF numberVars
<1>2. CASE SendPush
  BY <1>2 DEF SendPush
<1>3. CASE FlushPush
  BY <1>3, Zenon DEF FlushPush
<1>4. CASE ClosePush
  BY <1>4, Zenon DEF ClosePush
<1>5. CASE CloseTransmit
  BY <1>5 DEF CloseTransmit, ClosePacket
<1>6. CASE LoopTake
  <2>1. held'.kind = "data" => held'.id = nextSeq /\ nextSeq <= sent
    BY <1>6, HeadIsNext, TakeItem, Zenon DEF LoopTake
  <2>2. /\ IF held'.kind # "data" THEN loop' = "drain" ELSE loop' = "check"
        /\ loop = "select"
        /\ UNCHANGED <<sent, nextSeq, sendBase, unacked, rpcs, frames, dataNet>>
    BY <1>6, Zenon DEF LoopTake
  <2> QED
    BY <2>1, <2>2, Zenon
<1>7. CASE LoopCheck
  BY <1>7, SMTT(30) DEF LoopCheck
<1>8. CASE LoopWake
  BY <1>8, Zenon DEF LoopWake
<1>9. CASE LoopSlot
  BY <1>9 DEF LoopSlot, NoItem
<1>10. CASE LoopDrain
  BY <1>10, Zenon DEF LoopDrain, NoItem
<1>11. CASE LoopTimer
  BY <1>11, Zenon DEF LoopTimer
<1>12. CASE LoopRetryDone
  BY <1>12, Zenon DEF LoopRetryDone
<1>13. CASE LoopExit
  BY <1>13 DEF LoopExit
<1>14. CASE RetryBegin
  BY <1>14 DEF RetryBegin
<1>15. CASE RetrySkip
  BY <1>15, Zenon DEF RetrySkip
<1>16. CASE RetrySend
  BY <1>16 DEF RetrySend
<1>17. CASE RetryEnd
  BY <1>17, Zenon DEF RetryEnd
<1>18. CASE RpcTransmit
  BY <1>18 DEF RpcTransmit, DataPacket
<1>19. CASE RpcReturn
  BY <1>19, Zenon DEF RpcReturn, InlineReturn, NoItem
<1>20. CASE RpcFail
  BY <1>20, Zenon DEF RpcFail, InlineReturn, NoItem
<1>21. ASSUME NEW a \in Nat, HandleAck(a) PROVE NumberingInv'
  BY <1>21 DEF HandleAck
<1> QED
  BY <1>1, <1>2, <1>3, <1>4, <1>5, <1>6, <1>7, <1>8, <1>9, <1>10, <1>11, <1>12, <1>13, <1>14,
     <1>15, <1>16, <1>17, <1>18, <1>19, <1>20, <1>21, Bystanders, ZenonT(30)
  DEF SenderStep, CallSteps, LoopSteps, RetrySteps, RpcSteps, AnyAck

\* sendCh keeps exactly the payloads that sendLoop has not taken, in order.
LEMMA QueueStep ==
    ASSUME Ordered, SenderTypeOK, NumberingInv, QueueInv, [SenderStep \/ AnyAck]_senderVars
    PROVE  QueueInv'
<1> USE DEF connVars, queueVars, seqVars, loopVars, rpcVars, callVars, flushVars,
            closeVars
<1>1. CASE UNCHANGED <<sent, sendCh>> /\ Taken' = Taken /\ (loop = "exited" => loop' = "exited")
  BY <1>1, Zenon DEF QueueInv, IsDataAt
<1>2. CASE SendPush
  <2>1. /\ [kind |-> "data", id |-> sent + 1] \in Item
        /\ sendCh' = Append(sendCh, [kind |-> "data", id |-> sent + 1])
        /\ sent' = sent + 1 /\ Taken' = Taken
    BY <1>2 DEF SendPush, Item, SenderTypeOK, Taken
  <2>2. Taken \in Nat /\ sent \in Nat /\ Taken <= sent /\ loop' = loop
    BY <1>2 DEF NumberingInv, Taken, SenderTypeOK, SendPush
  <2>3. /\ Len(sendCh) \in Nat /\ Len(sendCh') = Len(sendCh) + 1
        /\ \A i \in 1..Len(sendCh) : sendCh'[i] = sendCh[i]
        /\ sendCh'[Len(sendCh) + 1] = [kind |-> "data", id |-> sent + 1]
    BY <2>1, PushItem, Zenon
  <2>4. ASSUME NEW i \in 1..Len(sendCh'), sendCh'[i].kind = "data"
        PROVE  sendCh'[i].id \in (Taken + 1)..(sent + 1)
    BY <2>2, <2>3, <2>4 DEF QueueInv, IsDataAt
  <2>5. ASSUME NEW n \in (Taken + 1)..(sent + 1), loop # "exited"
        PROVE  \E i \in 1..Len(sendCh') : sendCh'[i].kind = "data" /\ sendCh'[i].id = n
    <3>1. CASE n = sent + 1
      BY <2>3, <3>1
    <3>2. CASE n # sent + 1
      <4>1. n \in (Taken + 1)..sent
        BY <2>2, <3>2
      <4>2. PICK i \in 1..Len(sendCh) : IsDataAt(i) /\ sendCh[i].id = n
        BY <2>5, <4>1, Zenon DEF QueueInv
      <4> QED
        BY <4>2, <2>3 DEF IsDataAt
    <3> QED
      BY <3>1, <3>2, Zenon
  <2>6. ASSUME NEW i \in 1..Len(sendCh'), NEW j \in 1..Len(sendCh'), i < j,
               sendCh'[i].kind = "data", sendCh'[j].kind = "data"
        PROVE  sendCh'[i].id < sendCh'[j].id
    <3>1. i \in 1..Len(sendCh) /\ sendCh'[i] = sendCh[i]
      BY <2>6, <2>3
    <3>2. CASE j = Len(sendCh) + 1
      BY <2>2, <2>3, <2>6, <3>1, <3>2 DEF QueueInv, IsDataAt
    <3>3. CASE j # Len(sendCh) + 1
      BY <2>3, <2>6, <3>1, <3>3 DEF QueueInv, IsDataAt
    <3> QED
      BY <3>2, <3>3, Zenon
  <2> QED
    BY <2>1, <2>2, <2>4, <2>5, <2>6, Zenon DEF QueueInv, IsDataAt
<1>3. CASE FlushPush \/ ClosePush
  <2>1. PICK x \in Item : x.kind # "data" /\ sendCh' = Append(sendCh, x)
    BY <1>3, Zenon DEF FlushPush, ClosePush, Item, SenderTypeOK
  <2>2. sent' = sent /\ Taken' = Taken /\ loop' = loop
    BY <1>3, Zenon DEF FlushPush, ClosePush, Taken
  <2>3. /\ Len(sendCh) \in Nat /\ Len(sendCh') = Len(sendCh) + 1
        /\ \A i \in 1..Len(sendCh) : sendCh'[i] = sendCh[i]
        /\ sendCh'[Len(sendCh) + 1] = x
    BY <2>1, PushItem, Zenon
  <2>4. \A i \in 1..Len(sendCh') :
           sendCh'[i].kind = "data" => i \in 1..Len(sendCh) /\ sendCh'[i] = sendCh[i]
    BY <2>1, <2>3
  <2>5. ASSUME NEW n \in (Taken + 1)..sent, loop # "exited"
        PROVE  \E i \in 1..Len(sendCh') : sendCh'[i].kind = "data" /\ sendCh'[i].id = n
    <3>1. PICK i \in 1..Len(sendCh) : IsDataAt(i) /\ sendCh[i].id = n
      BY <2>5, Zenon DEF QueueInv
    <3> QED
      BY <3>1, <2>3 DEF IsDataAt
  <2> QED
    BY <2>2, <2>4, <2>5, Zenon DEF QueueInv, IsDataAt
<1>4. CASE LoopTake
  <2>1. /\ loop = "select" /\ UNCHANGED <<sent, nextSeq>>
        /\ IF held'.kind = "data" THEN loop' = "check" ELSE loop' = "drain"
    BY <1>4, Zenon DEF LoopTake, Ordered, BestEffort
  <2>2. nextSeq \in Nat /\ sent \in Nat /\ Taken = nextSeq - 1
    BY <2>1, Zenon DEF SenderTypeOK, Taken
  <2>3. /\ Len(sendCh) \in Nat \ {0} /\ Len(sendCh') = Len(sendCh) - 1
        /\ \A i \in 1..Len(sendCh') : i + 1 \in 1..Len(sendCh) /\ sendCh'[i] = sendCh[i + 1]
        /\ \A i \in 1..Len(sendCh) : i = 1 \/ (i - 1 \in 1..Len(sendCh') /\ sendCh'[i - 1] = sendCh[i])
    BY <1>4, TakeItem
  <2>4. CASE held'.kind = "data"
    <3>1. sendCh[1].kind = "data" /\ sendCh[1].id = nextSeq /\ Taken' = nextSeq
      BY <1>4, <2>1, <2>4, TakeItem, HeadIsNext, Zenon DEF Taken, LoopTake
    <3> QED
      <4>1. ASSUME NEW i \in 1..Len(sendCh'), sendCh'[i].kind = "data"
            PROVE  sendCh'[i].id \in (nextSeq + 1)..sent
        <5>1. /\ 1 \in 1..Len(sendCh) /\ i + 1 \in 1..Len(sendCh) /\ 1 < i + 1
              /\ sendCh[i + 1].kind = "data" /\ sendCh'[i] = sendCh[i + 1]
          BY <2>3, <4>1
        <5>2. sendCh[i + 1].id \in nextSeq..sent /\ sendCh[1].id < sendCh[i + 1].id
          BY <2>2, <3>1, <5>1 DEF QueueInv, IsDataAt
        <5> QED
          BY <2>2, <3>1, <5>1, <5>2, SMTT(30)
      <4>2. ASSUME NEW n \in (nextSeq + 1)..sent
            PROVE  \E i \in 1..Len(sendCh') : sendCh'[i].kind = "data" /\ sendCh'[i].id = n
        <5>1. PICK i \in 1..Len(sendCh) : IsDataAt(i) /\ sendCh[i].id = n
          BY <2>1, <2>2, SMTT(30) DEF QueueInv
        <5>2. n # nextSeq /\ i # 1
          BY <2>2, <3>1, <5>1
        <5>3. i - 1 \in 1..Len(sendCh') /\ sendCh'[i - 1] = sendCh[i]
          BY <2>3, <5>2, Zenon
        <5> QED
          BY <5>1, <5>3, Zenon DEF IsDataAt
      <4>3. ASSUME NEW i \in 1..Len(sendCh'), NEW j \in 1..Len(sendCh'), i < j,
                   sendCh'[i].kind = "data", sendCh'[j].kind = "data"
            PROVE  sendCh'[i].id < sendCh'[j].id
        <5>1. /\ i + 1 \in 1..Len(sendCh) /\ j + 1 \in 1..Len(sendCh) /\ i + 1 < j + 1
              /\ sendCh'[i] = sendCh[i + 1] /\ sendCh'[j] = sendCh[j + 1]
          BY <2>3, <4>3, SMTT(30)
        <5> QED
          BY <4>3, <5>1 DEF QueueInv, IsDataAt
      <4> QED
        BY <2>1, <3>1, <4>1, <4>2, <4>3, Zenon DEF QueueInv, IsDataAt
  <2>5. CASE held'.kind # "data"
    <3>1. sendCh[1].kind # "data" /\ Taken' = Taken
      BY <1>4, <2>1, <2>5, TakeItem, Zenon DEF Taken
    <3> QED
      <4>1. ASSUME NEW i \in 1..Len(sendCh'), sendCh'[i].kind = "data"
            PROVE  sendCh'[i].id \in (Taken + 1)..sent
        BY <2>3, <4>1, SMTT(30) DEF QueueInv, IsDataAt
      <4>2. ASSUME NEW n \in (Taken + 1)..sent
            PROVE  \E i \in 1..Len(sendCh') : sendCh'[i].kind = "data" /\ sendCh'[i].id = n
        <5>1. PICK i \in 1..Len(sendCh) : IsDataAt(i) /\ sendCh[i].id = n
          BY <2>1, Zenon DEF QueueInv
        <5> QED
          BY <2>3, <3>1, <5>1, Zenon DEF IsDataAt
      <4>3. ASSUME NEW i \in 1..Len(sendCh'), NEW j \in 1..Len(sendCh'), i < j,
                   sendCh'[i].kind = "data", sendCh'[j].kind = "data"
            PROVE  sendCh'[i].id < sendCh'[j].id
        <5>1. /\ i + 1 \in 1..Len(sendCh) /\ j + 1 \in 1..Len(sendCh) /\ i + 1 < j + 1
              /\ sendCh'[i] = sendCh[i + 1] /\ sendCh'[j] = sendCh[j + 1]
          BY <2>3, <4>3
        <5> QED
          BY <4>3, <5>1 DEF QueueInv, IsDataAt
      <4> QED
        BY <2>1, <3>1, <4>1, <4>2, <4>3, ZenonT(30) DEF QueueInv, IsDataAt
  <2> QED
    BY <2>4, <2>5, Zenon
<1>5. CASE UNCHANGED numberVars
  BY <1>5, <1>1, Zenon DEF numberVars, Taken
<1>6. CASE LoopCheck
  BY <1>6, <1>1 DEF LoopCheck, Taken, SenderTypeOK
<1>7. CASE LoopWake \/ LoopSlot \/ LoopDrain \/ LoopTimer \/ LoopRetryDone \/ LoopExit
  <2>1. CASE loop = "window"
    <3>1. CASE LoopExit
      BY <2>1, <3>1, SMTT(30) DEF LoopExit, Taken, QueueInv, IsDataAt, SenderTypeOK
    <3>2. CASE LoopWake \/ LoopSlot \/ LoopDrain
      BY <1>1, <2>1, <3>2, Zenon DEF LoopWake, LoopSlot, LoopDrain, Taken
    <3>3. CASE LoopTimer \/ LoopRetryDone
      BY <1>1, <2>1, <3>3, Zenon DEF LoopTimer, LoopRetryDone, Taken
    <3> QED
      BY <1>7, <3>1, <3>2, <3>3, Zenon
  <2>2. CASE loop # "window"
    BY <1>7, <1>1, <2>2, Zenon DEF LoopWake, LoopSlot, LoopDrain, LoopTimer, LoopRetryDone, LoopExit, Taken
  <2> QED
    BY <2>1, <2>2, Zenon
<1>8. CASE RetrySteps \/ RpcSteps \/ CloseTransmit
  BY <1>8, <1>1, Zenon DEF RetrySteps, RetryBegin, RetrySkip, RetrySend, RetryEnd, RpcSteps,
     RpcTransmit,
     RpcReturn, RpcFail, InlineReturn, CloseTransmit, NumberingInv, Taken
<1>9. ASSUME NEW a \in Nat, HandleAck(a) PROVE QueueInv'
  BY <1>9, <1>1, Zenon DEF HandleAck, Taken
<1> QED
  BY <1>1, <1>2, <1>3, <1>4, <1>5, <1>6, <1>7, <1>8, <1>9, Bystanders, Zenon
  DEF SenderStep, CallSteps, LoopSteps, AnyAck
-----------------------------------------------------------------------------

\* Window, wake-up and retransmission timer: each needs only its own neighbours.
WakeInv == UnackedIsWindow /\ IsFiniteSet(rpcs) /\ NoSilentStall /\ NoLostWakeup

(* There is at least one slot for an acceptance RPC.                           *)
LEMMA SlotLimitType == SlotLimit \in Nat \ {0}
BY SenderAssumption, Zenon DEF SlotLimit

\* The RPCs of one step: at most one more, when a slot is free.
LEMMA SlotStep ==
    ASSUME SenderTypeOK, IsFiniteSet(rpcs), Cardinality(rpcs) <= SlotLimit,
           [SenderStep \/ AnyAck]_senderVars
    PROVE  IsFiniteSet(rpcs') /\ Cardinality(rpcs') <= SlotLimit
<1> USE SenderAssumption, SlotLimitType
<1>1. CASE rpcs' = rpcs
  BY <1>1, Zenon
<1>2. CASE \E r : rpcs' = rpcs \cup {r} /\ Cardinality(rpcs) < SlotLimit
  <2>1. PICK r : rpcs' = rpcs \cup {r} /\ Cardinality(rpcs) < SlotLimit
    BY <1>2, Zenon
  <2>2. Cardinality(rpcs) \in Nat
    BY FS_CardinalityType, Zenon
  <2>3. /\ IsFiniteSet(rpcs \cup {r})
        /\ Cardinality(rpcs \cup {r}) = Cardinality(rpcs) \/ Cardinality(rpcs \cup {r}) = Cardinality(rpcs) + 1
    BY FS_AddElement, Zenon
  <2> QED
    BY <2>1, <2>2, <2>3
<1>3. CASE \E r : rpcs' = rpcs \ {r}
  <2>1. PICK r : rpcs' = rpcs \ {r}
    BY <1>3, Zenon
  <2>2. Cardinality(rpcs) \in Nat
    BY FS_CardinalityType
  <2>3. /\ IsFiniteSet(rpcs \ {r})
        /\ Cardinality(rpcs \ {r}) = Cardinality(rpcs) \/ Cardinality(rpcs \ {r}) = Cardinality(rpcs) - 1
    BY FS_RemoveElement, Zenon
  <2> QED
    BY <2>1, <2>2, <2>3
<1>4. CASE \E r : rpcs' = {r}
  <2>1. PICK r : rpcs' = {r}
    BY <1>4, Zenon
  <2>2. IsFiniteSet({r}) /\ Cardinality({r}) = 1
    BY FS_Singleton, ZenonT(30)
  <2> QED
    BY <2>1, <2>2
<1>5. CASE LoopTake
  BY <1>5, <1>1, <1>4, ZenonT(30) DEF LoopTake
<1>6. CASE LoopSlot \/ RetrySend
  BY <1>6, <1>2, ZenonT(30) DEF LoopSlot, RetrySend
<1>7. CASE RpcReturn \/ RpcFail
  BY <1>7, <1>3, Zenon DEF RpcReturn, RpcFail
<1>8. CASE LoopCheck \/ LoopWake \/ LoopDrain \/ LoopTimer \/ LoopRetryDone \/ LoopExit
  BY <1>8, <1>1, Zenon DEF LoopCheck, LoopWake, LoopDrain, LoopTimer, LoopRetryDone, LoopExit, rpcVars
<1>9. CASE RetryBegin \/ RetrySkip \/ RetryEnd \/ RpcTransmit \/ AnyAck
  BY <1>9, <1>1, Zenon DEF RetryBegin, RetrySkip, RetryEnd, RpcTransmit, AnyAck, HandleAck, rpcVars
<1>10. CASE SendPush \/ FlushPush \/ ClosePush \/ CloseTransmit
  BY <1>10, <1>1, Zenon DEF SendPush, FlushPush, ClosePush, CloseTransmit, rpcVars
<1>11. CASE UNCHANGED numberVars
  BY <1>11, <1>1, Zenon DEF numberVars
<1> QED
  BY <1>5, <1>6, <1>7, <1>8, <1>9, <1>10, <1>11, Bystanders, Zenon
  DEF SenderStep, CallSteps, LoopSteps, RetrySteps, RpcSteps

\* a step that leaves the window alone and neither puts sendLoop to sleep nor
\* drops the timer of a live connection with frames to repeat
WakeKept ==
    /\ UNCHANGED <<nextSeq, sendBase, unacked>>
    /\ loop' = "window" => loop = "window" /\ ackCh' = ackCh
    /\ sState = "Closed" => sState' = "Closed"
    /\ \/ sState' = "Closed" \/ unacked = {} \/ timer' = "armed" \/ retry' # "none"
       \/ timer' = timer /\ retry' = retry

\* Such a step keeps WakeInv.
LEMMA WakeAside ==
    ASSUME WakeInv, WakeKept, IsFiniteSet(rpcs'), Cardinality(rpcs') <= SlotLimit
    PROVE  WakeInv'
BY Zenon DEF WakeInv, WakeKept, UnackedIsWindow, NoSilentStall, NoLostWakeup

\* The steps of Send, Flush and Close, and of the RPCs, are such steps.
LEMMA WakeCalls ==
    ASSUME CallSteps \/ RpcSteps \/ SenderAbort
    PROVE  WakeKept
<1> USE DEF WakeKept, connVars, queueVars, seqVars, loopVars, rpcVars
<1>1. CASE SendBegin \/ SendPush \/ SendFail
  BY <1>1, Zenon DEF SendBegin, SendPush, SendFail
<1>2. CASE FlushBegin \/ FlushPush \/ FlushPoll \/ FlushAbandon
  BY <1>2, Zenon DEF FlushBegin, FlushPush, FlushPoll, FlushAbandon
<1>3. CASE CloseCall \/ CloseLock \/ ClosePush \/ CloseFlushed \/ CloseAcked
  BY <1>3, Zenon DEF CloseCall, CloseLock, ClosePush, CloseFlushed, CloseAcked, CloseConnection
<1>4. CASE CloseReceiveACK \/ CloseTransmit \/ CloseSent \/ CloseReleased \/ CloseDeadline
  BY <1>4, Zenon DEF CloseReceiveACK, CloseTransmit, CloseSent, CloseReleased, CloseDeadline,
     CloseConnection
<1>5. CASE RpcTransmit \/ RpcReturn
  BY <1>5, Zenon DEF RpcTransmit, RpcReturn, InlineReturn
<1>6. CASE RpcFail \/ SenderAbort
  BY <1>6, Zenon DEF RpcFail, InlineReturn, SenderAbort, CloseConnection
<1> QED
  BY <1>1, <1>2, <1>3, <1>4, <1>5, <1>6, Zenon DEF CallSteps, RpcSteps

\* So are the steps of sendLoop that number no frame, and those of a retry round.
LEMMA WakeLoop ==
    ASSUME \/ LoopTake \/ LoopWake \/ LoopSlot \/ LoopDrain \/ LoopTimer \/ LoopRetryDone
           \/ LoopExit \/ RetrySteps
    PROVE  WakeKept
<1> USE DEF WakeKept, connVars, queueVars, seqVars, loopVars, rpcVars
<1>1. CASE LoopTake
  BY <1>1, Zenon DEF LoopTake
<1>2. CASE LoopWake \/ LoopSlot
  BY <1>2, Zenon DEF LoopWake, LoopSlot
<1>3. CASE LoopDrain \/ LoopTimer \/ LoopExit
  BY <1>3, Zenon DEF LoopDrain, LoopTimer, LoopExit
<1>4. CASE LoopRetryDone \/ RetryEnd
  BY <1>4, Zenon DEF LoopRetryDone, RetryEnd, RetryFinished, ResetRetryTimer
<1>5. CASE RetryBegin
  BY <1>5, Zenon DEF RetryBegin, RetryFinished, ResetRetryTimer, CloseConnection
<1>6. CASE RetrySkip \/ RetrySend
  BY <1>6, Zenon DEF RetrySkip, RetrySend
<1> QED
  BY <1>1, <1>2, <1>3, <1>4, <1>5, <1>6, ZenonT(30) DEF RetrySteps

\* WakeInv is inductive for every reliability.
LEMMA WakeStep ==
    ASSUME SenderTypeOK, WakeInv, [SenderStep \/ AnyAck]_senderVars
    PROVE  WakeInv'
<1>1. IsFiniteSet(rpcs') /\ Cardinality(rpcs') <= SlotLimit
  BY SlotStep, Zenon DEF WakeInv, UnackedIsWindow
<1>2. CASE LoopCheck
  <2>1. CASE nextSeq - sendBase >= WindowSize
    <3>1. loop' = "window" /\ UNCHANGED <<nextSeq, sendBase, unacked, timer, sState, retry>>
      BY <1>2, <2>1, Zenon DEF LoopCheck, connVars, rpcVars
    <3>2. ~(nextSeq - sendBase < WindowSize)
      BY <2>1, SenderAssumption, SMTT(30) DEF SenderTypeOK
    <3> QED
      BY <1>1, <3>1, <3>2, Zenon DEF NoSilentStall, NoLostWakeup, WakeInv, UnackedIsWindow
  <2>2. CASE ~(nextSeq - sendBase >= WindowSize)
    <3>1. /\ nextSeq' = nextSeq + 1 /\ unacked' = unacked \cup {[seq |-> nextSeq, id |-> held.id]}
          /\ timer' = "armed" /\ loop' = "slot" /\ UNCHANGED <<sendBase, sState, retry>>
      BY <1>2, <2>2, Zenon DEF LoopCheck, connVars, rpcVars
    <3>2. {f.seq : f \in unacked'} = {f.seq : f \in unacked} \cup {nextSeq}
      <4> DEFINE x == [seq |-> nextSeq, id |-> held.id]
      <4>1. x.seq = nextSeq
        BY Zenon
      <4>2. unacked' = unacked \cup {x}
        BY <3>1, Zenon
      <4> HIDE DEF x
      <4> QED
        BY <4>1, <4>2, Zenon
    <3>3. /\ nextSeq \in Nat /\ sendBase \in Nat /\ WindowSize \in Nat
          /\ nextSeq - sendBase \in 0..WindowSize /\ {f.seq : f \in unacked} = sendBase..(nextSeq - 1)
      BY SenderAssumption, Zenon DEF SenderTypeOK, WakeInv, UnackedIsWindow
    <3>4. (sendBase..(nextSeq - 1)) \cup {nextSeq} = sendBase..((nextSeq + 1) - 1)
      BY <3>3, SMTT(30)
    <3>5. (nextSeq + 1) - sendBase \in 0..WindowSize
      BY <2>2, <3>3, SMTT(30)
    <3>6. UnackedIsWindow'
      BY <1>1, <3>1, <3>2, <3>3, <3>4, <3>5, Zenon DEF UnackedIsWindow
    <3> QED
      BY <1>1, <3>1, <3>6, Zenon DEF NoSilentStall, NoLostWakeup, WakeInv
  <2> QED
    BY <2>1, <2>2, Zenon
<1>3. ASSUME NEW a \in Nat, HandleAck(a) PROVE WakeInv'
  <2>1. /\ a >= sendBase /\ a < nextSeq /\ unacked' = {f \in unacked : f.seq > a}
        /\ sendBase' = a + 1 /\ ackCh' = 1 /\ UNCHANGED <<nextSeq, sState, loop, timer, retry>>
    BY <1>3, ZenonT(30) DEF HandleAck, connVars, loopVars, rpcVars
  <2>2. {f.seq : f \in unacked'} = {n \in sendBase..(nextSeq - 1) : n > a}
    BY <2>1, Zenon DEF WakeInv, UnackedIsWindow
  <2>3. {f.seq : f \in unacked'} = (a + 1)..(nextSeq - 1)
    BY <2>1, <2>2, SMTT(30) DEF SenderTypeOK
  <2>4. nextSeq - sendBase' \in 0..WindowSize
    BY <2>1, SenderAssumption, SMTT(30) DEF SenderTypeOK, WakeInv, UnackedIsWindow
  <2>5. UnackedIsWindow'
    BY <1>1, <2>1, <2>3, <2>4, Zenon DEF UnackedIsWindow
  <2> QED
    BY <1>1, <2>1, <2>5, Zenon DEF NoSilentStall, NoLostWakeup, WakeInv
<1>4. CASE WakeKept
  BY <1>1, <1>4, WakeAside, Zenon
<1>5. CASE UNCHANGED senderVars
  BY <1>4, <1>5, Zenon DEF WakeKept, senderVars, connVars, seqVars, loopVars, rpcVars
<1> QED
  BY <1>2, <1>3, <1>4, <1>5, WakeCalls, WakeLoop, Zenon DEF SenderStep, LoopSteps, AnyAck

\* The invariant behind the next three theorems.
LEMMA WakeInvariant == SenderSpec => [](SenderTypeOK /\ WakeInv)
<1>1. SenderInit => SenderTypeOK /\ WakeInv
  <2> SUFFICES ASSUME SenderInit PROVE SenderTypeOK /\ WakeInv
    BY Zenon
  <2>1. /\ rpcs = {} /\ unacked = {} /\ nextSeq = 1 /\ sendBase = 1
        /\ loop = "select"
    BY Zenon DEF SenderInit
  <2>2. IsFiniteSet(rpcs) /\ Cardinality(rpcs) <= SlotLimit
    BY <2>1, FS_EmptySet, SlotLimitType
  <2>3. {f.seq : f \in unacked} = sendBase..(nextSeq - 1)
    BY <2>1
  <2>4. nextSeq - sendBase \in 0..WindowSize
    BY <2>1, SenderAssumption
  <2> QED
    BY <2>1, <2>2, <2>3, <2>4, SenderTypeInit, Zenon DEF WakeInv, UnackedIsWindow, NoSilentStall,
       NoLostWakeup
<1>2. (SenderTypeOK /\ WakeInv) /\ [SenderNext]_senderVars => (SenderTypeOK /\ WakeInv)'
  BY SenderTypeStep, WakeStep, SenderAssumption DEF SenderNext, PeerAck, AnyAck
<1> QED
  BY <1>1, <1>2, PTL DEF SenderSpec

\* For every reliability, window and slot count: the unacknowledged frames are
\* sendBase..nextSeq-1 and fit the window, and the RPCs fit the slots.
THEOREM WindowCorrect == SenderSpec => []UnackedIsWindow
BY WakeInvariant, PTL DEF WakeInv

\* For every reliability: a live connection with unacknowledged frames always
\* has its retransmission timer armed or a retry round under way.
THEOREM NoSilentStallCorrect == SenderSpec => []NoSilentStall
BY WakeInvariant, PTL DEF WakeInv

\* For every reliability: sendLoop never sleeps on a window that has opened.
THEOREM NoLostWakeupCorrect == SenderSpec => []NoLostWakeup
BY WakeInvariant, PTL DEF WakeInv

(***************************************************************************)
(* What Flush and Close wait for: the invariants of the barrier and of the *)
(* item of Close.                                                          *)
(***************************************************************************)
\* what FlushInv speaks of
barrierVars == <<sent, sendCh, loop, held, nextSeq, sendBase, flushVars>>

\* handleAck moves the base of the window forwards, and nothing the calls wait for.
LEMMA AckMoves ==
    ASSUME SenderTypeOK, NEW a \in Nat, HandleAck(a)
    PROVE  /\ sendBase \in Nat /\ sendBase' \in Nat /\ nextSeq \in Nat
           /\ sendBase < sendBase' /\ sendBase' <= nextSeq
           /\ UNCHANGED <<sState, enqueueMu, sendCh, sent, loop, held, nextSeq, rpcs, flushVars, flushCh,
                          closer, closeRpc, dataNet>>
BY DEF HandleAck, SenderTypeOK, connVars, queueVars, loopVars, rpcVars, callVars, closeVars

\* SenderInv holds at the start, whatever the constants.
LEMMA SenderInvInit ==
    ASSUME SenderInit
    PROVE  SenderTypeOK /\ SenderInv
<1>1. SenderTypeOK
  BY SenderTypeInit, Zenon
<1>2. NumberingInv /\ QueueInv
  BY SMTT(30) DEF SenderInit, NumberingInv, QueueInv, Taken, IsDataAt, NoItem
<1>3. FlushInv /\ AcceptedInv
  BY DEF SenderInit, FlushInv, AcceptedInv
<1>4. CloseInv
  BY DEF SenderInit, CloseInv, CloseQueued, Taken, IsDataAt, ClosePacket
<1> QED
  BY <1>1, <1>2, <1>3, <1>4, Zenon DEF SenderInv

\* The server has accepted what was sent before the barrier when Flush returns nil.
LEMMA AcceptedStep ==
    ASSUME Ordered, SenderTypeOK, NumberingInv, FlushInv, AcceptedInv,
           [SenderStep \/ AnyAck]_senderVars
    PROVE  AcceptedInv'
<1> USE DEF connVars, queueVars, seqVars, loopVars, rpcVars, callVars, flushVars,
            closeVars, AcceptedInv, SenderTypeOK, Rpc
<1>1. CASE UNCHANGED <<rpcs, loop, nextSeq, flush, flushMark, flushTarget>>
  BY <1>1, Zenon
<1>2. CASE FlushBegin \/ FlushPush \/ FlushAbandon
  BY <1>2, Zenon DEF FlushBegin, FlushPush, FlushAbandon
<1>3. CASE FlushPoll
  BY <1>3, SMTT(30) DEF FlushPoll, FlushInv
<1>4. CASE LoopTake
  BY <1>4, Zenon DEF LoopTake, Ordered, BestEffort
<1>5. CASE LoopCheck
  BY <1>5, SMTT(30) DEF LoopCheck, FlushInv, NumberingInv
<1>6. CASE LoopSlot
  BY <1>6, SMTT(30) DEF LoopSlot, NumberingInv
<1>7. CASE LoopDrain
  BY <1>7, Zenon DEF LoopDrain
<1>8. CASE LoopWake \/ LoopTimer \/ LoopRetryDone \/ LoopExit
  BY <1>8, Zenon DEF LoopWake, LoopTimer, LoopRetryDone, LoopExit
<1>9. CASE RetrySend
  BY <1>9, SMTT(30) DEF RetrySend
<1>10. CASE RpcReturn
  BY <1>10, Zenon DEF RpcReturn, InlineReturn, NumberingInv
<1>11. CASE RpcFail
  BY <1>11, Zenon DEF RpcFail, InlineReturn, NumberingInv
<1>12. CASE RetryBegin \/ RetrySkip \/ RetryEnd \/ RpcTransmit
  BY <1>12, <1>1, Zenon DEF RetryBegin, RetrySkip, RetryEnd, RpcTransmit
<1>13. ASSUME NEW a \in Nat, HandleAck(a) PROVE AcceptedInv'
  BY <1>13, <1>1, AckMoves, Zenon
<1>14. CASE SendBegin \/ SendPush \/ SendFail \/ SenderAbort \/ UNCHANGED senderVars
  BY <1>14, <1>1, Zenon DEF SendBegin, SendPush, SendFail, SenderAbort, senderVars
<1>15. CASE \/ CloseCall \/ CloseLock \/ ClosePush \/ CloseFlushed \/ CloseAcked
            \/ CloseReceiveACK \/ CloseTransmit \/ CloseSent \/ CloseReleased \/ CloseDeadline
  BY <1>15, <1>1, Zenon DEF CloseCall, CloseLock, ClosePush, CloseFlushed, CloseAcked,
     CloseReceiveACK,
     CloseTransmit, CloseSent, CloseReleased, CloseDeadline
<1> QED
  BY <1>2, <1>3, <1>4, <1>5, <1>6, <1>7, <1>8, <1>9, <1>10, <1>11, <1>12, <1>13, <1>14, <1>15,
     Zenon DEF SenderStep, CallSteps, LoopSteps, RetrySteps, RpcSteps, AnyAck

\* What was sent before a barrier is acknowledged when Flush returns nil.
LEMMA FlushStep ==
    ASSUME Ordered, SenderTypeOK, NumberingInv, QueueInv, FlushInv,
           [SenderStep \/ AnyAck]_senderVars
    PROVE  FlushInv'
<1> USE DEF connVars, queueVars, seqVars, loopVars, rpcVars, callVars, flushVars,
            closeVars, barrierVars
<1>1. CASE UNCHANGED barrierVars
  BY <1>1, Zenon DEF FlushInv, BarrierInv, IsDataAt
<1>13. ASSUME NEW a \in Nat, HandleAck(a) PROVE FlushInv'
  <2>1. /\ flush' = flush /\ flushMark' = flushMark /\ flushMark \in Nat
        /\ \A b, from : BarrierInv(b, from)' = BarrierInv(b, from)
    BY <1>13, AckMoves, Zenon DEF SenderTypeOK, BarrierInv, IsDataAt
  <2> QED
    BY <1>13, <2>1, AckMoves, SMTT(30) DEF FlushInv
<1>15. ASSUME UNCHANGED <<sent, sendCh, nextSeq, sendBase, flushVars>>,
              loop' # "drain" \/ UNCHANGED <<loop, held>>
       PROVE  FlushInv'
  BY <1>15, Zenon DEF FlushInv, BarrierInv, IsDataAt
<1>11. CASE LoopWake \/ LoopSlot \/ LoopTimer \/ LoopRetryDone \/ LoopExit
  BY <1>11, <1>15, Zenon DEF LoopWake, LoopSlot, LoopTimer, LoopRetryDone, LoopExit
<1>12. CASE RetrySteps \/ RpcSteps \/ CloseTransmit
  BY <1>12, <1>1, Zenon DEF RetrySteps, RetryBegin, RetrySkip, RetrySend, RetryEnd, RpcSteps,
     RpcTransmit,
     RpcReturn, RpcFail, InlineReturn, CloseTransmit, NumberingInv
<1>14. CASE SendBegin \/ SendFail \/ SenderAbort \/ UNCHANGED senderVars
  BY <1>14, <1>1, Zenon DEF SendBegin, SendFail, SenderAbort, senderVars
<1>16. CASE CloseCall \/ CloseLock \/ CloseFlushed \/ CloseAcked
  BY <1>16, <1>1, Zenon DEF CloseCall, CloseLock, CloseFlushed, CloseAcked
<1>17. CASE CloseReceiveACK \/ CloseSent \/ CloseReleased \/ CloseDeadline
  BY <1>17, <1>1, Zenon DEF CloseReceiveACK, CloseSent, CloseReleased, CloseDeadline
<1>2. CASE SendPush
  <2>1. /\ [kind |-> "data", id |-> sent + 1] \in Item
        /\ sendCh' = Append(sendCh, [kind |-> "data", id |-> sent + 1])
        /\ sent' = sent + 1 /\ sent \in Nat /\ flushMark \in Nat /\ flushMark <= sent
        /\ UNCHANGED <<loop, held, nextSeq, sendBase, flushVars>>
    BY <1>2, SMTT(30) DEF SendPush, Item, SenderTypeOK, FlushInv
  <2>2. /\ Len(sendCh) \in Nat /\ Len(sendCh') = Len(sendCh) + 1
        /\ \A i \in 1..Len(sendCh) : sendCh'[i] = sendCh[i]
        /\ sendCh'[Len(sendCh) + 1] = [kind |-> "data", id |-> sent + 1]
    BY <2>1, PushItem, Zenon
  <2>3. ASSUME NEW b, NEW from \in Nat \ {0}, BarrierInv(b, from)
        PROVE  BarrierInv(b, from)'
    BY <2>1, <2>2, <2>3 DEF BarrierInv, IsDataAt
  <2> QED
    BY <2>1, <2>2, <2>3, SMTT(30) DEF FlushInv
<1>3. CASE FlushPush
  <2> DEFINE x == [kind |-> "barrier", id |-> flushNo]
  <2>1. /\ x \in Item /\ sendCh' = Append(sendCh, x) /\ flush = "enqueue" /\ flush' = "barrier"
        /\ flushMark' = sent /\ sent \in Nat /\ flushNo \in Nat
        /\ UNCHANGED <<sent, loop, held, nextSeq, sendBase, flushNo, flushTarget>>
    BY <1>3, Zenon DEF FlushPush, Item, SenderTypeOK
  <2>2. /\ Len(sendCh) \in Nat /\ Len(sendCh') = Len(sendCh) + 1
        /\ \A i \in 1..Len(sendCh) : sendCh'[i] = sendCh[i]
        /\ sendCh'[Len(sendCh) + 1] = x
    BY <2>1, PushItem, Zenon
  <2>3. ASSUME NEW b, NEW from \in Nat, BarrierInv(b, from), b.id \in Nat
        PROVE  BarrierInv(b, from)'
    BY <2>1, <2>3 DEF BarrierInv
  <2>4. BarrierInv(x, Len(sendCh) + 2)'
    BY <2>1, <2>2 DEF BarrierInv
  <2>5. /\ held.id \in Nat
        /\ \A i \in 1..Len(sendCh) : sendCh[i].id \in Nat
    BY ItemIds, Zenon
  <2>6. ASSUME NEW i \in 1..Len(sendCh'), sendCh'[i].kind = "barrier"
        PROVE  BarrierInv(sendCh[i], i + 1)'
    <3>1. CASE i = Len(sendCh) + 1
      BY <2>1, <2>2, <3>1 DEF BarrierInv
    <3>2. CASE i # Len(sendCh) + 1
      <4>1. i \in 1..Len(sendCh) /\ sendCh'[i] = sendCh[i] /\ i + 1 \in Nat
        BY <2>2, <3>2
      <4>2. BarrierInv(sendCh[i], i + 1) /\ sendCh[i].id \in Nat
        BY <2>5, <2>6, <4>1, Zenon DEF FlushInv
      <4> QED
        BY <2>1, <4>1, <4>2 DEF BarrierInv
    <3> QED
      BY <3>1, <3>2, Zenon
  <2>7. loop' = "drain" /\ held'.kind = "barrier" => BarrierInv(held, 1)'
    BY <2>1, <2>5 DEF FlushInv, BarrierInv
  <2> QED
    BY <2>1, <2>6, <2>7 DEF FlushInv
<1>4. CASE ClosePush
  <2> DEFINE x == [kind |-> "close", id |-> 0]
  <2>1. /\ x \in Item /\ sendCh' = Append(sendCh, x)
        /\ UNCHANGED <<sent, loop, held, nextSeq, sendBase, flushVars>>
    BY <1>4, Zenon DEF ClosePush, Item
  <2>2. /\ Len(sendCh) \in Nat /\ Len(sendCh') = Len(sendCh) + 1
        /\ \A i \in 1..Len(sendCh) : sendCh'[i] = sendCh[i]
        /\ sendCh'[Len(sendCh) + 1] = x
    BY <2>1, PushItem, Zenon
  <2>3. ASSUME NEW b, NEW from \in Nat \ {0}, BarrierInv(b, from)
        PROVE  BarrierInv(b, from)'
    BY <2>1, <2>2, <2>3 DEF BarrierInv, IsDataAt
  <2> QED
    BY <2>1, <2>2, <2>3, SMTT(30) DEF FlushInv
<1>5. CASE FlushBegin
  <2>1. /\ flushNo' = flushNo + 1 /\ flushNo \in Nat /\ flush' \in {"enqueue", "failed"}
        /\ UNCHANGED <<sent, sendCh, loop, held, nextSeq, sendBase, flushMark, flushTarget>>
    BY <1>5, Zenon DEF FlushBegin, SenderTypeOK
  <2>2. held.id \in Nat /\ \A i \in 1..Len(sendCh) : sendCh[i].id \in Nat
    BY ItemIds, Zenon
  <2>3. ASSUME NEW b, NEW from, BarrierInv(b, from), b.id \in Nat
        PROVE  BarrierInv(b, from)'
    BY <2>1, <2>3 DEF BarrierInv
  <2> QED
    BY <2>1, <2>2, <2>3, ZenonT(30) DEF FlushInv, BarrierInv
<1>6. CASE FlushPoll
  <2>1. /\ flush = "poll" /\ flush' = "ok" /\ \A f \in unacked : f.seq >= flushTarget
        /\ UNCHANGED <<sent, sendCh, loop, held, nextSeq, sendBase, flushNo, flushMark, flushTarget>>
    BY <1>6, Zenon DEF FlushPoll
  <2>2. /\ sendBase \in Nat /\ nextSeq \in Nat /\ flushMark \in Nat /\ flushTarget \in Nat
        /\ flushMark < flushTarget /\ flushTarget <= nextSeq
    BY <2>1, Zenon DEF SenderTypeOK, FlushInv
  <2>3. flushMark < sendBase
    <3>1. CASE sendBase \in sendBase..(nextSeq - 1)
      <4>1. [seq |-> sendBase, id |-> sendBase] \in unacked
        BY <3>1, Zenon DEF NumberingInv
      <4> QED
        BY <2>1, <2>2, <4>1
    <3>2. CASE sendBase \notin sendBase..(nextSeq - 1)
      BY <2>2, <3>2
    <3> QED
      BY <3>1, <3>2, Zenon
  <2>4. ASSUME NEW b, NEW from, BarrierInv(b, from)
        PROVE  BarrierInv(b, from)'
    BY <2>1, <2>4, Zenon DEF BarrierInv
  <2> QED
    BY <2>1, <2>3, <2>4, Zenon DEF FlushInv
<1>7. CASE FlushAbandon
  BY <1>7, Zenon DEF FlushAbandon, FlushInv, BarrierInv, IsDataAt, SenderTypeOK
<1>8. CASE LoopTake
  <2>1. /\ loop = "select" /\ UNCHANGED <<sent, nextSeq, sendBase, flushVars>>
    BY <1>8, Zenon DEF LoopTake
  <2>2. /\ Len(sendCh) \in Nat \ {0} /\ Len(sendCh') = Len(sendCh) - 1
        /\ held' = sendCh[1]
        /\ \A i \in 1..Len(sendCh') : i + 1 \in 1..Len(sendCh) /\ sendCh'[i] = sendCh[i + 1]
    BY <1>8, TakeItem
  <2>4. ASSUME NEW i \in 1..Len(sendCh'), sendCh'[i].kind = "barrier"
        PROVE  BarrierInv(sendCh[i], i + 1)'
    <3>1. sendCh'[i] = sendCh[i + 1] /\ i + 1 \in 1..Len(sendCh) /\ i + 1 \in Nat
      BY <2>2
    <3>2. BarrierInv(sendCh[i + 1], (i + 1) + 1)
      BY <2>4, <3>1, Zenon DEF FlushInv
    <3> QED
      BY <2>1, <2>2, <3>1, <3>2, SMTT(30) DEF BarrierInv, IsDataAt
  <2>5. held'.kind = "barrier" => BarrierInv(held, 1)'
    <3>1. held'.kind = "barrier" => BarrierInv(sendCh[1], 1 + 1)
      BY <2>2, SMTT(30) DEF FlushInv
    <3> QED
      BY <2>1, <2>2, <3>1 DEF BarrierInv, IsDataAt
  <2> QED
    BY <2>1, <2>4, <2>5, Zenon DEF FlushInv
<1>9. CASE LoopDrain
  <2>1. /\ loop = "drain" /\ loop' = "select"
        /\ UNCHANGED <<sent, sendCh, nextSeq, sendBase, flushNo, flushMark>>
        /\ \/ UNCHANGED <<flush, flushTarget>>
           \/ /\ held.kind # "close" /\ flush = "barrier" /\ held.id = flushNo
              /\ flush' = "poll" /\ flushTarget' = nextSeq
    BY <1>9, Zenon DEF LoopDrain
  <2>2. ASSUME NEW b, NEW from, BarrierInv(b, from)
        PROVE  BarrierInv(b, from)'
    BY <2>1, <2>2, Zenon DEF BarrierInv, IsDataAt
  <2>3. CASE UNCHANGED <<flush, flushTarget>>
    BY <2>1, <2>2, <2>3, Zenon DEF FlushInv
  <2>4. CASE /\ held.kind # "close" /\ flush = "barrier" /\ held.id = flushNo
             /\ flush' = "poll" /\ flushTarget' = nextSeq
    <3>1. nextSeq \in Nat /\ flushMark \in Nat /\ sent \in Nat /\ flushMark <= sent /\ Taken = nextSeq - 1
      BY <2>1, Zenon DEF SenderTypeOK, FlushInv, Taken
    <3>2. flushMark < nextSeq
      <4>1. held.kind = "barrier"
        BY <2>1, <2>4, ItemIds, Zenon DEF NumberingInv
      <4>2. \A i \in 1..Len(sendCh) : IsDataAt(i) => sendCh[i].id > flushMark
        BY <2>1, <2>4, <4>1, Zenon DEF FlushInv, BarrierInv
      <4>3. CASE flushMark \in (Taken + 1)..sent
        <5>1. PICK i \in 1..Len(sendCh) : IsDataAt(i) /\ sendCh[i].id = flushMark
          BY <2>1, <4>3, Zenon DEF QueueInv
        <5> QED
          BY <3>1, <4>2, <5>1, SMTT(30)
      <4>4. CASE flushMark \notin (Taken + 1)..sent
        BY <3>1, <4>4, SMTT(30)
      <4> QED
        BY <4>3, <4>4, Zenon
    <3> QED
      BY <2>1, <2>2, <2>4, <3>1, <3>2, SMTT(30) DEF FlushInv
  <2> QED
    BY <2>1, <2>3, <2>4, Zenon
<1>10. CASE LoopCheck
  BY <1>10, SMTT(30) DEF LoopCheck, FlushInv, BarrierInv, IsDataAt, SenderTypeOK
<1> QED
  BY <1>2, <1>3, <1>4, <1>5, <1>6, <1>7, <1>8, <1>9, <1>10, <1>11, <1>12, <1>13, <1>14, SMTT(30),
     <1>16, <1>17 DEF SenderStep, CallSteps, LoopSteps, AnyAck

\* A step that at most ends the connection keeps CloseInv.
LEMMA CloseAside ==
    ASSUME CloseInv, UNCHANGED <<enqueueMu, sendCh, sent, loop, held, nextSeq, sendBase,
                                 closeVars, dataNet>>,
           sState' = sState \/ sState' = "Closed", flush' = flush \/ flush' # "enqueue"
    PROVE  CloseInv'
BY Zenon DEF CloseInv, CloseQueued, Taken, IsDataAt, closeVars

\* An ACK keeps CloseInv: it moves sendBase only while a frame is unacknowledged.
LEMMA CloseAck ==
    ASSUME SenderTypeOK, CloseInv, NEW a \in Nat, HandleAck(a)
    PROVE  CloseInv'
<1>1. /\ sendBase \in Nat /\ nextSeq \in Nat /\ sendBase < nextSeq
      /\ UNCHANGED <<sState, enqueueMu, sendCh, sent, loop, held, nextSeq, flush, flushCh,
                     closer, closeRpc, dataNet>>
  BY AckMoves, SMTT(30) DEF flushVars
<1>2. sendBase # nextSeq
  BY <1>1
<1> QED
  BY <1>1, <1>2, Zenon DEF CloseInv, CloseQueued, Taken, IsDataAt

\* An item that is not DATA may follow that of Close.
LEMMA AfterClose ==
    ASSUME NEW item, item.kind # "data", SenderTypeOK, sendCh' = Append(sendCh, item),
           \A i, j \in 1..Len(sendCh) : i < j /\ sendCh[i].kind = "close" => sendCh[j].kind # "data"
    PROVE  /\ \A i, j \in 1..Len(sendCh') : i < j /\ sendCh'[i].kind = "close" => sendCh'[j].kind # "data"
           /\ \A i \in 1..Len(sendCh') : sendCh'[i] = item \/ (i \in 1..Len(sendCh) /\ sendCh'[i] = sendCh[i])
<1>1. sendCh \in Seq(Item) /\ Len(sendCh) \in Nat
  BY DEF SenderTypeOK
<1>2. /\ Len(sendCh') = Len(sendCh) + 1 /\ sendCh'[Len(sendCh) + 1] = item
      /\ \A i \in 1..Len(sendCh) : sendCh'[i] = sendCh[i]
  BY <1>1
<1> QED
  BY <1>1, <1>2

\* Send, Flush and Close keep CloseInv.
LEMMA CloseCalls ==
    ASSUME Ordered, SenderTypeOK, NumberingInv, QueueInv, CloseInv, CallSteps
    PROVE  CloseInv'
<1> USE DEF connVars, queueVars, seqVars, loopVars, rpcVars, callVars, flushVars,
            closeVars, CloseInv, CloseQueued, Taken, IsDataAt
<1>1. CASE SendBegin
  BY <1>1, ZenonT(30) DEF SendBegin
<1>2. CASE SendPush
  <2>1. /\ sendCh' = Append(sendCh, [kind |-> "data", id |-> sent']) /\ enqueueMu = "send"
        /\ UNCHANGED <<connVars, seqVars, loopVars, rpcVars, callVars, dataNet>>
    BY <1>2, Zenon DEF SendPush
  <2>2. ~CloseQueued /\ flush # "enqueue" /\ closer # "enqueue"
    BY <2>1
  <2>3. \A i \in 1..Len(sendCh') : sendCh'[i].kind # "close"
    <3>1. Len(sendCh) \in Nat /\ \A i \in 1..Len(sendCh) : sendCh[i].kind # "close"
      BY <2>2 DEF SenderTypeOK
    <3> HIDE DEF CloseInv
    <3> QED
      BY <2>1, <3>1, SMTT(30) DEF SenderTypeOK
  <2> QED
    BY <2>1, <2>2, <2>3, ZenonT(30)
<1>3. CASE SendFail
  BY <1>3, Zenon DEF SendFail
<1>4. CASE FlushBegin
  BY <1>4, ZenonT(30) DEF FlushBegin
<1>5. CASE FlushPush
  <2> DEFINE item == [kind |-> "barrier", id |-> flushNo]
  <2>1. /\ sendCh' = Append(sendCh, item) /\ flush = "enqueue" /\ enqueueMu' = "free" /\ flush' = "barrier"
        /\ UNCHANGED <<connVars, sent, seqVars, loopVars, rpcVars, closeVars, dataNet>>
    BY <1>5, Zenon DEF FlushPush
  <2>2. item.kind = "barrier"
    OBVIOUS
  <2> HIDE DEF item
  <2>3. /\ \A i, j \in 1..Len(sendCh') : i < j /\ sendCh'[i].kind = "close" => sendCh'[j].kind # "data"
        /\ \A i \in 1..Len(sendCh') : sendCh'[i] = item \/ (i \in 1..Len(sendCh) /\ sendCh'[i] = sendCh[i])
    BY <2>1, <2>2, AfterClose
  <2> QED
    BY <2>1, <2>2, <2>3, ZenonT(30)
<1>6. CASE FlushPoll
  <2> HIDE DEF CloseInv
  <2> QED
    BY <1>6, CloseAside, Zenon DEF FlushPoll
<1>7. CASE FlushAbandon
  BY <1>7, Zenon DEF FlushAbandon
<1>8. CASE CloseCall
  BY <1>8, Zenon DEF CloseCall
<1>9. CASE CloseLock
  BY <1>9, Zenon DEF CloseLock
<1>10. CASE ClosePush
  <2> DEFINE item == [kind |-> "close", id |-> 0]
  <2>1. /\ sendCh' = Append(sendCh, item) /\ closer = "enqueue" /\ enqueueMu' = "free" /\ closer' = "flush"
        /\ UNCHANGED <<connVars, sent, seqVars, loopVars, rpcVars, flushVars, flushCh, closeRpc, dataNet>>
    BY <1>10, Zenon DEF ClosePush
  <2>2. item.kind = "close"
    OBVIOUS
  <2> HIDE DEF item
  <2>3. \A i, j \in 1..Len(sendCh') : i < j /\ sendCh'[i].kind = "close" => sendCh'[j].kind # "data"
    BY <2>1, <2>2, AfterClose
  <2> QED
    BY <2>1, <2>2, <2>3, ZenonT(30)
<1>11. CASE CloseFlushed
  BY <1>11, Zenon DEF CloseFlushed, Ordered, BestEffort
<1>12. CASE CloseAcked
  <2>1. sendBase = nextSeq
    <3>1. sendBase \in 1..nextSeq /\ nextSeq \in Nat /\ unacked = {}
      BY <1>12, Zenon DEF CloseAcked, NumberingInv, SenderTypeOK
    <3>2. sendBase \notin sendBase..(nextSeq - 1)
      BY <3>1, ZenonT(30) DEF NumberingInv
    <3> QED
      BY <3>1, <3>2, SMTT(30)
  <2> QED
    BY <1>12, <2>1, Zenon DEF CloseAcked
<1>13. CASE CloseReceiveACK
  BY <1>13, Zenon DEF CloseReceiveACK
<1>14. CASE CloseTransmit
  BY <1>14, Zenon DEF CloseTransmit, ClosePacket
<1>15. CASE CloseSent
  BY <1>15, Zenon DEF CloseSent, CloseConnection
<1>16. CASE CloseReleased
  BY <1>16, Zenon DEF CloseReleased
<1>17. CASE CloseDeadline
  BY <1>17 DEF CloseDeadline, CloseConnection
<1> QED
  BY <1>1, <1>2, <1>3, <1>4, <1>5, <1>6, <1>7, <1>8, <1>9, <1>10, <1>11, <1>12, <1>13, <1>14,
     <1>15, <1>16, <1>17, ZenonT(30) DEF CallSteps

\* sendLoop keeps CloseInv.
LEMMA CloseLoop ==
    ASSUME Ordered, SenderTypeOK, NumberingInv, QueueInv, CloseInv, LoopSteps
    PROVE  CloseInv'
<1> USE DEF connVars, queueVars, seqVars, loopVars, rpcVars, callVars, flushVars,
            closeVars, CloseInv, CloseQueued, Taken, IsDataAt
<1>1. CASE LoopTake
  <2>1. /\ loop = "select"
        /\ UNCHANGED <<sState, enqueueMu, sent, nextSeq, sendBase, flush, closeVars, dataNet>>
        /\ IF held'.kind = "data" THEN loop' = "check" ELSE loop' = "drain"
    BY <1>1, Zenon DEF LoopTake, Ordered, BestEffort
  <2>2. /\ Len(sendCh) \in Nat \ {0} /\ Len(sendCh') = Len(sendCh) - 1
        /\ held' = sendCh[1] /\ 1 \in 1..Len(sendCh)
        /\ \A i \in 1..Len(sendCh') : i + 1 \in 1..Len(sendCh) /\ sendCh'[i] = sendCh[i + 1]
    BY <1>1, TakeItem, SMTT(30)
  <2>3. nextSeq \in Nat /\ sent \in Nat /\ nextSeq - 1 <= sent
    BY <2>1, Zenon DEF SenderTypeOK, NumberingInv
  <2>4. sendCh[1].kind = "data" => sendCh[1].id = nextSeq /\ nextSeq <= sent
    BY <1>1, <2>1, HeadIsNext, Zenon DEF LoopTake
  <2>5. sendCh[1].kind = "close" => nextSeq - 1 = sent
    <3>1. CASE nextSeq \in ((nextSeq - 1) + 1)..sent
      <4>1. PICK j \in 1..Len(sendCh) : sendCh[j].kind = "data"
        BY <2>1, <3>1, Zenon DEF QueueInv
      <4> QED
        BY <2>2, <4>1, SMTT(30)
    <3>2. CASE nextSeq \notin ((nextSeq - 1) + 1)..sent
      BY <2>3, <3>2, SMTT(30)
    <3> QED
      BY <3>1, <3>2, Zenon
  <2>6. CloseQueued' => CloseQueued
    BY <2>1, <2>2, Zenon
  <2>7. ASSUME NEW i \in 1..Len(sendCh'), NEW j \in 1..Len(sendCh'), i < j, sendCh'[i].kind = "close"
        PROVE  sendCh'[j].kind # "data"
    <3>1. /\ i + 1 \in 1..Len(sendCh) /\ j + 1 \in 1..Len(sendCh) /\ i + 1 < j + 1
          /\ sendCh'[i] = sendCh[i + 1] /\ sendCh'[j] = sendCh[j + 1]
      BY <2>2, <2>7
    <3> QED
      BY <2>7, <3>1, Zenon
  <2>8. flushCh = "closed" => sendCh[1].kind # "data"
    BY <2>1, <2>3, <2>4, SMTT(30)
  <2>9. flushCh = "closed" => loop' = "drain"
    BY <2>1, <2>2, <2>8, Zenon
  <2>10. (loop' = "drain" /\ held'.kind = "close") \/ flushCh = "closed" => Taken' = sent
    <3>1. (loop' = "drain" /\ held'.kind = "close") \/ flushCh = "closed" =>
             loop' = "drain" /\ nextSeq - 1 = sent
      BY <2>1, <2>2, <2>5, <2>9, Zenon
    <3> QED
      BY <2>1, <3>1, Zenon
  <2>11. \A i, j \in 1..Len(sendCh') : i < j /\ sendCh'[i].kind = "close" => sendCh'[j].kind # "data"
    BY <2>7, Zenon
  <2> QED
    <3> HIDE DEF CloseQueued
    <3> QED
      BY <2>1, <2>6, <2>9, <2>10, <2>11, Zenon
<1>2. CASE LoopCheck
  BY <1>2, Zenon DEF LoopCheck
<1>3. CASE LoopWake
  BY <1>3, Zenon DEF LoopWake
<1>4. CASE LoopSlot
  BY <1>4, Zenon DEF LoopSlot
<1>5. CASE LoopDrain
  BY <1>5, Zenon DEF LoopDrain
<1>6. CASE LoopTimer
  BY <1>6, Zenon DEF LoopTimer
<1>7. CASE LoopRetryDone
  BY <1>7, Zenon DEF LoopRetryDone
<1>8. CASE LoopExit
  BY <1>8, Zenon DEF LoopExit
<1> QED
  BY <1>1, <1>2, <1>3, <1>4, <1>5, <1>6, <1>7, <1>8, ZenonT(30) DEF LoopSteps

\* Nothing is sent behind the item of Close, and CLOSE waits for every ACK.
LEMMA CloseStep ==
    ASSUME Ordered, SenderTypeOK, NumberingInv, QueueInv, CloseInv,
           [SenderStep \/ AnyAck]_senderVars
    PROVE  CloseInv'
<1> USE DEF connVars, queueVars, seqVars, loopVars, rpcVars, callVars, flushVars, closeVars
<1>1. CASE SenderAbort
  BY <1>1, CloseAside, Zenon DEF SenderAbort, CloseConnection
<1>2. CASE RetryBegin
  BY <1>2, CloseAside, Zenon DEF RetryBegin, CloseConnection
<1>3. CASE RetrySkip \/ RetrySend \/ RetryEnd
  BY <1>3, CloseAside, Zenon DEF RetrySkip, RetrySend, RetryEnd
<1>4. CASE RpcTransmit
  BY <1>4, Zenon DEF RpcTransmit, DataPacket, ClosePacket, CloseInv, CloseQueued, Taken, IsDataAt
<1>5. CASE RpcReturn
  <2>1. UNCHANGED <<loop, held>>
    BY <1>5, Zenon DEF RpcReturn, InlineReturn, NumberingInv
  <2> QED
    BY <1>5, <2>1, CloseAside, Zenon DEF RpcReturn
<1>6. CASE RpcFail
  <2>1. UNCHANGED <<loop, held>>
    BY <1>6, Zenon DEF RpcFail, InlineReturn, NumberingInv
  <2> QED
    BY <1>6, <2>1, CloseAside, Zenon DEF RpcFail, CloseConnection
<1>7. CASE UNCHANGED senderVars
  BY <1>7, CloseAside, Zenon DEF senderVars
<1> QED
  BY <1>1, <1>2, <1>3, <1>4, <1>5, <1>6, <1>7, CloseCalls, CloseLoop, CloseAck, ZenonT(30)
  DEF SenderStep, RetrySteps, RpcSteps, AnyAck

\* The inductive invariant of the sending half, under any ACKs.
LEMMA SenderInvStep ==
    ASSUME Ordered, SenderTypeOK, SenderInv, [SenderStep \/ AnyAck]_senderVars
    PROVE  SenderTypeOK' /\ SenderInv'
BY SenderTypeStep, NumberingStep, QueueStep, FlushStep, AcceptedStep, CloseStep, Zenon DEF SenderInv

\* What the inductive invariant says of Flush and of Close.
LEMMA SenderInvSafe ==
    ASSUME Ordered, SenderTypeOK, SenderInv
    PROVE  FlushCovers /\ CloseAfterAcks
<1>1. FlushCovers
  <2> SUFFICES ASSUME flush = "ok" PROVE FlushCovers
    BY Zenon DEF FlushCovers
  <2>1. /\ flushMark \in Nat /\ sendBase \in Nat /\ nextSeq \in Nat /\ Taken \in Nat
        /\ flushMark < sendBase /\ sendBase <= nextSeq /\ nextSeq <= Taken + 1
    BY SMTT(30) DEF SenderTypeOK, SenderInv, FlushInv, NumberingInv, Taken
  <2>2. ASSUME NEW i \in 1..Len(sendCh), sendCh[i].kind = "data"
        PROVE  sendCh[i].id > flushMark
    <3>1. sendCh[i].id \in (Taken + 1)..sent /\ sent \in Nat
      BY <2>2, Zenon DEF SenderInv, QueueInv, IsDataAt, SenderTypeOK
    <3> QED
      BY <2>1, <3>1, SMTT(30)
  <2>3. loop \in {"check", "window", "slot", "inline"} => held.id > flushMark
    BY <2>1, SMTT(30) DEF SenderInv, NumberingInv, AcceptedInv
  <2>4. \A f \in unacked : f.id > flushMark
    BY <2>1, SMTT(30) DEF SenderInv, NumberingInv
  <2> QED
    BY <2>2, <2>3, <2>4, Zenon DEF FlushCovers, SenderInv, AcceptedInv
<1>2. CloseAfterAcks
  <2> SUFFICES ASSUME ClosePacket \in dataNet PROVE CloseAfterAcks
    BY Zenon DEF CloseAfterAcks
  <2>1. /\ flushCh = "closed" /\ Taken = sent /\ sendBase = nextSeq
        /\ loop \notin {"check", "window", "slot", "inline"}
        /\ sent \in Nat /\ nextSeq \in Nat
    BY Zenon DEF SenderInv, CloseInv, NumberingInv, SenderTypeOK
  <2>2. Taken = nextSeq - 1
    BY <2>1, Zenon DEF Taken
  <2>3. ~\E i \in 1..Len(sendCh) : sendCh[i].kind = "data"
    BY <2>1 DEF SenderInv, QueueInv, IsDataAt
  <2> QED
    BY <2>1, <2>2, <2>3 DEF CloseAfterAcks
<1> QED
  BY <1>1, <1>2, Zenon

\* The inductive invariant holds with ReliableOrdered.
LEMMA SenderInvariant ==
    ASSUME Ordered
    PROVE  SenderSpec => [](SenderTypeOK /\ SenderInv)
<1>1. SenderInit => SenderTypeOK /\ SenderInv
  BY SenderInvInit, Zenon
<1>2. (SenderTypeOK /\ SenderInv) /\ [SenderNext]_senderVars => (SenderTypeOK /\ SenderInv)'
  BY SenderInvStep, SenderAssumption DEF SenderNext, PeerAck, AnyAck
<1> QED
  BY <1>1, <1>2, PTL DEF SenderSpec

\* With ReliableOrdered, Flush that returns nil covers every earlier Send: each
\* is numbered, accepted and acknowledged, for every window, queue and number
\* of calls, whatever ACKs arrive and whatever fails.
THEOREM FlushCoversCorrect ==
    ASSUME Ordered
    PROVE  SenderSpec => []FlushCovers
<1>1. SenderTypeOK /\ SenderInv => FlushCovers
  BY SenderInvSafe, Zenon
<1> QED
  BY <1>1, SenderInvariant, PTL

\* With ReliableOrdered, the CLOSE frame leaves only after every Send that
\* returned nil has been numbered and acknowledged.
THEOREM CloseAfterAcksCorrect ==
    ASSUME Ordered
    PROVE  SenderSpec => []CloseAfterAcks
<1>1. SenderTypeOK /\ SenderInv => CloseAfterAcks
  BY SenderInvSafe, Zenon
<1> QED
  BY <1>1, SenderInvariant, PTL
=============================================================================
