------------------------ MODULE RelayReceiverProofs -------------------------
(***************************************************************************)
(* The receiving half of a RelayConnection, for every window, queue size   *)
(* and number of packets, whatever a peer sends whose frame n always       *)
(* carries payload n: the order of delivery, the ACKs and what Close waits *)
(* for; then what it stores: a frame it admits fits the reorder window,    *)
(* and all frames together fit the budget.                                 *)
(***************************************************************************)
EXTENDS RelayReceiver, FiniteSetTheorems, TLAPS

\* What taking the head off a channel leaves.
LEMMA ChanHead ==
    ASSUME NEW S, NEW q \in Seq(S), q # <<>>
    PROVE  /\ Head(q) \in S /\ Head(q) = q[1]
           /\ Tail(q) \in Seq(S) /\ Len(q) \in Nat \ {0} /\ Len(Tail(q)) = Len(q) - 1
           /\ \A i \in 1..(Len(q) - 1) : Tail(q)[i] = q[i + 1]
OBVIOUS

\* What appending to a channel yields.
LEMMA ChanPut ==
    ASSUME NEW S, NEW q \in Seq(S), NEW x \in S
    PROVE  /\ Append(q, x) \in Seq(S) /\ Len(q) \in Nat /\ Len(Append(q, x)) = Len(q) + 1
           /\ \A i \in 1..Len(q) : Append(q, x)[i] = q[i]
           /\ Append(q, x)[Len(q) + 1] = x
OBVIOUS

\* A set of numbers that is not empty has a least one.
LEMMA LeastNat ==
    ASSUME NEW T \in SUBSET Nat, T # {}
    PROVE  \E x \in T : \A y \in T : x <= y
<1> DEFINE R == OpToRel(<, Nat)
<1>1. IsWellFoundedOn(R, Nat)
  BY NatLessThanWellFounded, Zenon
<1>2. \A x, y \in Nat : y < x => <<y, x>> \in R
  BY Zenon DEF OpToRel
<1> HIDE DEF R
<1>3. PICK x \in T : \A y \in T : ~ (<<y, x>> \in R)
  BY <1>1, WFMin, Zenon
<1>4. ASSUME NEW y \in T PROVE x <= y
  <2>1. x \in Nat /\ y \in Nat /\ ~(<<y, x>> \in R)
    BY <1>3, Zenon
  <2>2. ~(y < x)
    BY <1>2, <2>1, Zenon
  <2> QED
    BY <2>1, <2>2
<1> QED
  BY <1>4, Zenon

\* A finite set leaves a number free within as many steps as it has elements.
LEMMA FirstFree ==
    ASSUME NEW S, IsFiniteSet(S), NEW n \in Nat
    PROVE  /\ Cardinality(S) \in Nat
           /\ \E m \in n..(n + Cardinality(S)) : m \notin S /\ \A k \in n..(m - 1) : k \in S
<1> DEFINE c == Cardinality(S)
           T == {m \in n..(n + c) : m \notin S}
<1>1. c \in Nat
  BY FS_CardinalityType, Zenon
<1> HIDE DEF c
<1>2. T # {}
  <2> SUFFICES ASSUME n..(n + c) \subseteq S PROVE FALSE
    BY Zenon
  <2>1. n..(n + c) \in SUBSET S /\ n \in Int /\ n + c \in Int
    BY <1>1
  <2>2. Cardinality(n..(n + c)) <= c
    BY <2>1, FS_Subset, Zenon DEF c
  <2>3. Cardinality(n..(n + c)) = c + 1
    BY <1>1, <2>1, FS_Interval
  <2> QED
    BY <1>1, <2>2, <2>3
<1>3. T \in SUBSET Nat
  BY <1>1
<1>4. PICK m \in T : \A y \in T : m <= y
  BY <1>2, <1>3, LeastNat, Zenon
<1>5. m \in n..(n + c) /\ m \notin S
  BY <1>4, Zenon
<1>6. ASSUME NEW k \in n..(m - 1) PROVE k \in S
  <2>1. k \in n..(n + c) /\ ~(m <= k)
    BY <1>1, <1>5
  <2> QED
    BY <1>4, <2>1, Zenon
<1> QED
  BY <1>1, <1>5, <1>6, Zenon DEF c

\* any packet of such a peer may reach enqueueEnvelope
AnyPacket == \E env \in Envelope : Genuine(env) /\ EnqueueRead(env)

\* The invariant holds at the start, whatever the constants.
LEMMA ReceiverInvInit == ReceiverInit => ReceiverTypeOK /\ ReceiverInv
<1> SUFFICES ASSUME ReceiverInit PROVE ReceiverTypeOK /\ ReceiverInv
  BY Zenon
<1>1. IsFiniteSet(recvBuf) /\ IsFiniteSet(Seqs(recvBuf))
  <2>1. recvBuf = {} /\ Seqs(recvBuf) = {}
    BY Zenon DEF ReceiverInit, Seqs
  <2> QED
    BY <2>1, FS_EmptySet, Zenon
<1>2. ReceiverTypeOK
  BY <1>1, SMTT(30) DEF ReceiverInit, ReceiverTypeOK, StreamTypeOK, AckTypeOK, NoCall, NoEnvelope
<1>3. ReceiverInv
  BY <1>1, SMTT(30) DEF ReceiverInit, ReceiverInv, GenuineInv, OrderInv, AckInv, EndInv, NoCall,
     NoEnvelope,
              Genuine, remoteClosed
<1> QED
  BY <1>2, <1>3, Zenon

\* Once a CLOSE of the peer has taken effect nothing more reaches recvCh, and
\* the application sees the end after the last payload.
LEMMA EndStep ==
    ASSUME RecvOrdered, ReceiverTypeOK, GenuineInv, OrderInv, EndInv
    PROVE  [ReceiverStep \/ AnyPacket]_receiverVars => EndInv'
<1> USE DEF receiverVars, recvConnVars, orderVars, appVars, rCloseVars, inboxVars, dispatchVars,
            ackVars, EndInv, remoteClosed
<1>1. ASSUME AnyPacket \/ EnqueueDrop \/ EnqueueReplayACK \/ EnqueuePush \/ DispatchTake \/ HandleData
             \/ Deliver \/ DeliverAbandon \/ DeliverEnd \/ FinishReceiveACK \/ DispatchRelease
             \/ DispatchStop \/ RCloseCall \/ RCloseSend \/ UNCHANGED receiverVars
      PROVE  EndInv'
  BY <1>1, Zenon DEF AnyPacket, EnqueueRead, EnqueueDrop, EnqueueReplayACK, EnqueuePush,
     DispatchTake,
              HandleData, Deliver, DeliverAbandon, DeliverEnd, FinishReceiveACK, DispatchRelease,
              DispatchStop, RCloseCall, RCloseSend
<1>2. ASSUME EnqueueOverflow \/ DispatchTerminal PROVE EndInv'
  BY <1>2, Zenon DEF EnqueueOverflow, DispatchTerminal, CloseWithSource
<1>5. ASSUME RCloseSent \/ ReceiverAbort PROVE EndInv'
  BY <1>5, Zenon DEF RCloseSent, ReceiverAbort, CloseWithSource
<1>3. ASSUME AckStep PROVE EndInv'
  BY <1>3, Zenon DEF AckStep, AckWake, AckTake, AckTransmit, AckSent, AckReject, AckFail, AckFailClose, AckExit,
              CloseWithSource
<1>4. ASSUME AppRead \/ AppEnd PROVE EndInv'
  BY <1>4, Zenon DEF AppRead, AppEnd
<1> QED
  BY <1>1, <1>2, <1>3, <1>4, <1>5, Zenon DEF ReceiverStep, EnqueueDecide, DispatchStep, AppStep

\* The frontier of a finite set of numbers exists.
LEMMA FrontierFacts ==
    ASSUME NEW n \in Nat, NEW S, IsFiniteSet(S)
    PROVE  /\ Frontier(n, S) \in Nat /\ Frontier(n, S) >= n /\ Frontier(n, S) \notin S
           /\ \A k \in n..(Frontier(n, S) - 1) : k \in S
<1>1. /\ Cardinality(S) \in Nat
      /\ \E m \in n..(n + Cardinality(S)) : m \notin S /\ \A k \in n..(m - 1) : k \in S
  BY FirstFree, Zenon
<1>2. /\ Frontier(n, S) \in n..(n + Cardinality(S)) /\ Frontier(n, S) \notin S
      /\ \A k \in n..(Frontier(n, S) - 1) : k \in S
  BY <1>1, Zenon DEF Frontier
<1> QED
  BY <1>1, <1>2

\* The batch that handleData moves out of recvBuf when the expected frame arrives.
LEMMA Batch ==
    ASSUME RecvOrdered, ReceiverTypeOK, GenuineInv, HandleData, active.seq = expectedSeq,
           active.kind = "data"
    PROVE  /\ expectedSeq' \in Nat /\ expectedSeq' > expectedSeq
           /\ ready' \in Seq(Nat) /\ Len(ready') = expectedSeq' - expectedSeq
           /\ \A i \in 1..Len(ready') : ready'[i] = expectedSeq - 1 + i
           /\ recvBuf' \in SUBSET recvBuf
           /\ batchAck' = expectedSeq' - 1 /\ dispatch' = "deliver"
<1> DEFINE next == Frontier(expectedSeq + 1, Seqs(recvBuf))
           rest == [i \in 1..(next - expectedSeq - 1) |-> IdAt(recvBuf, expectedSeq + i)]
<1>1. expectedSeq \in Nat \ {0} /\ active.id = expectedSeq
  BY Zenon DEF ReceiverTypeOK, StreamTypeOK, AckTypeOK, GenuineInv, Genuine
<1>2. /\ next \in Nat /\ next >= expectedSeq + 1
      /\ \A k \in (expectedSeq + 1)..(next - 1) : k \in Seqs(recvBuf)
  BY <1>1, FrontierFacts, SMTT(30) DEF GenuineInv
<1>3. /\ ready' = <<active.id>> \o rest /\ expectedSeq' = next
      /\ recvBuf' = {f \in recvBuf : f.seq >= next} /\ batchAck' = next - 1 /\ dispatch' = "deliver"
  BY ZenonT(30) DEF HandleData
<1>4. ASSUME NEW i \in 1..(next - expectedSeq - 1) PROVE IdAt(recvBuf, expectedSeq + i) = expectedSeq + i
  <2>1. expectedSeq + i \in (expectedSeq + 1)..(next - 1)
    BY <1>1, <1>2
  <2>2. \E f \in recvBuf : f.seq = expectedSeq + i
    BY <1>2, <2>1, Zenon DEF Seqs
  <2> QED
    BY <2>2, Zenon DEF IdAt, GenuineInv
<1> HIDE DEF next
<1>5. /\ rest \in Seq(Nat) /\ Len(rest) = next - expectedSeq - 1
      /\ \A i \in 1..Len(rest) : rest[i] = expectedSeq + i
  <2>1. next - expectedSeq - 1 \in Nat
    BY <1>1, <1>2
  <2>2. rest \in [1..(next - expectedSeq - 1) -> Nat]
    BY <1>1, <1>4
  <2> QED
    BY <1>4, <2>1, <2>2
<1> HIDE DEF rest
<1>6. <<active.id>> \in Seq(Nat) /\ Len(<<active.id>>) = 1 /\ <<active.id>>[1] = expectedSeq
  BY <1>1
<1>7. /\ ready' \in Seq(Nat) /\ Len(ready') = 1 + Len(rest)
      /\ \A i \in 1..(1 + Len(rest)) : ready'[i] = IF i <= 1 THEN expectedSeq ELSE rest[i - 1]
  <2>1. /\ <<active.id>> \o rest \in Seq(Nat) /\ Len(<<active.id>> \o rest) = 1 + Len(rest)
        /\ \A i \in 1..(1 + Len(rest)) :
              (<<active.id>> \o rest)[i] = IF i <= 1 THEN <<active.id>>[i] ELSE rest[i - 1]
    BY <1>5, <1>6
  <2> QED
    BY <1>3, <1>5, <1>6, <2>1
<1>8. ASSUME NEW i \in 1..Len(ready') PROVE ready'[i] = expectedSeq - 1 + i
  <2>1. CASE i = 1
    BY <1>1, <1>5, <1>7, <2>1
  <2>2. CASE i # 1
    <3>1. i \in 1..(1 + Len(rest)) /\ i - 1 \in 1..Len(rest) /\ ~(i <= 1)
      BY <1>1, <1>2, <1>5, <1>7, <2>2
    <3>2. ready'[i] = rest[i - 1] /\ rest[i - 1] = expectedSeq + (i - 1)
      BY <1>5, <1>7, <3>1, Zenon
    <3> QED
      BY <1>1, <3>1, <3>2
  <2> QED
    BY <2>1, <2>2, Zenon
<1>9. recvBuf' \in SUBSET recvBuf
  BY <1>3, Zenon
<1> QED
  BY <1>1, <1>2, <1>3, <1>5, <1>7, <1>8, <1>9

\* recvBuf stays finite.
LEMMA BufferFinite ==
    ASSUME RecvOrdered, ReceiverTypeOK, GenuineInv, HandleData
    PROVE  IsFiniteSet(recvBuf') /\ IsFiniteSet(Seqs(recvBuf)')
<1>1. CASE recvBuf' \in SUBSET recvBuf
  <2>1. Seqs(recvBuf') \in SUBSET Seqs(recvBuf)
    BY <1>1, Zenon DEF Seqs
  <2>2. IsFiniteSet(recvBuf) /\ IsFiniteSet(Seqs(recvBuf))
    BY Zenon DEF ReceiverTypeOK, StreamTypeOK, AckTypeOK, GenuineInv
  <2> QED
    BY <1>1, <2>1, <2>2, FS_Subset, Zenon
<1>2. CASE \E f : recvBuf' = recvBuf \cup {f}
  <2>1. PICK f : recvBuf' = recvBuf \cup {f}
    BY <1>2, Zenon
  <2>2. Seqs(recvBuf') = Seqs(recvBuf) \cup {f.seq}
    BY <2>1, Zenon DEF Seqs
  <2>3. IsFiniteSet(recvBuf) /\ IsFiniteSet(Seqs(recvBuf))
    BY DEF ReceiverTypeOK, StreamTypeOK, AckTypeOK, GenuineInv
  <2>4. IsFiniteSet(recvBuf \cup {f}) /\ IsFiniteSet(Seqs(recvBuf) \cup {f.seq})
    BY <2>3, FS_AddElement, ZenonT(30)
  <2> QED
    BY <2>1, <2>2, <2>4, Zenon
<1> QED
  BY <1>1, <1>2, ZenonT(30) DEF HandleData

\* What handleData leaves in the fields of the order.
HandleTypes ==
    /\ expectedSeq' \in Nat \ {0} /\ batchAck' \in Nat /\ ready' \in Seq(Nat)
    /\ recvBuf' \in SUBSET [seq : Nat, id : Nat] /\ IsFiniteSet(recvBuf')
    /\ dispatch' \in {"deliver", "finish"}

\* handleData keeps the types, in every mode.
LEMMA HandleTyped ==
    ASSUME ReceiverTypeOK, RecvOrdered => GenuineInv /\ OrderInv, HandleData
    PROVE  HandleTypes
<1> USE DEF ReceiverTypeOK, StreamTypeOK, AckTypeOK
<1>0. CASE ~RecvOrdered
  <2>1. /\ ready' = <<active.id>> /\ batchAck' = active.seq /\ dispatch' = "deliver"
        /\ UNCHANGED <<expectedSeq, recvBuf>>
    BY <1>0, ZenonT(30) DEF HandleData
  <2>2. active.seq \in Nat /\ active.id \in Nat
    BY DEF Envelope, NoEnvelope
  <2> QED
    BY <2>1, <2>2 DEF HandleTypes
<1> SUFFICES ASSUME RecvOrdered, GenuineInv, OrderInv PROVE HandleTypes
  BY <1>0, Zenon
<1>3. IsFiniteSet(recvBuf')
  BY BufferFinite, Zenon
<1>1. CASE active.seq = expectedSeq
  <2>1. active.kind = "data"
    BY Zenon DEF HandleData, OrderInv
  <2> HIDE DEF ReceiverTypeOK, StreamTypeOK, AckTypeOK
  <2>2. expectedSeq' \in Nat /\ expectedSeq' > expectedSeq /\ batchAck' = expectedSeq' - 1
    BY <1>1, <2>1, Batch, Zenon
  <2>3. ready' \in Seq(Nat) /\ recvBuf' \in SUBSET recvBuf /\ dispatch' = "deliver"
    BY <1>1, <2>1, Batch, Zenon
  <2>4. recvBuf' \in SUBSET [seq : Nat, id : Nat]
    BY <2>3, Zenon DEF ReceiverTypeOK, StreamTypeOK
  <2>5. expectedSeq \in Nat
    BY Zenon DEF ReceiverTypeOK, StreamTypeOK
  <2>6. \A a, b \in Nat : b > a => b \in Nat \ {0} /\ b - 1 \in Nat
    OBVIOUS
  <2>7. expectedSeq' \in Nat \ {0} /\ expectedSeq' - 1 \in Nat
    BY <2>2, <2>5, <2>6, ZenonT(30)
  <2>8. batchAck' \in Nat
    BY <2>2, <2>7, ZenonT(30)
  <2> QED
    BY <1>3, <2>3, <2>4, <2>7, <2>8, Zenon DEF HandleTypes
<1>2. CASE active.seq # expectedSeq
  <2>1. active.seq \in Nat /\ active.id \in Nat
    BY DEF Envelope, NoEnvelope
  <2>2. CASE active.seq > expectedSeq /\ active.seq - expectedSeq >= RecvWindow
    BY <1>2, <1>3, <2>2, Zenon DEF HandleData, HandleTypes
  <2>3. CASE ~(active.seq > expectedSeq /\ active.seq - expectedSeq >= RecvWindow)
    <3>1. /\ recvBuf' = IF active.seq > expectedSeq
                        THEN recvBuf \cup {[seq |-> active.seq, id |-> active.id]}
                        ELSE recvBuf
          /\ batchAck' = expectedSeq - 1 /\ dispatch' = "deliver" /\ UNCHANGED <<ready, expectedSeq>>
      BY <1>2, <2>3, Zenon DEF HandleData
    <3> QED
      BY <1>3, <2>1, <3>1, SMTT(30) DEF HandleTypes
  <2> QED
    BY <2>2, <2>3, Zenon
<1> QED
  BY <1>1, <1>2, Zenon

(***************************************************************************)
(* The budget. enqueueEnvelope compares it with a sum of counts taken at   *)
(* different times; BudgetInv bounds what moves between them.              *)
(***************************************************************************)
\* The frame dispatchLoop handles, before and after handleData stored it.
Handling == dispatch = "handle"
Stored == dispatch \in {"deliver", "finish", "release"}

\* The frames beyond the inbox: in hand, in the reorder buffer, in a batch.
One(b) == IF b THEN 1 ELSE 0
Kept == Cardinality(recvBuf) + Len(ready)
InHand == One(Handling \/ Stored)
Beyond == One(Handling) + Kept + Len(recvCh)

\* inboxData counts the DATA of the inbox and the frame in hand.
DataInv ==
    /\ inboxData >= InHand
    /\ admission = "open" => inboxData >= Len(inbox) + InHand
    /\ \A i \in 1..Len(inbox) : inbox[i].kind = "data" => inboxData >= i + InHand

\* A batch is under way only in deliverOrdered, or is abandoned.
BatchInv ==
    /\ Handling => ready = <<>>
    /\ ready # <<>> => dispatch = "deliver" \/ rState = "Closed"
    /\ RecvOrdered \/ Len(ready) <= 1

\* What enqueueEnvelope counted has grown by the frame in hand at most.
GrownInv ==
    reader # NoCall /\ reader.state # "Closed" => One(Handling) + Kept <= reader.buffered + InHand

\* The budget holds for each prefix of the inbox that ends with DATA.
PrefixInv ==
    \A i \in 0..Len(inbox) : (i > 0 => inbox[i].kind = "data") => i + Beyond <= Budget

BudgetInv == DataInv /\ BatchInv /\ GrownInv /\ PrefixInv

\* The numbers in these invariants.
LEMMA BudgetTypes ==
    ASSUME ReceiverTypeOK
    PROVE  /\ Len(inbox) \in Nat /\ Len(ready) \in Nat /\ Len(recvCh) \in Nat /\ inboxData \in Int
           /\ Cardinality(recvBuf) \in Nat /\ Kept \in Nat /\ Beyond \in Nat /\ Budget \in Nat
           /\ InHand \in 0..1 /\ One(Handling) \in 0..1 /\ One(Handling) <= InHand
           /\ reader.buffered \in Nat /\ inbox \in Seq(Envelope)
           /\ ready \in Seq(Nat) /\ recvCh \in Seq(Nat)
<1>1. Len(inbox) \in Nat /\ Len(ready) \in Nat /\ Len(recvCh) \in Nat /\ inboxData \in Int
      /\ inbox \in Seq(Envelope) /\ ready \in Seq(Nat) /\ recvCh \in Seq(Nat)
  BY DEF ReceiverTypeOK, StreamTypeOK
<1>2. Cardinality(recvBuf) \in Nat
  BY FS_CardinalityType, Zenon DEF ReceiverTypeOK, StreamTypeOK
<1>3. InHand \in 0..1 /\ One(Handling) \in 0..1 /\ One(Handling) <= InHand
  BY DEF InHand, One
<1>4. reader.buffered \in Nat
  BY DEF ReceiverTypeOK, StreamTypeOK, NoCall
<1>5. Kept \in Nat /\ Beyond \in Nat /\ Budget \in Nat
  BY <1>1, <1>2, <1>3, ReceiverAssumption, SMTT(30) DEF Kept, Beyond, Budget
<1> QED
  BY <1>1, <1>2, <1>3, <1>4, <1>5, Zenon

\* The same after a step.
LEMMA BudgetTypesNext ==
    ASSUME ReceiverTypeOK'
    PROVE  /\ Cardinality(recvBuf') \in Nat /\ Len(ready') \in Nat /\ Len(recvCh') \in Nat
           /\ One(Handling)' \in Nat /\ Kept' \in Nat /\ Beyond' \in Nat
<1>1. Cardinality(recvBuf') \in Nat /\ Len(ready') \in Nat /\ Len(recvCh') \in Nat
  BY FS_CardinalityType, SMTT(30) DEF ReceiverTypeOK, StreamTypeOK
<1>2. One(Handling)' \in Nat
  BY Zenon DEF One
<1>3. \A h, b, r, q \in Nat : b + r \in Nat /\ h + (b + r) + q \in Nat
  OBVIOUS
<1> QED
  BY <1>1, <1>2, <1>3, Zenon DEF Kept, Beyond

\* The budget of every prefix is the budget of all DATA in the inbox.
LEMMA PrefixesAreAll == ASSUME ReceiverTypeOK, PrefixInv PROVE WithinBudget
<1> DEFINE S == {i \in 1..Len(inbox) : inbox[i].kind = "data"}
           T == {m \in 0..Len(inbox) : \A i \in S : i <= m}
<1>1. Len(inbox) \in T /\ T \in SUBSET Nat
  BY BudgetTypes
<1>2. PICK m \in T : \A y \in T : m <= y
  BY <1>1, LeastNat, Zenon
<1>3. m \in 0..Len(inbox) /\ m \in Nat /\ \A i \in S : i <= m
  BY <1>1, <1>2, Zenon
<1>4. m > 0 => inbox[m].kind = "data"
  <2> SUFFICES ASSUME m > 0, m \notin S PROVE FALSE
    BY <1>3, BudgetTypes, Zenon
  <2>1. m - 1 \in 0..Len(inbox)
    BY <1>3, BudgetTypes
  <2>2. \A i \in S : i <= m - 1
    BY <1>3, BudgetTypes
  <2>3. m - 1 \in T
    BY <2>1, <2>2, Zenon
  <2> QED
    BY <1>2, <1>3, <2>3
<1>5. m + Beyond <= Budget
  BY <1>3, <1>4, Zenon DEF PrefixInv
<1>6. Cardinality(S) \in Nat /\ Cardinality(S) <= m
  <2>1. S \in SUBSET (1..m)
    BY <1>3, BudgetTypes
  <2>2. IsFiniteSet(1..m) /\ Cardinality(1..m) = m
    BY <1>3, FS_Interval
  <2>3. IsFiniteSet(S) /\ Cardinality(S) <= Cardinality(1..m)
    BY <2>1, <2>2, FS_Subset, Zenon
  <2> HIDE DEF S
  <2> QED
    BY <2>2, <2>3, FS_CardinalityType, Zenon
<1>7. WithinBudget <=> Cardinality(S) + One(Handling) + Cardinality(recvBuf) + Len(ready) + Len(recvCh) <= Budget
  BY Zenon DEF WithinBudget, One, Handling
<1> HIDE DEF S
<1>8. \A c, n, h, b, r, q, g \in Nat : c <= n /\ n + (h + (b + r) + q) <= g => c + h + b + r + q <= g
  OBVIOUS
<1>9. m + (One(Handling) + (Cardinality(recvBuf) + Len(ready)) + Len(recvCh)) <= Budget
  BY <1>5, Zenon DEF Beyond, Kept
<1>10. One(Handling) \in Nat
  BY BudgetTypes
<1>11. Cardinality(S) + One(Handling) + Cardinality(recvBuf) + Len(ready) + Len(recvCh) <= Budget
  BY <1>3, <1>6, <1>8, <1>9, <1>10, BudgetTypes, Zenon
<1> QED
  BY <1>7, <1>11, Zenon

\* The batch of handleData was in the reorder buffer, but for the frame itself.
LEMMA BatchKept ==
    ASSUME ReceiverTypeOK, RecvOrdered => GenuineInv /\ OrderInv, BatchInv, HandleData
    PROVE  Kept' <= Kept + 1 /\ (RecvOrdered \/ Len(ready') <= 1)
<1>1. ready = <<>> /\ Len(ready) = 0 /\ Cardinality(recvBuf) \in Nat /\ IsFiniteSet(recvBuf)
  BY BudgetTypes, Zenon DEF BatchInv, HandleData, Handling, ReceiverTypeOK, StreamTypeOK
<1>2. CASE ~RecvOrdered
  <2>1. ready' = <<active.id>> /\ recvBuf' = recvBuf
    BY <1>2, ZenonT(30) DEF HandleData
  <2> QED
    BY <1>1, <2>1 DEF Kept
<1>3. CASE RecvOrdered /\ active.seq = expectedSeq
  <2> DEFINE next == Frontier(expectedSeq + 1, Seqs(recvBuf))
             gone == {f \in recvBuf : ~(f.seq >= next)}
             run == (expectedSeq + 1)..(next - 1)
  <2>1. active.kind = "data" /\ GenuineInv /\ expectedSeq \in Nat
    BY <1>3, Zenon DEF OrderInv, HandleData, ReceiverTypeOK, StreamTypeOK
  <2>2. Len(ready') = expectedSeq' - expectedSeq
    BY <1>3, <2>1, Batch, Zenon
  <2>3. expectedSeq' = next /\ recvBuf' = {f \in recvBuf : f.seq >= next}
    BY <1>3, ZenonT(30) DEF HandleData
  <2>4. /\ next \in Nat /\ next >= expectedSeq + 1
        /\ \A k \in run : k \in Seqs(recvBuf)
    <3>1. expectedSeq + 1 \in Nat /\ IsFiniteSet(Seqs(recvBuf))
      BY <2>1 DEF GenuineInv
    <3> QED
      BY <3>1, FrontierFacts, ZenonT(30)
  <2> HIDE DEF next
  <2>5. recvBuf' = recvBuf \ gone /\ gone \in SUBSET recvBuf /\ recvBuf \cap gone = gone
    BY <2>3, Zenon
  <2>6. IsFiniteSet(gone) /\ Cardinality(recvBuf') = Cardinality(recvBuf) - Cardinality(gone)
    <3>1. IsFiniteSet(gone)
      BY <1>1, <2>5, FS_Subset, Zenon
    <3>2. Cardinality(recvBuf \ gone) = Cardinality(recvBuf) - Cardinality(recvBuf \cap gone)
      BY <1>1, FS_Difference, Zenon
    <3> HIDE DEF gone
    <3> QED
      BY <2>5, <3>1, <3>2, Zenon
  <2>7. IsFiniteSet(run) /\ Cardinality(run) = next - expectedSeq - 1
    BY <2>1, <2>4, FS_Interval
  <2>8. Cardinality(run) <= Cardinality(gone)
    <3> DEFINE pick == [k \in run |-> CHOOSE f \in gone : f.seq = k]
    <3>1. ASSUME NEW k \in run PROVE \E f \in gone : f.seq = k
      BY <2>1, <2>4 DEF Seqs
    <3>2. \A k \in run : pick[k] \in gone /\ pick[k].seq = k
      BY <3>1, Zenon
    <3>3. pick \in [run -> gone] /\ \A j, k \in run : pick[j] = pick[k] => j = k
      BY <3>2, Zenon
    <3>4. pick \in Injection(run, gone)
      BY <3>3, Zenon DEF Injection, IsInjective
    <3> QED
      BY <2>6, <3>4, FS_Injection
  <2> HIDE DEF gone, run
  <2>9. Cardinality(gone) \in Nat
    BY <2>6, FS_CardinalityType, Zenon
  <2> QED
    BY <1>1, <1>3, <2>1, <2>2, <2>3, <2>4, <2>6, <2>7, <2>8, <2>9, SMTT(30) DEF Kept
<1>4. CASE RecvOrdered /\ active.seq # expectedSeq
  <2>1. ready' = ready /\ (recvBuf' = recvBuf \/ \E f : recvBuf' = recvBuf \cup {f})
    BY <1>4, ZenonT(30) DEF HandleData
  <2>2. Cardinality(recvBuf') <= Cardinality(recvBuf) + 1
    <3>1. CASE recvBuf' = recvBuf
      BY <1>1, <3>1
    <3>2. ASSUME NEW f, recvBuf' = recvBuf \cup {f} PROVE Cardinality(recvBuf') <= Cardinality(recvBuf) + 1
      <4>1. Cardinality(recvBuf \cup {f}) = IF f \in recvBuf THEN Cardinality(recvBuf) ELSE Cardinality(recvBuf) + 1
        BY <1>1, FS_AddElement, Zenon
      <4>2. Cardinality(recvBuf') = IF f \in recvBuf THEN Cardinality(recvBuf) ELSE Cardinality(recvBuf) + 1
        BY <3>2, <4>1, Zenon
      <4> QED
        BY <1>1, <4>2
    <3> QED
      BY <2>1, <3>1, <3>2, Zenon
  <2>3. Cardinality(recvBuf') \in Nat
    BY HandleTyped, FS_CardinalityType, Zenon DEF HandleTypes
  <2> QED
    BY <1>1, <1>4, <2>1, <2>2, <2>3 DEF Kept
<1> QED
  BY <1>2, <1>3, <1>4, Zenon

\* A step that adds no frame to the inbox and does not grow what lies beyond it.
LEMMA BudgetAside ==
    ASSUME ReceiverTypeOK, ReceiverTypeOK', BudgetInv, BatchInv',
           UNCHANGED <<inbox, inboxData, InHand>>, admission' \in {admission, "failed"},
           reader' \in {reader, NoCall},
           One(Handling)' + Kept' <= One(Handling) + Kept, Beyond' <= Beyond
    PROVE  BudgetInv'
<1>0. One(Handling)' \in Nat /\ Kept' \in Nat /\ Beyond' \in Nat
  BY BudgetTypesNext, Zenon
<1>1. DataInv'
  BY Zenon DEF BudgetInv, DataInv
<1>2. GrownInv'
  <2>1. /\ One(Handling) + Kept \in Nat /\ One(Handling)' + Kept' \in Nat
        /\ reader.buffered + InHand \in Nat
    <3>1. \A a, b \in Nat : a + b \in Nat
      OBVIOUS
    <3>2. One(Handling) \in Nat /\ InHand \in Nat
      BY BudgetTypes
    <3> QED
      BY <1>0, <3>1, <3>2, BudgetTypes, Zenon
  <2> SUFFICES ASSUME reader # NoCall, reader.state # "Closed", reader' = reader
               PROVE  One(Handling)' + Kept' <= reader.buffered + InHand
    BY Zenon DEF GrownInv
  <2>2. One(Handling) + Kept <= reader.buffered + InHand
    BY Zenon DEF BudgetInv, GrownInv
  <2>3. \A a, b, c \in Nat : a <= b /\ b <= c => a <= c
    OBVIOUS
  <2> QED
    BY <2>1, <2>2, <2>3, Zenon
<1>3. PrefixInv'
  <2> SUFFICES ASSUME NEW i \in 0..Len(inbox), i > 0 => inbox[i].kind = "data"
               PROVE  i + Beyond' <= Budget
    BY Zenon DEF PrefixInv
  <2>1. i + Beyond <= Budget
    BY Zenon DEF BudgetInv, PrefixInv
  <2>2. i \in Nat /\ Beyond \in Nat /\ Beyond' \in Nat /\ Budget \in Nat
    BY <1>0, BudgetTypes
  <2>3. \A a, b, c, d \in Nat : a + b <= d /\ c <= b => a + c <= d
    OBVIOUS
  <2> QED
    BY <2>1, <2>2, <2>3, Zenon
<1> QED
  BY <1>1, <1>2, <1>3, Zenon DEF BudgetInv

\* The steps that move no frame, or one from recvCh to the application.
LEMMA BudgetStill ==
    ASSUME ReceiverTypeOK, ReceiverTypeOK', BudgetInv,
           \/ EnqueueDrop \/ EnqueueReplayACK \/ EnqueueOverflow \/ DispatchTerminal \/ FinishReceiveACK
           \/ AckStep \/ AppStep \/ ReceiverAbort \/ UNCHANGED receiverVars
    PROVE  BudgetInv'
<1> USE DEF receiverVars, recvConnVars, orderVars, appVars, rCloseVars, inboxVars, dispatchVars,
            ackVars
<1>1. UNCHANGED <<inbox, inboxData, recvBuf, ready>> /\ admission' \in {admission, "failed"}
  BY Zenon DEF EnqueueDrop, EnqueueReplayACK, EnqueueOverflow, DispatchTerminal, FinishReceiveACK,
     AckStep, AckWake, AckTake, AckTransmit, AckSent, AckReject, AckFail, AckFailClose, AckExit,
     AppStep, AppRead, AppEnd, RCloseCall, RCloseSend, RCloseSent, ReceiverAbort
<1>2. reader' \in {reader, NoCall}
  BY Zenon DEF EnqueueDrop, EnqueueReplayACK, EnqueueOverflow, DispatchTerminal, FinishReceiveACK,
     AckStep, AckWake, AckTake, AckTransmit, AckSent, AckReject, AckFail, AckFailClose, AckExit,
     AppStep, AppRead, AppEnd, RCloseCall, RCloseSend, RCloseSent, ReceiverAbort
<1>3. \/ dispatch' = dispatch
      \/ dispatch = "waitACK" /\ dispatch' = "idle"
      \/ dispatch = "finish" /\ dispatch' = "release"
  BY Zenon DEF EnqueueDrop, EnqueueReplayACK, EnqueueOverflow, DispatchTerminal, FinishReceiveACK,
     AckStep, AckWake, AckTake, AckTransmit, AckSent, AckReject, AckFail, AckFailClose, AckExit,
     AppStep, AppRead, AppEnd, RCloseCall, RCloseSend, RCloseSent, ReceiverAbort
<1>4. rState = "Closed" => rState' = "Closed"
  BY Zenon DEF EnqueueDrop, EnqueueReplayACK, EnqueueOverflow, DispatchTerminal, FinishReceiveACK,
     AckStep, AckWake, AckTake, AckTransmit, AckSent, AckReject, AckFail, AckFailClose, AckExit,
     AppStep, AppRead, AppEnd, RCloseCall, RCloseSend, RCloseSent, ReceiverAbort, CloseWithSource
<1>5. recvCh' = recvCh \/ (recvCh # <<>> /\ recvCh' = Tail(recvCh))
  BY Zenon DEF EnqueueDrop, EnqueueReplayACK, EnqueueOverflow, DispatchTerminal, FinishReceiveACK,
     AckStep, AckWake, AckTake, AckTransmit, AckSent, AckReject, AckFail, AckFailClose, AckExit,
     AppStep, AppRead, AppEnd, RCloseCall, RCloseSend, RCloseSent, ReceiverAbort
<1>6. Len(recvCh') <= Len(recvCh)
  BY <1>5, ChanHead, BudgetTypes
<1>7. UNCHANGED <<Handling, Stored>>
  BY <1>3 DEF Handling, Stored
<1>8. InHand' = InHand /\ One(Handling)' = One(Handling) /\ Kept' = Kept
  BY <1>1, <1>7, Zenon DEF InHand, One, Kept
<1>9. Beyond' <= Beyond
  BY <1>6, <1>8, BudgetTypes DEF Beyond
<1>10. BatchInv'
  BY <1>1, <1>3, <1>4, <1>7, Zenon DEF BudgetInv, BatchInv
<1>11. One(Handling)' + Kept' <= One(Handling) + Kept
  BY <1>8, BudgetTypes
<1> QED
  BY <1>1, <1>2, <1>8, <1>9, <1>10, <1>11, BudgetAside, Zenon

\* handleData puts the frame in hand into the reorder buffer or the batch.
LEMMA BudgetHandle ==
    ASSUME ReceiverTypeOK, ReceiverTypeOK', RecvOrdered => GenuineInv /\ OrderInv, BudgetInv, HandleData
    PROVE  BudgetInv'
<1>1. UNCHANGED <<inbox, inboxData, admission, reader, recvCh>>
  BY Zenon DEF HandleData, recvConnVars, appVars, inboxVars
<1>2. Kept' <= Kept + 1 /\ (RecvOrdered \/ Len(ready') <= 1)
  BY BatchKept, Zenon DEF BudgetInv
<1>3. dispatch = "handle" /\ dispatch' \in {"deliver", "finish"}
  BY HandleTyped, Zenon DEF HandleTypes, HandleData
<1>4. InHand = 1 /\ InHand' = 1 /\ One(Handling) = 1 /\ One(Handling)' = 0 /\ ~Handling'
  BY <1>3, Zenon DEF InHand, One, Handling, Stored
<1>5. Kept \in Nat /\ Kept' \in Nat /\ Len(recvCh) \in Nat
  BY BudgetTypes, BudgetTypesNext, Zenon
<1>6. 0 + Kept' <= 1 + Kept /\ 0 + Kept' + Len(recvCh) <= 1 + Kept + Len(recvCh)
  <2>1. \A k, n, c \in Nat : n <= k + 1 => 0 + n <= 1 + k /\ 0 + n + c <= 1 + k + c
    OBVIOUS
  <2> QED
    BY <1>2, <1>5, <2>1, Zenon
<1>7. One(Handling)' + Kept' <= One(Handling) + Kept /\ Beyond' <= Beyond
  BY <1>1, <1>4, <1>6, Zenon DEF Beyond
<1>8. BatchInv'
  <2>1. ready = <<>>
    BY <1>3, Zenon DEF BudgetInv, BatchInv, Handling
  <2>2. dispatch' = "finish" => ready' = ready
    BY ZenonT(30) DEF HandleData
  <2> QED
    BY <1>2, <1>3, <1>4, <2>1, <2>2, Zenon DEF BatchInv
<1>9. InHand' = InHand
  BY <1>4, Zenon
<1> QED
  BY <1>1, <1>7, <1>8, <1>9, BudgetAside, Zenon

\* deliverOrdered moves a frame of the batch to recvCh, or gives up.
LEMMA BudgetDeliver ==
    ASSUME ReceiverTypeOK, ReceiverTypeOK', BudgetInv, Deliver \/ DeliverAbandon \/ DeliverEnd
    PROVE  BudgetInv'
<1>1. UNCHANGED <<inbox, inboxData, admission, reader, recvBuf, rState>>
  BY Zenon DEF Deliver, DeliverAbandon, DeliverEnd, recvConnVars, orderVars, appVars, inboxVars
<1>2. dispatch = "deliver" /\ dispatch' \in {"deliver", "finish"}
  BY Zenon DEF Deliver, DeliverAbandon, DeliverEnd, dispatchVars
<1>3. InHand = 1 /\ InHand' = 1 /\ One(Handling) = 0 /\ One(Handling)' = 0 /\ ~Handling'
  BY <1>2, Zenon DEF InHand, One, Handling, Stored
<1>4. /\ Len(ready') <= Len(ready) /\ Len(ready') + Len(recvCh') = Len(ready) + Len(recvCh)
      /\ ready' # <<>> => dispatch' = "deliver" \/ rState' = "Closed"
  <2>1. CASE Deliver
    <3>1. ready # <<>> /\ ready' = Tail(ready) /\ recvCh' = Append(recvCh, Head(ready)) /\ dispatch' = "deliver"
      BY <2>1, <1>2, ZenonT(30) DEF Deliver, dispatchVars
    <3>2. Len(ready') = Len(ready) - 1 /\ Len(recvCh') = Len(recvCh) + 1
      <4>1. Len(Tail(ready)) = Len(ready) - 1 /\ Head(ready) \in Nat
        BY <3>1, BudgetTypes, ChanHead, Zenon
      <4>2. Len(Append(recvCh, Head(ready))) = Len(recvCh) + 1
        BY <4>1, BudgetTypes, ChanPut, Zenon
      <4> QED
        BY <3>1, <4>1, <4>2, Zenon
    <3>3. \A r, q \in Nat : r - 1 <= r /\ (r - 1) + (q + 1) = r + q
      OBVIOUS
    <3>4. Len(ready) - 1 <= Len(ready) /\ (Len(ready) - 1) + (Len(recvCh) + 1) = Len(ready) + Len(recvCh)
      BY <3>3, BudgetTypes, Zenon
    <3>5. Len(ready') <= Len(ready) /\ Len(ready') + Len(recvCh') = Len(ready) + Len(recvCh)
      BY <3>2, <3>4, Zenon
    <3> QED
      BY <3>1, <3>5, Zenon
  <2>2. CASE DeliverAbandon \/ DeliverEnd
    <3>1. ready' = ready /\ recvCh' = recvCh /\ (ready' # <<>> => rState' = "Closed")
      BY <2>2, Zenon DEF DeliverAbandon, DeliverEnd, orderVars, appVars, recvConnVars
    <3> QED
      BY <3>1, BudgetTypes
  <2> QED
    BY <2>1, <2>2, Zenon
<1>5. Len(ready') \in Nat /\ Len(recvCh') \in Nat
  BY BudgetTypesNext, Zenon
<1>6. \A b, r, q, s, t \in Nat : s <= r /\ s + t = r + q =>
         0 + (b + s) <= 0 + (b + r) /\ 0 + (b + s) + t <= 0 + (b + r) + q
  OBVIOUS
<1>7. One(Handling)' + Kept' <= One(Handling) + Kept /\ Beyond' <= Beyond
  BY <1>1, <1>3, <1>4, <1>5, <1>6, BudgetTypes, Zenon DEF Kept, Beyond
<1>8. BatchInv'
  <2>1. RecvOrdered \/ Len(ready) <= 1
    BY Zenon DEF BudgetInv, BatchInv
  <2>2. RecvOrdered \/ Len(ready') <= 1
    BY <1>4, <1>5, <2>1, BudgetTypes
  <2> QED
    BY <1>3, <1>4, <2>2, Zenon DEF BatchInv
<1>9. InHand' = InHand
  BY <1>3, Zenon
<1> QED
  BY <1>1, <1>7, <1>8, <1>9, BudgetAside, Zenon

\* The first half of enqueueEnvelope counts what is stored.
LEMMA BudgetRead ==
    ASSUME ReceiverTypeOK, BudgetInv, AnyPacket
    PROVE  BudgetInv'
<1>1. PICK e \in Envelope : EnqueueRead(e)
  BY Zenon DEF AnyPacket
<1>2. UNCHANGED <<inbox, inboxData, admission, dispatch, rState, recvBuf, ready, recvCh>>
  BY <1>1, Zenon DEF EnqueueRead, recvConnVars, orderVars, appVars, inboxVars, dispatchVars
<1>3. /\ reader'.state = rState
      /\ reader'.buffered = Cardinality(recvBuf) + (IF RecvOrdered THEN Len(ready) ELSE 0)
  BY <1>1, Zenon DEF EnqueueRead
<1>4. InHand' = InHand /\ One(Handling)' = One(Handling) /\ Kept' = Kept /\ Beyond' = Beyond
  BY <1>2, Zenon DEF InHand, Handling, Stored, One, Kept, Beyond
<1>5. DataInv' /\ BatchInv' /\ PrefixInv'
  BY <1>2, <1>4, Zenon DEF BudgetInv, DataInv, BatchInv, PrefixInv, Handling
<1>6. rState # "Closed" => One(Handling) + Kept <= reader'.buffered + InHand
  <2>1. CASE RecvOrdered
    BY <1>3, <2>1, BudgetTypes DEF Kept
  <2>2. CASE ~RecvOrdered /\ ready = <<>>
    <3>1. Len(ready) = 0
      BY <2>2, Zenon
    <3> QED
      BY <1>3, <2>2, <3>1, BudgetTypes DEF Kept
  <2>3. CASE ~RecvOrdered /\ ready # <<>> /\ rState # "Closed"
    <3>1. dispatch = "deliver" /\ Len(ready) <= 1
      BY <2>3, Zenon DEF BudgetInv, BatchInv
    <3>2. InHand = 1 /\ One(Handling) = 0
      BY <3>1, Zenon DEF InHand, One, Handling, Stored
    <3> QED
      BY <1>3, <2>3, <3>1, <3>2, BudgetTypes DEF Kept
  <2> QED
    BY <2>1, <2>2, <2>3, Zenon
<1>7. GrownInv'
  BY <1>3, <1>4, <1>6, Zenon DEF GrownInv
<1> QED
  BY <1>5, <1>7, Zenon DEF BudgetInv

\* dispatchLoop takes the head of the inbox: DATA is then in hand.
LEMMA BudgetTake ==
    ASSUME ReceiverTypeOK, BudgetInv, DispatchTake
    PROVE  BudgetInv'
<1>1. UNCHANGED <<inboxData, admission, rState, recvBuf, ready, recvCh, reader>>
  BY Zenon DEF DispatchTake, recvConnVars, orderVars, appVars
<1>2. /\ dispatch = "idle" /\ rState # "Closed" /\ inbox # <<>> /\ inbox' = Tail(inbox)
      /\ active' = inbox[1]
      /\ dispatch' = IF inbox[1].kind = "data" THEN "handle" ELSE "waitACK"
  <2>1. inbox # <<>> /\ inbox' = Tail(inbox) /\ active' = Head(inbox)
    BY Zenon DEF DispatchTake
  <2>2. Head(inbox) = inbox[1]
    BY <2>1, BudgetTypes, ChanHead, Zenon
  <2> QED
    BY <2>1, <2>2, Zenon DEF DispatchTake
<1>3. /\ Len(inbox) \in Nat \ {0} /\ Len(inbox') = Len(inbox) - 1
      /\ \A i \in 1..Len(inbox') : inbox'[i] = inbox[i + 1]
  BY <1>2, ChanHead, BudgetTypes
<1>4. InHand = 0 /\ One(Handling) = 0 /\ ready = <<>>
  BY <1>2, Zenon DEF InHand, One, Handling, Stored, BudgetInv, BatchInv
<1>5. /\ InHand' = One(Handling)' /\ InHand' \in 0..1
      /\ InHand' = 1 => inbox[1].kind = "data"
  BY <1>2 DEF InHand, One, Handling, Stored
<1>6. Kept' = Kept
  BY <1>1, Zenon DEF Kept
<1>7. DataInv'
  <2>0. /\ admission = "open" => inboxData >= Len(inbox) + 0
        /\ \A i \in 1..Len(inbox) : inbox[i].kind = "data" => inboxData >= i + 0
        /\ inboxData >= 0
    BY <1>4, Zenon DEF BudgetInv, DataInv
  <2>1. inboxData >= InHand'
    BY <1>3, <1>5, <2>0, BudgetTypes
  <2>2. admission = "open" => inboxData >= Len(inbox') + InHand'
    BY <1>3, <1>5, <2>0, BudgetTypes
  <2>3. ASSUME NEW i \in 1..Len(inbox'), inbox'[i].kind = "data" PROVE inboxData >= i + InHand'
    <3>1. i + 1 \in 1..Len(inbox) /\ inbox[i + 1].kind = "data"
      BY <1>3, <2>3
    <3>2. inboxData >= i + 1 + 0
      BY <2>0, <3>1, Zenon
    <3> QED
      BY <1>3, <1>5, <3>2, BudgetTypes
  <2> QED
    BY <1>1, <2>1, <2>2, <2>3, ZenonT(30) DEF DataInv
<1>8. BatchInv'
  BY <1>1, <1>4, Zenon DEF BudgetInv, BatchInv
<1>9. GrownInv'
  <2>1. reader # NoCall /\ reader.state # "Closed" => 0 + Kept <= reader.buffered + 0
    BY <1>4, Zenon DEF BudgetInv, GrownInv
  <2>2. reader # NoCall /\ reader.state # "Closed" => One(Handling)' + Kept <= reader.buffered + InHand'
    BY <1>5, <2>1, BudgetTypes
  <2> QED
    BY <1>1, <1>6, <2>2, Zenon DEF GrownInv
<1>10. PrefixInv'
  <2> SUFFICES ASSUME NEW i \in 0..Len(inbox'), i > 0 => inbox'[i].kind = "data"
               PROVE  i + Beyond' <= Budget
    BY Zenon DEF PrefixInv
  <2>1. Beyond' = InHand' + Beyond
    <3>1. Beyond = 0 + Kept + Len(recvCh) /\ Beyond' = InHand' + Kept + Len(recvCh)
      BY <1>1, <1>4, <1>5, <1>6, Zenon DEF Beyond
    <3>2. InHand' \in Nat
      BY <1>5
    <3>3. Kept \in Nat /\ Len(recvCh) \in Nat
      BY BudgetTypes, Zenon
    <3>4. InHand' + Kept + Len(recvCh) = InHand' + (0 + Kept + Len(recvCh))
      BY <3>2, <3>3
    <3>5. Beyond' = InHand' + (0 + Kept + Len(recvCh))
      BY <3>1, <3>4, Zenon
    <3> QED
      BY <3>1, <3>5, Zenon
  <2>2. CASE i > 0
    <3>1. i + 1 \in 0..Len(inbox) /\ inbox[i + 1].kind = "data"
      BY <1>3, <2>2
    <3>2. i + 1 + Beyond <= Budget
      BY <3>1, Zenon DEF BudgetInv, PrefixInv
    <3>3. i \in Nat /\ Len(inbox') \in Nat
      BY <1>3
    <3>4. \A n, h, b, g \in Nat : h <= 1 /\ n + 1 + b <= g => n + (h + b) <= g
      OBVIOUS
    <3>5. InHand' \in Nat /\ InHand' <= 1
      BY <1>5
    <3> QED
      BY <2>1, <3>2, <3>3, <3>4, <3>5, BudgetTypes, Zenon
  <2>3. CASE i = 0
    <3>1. 0 \in 0..Len(inbox) /\ 1 \in 0..Len(inbox) /\ ~(0 > 0)
      BY <1>3
    <3>2. 0 + Beyond <= Budget /\ (inbox[1].kind = "data" => 1 + Beyond <= Budget)
      BY <3>1, Zenon DEF BudgetInv, PrefixInv
    <3> QED
      BY <1>5, <2>1, <2>3, <3>2, BudgetTypes
  <2> QED
    BY <1>3, <2>2, <2>3
<1> QED
  BY <1>7, <1>8, <1>9, <1>10, Zenon DEF BudgetInv

\* dispatchLoop releases the frame it has handled, or gives up the inbox.
LEMMA BudgetRelease ==
    ASSUME ReceiverTypeOK, BudgetInv, DispatchRelease \/ DispatchStop
    PROVE  BudgetInv'
<1>1. UNCHANGED <<rState, recvBuf, ready, recvCh, reader>> /\ reader = NoCall
  BY Zenon DEF DispatchRelease, DispatchStop, recvConnVars, orderVars, appVars
<1>2. /\ dispatch \in {"release", "idle"} /\ dispatch' \in {"idle", "stopped"}
      /\ dispatch = "release" => InHand = 1
  BY Zenon DEF DispatchRelease, DispatchStop, InHand, One, Stored
<1>3. InHand' = 0 /\ One(Handling)' = 0 /\ One(Handling) = 0 /\ ~Handling'
  BY <1>2, Zenon DEF InHand, One, Handling, Stored
<1>4. Beyond' = Beyond
  BY <1>1, <1>3, Zenon DEF Beyond, Kept
<1>5. BatchInv'
  <2>1. ready # <<>> => rState = "Closed"
    BY <1>2, Zenon DEF BudgetInv, BatchInv
  <2> QED
    BY <1>1, <1>3, <2>1, Zenon DEF BudgetInv, BatchInv
<1>6. GrownInv'
  BY <1>1, Zenon DEF GrownInv
<1>7. DataInv' /\ PrefixInv'
  <2>1. CASE DispatchRelease
    <3>1. inbox' = inbox /\ admission' = admission /\ inboxData' = inboxData - 1 /\ InHand = 1
      BY <1>2, <2>1, Zenon DEF DispatchRelease
    <3>2. DataInv'
      BY <1>3, <3>1, BudgetTypes, SMTT(30) DEF BudgetInv, DataInv
    <3>3. PrefixInv'
      BY <1>4, <3>1, Zenon DEF BudgetInv, PrefixInv
    <3> QED
      BY <3>2, <3>3, Zenon
  <2>2. CASE DispatchStop
    <3>1. inbox' = <<>> /\ Len(inbox') = 0 /\ inboxData' = 0 /\ admission' = "failed"
      BY <2>2, Zenon DEF DispatchStop
    <3>2. DataInv'
      BY <1>3, <3>1 DEF DataInv
    <3>3. 0 + Beyond <= Budget
      <4>1. 0 \in 0..Len(inbox) /\ ~(0 > 0)
        BY BudgetTypes
      <4> QED
        BY <4>1, Zenon DEF BudgetInv, PrefixInv
    <3>4. \A i \in 0..Len(inbox') : i = 0
      BY <3>1
    <3>5. PrefixInv'
      BY <1>4, <3>3, <3>4, Zenon DEF PrefixInv
    <3> QED
      BY <3>2, <3>5
  <2> QED
    BY <2>1, <2>2, Zenon
<1> QED
  BY <1>5, <1>6, <1>7, Zenon DEF BudgetInv

\* The second half of enqueueEnvelope admits a frame: the budget it compared with
\* old counts leaves room for it.
LEMMA BudgetPush ==
    ASSUME ReceiverTypeOK, BudgetInv, EnqueuePush
    PROVE  BudgetInv'
<1>1. /\ UNCHANGED <<rState, recvBuf, ready, recvCh>> /\ reader # NoCall /\ reader' = NoCall
      /\ inbox' = Append(inbox, reader.env)
      /\ admission' = IF IsData THEN admission ELSE "terminal"
      /\ inboxData' = IF IsData THEN inboxData + 1 ELSE inboxData
      /\ dispatch' = IF dispatch = "none" THEN "idle" ELSE dispatch
  BY Zenon DEF EnqueuePush, recvConnVars, orderVars, appVars
<1>2. ~Ignored /\ ~OverBudget
  BY Zenon DEF EnqueuePush
<1>3. reader.env \in Envelope
  BY <1>1, Zenon DEF ReceiverTypeOK, StreamTypeOK
<1>4. /\ Len(inbox') = Len(inbox) + 1 /\ inbox'[Len(inbox) + 1] = reader.env
      /\ \A i \in 1..Len(inbox) : inbox'[i] = inbox[i]
  BY <1>1, <1>3, BudgetTypes, ChanPut
<1>5. UNCHANGED <<Handling, Stored>>
  BY <1>1 DEF Handling, Stored
<1>6. InHand' = InHand /\ One(Handling)' = One(Handling) /\ Kept' = Kept /\ Beyond' = Beyond
  BY <1>1, <1>5, Zenon DEF InHand, One, Kept, Beyond
<1>7. BatchInv'
  BY <1>1, <1>5, Zenon DEF BudgetInv, BatchInv
<1>8. GrownInv'
  BY <1>1, Zenon DEF GrownInv
<1>9. IsData => admission = "open" /\ inboxData >= Len(inbox) + InHand
  BY <1>2, <1>3, Zenon DEF Ignored, BudgetInv, DataInv, ReceiverTypeOK, StreamTypeOK
<1>10. ASSUME IsData PROVE Len(inbox) + 1 + Beyond <= Budget
  <2>1. One(Handling) + Kept <= reader.buffered + InHand
    BY <1>1, <1>2, Zenon DEF BudgetInv, GrownInv, Ignored
  <2>2. ~(inboxData + Len(recvCh) + reader.buffered >= Budget)
    BY <1>2, <1>10, Zenon DEF OverBudget
  <2>3. \A d \in Int, l, c, n, h, o, k, g \in Nat :
           d >= l + h /\ o + k <= n + h /\ ~(d + c + n >= g) => l + 1 + (o + k + c) <= g
    OBVIOUS
  <2>4. One(Handling) \in Nat /\ InHand \in Nat
    BY BudgetTypes
  <2> QED
    BY <1>9, <1>10, <2>1, <2>2, <2>3, <2>4, BudgetTypes, Zenon DEF Beyond
<1>11. PrefixInv'
  <2> SUFFICES ASSUME NEW i \in 0..Len(inbox'), i > 0 => inbox'[i].kind = "data"
               PROVE  i + Beyond <= Budget
    BY <1>6, Zenon DEF PrefixInv
  <2>1. CASE i = Len(inbox) + 1
    <3>1. IsData
      BY <1>4, <2>1, BudgetTypes DEF IsData
    <3> QED
      BY <1>10, <2>1, <3>1, Zenon
  <2>2. CASE i # Len(inbox) + 1
    <3>1. i \in 0..Len(inbox) /\ (i > 0 => inbox[i].kind = "data")
      BY <1>4, <2>2, BudgetTypes
    <3> QED
      BY <3>1, Zenon DEF BudgetInv, PrefixInv
  <2> QED
    BY <2>1, <2>2, Zenon
<1>12. DataInv'
  <2>1. inboxData' >= InHand /\ inboxData' \in Int /\ inboxData' >= inboxData
    BY <1>1, BudgetTypes DEF BudgetInv, DataInv
  <2>2. admission' = "open" => inboxData' >= Len(inbox') + InHand
    BY <1>1, <1>4, <1>9, BudgetTypes
  <2>3. ASSUME NEW i \in 1..Len(inbox'), inbox'[i].kind = "data" PROVE inboxData' >= i + InHand
    <3>1. CASE i = Len(inbox) + 1
      <4>1. IsData
        BY <1>4, <2>3, <3>1, Zenon DEF IsData
      <4> QED
        BY <1>1, <1>9, <3>1, <4>1, BudgetTypes
    <3>2. CASE i # Len(inbox) + 1
      <4>1. i \in 1..Len(inbox) /\ inbox[i].kind = "data"
        BY <1>4, <2>3, <3>2, BudgetTypes
      <4>2. inboxData >= i + InHand
        BY <4>1, Zenon DEF BudgetInv, DataInv
      <4>3. i + InHand \in Int /\ inboxData \in Int
        BY BudgetTypes
      <4> QED
        BY <2>1, <4>2, <4>3
    <3> QED
      BY <3>1, <3>2, Zenon
  <2> QED
    BY <1>6, <2>1, <2>2, <2>3, Zenon DEF DataInv
<1> QED
  BY <1>7, <1>8, <1>11, <1>12, Zenon DEF BudgetInv

\* The invariant is inductive, in every mode.
LEMMA BudgetInvStep ==
    ASSUME ReceiverTypeOK, ReceiverTypeOK', RecvOrdered => GenuineInv /\ OrderInv, BudgetInv
    PROVE  [ReceiverStep \/ AnyPacket]_receiverVars => BudgetInv'
BY BudgetStill, BudgetHandle, BudgetDeliver, BudgetRead, BudgetTake, BudgetRelease, BudgetPush, Zenon
   DEF ReceiverStep, EnqueueDecide, DispatchStep

\* No frame is stored when the connection starts.
LEMMA BudgetInvInit == ReceiverInit => BudgetInv
<1> SUFFICES ASSUME ReceiverInit PROVE BudgetInv
  BY Zenon
<1>1. /\ inbox = <<>> /\ Len(inbox) = 0 /\ ready = <<>> /\ Len(ready) = 0 /\ Len(recvCh) = 0
      /\ inboxData = 0 /\ dispatch = "none" /\ reader = NoCall
  BY Zenon DEF ReceiverInit
<1>2. Cardinality(recvBuf) = 0
  BY FS_EmptySet, Zenon DEF ReceiverInit
<1>3. InHand = 0 /\ One(Handling) = 0 /\ Kept = 0 /\ Beyond = 0
  BY <1>1, <1>2 DEF InHand, One, Handling, Stored, Kept, Beyond
<1>4. DataInv /\ BatchInv /\ GrownInv
  BY <1>1, <1>3 DEF DataInv, BatchInv, GrownInv, Handling
<1>5. PrefixInv
  BY <1>1, <1>3, ReceiverAssumption DEF PrefixInv, Budget
<1> QED
  BY <1>4, <1>5, Zenon DEF BudgetInv

(***************************************************************************)
(* Types, order and acknowledgements.                                      *)
(***************************************************************************)
\* The type invariant is inductive: one case per action of the receiving half.
LEMMA ReceiverTypeStep ==
    ASSUME ReceiverTypeOK, RecvOrdered => GenuineInv /\ OrderInv
    PROVE  [ReceiverStep \/ AnyPacket]_receiverVars => ReceiverTypeOK'
<1> USE ReceiverAssumption
<1> USE DEF ReceiverTypeOK, StreamTypeOK, AckTypeOK, receiverVars, recvConnVars, orderVars, appVars, rCloseVars, inboxVars,
            dispatchVars, ackVars
<1>1. ASSUME NEW e \in Envelope, EnqueueRead(e) PROVE ReceiverTypeOK'
  <2>1. Cardinality(recvBuf) \in Nat /\ Len(ready) \in Nat
    BY FS_CardinalityType
  <2> QED
    BY <1>1, <2>1 DEF EnqueueRead
<1>2. ASSUME EnqueueDrop PROVE ReceiverTypeOK'
  BY <1>2 DEF EnqueueDrop
<1>3. ASSUME EnqueueReplayACK PROVE ReceiverTypeOK'
  BY <1>3, SMTT(30) DEF EnqueueReplayACK, QueueACK
<1>4. ASSUME EnqueueOverflow PROVE ReceiverTypeOK'
  BY <1>4 DEF EnqueueOverflow, CloseWithSource
<1>5. ASSUME EnqueuePush PROVE ReceiverTypeOK'
  <2>1. StreamTypeOK'
    <3>1. reader.env \in Envelope /\ reader.env.seq \in Nat
      BY <1>5, Zenon DEF EnqueuePush, Envelope
    <3>2. inbox' \in Seq(Envelope)
      BY <1>5, <3>1 DEF EnqueuePush
    <3>3. inboxSeq' \in SUBSET Nat
      BY <1>5, <3>1, ZenonT(30) DEF EnqueuePush
    <3>4. inboxData' \in Int /\ admission' \in {"open", "terminal", "failed"}
      BY <1>5 DEF EnqueuePush
    <3> QED
      BY <1>5, <3>2, <3>3, <3>4 DEF EnqueuePush
  <2>2. AckTypeOK'
    BY <1>5 DEF EnqueuePush
  <2> QED
    BY <2>1, <2>2, ZenonT(30)
<1>6. ASSUME DispatchTake PROVE ReceiverTypeOK'
  <2>1. inbox \in Seq(Envelope) /\ inbox # <<>> /\ active' = Head(inbox) /\ inbox' = Tail(inbox)
    BY <1>6, Zenon DEF DispatchTake
  <2>2. active' \in Envelope /\ inbox' \in Seq(Envelope)
    BY <2>1, ChanHead, Zenon
  <2>3. StreamTypeOK'
    BY <1>6, <2>2 DEF DispatchTake
  <2>4. AckTypeOK'
    BY <1>6, ZenonT(30) DEF DispatchTake, WaitReceiveACK
  <2> QED
    BY <2>3, <2>4, ZenonT(30)
<1>7. ASSUME DispatchTerminal PROVE ReceiverTypeOK'
  BY <1>7, SMTT(30) DEF DispatchTerminal, CloseWithSource
<1>8. ASSUME HandleData PROVE ReceiverTypeOK'
  <2>1. AckTypeOK'
    BY <1>8, Zenon DEF HandleData
  <2>2. HandleTypes
    BY <1>8, HandleTyped, Zenon
  <2>4. StreamTypeOK'
    BY <1>8, <2>2 DEF HandleData, HandleTypes
  <2> QED
    BY <2>1, <2>4, ZenonT(30)
<1>9. ASSUME Deliver PROVE ReceiverTypeOK'
  BY <1>9 DEF Deliver
<1>10. ASSUME DeliverAbandon PROVE ReceiverTypeOK'
  BY <1>10 DEF DeliverAbandon
<1>11. ASSUME DeliverEnd PROVE ReceiverTypeOK'
  BY <1>11 DEF DeliverEnd, QueueACK
<1>12. ASSUME FinishReceiveACK PROVE ReceiverTypeOK'
  <2>1. StreamTypeOK'
    BY <1>12 DEF FinishReceiveACK, CloseACKIdle
  <2>2. AckTypeOK'
    <3>1. ackGenerating' \in Int
      BY <1>12 DEF FinishReceiveACK
    <3>2. ackIdle' \in {"nil", "open"} /\ waiting' \in SUBSET {"dispatcher", "closer"}
      BY <1>12, ZenonT(30) DEF FinishReceiveACK, CloseACKIdle
    <3> QED
      BY <1>12, <3>1, <3>2, Zenon DEF FinishReceiveACK
  <2> QED
    BY <2>1, <2>2, ZenonT(30)
<1>13. ASSUME DispatchRelease PROVE ReceiverTypeOK'
  <2>1. StreamTypeOK'
    <3>1. inboxData' \in Int
      BY <1>13 DEF DispatchRelease
    <3>2. inboxSeq' \in SUBSET Nat
      BY <1>13, ZenonT(30) DEF DispatchRelease
    <3> QED
      BY <1>13, <3>1, <3>2, Zenon DEF DispatchRelease
  <2>2. AckTypeOK'
    BY <1>13, Zenon DEF DispatchRelease
  <2> QED
    BY <2>1, <2>2, ZenonT(30)
<1>14. ASSUME DispatchStop PROVE ReceiverTypeOK'
  BY <1>14 DEF DispatchStop
<1>15. ASSUME AckWake \/ AckTransmit \/ AckReject \/ AckExit PROVE ReceiverTypeOK'
  <2>1. CASE AckWake
    BY <2>1 DEF AckWake
  <2>2. CASE AckTransmit
    BY <2>2 DEF AckTransmit
  <2>3. CASE AckReject
    BY <2>3 DEF AckReject
  <2>4. CASE AckExit
    BY <2>4, SMTT(30) DEF AckExit
  <2> QED
    BY <1>15, <2>1, <2>2, <2>3, <2>4, ZenonT(30)
<1>16. ASSUME AckTake PROVE ReceiverTypeOK'
  <2>1. StreamTypeOK'
    BY <1>16 DEF AckTake, CloseACKIdle
  <2>2. AckTypeOK'
    BY <1>16, ZenonT(30) DEF AckTake, CloseACKIdle
  <2> QED
    BY <2>1, <2>2, ZenonT(30)
<1>17. ASSUME AckSent PROVE ReceiverTypeOK'
  <2>1. StreamTypeOK'
    BY <1>17 DEF AckSent, CloseACKIdle
  <2>2. AckTypeOK'
    BY <1>17, ZenonT(30) DEF AckSent, CloseACKIdle
  <2> QED
    BY <2>1, <2>2, ZenonT(30)
<1>18. ASSUME AckFail PROVE ReceiverTypeOK'
  BY <1>18 DEF AckFail
<1>30. ASSUME AckFailClose PROVE ReceiverTypeOK'
  BY <1>30 DEF AckFailClose, CloseWithSource
<1>19. ASSUME AppRead PROVE ReceiverTypeOK'
  BY <1>19 DEF AppRead
<1>20. ASSUME AppEnd PROVE ReceiverTypeOK'
  BY <1>20 DEF AppEnd
<1>21. ASSUME RCloseCall PROVE ReceiverTypeOK'
  BY <1>21 DEF RCloseCall, WaitReceiveACK, delivered
<1>22. ASSUME RCloseSend PROVE ReceiverTypeOK'
  BY <1>22 DEF RCloseSend
<1>23. ASSUME RCloseSent PROVE ReceiverTypeOK'
  BY <1>23 DEF RCloseSent, CloseWithSource
<1>24. ASSUME ReceiverAbort PROVE ReceiverTypeOK'
  BY <1>24 DEF ReceiverAbort, CloseWithSource
<1>25. ASSUME UNCHANGED receiverVars PROVE ReceiverTypeOK'
  BY <1>25
<1> QED
  BY <1>1, <1>2, <1>3, <1>4, <1>5, <1>6, <1>7, <1>8, <1>9, <1>10, <1>11, <1>12, <1>13, <1>14,
     <1>15, <1>16, <1>17, <1>18, <1>19, <1>20, <1>21, <1>22, <1>23, <1>24, <1>25, <1>30, ZenonT(30)
  DEF ReceiverStep, EnqueueDecide, DispatchStep, AckStep, AppStep, AnyPacket

\* Every DATA frame stored anywhere carries the payload of its number.
LEMMA GenuineStep ==
    ASSUME RecvOrdered, ReceiverTypeOK, GenuineInv, OrderInv
    PROVE  [ReceiverStep \/ AnyPacket]_receiverVars => GenuineInv'
<1> USE DEF receiverVars, recvConnVars, orderVars, appVars, rCloseVars, inboxVars, dispatchVars,
            ackVars
<1>1. ASSUME UNCHANGED <<recvBuf, reader, active, inbox>> PROVE GenuineInv'
  BY <1>1, Zenon DEF GenuineInv, Genuine, Seqs
<1>2. ASSUME NEW e \in Envelope, Genuine(e), EnqueueRead(e) PROVE GenuineInv'
  <2>1. reader'.env = e /\ UNCHANGED <<recvBuf, active, inbox>>
    BY <1>2, Zenon DEF EnqueueRead
  <2> QED
    BY <1>2, <2>1, Zenon DEF GenuineInv, Genuine, Seqs
<1>3. ASSUME EnqueueDrop \/ EnqueueReplayACK \/ EnqueueOverflow PROVE GenuineInv'
  <2>1. reader' = NoCall /\ UNCHANGED <<recvBuf, active, inbox>>
    BY <1>3, Zenon DEF EnqueueDrop, EnqueueReplayACK, EnqueueOverflow
  <2> QED
    BY <2>1, Zenon DEF GenuineInv, Genuine, Seqs, NoCall, NoEnvelope
<1>4. ASSUME EnqueuePush PROVE GenuineInv'
  <2>1. reader' = NoCall /\ UNCHANGED <<recvBuf, active>> /\ inbox' = Append(inbox, reader.env)
    BY <1>4, Zenon DEF EnqueuePush
  <2>2. inbox \in Seq(Envelope) /\ reader.env \in Envelope
    BY <1>4, Zenon DEF EnqueuePush, ReceiverTypeOK, StreamTypeOK
  <2>3. /\ Len(inbox) \in Nat /\ Len(inbox') = Len(inbox) + 1
        /\ \A i \in 1..Len(inbox) : inbox'[i] = inbox[i]
        /\ inbox'[Len(inbox) + 1] = reader.env
    BY <2>1, <2>2, ChanPut, SMTT(30)
  <2>4. \A i \in 1..Len(inbox') : Genuine(inbox'[i])
    BY <2>3 DEF GenuineInv
  <2>5. Genuine(reader'.env)
    BY <2>1, Zenon DEF Genuine, NoCall, NoEnvelope
  <2> QED
    BY <2>1, <2>4, <2>5, Zenon DEF GenuineInv, Genuine, Seqs
<1>5. ASSUME DispatchTake PROVE GenuineInv'
  <2>1. /\ inbox \in Seq(Envelope) /\ inbox # <<>> /\ active' = Head(inbox) /\ inbox' = Tail(inbox)
        /\ UNCHANGED <<recvBuf, reader>>
    BY <1>5, Zenon DEF DispatchTake, ReceiverTypeOK, StreamTypeOK
  <2>2. /\ active' = inbox[1] /\ Len(inbox) \in Nat \ {0} /\ Len(inbox') = Len(inbox) - 1
        /\ \A i \in 1..(Len(inbox) - 1) : inbox'[i] = inbox[i + 1]
    BY <2>1, ChanHead, Zenon
  <2>3. Genuine(active') /\ \A i \in 1..Len(inbox') : Genuine(inbox'[i])
    BY <2>2, SMTT(30) DEF GenuineInv
  <2> QED
    BY <2>1, <2>3, Zenon DEF GenuineInv, Genuine, Seqs
<1>6. ASSUME HandleData PROVE GenuineInv'
  <2>1. IsFiniteSet(Seqs(recvBuf)')
    BY <1>6, BufferFinite, Zenon
  <2>2. /\ UNCHANGED <<reader, active, inbox>> /\ active.kind = "data"
        /\ \/ recvBuf' \in SUBSET recvBuf
           \/ recvBuf' = recvBuf \cup {[seq |-> active.seq, id |-> active.id]}
    BY <1>6, Zenon DEF HandleData, OrderInv, RecvOrdered
  <2>3. \A f \in recvBuf' : f.seq > 0 /\ f.id = f.seq
    BY <2>2, SMTT(30) DEF GenuineInv, Genuine
  <2> QED
    BY <2>1, <2>2, <2>3, Zenon DEF GenuineInv, Genuine
<1>7. ASSUME DispatchTerminal \/ DispatchRelease PROVE GenuineInv'
  <2>1. active' = NoEnvelope /\ UNCHANGED <<recvBuf, reader, inbox>>
    BY <1>7, Zenon DEF DispatchTerminal, DispatchRelease
  <2> QED
    BY <2>1, Zenon DEF GenuineInv, Genuine, Seqs, NoEnvelope
<1>8. ASSUME DispatchStop PROVE GenuineInv'
  <2>1. inbox' = <<>> /\ UNCHANGED <<recvBuf, reader, active>>
    BY <1>8, Zenon DEF DispatchStop
  <2> QED
    BY <2>1, SMTT(30) DEF GenuineInv, Genuine, Seqs
<1>9. ASSUME Deliver \/ DeliverAbandon \/ DeliverEnd \/ FinishReceiveACK PROVE GenuineInv'
  BY <1>9, <1>1, Zenon DEF Deliver, DeliverAbandon, DeliverEnd, FinishReceiveACK
<1>10. ASSUME AckStep PROVE GenuineInv'
  BY <1>10, <1>1, Zenon DEF AckStep, AckWake, AckTake, AckTransmit, AckSent, AckReject, AckFail, AckFailClose, AckExit
<1>11. ASSUME AppStep \/ ReceiverAbort \/ UNCHANGED receiverVars PROVE GenuineInv'
  BY <1>11, <1>1, Zenon DEF AppStep, AppRead, AppEnd, RCloseCall, RCloseSend, RCloseSent, ReceiverAbort
<1> QED
  BY <1>2, <1>3, <1>4, <1>5, <1>6, <1>7, <1>8, <1>9, <1>10, <1>11, Zenon
  DEF ReceiverStep, EnqueueDecide, DispatchStep, AnyPacket

\* Payloads keep their order on the way from recvBuf through ready and recvCh
\* to the application, and none is lost or repeated.
LEMMA OrderStep ==
    ASSUME RecvOrdered, ReceiverTypeOK, GenuineInv, OrderInv
    PROVE  [ReceiverStep \/ AnyPacket]_receiverVars => OrderInv'
<1> USE DEF receiverVars, recvConnVars, orderVars, appVars, rCloseVars, inboxVars, dispatchVars,
            ackVars
<1>1. /\ read \in Seq(Nat) /\ recvCh \in Seq(Nat) /\ ready \in Seq(Nat) /\ expectedSeq \in Nat \ {0}
      /\ Len(read) \in Nat /\ Len(recvCh) \in Nat /\ Len(ready) \in Nat
  BY DEF ReceiverTypeOK, StreamTypeOK
<1>2. ASSUME UNCHANGED <<read, recvCh, ready, expectedSeq, dispatch, active>>,
             rState = "Closed" => rState' = "Closed"
      PROVE  OrderInv'
  BY <1>2, Zenon DEF OrderInv
<1>3. ASSUME UNCHANGED <<read, recvCh, ready, expectedSeq, rState>>,
             dispatch' \notin {"handle", "waitACK"}, dispatch # "deliver"
      PROVE  OrderInv'
  BY <1>3, Zenon DEF OrderInv
<1>4. ASSUME AnyPacket \/ EnqueueDrop \/ EnqueueReplayACK PROVE OrderInv'
  <2>1. UNCHANGED <<read, recvCh, ready, expectedSeq, dispatch, active, rState>>
    <3>1. CASE AnyPacket
      BY <3>1, Zenon DEF AnyPacket, EnqueueRead
    <3>2. CASE EnqueueDrop \/ EnqueueReplayACK
      BY <3>2, ZenonT(30) DEF EnqueueDrop, EnqueueReplayACK
    <3> QED
      BY <1>4, <3>1, <3>2, Zenon
  <2> QED
    BY <1>2, <2>1, Zenon
<1>5. ASSUME EnqueueOverflow \/ AckStep \/ ReceiverAbort \/ UNCHANGED receiverVars PROVE OrderInv'
  BY <1>5, <1>2, Zenon DEF EnqueueOverflow, AckStep, AckWake, AckTake, AckTransmit, AckSent, AckReject,
                    AckFail, AckFailClose, AckExit, ReceiverAbort, CloseWithSource
<1>6. ASSUME EnqueuePush PROVE OrderInv'
  <2>1. /\ UNCHANGED <<read, recvCh, ready, expectedSeq, rState, active>>
        /\ dispatch' = dispatch \/ (dispatch = "none" /\ dispatch' = "idle")
    BY <1>6, Zenon DEF EnqueuePush
  <2> QED
    BY <2>1, <1>2, <1>3, Zenon
<1>7. ASSUME DispatchTake PROVE OrderInv'
  <2>1. /\ inbox \in Seq(Envelope) /\ inbox # <<>> /\ active' = Head(inbox) /\ rState # "Closed"
        /\ dispatch = "idle" /\ UNCHANGED <<read, recvCh, ready, expectedSeq, rState>>
        /\ dispatch' \in {"handle", "waitACK"} /\ (dispatch' = "handle" => active'.kind = "data")
    BY <1>7, Zenon DEF DispatchTake, ReceiverTypeOK, StreamTypeOK
  <2>2. active' \in Envelope
    BY <2>1, ChanHead, Zenon
  <2>3. active' # NoEnvelope
    BY <2>2 DEF Envelope, NoEnvelope
  <2> QED
    BY <2>1, <2>3, Zenon DEF OrderInv
<1>8. ASSUME DispatchTerminal \/ FinishReceiveACK \/ DispatchRelease \/ DispatchStop PROVE OrderInv'
  <2>1. /\ UNCHANGED <<read, recvCh, ready, expectedSeq>> /\ (rState = "Closed" => rState' = "Closed")
        /\ dispatch' \notin {"handle", "waitACK"} /\ dispatch # "deliver"
    BY <1>8, Zenon DEF DispatchTerminal, FinishReceiveACK, DispatchRelease, DispatchStop, CloseWithSource
  <2> QED
    BY <2>1, Zenon DEF OrderInv
<1>9. ASSUME HandleData PROVE OrderInv'
  <2>1. /\ ready = <<>> /\ active.kind = "data" /\ UNCHANGED <<read, recvCh>>
        /\ dispatch' \in {"deliver", "finish"}
    BY <1>9, Zenon DEF HandleData, OrderInv
  <2>2. CASE active.seq = expectedSeq
    <3>1. /\ expectedSeq' \in Nat /\ expectedSeq' > expectedSeq
          /\ ready' \in Seq(Nat) /\ Len(ready') = expectedSeq' - expectedSeq
          /\ \A i \in 1..Len(ready') : ready'[i] = expectedSeq - 1 + i
          /\ dispatch' = "deliver"
      BY <1>9, <2>1, <2>2, Batch, Zenon
    <3>2. Len(ready) = 0 /\ Len(read) + Len(recvCh) = expectedSeq - 1
      BY <1>1, <2>1 DEF OrderInv
    <3>3. /\ \A i \in 1..Len(ready') : ready'[i] = Len(read') + Len(recvCh') + i
          /\ Len(read') + Len(recvCh') + Len(ready') = expectedSeq' - 1
      <4>1. Len(read') = Len(read) /\ Len(recvCh') = Len(recvCh)
        BY <2>1, Zenon
      <4>2. /\ Len(read') + Len(recvCh') = expectedSeq - 1
            /\ Len(read') + Len(recvCh') + Len(ready') = expectedSeq' - 1
        BY <1>1, <3>1, <3>2, <4>1
      <4> QED
        BY <3>1, <4>2, Zenon
    <3> QED
      BY <2>1, <3>1, <3>3, Zenon DEF OrderInv
  <2>3. CASE active.seq # expectedSeq
    <3>1. UNCHANGED <<ready, expectedSeq>>
      BY <1>9, <2>3, Zenon DEF HandleData, RecvOrdered
    <3> QED
      BY <2>1, <3>1, Zenon DEF OrderInv
  <2> QED
    BY <2>2, <2>3, Zenon
<1>10. ASSUME Deliver PROVE OrderInv'
  <2>1. /\ ready # <<>> /\ recvCh' = Append(recvCh, Head(ready)) /\ ready' = Tail(ready)
        /\ UNCHANGED <<read, expectedSeq, dispatch, active, rState>> /\ dispatch = "deliver"
    BY <1>10, Zenon DEF Deliver
  <2>2. /\ Head(ready) \in Nat /\ Head(ready) = ready[1] /\ Len(ready) \in Nat \ {0}
        /\ Len(ready') = Len(ready) - 1
        /\ \A i \in 1..(Len(ready) - 1) : ready'[i] = ready[i + 1]
    BY <1>1, <2>1, ChanHead, Zenon
  <2>3. /\ Len(recvCh') = Len(recvCh) + 1
        /\ \A i \in 1..Len(recvCh) : recvCh'[i] = recvCh[i]
        /\ recvCh'[Len(recvCh) + 1] = Head(ready)
    <3>1. /\ Len(Append(recvCh, Head(ready))) = Len(recvCh) + 1
          /\ \A i \in 1..Len(recvCh) : Append(recvCh, Head(ready))[i] = recvCh[i]
          /\ Append(recvCh, Head(ready))[Len(recvCh) + 1] = Head(ready)
      BY <1>1, <2>2, ChanPut
    <3> QED
      BY <2>1, <3>1, Zenon
  <2>4. \A i \in 1..Len(recvCh') : recvCh'[i] = Len(read') + i
    <3>1. Head(ready) = Len(read) + Len(recvCh) + 1
      BY <1>1, <2>2 DEF OrderInv
    <3>2. \A i \in 1..Len(recvCh) : recvCh'[i] = Len(read) + i
      BY <2>3, Zenon DEF OrderInv
    <3>3. Len(read') = Len(read)
      BY <2>1, Zenon
    <3> TAKE i \in 1..Len(recvCh')
    <3>4. i \in 1..Len(recvCh) \/ i = Len(recvCh) + 1
      BY <1>1, <2>3
    <3>5. CASE i \in 1..Len(recvCh)
      BY <3>2, <3>3, <3>5, Zenon
    <3>6. CASE i = Len(recvCh) + 1
      <4>1. recvCh'[i] = Len(read) + Len(recvCh) + 1
        BY <2>3, <3>1, <3>6, Zenon
      <4> QED
        BY <1>1, <3>3, <3>6, <4>1
    <3> QED
      BY <3>4, <3>5, <3>6, Zenon
  <2>5. \A i \in 1..Len(ready') : ready'[i] = Len(read') + Len(recvCh') + i
    <3> TAKE i \in 1..Len(ready')
    <3>1. i \in 1..(Len(ready) - 1) /\ i + 1 \in 1..Len(ready)
      BY <1>1, <2>2
    <3>2. ready'[i] = ready[i + 1] /\ ready[i + 1] = Len(read) + Len(recvCh) + (i + 1)
      BY <2>2, <3>1, Zenon DEF OrderInv
    <3> QED
      BY <1>1, <2>1, <2>3, <3>1, <3>2
  <2>6. Len(read') + Len(recvCh') + Len(ready') = expectedSeq' - 1
    BY <1>1, <2>1, <2>2, <2>3 DEF OrderInv
  <2> QED
    BY <2>1, <2>4, <2>5, <2>6, Zenon DEF OrderInv
<1>11. ASSUME DeliverAbandon \/ DeliverEnd PROVE OrderInv'
  <2>1. /\ UNCHANGED <<read, recvCh, ready, expectedSeq, rState>> /\ dispatch' = "finish"
        /\ ready = <<>> \/ rState = "Closed"
    BY <1>11, Zenon DEF DeliverAbandon, DeliverEnd
  <2> QED
    BY <2>1, Zenon DEF OrderInv
<1>12. ASSUME AppRead PROVE OrderInv'
  <2>1. /\ recvCh # <<>> /\ read' = Append(read, Head(recvCh)) /\ recvCh' = Tail(recvCh)
        /\ UNCHANGED <<ready, expectedSeq, dispatch, active, rState>>
    BY <1>12, Zenon DEF AppRead
  <2>2. /\ Head(recvCh) \in Nat /\ Head(recvCh) = recvCh[1] /\ Len(recvCh) \in Nat \ {0}
        /\ Len(recvCh') = Len(recvCh) - 1
        /\ \A i \in 1..(Len(recvCh) - 1) : recvCh'[i] = recvCh[i + 1]
    BY <1>1, <2>1, ChanHead, Zenon
  <2>3. /\ Len(read') = Len(read) + 1
        /\ \A i \in 1..Len(read) : read'[i] = read[i]
        /\ read'[Len(read) + 1] = Head(recvCh)
    <3>1. /\ Len(Append(read, Head(recvCh))) = Len(read) + 1
          /\ \A i \in 1..Len(read) : Append(read, Head(recvCh))[i] = read[i]
          /\ Append(read, Head(recvCh))[Len(read) + 1] = Head(recvCh)
      BY <1>1, <2>2, ChanPut
    <3> QED
      BY <2>1, <3>1, Zenon
  <2>4. \A i \in 1..Len(read') : read'[i] = i
    <3>1. Head(recvCh) = Len(read) + 1
      BY <1>1, <2>2 DEF OrderInv
    <3>2. \A i \in 1..Len(read) : read'[i] = i
      BY <2>3, Zenon DEF OrderInv
    <3> QED
      BY <1>1, <2>3, <3>1, <3>2
  <2>5. \A i \in 1..Len(recvCh') : recvCh'[i] = Len(read') + i
    <3> TAKE i \in 1..Len(recvCh')
    <3>1. i \in 1..(Len(recvCh) - 1) /\ i + 1 \in 1..Len(recvCh)
      BY <1>1, <2>2
    <3>2. recvCh'[i] = recvCh[i + 1] /\ recvCh[i + 1] = Len(read) + (i + 1)
      BY <2>2, <3>1, Zenon DEF OrderInv
    <3> QED
      BY <1>1, <2>3, <3>1, <3>2
  <2>6. /\ \A i \in 1..Len(ready') : ready'[i] = Len(read') + Len(recvCh') + i
        /\ Len(read') + Len(recvCh') + Len(ready') = expectedSeq' - 1
    BY <1>1, <2>1, <2>2, <2>3 DEF OrderInv
  <2> QED
    BY <2>1, <2>4, <2>5, <2>6, Zenon DEF OrderInv
<1>13. ASSUME AppEnd \/ RCloseCall \/ RCloseSend \/ RCloseSent PROVE OrderInv'
  <2>1. /\ UNCHANGED <<read, recvCh, ready, expectedSeq, dispatch, active>>
        /\ rState = "Closed" => rState' = "Closed"
    BY <1>13, Zenon DEF AppEnd, RCloseCall, RCloseSend, RCloseSent, CloseWithSource
  <2> QED
    BY <2>1, <1>2, Zenon
<1> QED
  BY <1>4, <1>5, <1>6, <1>7, <1>8, <1>9, <1>10, <1>11, <1>12, <1>13, Zenon
  DEF ReceiverStep, EnqueueDecide, DispatchStep, AppStep

\* No number is acknowledged, at any stage, before its payload is in recvCh.
LEMMA AckInvStep ==
    ASSUME RecvOrdered, ReceiverTypeOK, GenuineInv, OrderInv, AckInv
    PROVE  [ReceiverStep \/ AnyPacket]_receiverVars => AckInv'
<1> USE DEF receiverVars, recvConnVars, orderVars, appVars, rCloseVars, inboxVars, dispatchVars,
            ackVars
<1> DEFINE acks == ackNet \cup {ackPending, ackSending, recvDelivered, reader.delivered}
           count == Len(read) + Len(recvCh)
<1>1. /\ read \in Seq(Nat) /\ recvCh \in Seq(Nat) /\ ready \in Seq(Nat) /\ expectedSeq \in Nat \ {0}
      /\ Len(read) \in Nat /\ Len(recvCh) \in Nat /\ Len(ready) \in Nat /\ count \in Nat
  BY DEF ReceiverTypeOK, StreamTypeOK
<1>2. \A a \in acks : a \in Nat /\ a <= count
  BY DEF AckInv, ReceiverTypeOK, StreamTypeOK, AckTypeOK, NoCall
<1>3. ASSUME acks' \subseteq acks \cup {0, count}, count' = count,
             dispatch' = "deliver" => dispatch = "deliver" /\ UNCHANGED <<batchAck, expectedSeq>>
      PROVE  AckInv'
  <2>1. \A a \in acks' : a <= count'
    <3>1. \A a \in acks \cup {0, count} : a <= count
      BY <1>1, <1>2
    <3> HIDE DEF acks, count
    <3> QED
      BY <1>3, <3>1, Zenon
  <2> QED
    BY <1>3, <2>1, Zenon DEF AckInv
<1>4. ASSUME NEW e, EnqueueRead(e) PROVE AckInv'
  <2>1. /\ reader'.delivered = recvDelivered
        /\ UNCHANGED <<ackNet, ackPending, ackSending, recvDelivered, read, recvCh, dispatch, batchAck,
                       expectedSeq>>
    BY <1>4, Zenon DEF EnqueueRead
  <2> QED
    BY <2>1, <1>3, Zenon
<1>5. ASSUME EnqueueDrop \/ EnqueueOverflow \/ EnqueuePush PROVE AckInv'
  <2>1. /\ reader'.delivered = 0
        /\ UNCHANGED <<ackNet, ackPending, ackSending, recvDelivered, read, recvCh, batchAck,
                       expectedSeq>>
        /\ dispatch' = "deliver" => dispatch = "deliver"
    BY <1>5, SMTT(30) DEF EnqueueDrop, EnqueueOverflow, EnqueuePush, NoCall
  <2> QED
    BY <2>1, <1>3, Zenon
<1>6. ASSUME EnqueueReplayACK PROVE AckInv'
  <2>1. /\ reader'.delivered = 0 /\ ackPending' \in {ackPending, reader.delivered}
        /\ UNCHANGED <<ackNet, ackSending, recvDelivered, read, recvCh, dispatch, batchAck,
                       expectedSeq>>
    BY <1>6, Zenon DEF EnqueueReplayACK, QueueACK, NoCall
  <2> QED
    BY <2>1, <1>3, Zenon
<1>7. ASSUME DispatchTake \/ DispatchTerminal \/ FinishReceiveACK \/ DispatchRelease \/ DispatchStop
             \/ DeliverAbandon
      PROVE  AckInv'
  <2>1. /\ UNCHANGED <<ackNet, ackPending, ackSending, recvDelivered, reader, read, recvCh>>
        /\ dispatch' # "deliver"
    BY <1>7, Zenon DEF DispatchTake, DispatchTerminal, FinishReceiveACK, DispatchRelease,
       DispatchStop, DeliverAbandon
  <2> QED
    BY <2>1, <1>3, Zenon
<1>8. ASSUME HandleData PROVE AckInv'
  <2>1. /\ UNCHANGED <<ackNet, ackPending, ackSending, recvDelivered, reader, read, recvCh>>
        /\ dispatch' = "deliver" => batchAck' = expectedSeq' - 1
    BY <1>8, Zenon DEF HandleData, RecvOrdered
  <2> QED
    BY <2>1, Zenon DEF AckInv
<1>9. ASSUME Deliver PROVE AckInv'
  <2>1. /\ ready # <<>> /\ recvCh' = Append(recvCh, Head(ready))
        /\ UNCHANGED <<ackNet, ackPending, ackSending, recvDelivered, reader, read, dispatch, batchAck,
                       expectedSeq>>
    BY <1>9, Zenon DEF Deliver
  <2>2. Head(ready) \in Nat
    BY <1>1, <2>1, ChanHead, Zenon
  <2>3. Len(recvCh') = Len(recvCh) + 1 /\ Len(read') = Len(read)
    BY <1>1, <2>1, <2>2
  <2>4. \A a \in acks : a <= Len(read) + (Len(recvCh) + 1)
    BY <1>1, <1>2
  <2>5. \A a \in acks' : a <= Len(read') + Len(recvCh')
    BY <2>1, <2>3, <2>4, Zenon
  <2> QED
    BY <2>1, <2>5, Zenon DEF AckInv
<1>10. ASSUME DeliverEnd PROVE AckInv'
  <2>1. Len(ready) = 0 /\ batchAck = count
    <3>1. ready = <<>> /\ Len(ready) = 0 /\ batchAck = expectedSeq - 1
      BY <1>10, Zenon DEF DeliverEnd, AckInv
    <3>2. Len(read) + Len(recvCh) + Len(ready) = expectedSeq - 1
      BY Zenon DEF OrderInv
    <3>3. Len(read) + Len(recvCh) + 0 = count
      BY <1>1
    <3> QED
      BY <3>1, <3>2, <3>3, Zenon
  <2>2. /\ recvDelivered' = batchAck /\ ackPending' \in {ackPending, batchAck}
        /\ UNCHANGED <<ackNet, ackSending, reader, read, recvCh>> /\ dispatch' = "finish"
    BY <1>10, Zenon DEF DeliverEnd, QueueACK
  <2> QED
    BY <2>1, <2>2, <1>3, Zenon
<1>11. ASSUME AckStep PROVE AckInv'
  <2>1. /\ ackNet' \subseteq ackNet \cup {ackSending} /\ ackSending' \in {ackSending, ackPending, 0}
        /\ ackPending' \in {ackPending, 0}
        /\ UNCHANGED <<recvDelivered, reader, read, recvCh, dispatch, batchAck, expectedSeq>>
    BY <1>11, Zenon DEF AckStep, AckWake, AckTake, AckTransmit, AckSent, AckReject, AckFail, AckFailClose, AckExit
  <2> QED
    BY <2>1, <1>3, Zenon
<1>12. ASSUME AppRead PROVE AckInv'
  <2>1. /\ recvCh # <<>> /\ read' = Append(read, Head(recvCh)) /\ recvCh' = Tail(recvCh)
        /\ UNCHANGED <<ackNet, ackPending, ackSending, recvDelivered, reader, dispatch, batchAck,
                       expectedSeq>>
    BY <1>12, Zenon DEF AppRead
  <2>2. Head(recvCh) \in Nat /\ Len(recvCh) \in Nat \ {0} /\ Len(recvCh') = Len(recvCh) - 1
    BY <1>1, <2>1, ChanHead, Zenon
  <2>3. Len(read') = Len(read) + 1
    BY <1>1, <2>1, <2>2
  <2>4. count' = count
    BY <1>1, <2>2, <2>3
  <2> QED
    BY <2>1, <2>4, <1>3, Zenon
<1>13. ASSUME AppEnd \/ RCloseCall \/ RCloseSend \/ RCloseSent \/ ReceiverAbort
              \/ UNCHANGED receiverVars
       PROVE  AckInv'
  <2>1. UNCHANGED <<ackNet, ackPending, ackSending, recvDelivered, reader, read, recvCh, dispatch,
                    batchAck, expectedSeq>>
    BY <1>13, Zenon DEF AppEnd, RCloseCall, RCloseSend, RCloseSent, ReceiverAbort, receiverVars
  <2> QED
    BY <2>1, <1>3, Zenon
<1> QED
  BY <1>4, <1>5, <1>6, <1>7, <1>8, <1>9, <1>10, <1>11, <1>12, <1>13, Zenon
  DEF ReceiverStep, EnqueueDecide, DispatchStep, AppStep, AnyPacket

\* Every step of the receiving half keeps its invariant.
LEMMA ReceiverInvStep ==
    ASSUME RecvOrdered, ReceiverTypeOK, ReceiverInv
    PROVE  [ReceiverStep \/ AnyPacket]_receiverVars => (ReceiverTypeOK /\ ReceiverInv)'
BY ReceiverTypeStep, GenuineStep, OrderStep, AckInvStep, EndStep, Zenon DEF ReceiverInv

\* What the invariant says about recvCh and the ACKs.
LEMMA ReceiverInvSafe ==
    ASSUME ReceiverTypeOK, ReceiverInv
    PROVE  Len(delivered) = Len(read) + Len(recvCh) /\ InOrder /\ AckIsDelivered
<1>1. /\ read \in Seq(Nat) /\ recvCh \in Seq(Nat) /\ Len(read) \in Nat /\ Len(recvCh) \in Nat
  BY DEF ReceiverTypeOK, StreamTypeOK
<1>2. /\ Len(delivered) = Len(read) + Len(recvCh)
      /\ \A i \in 1..(Len(read) + Len(recvCh)) :
            delivered[i] = IF i <= Len(read) THEN read[i] ELSE recvCh[i - Len(read)]
  BY <1>1 DEF delivered
<1>3. ASSUME NEW i \in 1..Len(delivered) PROVE delivered[i] = i
  <2>1. CASE i <= Len(read)
    BY <1>1, <1>2, <2>1 DEF ReceiverInv, OrderInv
  <2>2. CASE ~(i <= Len(read))
    <3>1. i - Len(read) \in 1..Len(recvCh)
      BY <1>1, <1>2, <2>2
    <3>2. delivered[i] = recvCh[i - Len(read)] /\ recvCh[i - Len(read)] = Len(read) + (i - Len(read))
      BY <1>2, <2>2, <3>1, Zenon DEF ReceiverInv, OrderInv
    <3> QED
      BY <1>1, <3>2
  <2> QED
    BY <2>1, <2>2, Zenon
<1>4. InOrder
  BY <1>3, Zenon DEF InOrder
<1>5. AckIsDelivered
  BY <1>2, Zenon DEF AckIsDelivered, ReceiverInv, AckInv
<1> QED
  BY <1>2, <1>4, <1>5, Zenon

\* A step of the receiving half alone, against any peer, is one the lemmas speak of.
LEMMA AnyPeer == [ReceiverNext]_receiverVars => [ReceiverStep \/ AnyPacket]_receiverVars
<1>1. \A e \in Offered : e \in Envelope /\ Genuine(e)
  BY DEF Offered, Envelope, Genuine
<1> QED
  BY <1>1, Zenon DEF ReceiverNext, PeerPacket, AnyPacket

\* The invariant of the receiving half holds in every state, its types in every mode.
LEMMA ReceiverInvariant == ReceiverSpec => [](ReceiverTypeOK /\ (RecvOrdered => ReceiverInv))
<1>1. ReceiverInit => ReceiverTypeOK /\ (RecvOrdered => ReceiverInv)
  BY ReceiverInvInit, Zenon
<1>2. ASSUME ReceiverTypeOK, RecvOrdered => ReceiverInv, [ReceiverNext]_receiverVars
      PROVE  (ReceiverTypeOK /\ (RecvOrdered => ReceiverInv))'
  <2>1. [ReceiverStep \/ AnyPacket]_receiverVars
    BY <1>2, AnyPeer, Zenon
  <2>2. ReceiverTypeOK'
    BY <1>2, <2>1, ReceiverTypeStep, Zenon DEF ReceiverInv
  <2>3. RecvOrdered => ReceiverInv'
    BY <1>2, <2>1, ReceiverInvStep, Zenon
  <2>4. RecvOrdered' <=> RecvOrdered
    BY Zenon DEF RecvOrdered
  <2> QED
    BY <2>2, <2>3, <2>4, Zenon
<1> QED
  BY <1>1, <1>2, PTL DEF ReceiverSpec

\* In ReliableOrdered mode recvCh receives payload 1, 2, 3 ... exactly once and
\* in this order, whatever the peer repeats, reorders or leaves out, for every
\* window, queue size and number of frames (handleData, deliverOrdered).
THEOREM InOrderCorrect == ReceiverSpec => []InOrder
<1>1. ReceiverTypeOK /\ (RecvOrdered => ReceiverInv) => InOrder
  BY ReceiverInvSafe, Zenon DEF InOrder
<1> QED
  BY <1>1, ReceiverInvariant, PTL

\* An ACK, whether sent, queued or replayed, never covers a payload that has not
\* reached recvCh (enqueueEnvelope, handleData, queueACK).
THEOREM AckIsDeliveredCorrect == ReceiverSpec => []AckIsDelivered
<1>1. ReceiverTypeOK /\ (RecvOrdered => ReceiverInv) => AckIsDelivered
  BY ReceiverInvSafe, Zenon DEF AckIsDelivered
<1> QED
  BY <1>1, ReceiverInvariant, PTL

\* The receiving half keeps its types, in every mode.
THEOREM ReceiverTypeCorrect == ReceiverSpec => []ReceiverTypeOK
BY ReceiverInvariant, PTL

(***************************************************************************)
(* Close of this side waits until no ACK is owed (waitReceiveACK). OwedInv *)
(* is the account of the ACKs that are owed.                               *)
(***************************************************************************)
\* DATA whose ACK is registered and not yet queued: the inbox and the frame
\* that dispatchLoop handles.  No DATA is behind a CLOSE or ERROR in the inbox, so
\* a DATA frame's place says how many are registered before it.
Busy == IF dispatch \in {"handle", "deliver", "finish"} THEN 1 ELSE 0
CountInv ==
    /\ ackGenerating >= Busy
    /\ admission = "open" => ackGenerating >= Len(inbox) + Busy
    /\ \A i \in 1..Len(inbox) : inbox[i].kind = "data" => ackGenerating >= i + Busy

\* ackIdle exists while an ACK is registered, pending or being sent.
IdleInv ==
    /\ ackWorker # "send" => ackSending = 0
    /\ ackIdle = "nil" => ackGenerating = 0 /\ ackPending = 0 /\ ackSending = 0

\* An ACK that failed for good ends the account: receiveACKLoop sends no more, and
\* is about to close the connection.
Broken == rState = "Closed" \/ AckFailed

\* Unless handleData is about to queue it, the ACK of what is in recvCh is on its
\* way.
CoverInv ==
    ~Broken /\ dispatch # "deliver" /\ Len(read) + Len(recvCh) > 0 =>
        \E a \in ackNet \cup {ackPending, ackSending} : a >= Len(read) + Len(recvCh)

\* What Close waits for has been accepted when it waits no more.
Accepted(n) == n > 0 => \E a \in ackNet : a >= n
CloserInv ==
    /\ rCloser = "receiveACK" => closeMark <= Len(read) + Len(recvCh)
    /\ rCloser = "receiveACK" /\ "closer" \notin waiting /\ ~Broken => Accepted(closeMark)
    /\ rCloser = "sending" => AckFailed \/ Accepted(closeMark)

OwedInv == CountInv /\ IdleInv /\ CoverInv /\ CloserInv

\* A step keeps the number of registered ACKs in line with the DATA under way:
\* beginReceiveACK at admission, finishReceiveACK after handleData.
LEMMA CountStep ==
    ASSUME ReceiverTypeOK, CountInv, RecvOrdered
    PROVE  [ReceiverStep \/ AnyPacket]_receiverVars => CountInv'
<1> USE DEF receiverVars, recvConnVars, orderVars, appVars, rCloseVars, inboxVars, dispatchVars,
            ackVars
<1>1. /\ inbox \in Seq(Envelope) /\ Len(inbox) \in Nat /\ ackGenerating \in Int /\ Busy \in 0..1
      /\ Busy' \in 0..1
  BY DEF ReceiverTypeOK, StreamTypeOK, AckTypeOK, Busy
<1>2. ASSUME UNCHANGED <<inbox, ackGenerating, Busy>>, admission' = "open" => admission = "open"
      PROVE  CountInv'
  BY <1>2, Zenon DEF CountInv
<1>3. ASSUME AnyPacket \/ EnqueueDrop \/ EnqueueReplayACK \/ EnqueueOverflow \/ DispatchTerminal
             \/ HandleData \/ Deliver \/ DeliverAbandon \/ DeliverEnd \/ DispatchRelease
      PROVE  CountInv'
  <2>1. UNCHANGED <<inbox, ackGenerating, Busy>> /\ (admission' = "open" => admission = "open")
    BY <1>3, Zenon DEF AnyPacket, EnqueueRead, EnqueueDrop, EnqueueReplayACK, EnqueueOverflow,
       DispatchTerminal, HandleData, Deliver, DeliverAbandon, DeliverEnd, DispatchRelease, Busy
  <2> QED
    BY <1>2, <2>1, Zenon
<1>4. ASSUME AckStep \/ AppStep \/ ReceiverAbort \/ UNCHANGED receiverVars PROVE CountInv'
  <2>1. UNCHANGED <<inbox, ackGenerating, dispatch, admission>>
    BY <1>4, Zenon DEF AckStep, AckWake, AckTake, AckTransmit, AckSent, AckReject, AckFail, AckFailClose, AckExit,
       AppStep, AppRead, AppEnd, RCloseCall, RCloseSend, RCloseSent, ReceiverAbort
  <2> QED
    BY <1>2, <2>1, Zenon DEF Busy
<1>5. ASSUME DispatchStop PROVE CountInv'
  <2>1. /\ inbox' = <<>> /\ admission' = "failed" /\ ackGenerating' = ackGenerating
        /\ dispatch = "idle" /\ dispatch' = "stopped"
    BY <1>5, Zenon DEF DispatchStop
  <2>2. Len(<<>>) = 0 /\ 1..0 = {}
    OBVIOUS
  <2> QED
    BY <2>1, <2>2, Zenon DEF CountInv, Busy
<1>6. ASSUME FinishReceiveACK PROVE CountInv'
  <2>1. /\ UNCHANGED <<inbox, admission>> /\ ackGenerating' = ackGenerating - 1
        /\ Busy = 1 /\ Busy' = 0
    BY <1>6, Zenon DEF FinishReceiveACK, Busy, RecvOrdered, RecvBestEffort
  <2> QED
    BY <1>1, <2>1 DEF CountInv
<1>7. ASSUME DispatchTake PROVE CountInv'
  <2>1. /\ inbox # <<>> /\ inbox' = Tail(inbox) /\ active' = Head(inbox)
        /\ UNCHANGED <<admission, ackGenerating>>
        /\ Busy' = 1 => active'.kind = "data"
    BY <1>7, SMTT(30) DEF DispatchTake, Busy
  <2>2. /\ Len(inbox) \in Nat \ {0} /\ Len(inbox') = Len(inbox) - 1 /\ active' = inbox[1]
        /\ \A i \in 1..(Len(inbox) - 1) : inbox'[i] = inbox[i + 1]
    BY <1>1, <2>1, ChanHead, Zenon
  <2>6. Busy = 0
    BY <1>7, Zenon DEF DispatchTake, Busy
  <2>3. Busy' = 1 => ackGenerating >= 1
    BY <1>1, <2>1, <2>2, <2>6 DEF CountInv
  <2>4. ASSUME NEW i \in 1..Len(inbox'), inbox'[i].kind = "data" PROVE ackGenerating' >= i + Busy'
    <3>1. i + 1 \in 1..Len(inbox) /\ inbox[i + 1].kind = "data"
      BY <2>2, <2>4
    <3>2. ackGenerating >= (i + 1) + Busy
      BY <3>1, Zenon DEF CountInv
    <3>3. i \in Nat
      BY <1>1, <2>2
    <3>4. \A g \in Int, n \in Nat, b \in 0..1 : g >= (n + 1) + 0 => g >= n + b
      OBVIOUS
    <3> QED
      BY <1>1, <2>1, <2>6, <3>2, <3>3, <3>4, Zenon
  <2>5. admission' = "open" => ackGenerating' >= Len(inbox') + Busy'
    BY <1>1, <2>1, <2>2, <2>6 DEF CountInv
  <2>7. ackGenerating' >= Busy'
    BY <1>1, <2>1, <2>3, <2>6, SMTT(30) DEF CountInv
  <2> QED
    BY <2>4, <2>5, <2>7, Zenon DEF CountInv
<1>8. ASSUME EnqueuePush PROVE CountInv'
  <2>1. /\ reader.env \in Envelope /\ inbox' = Append(inbox, reader.env) /\ Busy' = Busy
        /\ admission' = "open" => admission = "open" /\ IsData
        /\ IsData => admission = "open"
        /\ ackGenerating' = IF IsData THEN ackGenerating + 1 ELSE ackGenerating
    BY <1>8, Zenon DEF EnqueuePush, Ignored, Busy, AckWork, RecvOrdered, RecvBestEffort, ReceiverTypeOK,
       StreamTypeOK
  <2>2. /\ Len(inbox') = Len(inbox) + 1 /\ inbox'[Len(inbox) + 1] = reader.env
        /\ \A i \in 1..Len(inbox) : inbox'[i] = inbox[i]
    <3> DEFINE q == Append(inbox, reader.env)
    <3>1. inbox \in Seq(Envelope) /\ reader.env \in Envelope /\ inbox' = q
      BY <1>1, <2>1, Zenon
    <3>2. Len(q) = Len(inbox) + 1 /\ q[Len(inbox) + 1] = reader.env /\ \A i \in 1..Len(inbox) : q[i] = inbox[i]
      BY <3>1, ChanPut
    <3> HIDE DEF q
    <3> QED
      BY <3>1, <3>2, Zenon
  <2>3. IsData <=> reader.env.kind = "data"
    BY Zenon DEF IsData
  <2>4. ASSUME NEW i \in 1..Len(inbox'), inbox'[i].kind = "data" PROVE ackGenerating' >= i + Busy'
    <3>1. CASE i = Len(inbox) + 1
      BY <1>1, <2>1, <2>2, <2>3, <2>4, <3>1 DEF CountInv
    <3>2. CASE i # Len(inbox) + 1
      <4>1. i \in 1..Len(inbox)
        BY <1>1, <2>2, <3>2
      <4> QED
        BY <1>1, <2>1, <2>2, <2>4, <4>1 DEF CountInv
    <3> QED
      BY <3>1, <3>2, Zenon
  <2> QED
    BY <1>1, <2>1, <2>2, <2>4, SMTT(30) DEF CountInv
<1> QED
  BY <1>3, <1>4, <1>5, <1>6, <1>7, <1>8, Zenon DEF ReceiverStep, EnqueueDecide, DispatchStep

\* closeACKIdleLocked closes the channel only when nothing is owed.
LEMMA IdleStep ==
    ASSUME ReceiverTypeOK, CountInv, IdleInv, RecvOrdered
    PROVE  [ReceiverStep \/ AnyPacket]_receiverVars => IdleInv'
<1> USE DEF receiverVars, recvConnVars, orderVars, appVars, rCloseVars, inboxVars, dispatchVars,
            ackVars
<1>1. /\ ackGenerating \in Int /\ ackPending \in Nat /\ ackSending \in Nat
      /\ ackIdle \in {"nil", "open"}
  BY Zenon DEF ReceiverTypeOK, AckTypeOK
<1>2. ASSUME UNCHANGED <<ackGenerating, ackPending, ackSending, ackIdle, ackWorker>> PROVE IdleInv'
  BY <1>2, Zenon DEF IdleInv
<1>3. ASSUME \/ AnyPacket \/ EnqueueDrop \/ EnqueueOverflow \/ DispatchTake \/ DispatchTerminal
             \/ HandleData \/ Deliver \/ DeliverAbandon \/ DispatchRelease \/ DispatchStop
             \/ AppStep \/ ReceiverAbort \/ UNCHANGED receiverVars
      PROVE  IdleInv'
  <2>1. UNCHANGED <<ackGenerating, ackPending, ackSending, ackIdle, ackWorker>>
    BY <1>3, Zenon DEF AnyPacket, EnqueueRead, EnqueueDrop, EnqueueOverflow, DispatchTake,
       DispatchTerminal, HandleData, Deliver, DeliverAbandon, DispatchRelease, DispatchStop,
       AppStep, AppRead, AppEnd, RCloseCall, RCloseSend, RCloseSent, ReceiverAbort
  <2> QED
    BY <1>2, <2>1, Zenon
<1>4. ASSUME EnqueueReplayACK \/ DeliverEnd PROVE IdleInv'
  <2>1. /\ UNCHANGED <<ackGenerating, ackSending, ackWorker>>
        /\ UNCHANGED <<ackPending, ackIdle>> \/ ackIdle' = "open"
    BY <1>4, Zenon DEF EnqueueReplayACK, DeliverEnd, QueueACK
  <2> QED
    BY <2>1, Zenon DEF IdleInv
<1>5. ASSUME EnqueuePush PROVE IdleInv'
  <2>1. /\ UNCHANGED <<ackPending, ackSending, ackWorker>>
        /\ UNCHANGED <<ackGenerating, ackIdle>> \/ ackIdle' = "open"
    BY <1>5, Zenon DEF EnqueuePush
  <2> QED
    BY <2>1, Zenon DEF IdleInv
<1>6. ASSUME FinishReceiveACK PROVE IdleInv'
  <2>1. /\ UNCHANGED <<ackPending, ackSending, ackWorker>> /\ ackGenerating >= 1
        /\ ackGenerating' = ackGenerating - 1
        /\ CloseACKIdle(ackGenerating', ackPending, ackSending)
    BY <1>6, Zenon DEF FinishReceiveACK, CountInv, Busy, RecvOrdered, RecvBestEffort
  <2>2. ackIdle # "nil"
    BY <1>1, <2>1, SMTT(30) DEF IdleInv
  <2> QED
    BY <2>1, <2>2, Zenon DEF CloseACKIdle, IdleInv
<1>7. ASSUME AckWake \/ AckTransmit \/ AckReject \/ AckExit \/ AckFail \/ AckFailClose
      PROVE  IdleInv'
  BY <1>7, Zenon DEF AckWake, AckTransmit, AckReject, AckExit, AckFail, AckFailClose, IdleInv
<1>8. ASSUME AckTake \/ AckSent PROVE IdleInv'
  BY <1>1, <1>8, Zenon DEF AckTake, AckSent, CloseACKIdle, IdleInv
<1> QED
  BY <1>3, <1>4, <1>5, <1>6, <1>7, <1>8, Zenon DEF ReceiverStep, EnqueueDecide, DispatchStep, AckStep

\* No step takes back that the connection is closed, or that an ACK has failed.
LEMMA BrokenStays ==
    [ReceiverStep \/ AnyPacket]_receiverVars => (AckFailed => AckFailed') /\ (Broken => Broken')
<1> USE DEF receiverVars, recvConnVars, dispatchVars, ackVars
<1> SUFFICES ASSUME [ReceiverStep \/ AnyPacket]_receiverVars
             PROVE  (AckFailed => AckFailed') /\ (Broken => Broken')
  OBVIOUS
<1>1. rState = "Closed" => rState' = "Closed"
  <2>1. CASE \/ AnyPacket \/ EnqueueDecide \/ DispatchStep \/ UNCHANGED receiverVars
    BY <2>1, ZenonT(30) DEF AnyPacket, EnqueueRead, EnqueueDecide, EnqueueDrop, EnqueueReplayACK,
       EnqueueOverflow, EnqueuePush, DispatchStep, DispatchTake, DispatchTerminal, HandleData, Deliver,
       DeliverAbandon, DeliverEnd, FinishReceiveACK, DispatchRelease, DispatchStop, CloseWithSource
  <2>2. CASE AckStep
    BY <2>2, Zenon DEF AckStep, AckWake, AckTake, AckTransmit, AckSent, AckReject, AckFail, AckFailClose, AckExit,
       CloseWithSource
  <2>3. CASE AppStep \/ RCloseCall \/ RCloseSend \/ RCloseSent \/ ReceiverAbort
    BY <2>3, Zenon DEF AppStep, AppRead, AppEnd, RCloseCall, RCloseSend, RCloseSent, ReceiverAbort,
       CloseWithSource
  <2> QED
    BY <2>1, <2>2, <2>3, Zenon DEF ReceiverStep
<1>2. AckFailed => AckFailed'
  <2>1. CASE AckStep
    BY <2>1 DEF AckStep, AckWake, AckTake, AckTransmit, AckSent, AckReject, AckFail, AckFailClose, AckExit,
       AckFailed
  <2>2. CASE ~AckStep
    <3>1. ackWorker' = ackWorker
      BY <2>2, ZenonT(30) DEF ReceiverStep, AnyPacket, EnqueueRead, EnqueueDecide, EnqueueDrop, EnqueueReplayACK,
         EnqueueOverflow, EnqueuePush, DispatchStep, DispatchTake, DispatchTerminal, HandleData, Deliver,
         DeliverAbandon, DeliverEnd, FinishReceiveACK, DispatchRelease, DispatchStop, AppStep, AppRead, AppEnd,
         RCloseCall, RCloseSend, RCloseSent, ReceiverAbort
    <3> QED
      BY <3>1, Zenon DEF AckFailed
  <2> QED
    BY <2>1, <2>2, Zenon
<1> QED
  BY <1>1, <1>2, Zenon DEF Broken

\* What a step does to the payloads in recvCh, the ACKs on their way and the call
\* of Close, for every step but the five that queue, take or send an ACK.
LEMMA CoverStep ==
    ASSUME ReceiverTypeOK, OrderInv, AckInv, IdleInv, CoverInv, RecvOrdered
    PROVE  [ReceiverStep \/ AnyPacket]_receiverVars => CoverInv'
<1> USE DEF receiverVars, recvConnVars, orderVars, appVars, rCloseVars, inboxVars, dispatchVars,
            ackVars
<1> DEFINE count == Len(read) + Len(recvCh)
           acks == ackNet \cup {ackPending, ackSending}
<1>1. /\ read \in Seq(Nat) /\ recvCh \in Seq(Nat) /\ Len(read) \in Nat /\ Len(recvCh) \in Nat
      /\ Len(ready) \in Nat /\ ackPending \in Nat /\ ackSending \in Nat /\ ackNet \in SUBSET Nat
      /\ count \in Nat /\ expectedSeq \in Nat
  BY DEF ReceiverTypeOK, StreamTypeOK, AckTypeOK
<1>2. CoverInv <=> (~Broken /\ dispatch # "deliver" /\ count > 0 =>
                       \E a \in acks : a >= count)
  BY Zenon DEF CoverInv
<1>3. CoverInv' <=> (~Broken' /\ dispatch' # "deliver" /\ count' > 0 =>
                        \E a \in acks' : a >= count')
  BY Zenon DEF CoverInv
<1>4. ASSUME count' = count, acks \subseteq acks' \cup {0}, Broken => Broken',
             dispatch = "deliver" => Broken' \/ dispatch' = "deliver"
      PROVE  CoverInv'
  <2> SUFFICES ASSUME ~Broken', dispatch' # "deliver", count' > 0
               PROVE  \E a \in acks' : a >= count'
    BY <1>3, Zenon
  <2>1. ~Broken /\ dispatch # "deliver" /\ count > 0
    BY <1>4, Zenon
  <2>2. PICK a \in acks : a >= count
    BY <1>2, <2>1, Zenon
  <2>3. a # 0
    BY <1>1, <2>1, <2>2
  <2>4. a \in acks'
    <3> HIDE DEF acks
    <3> QED
      BY <1>4, <2>2, <2>3, Zenon
  <2> HIDE DEF acks, count
  <2> QED
    BY <1>4, <2>2, <2>4, Zenon
<1>5. ASSUME \/ AnyPacket \/ EnqueueDrop \/ EnqueueOverflow \/ EnqueuePush \/ DispatchTake
             \/ DispatchTerminal \/ HandleData \/ FinishReceiveACK \/ DispatchRelease \/ DispatchStop
             \/ DeliverAbandon \/ AppEnd \/ RCloseCall \/ RCloseSend \/ RCloseSent \/ ReceiverAbort
             \/ UNCHANGED receiverVars
      PROVE  CoverInv'
  <2>1. UNCHANGED <<read, recvCh, ackNet, ackPending, ackSending>>
    BY <1>5, ZenonT(30) DEF AnyPacket, EnqueueRead, EnqueueDrop, EnqueueOverflow, EnqueuePush,
       DispatchTake, DispatchTerminal, HandleData, FinishReceiveACK, DispatchRelease, DispatchStop,
       DeliverAbandon, AppEnd, RCloseCall, RCloseSend, RCloseSent, ReceiverAbort
  <2>2. Broken => Broken'
    BY <1>5, BrokenStays, Zenon DEF ReceiverStep, EnqueueDecide, DispatchStep, AppStep
  <2>3. dispatch = "deliver" => Broken' \/ dispatch' = "deliver"
    BY <1>5, Zenon DEF AnyPacket, EnqueueRead, EnqueueDrop, EnqueueOverflow, EnqueuePush,
       DispatchTake, DispatchTerminal, HandleData, FinishReceiveACK, DispatchRelease, DispatchStop,
       DeliverAbandon, AppEnd, RCloseCall, RCloseSend, RCloseSent, ReceiverAbort, CloseWithSource, Broken
  <2> QED
    BY <1>4, <2>1, <2>2, <2>3, Zenon
<1>6. ASSUME EnqueueReplayACK PROVE CoverInv'
  <2>1. /\ UNCHANGED <<read, recvCh, ackNet, ackSending, rState, ackWorker, dispatch>>
        /\ ackPending' = ackPending \/ (ackPending' = reader.delivered /\ reader.delivered > ackPending)
    BY <1>6, Zenon DEF EnqueueReplayACK, QueueACK
  <2>2. reader.delivered \in Nat
    BY DEF ReceiverTypeOK, StreamTypeOK, NoCall
  <2> QED
    BY <1>1, <2>1, <2>2 DEF CoverInv, Broken, AckFailed
<1>7. ASSUME Deliver PROVE CoverInv'
  BY <1>3, <1>7, Zenon DEF Deliver
<1>8. ASSUME DeliverEnd PROVE CoverInv'
  <2>1. Len(ready) = 0 /\ batchAck = count
    BY <1>1, <1>8, SMTT(30) DEF DeliverEnd, OrderInv, AckInv
  <2>2. /\ UNCHANGED <<read, recvCh, rState>>
        /\ rState # "Closed" /\ batchAck # 0 => ackPending' >= batchAck
    BY <1>1, <1>8, <2>1 DEF DeliverEnd, QueueACK, RecvOrdered, RecvBestEffort
  <2> QED
    BY <1>1, <1>3, <2>1, <2>2, SMTT(30) DEF Broken
<1>9. ASSUME AckStep PROVE CoverInv'
  <2>1. /\ UNCHANGED <<read, recvCh, dispatch>>
        /\ ~Broken' => acks \subseteq acks' \cup {0}
    BY <1>9, Zenon DEF AckStep, AckWake, AckTake, AckTransmit, AckSent, AckReject, AckFail, AckFailClose, AckExit,
       IdleInv, Broken, AckFailed
  <2>2. Broken => Broken'
    BY <1>9, BrokenStays, Zenon DEF ReceiverStep
  <2> QED
    BY <1>3, <1>4, <2>1, <2>2, Zenon
<1>10. ASSUME AppRead PROVE CoverInv'
  <2>1. /\ recvCh # <<>> /\ read' = Append(read, Head(recvCh)) /\ recvCh' = Tail(recvCh)
        /\ UNCHANGED <<ackNet, ackPending, ackSending, rState, ackWorker, dispatch>>
    BY <1>10, Zenon DEF AppRead
  <2>2. count' = count
    BY <1>1, <2>1, ChanHead
  <2> QED
    BY <1>4, <2>1, <2>2, Zenon DEF Broken, AckFailed
<1> QED
  BY <1>5, <1>6, <1>7, <1>8, <1>9, <1>10, Zenon DEF ReceiverStep, EnqueueDecide, DispatchStep, AppStep

\* When nothing is owed, the server has accepted the ACK of all that is in recvCh.
LEMMA IdleIsAccepted ==
    ASSUME ReceiverTypeOK, CoverInv, dispatch # "deliver", ~Broken, ackPending = 0,
           ackSending \in ackNet \cup {0}
    PROVE  Accepted(Len(read) + Len(recvCh))
<1>1. Len(read) \in Nat /\ Len(recvCh) \in Nat
  BY SMTT(30) DEF ReceiverTypeOK, StreamTypeOK
<1> QED
  BY <1>1 DEF CoverInv, Accepted

\* Close of this side is let go by closeACKIdleLocked, or by the end of the connection.
LEMMA CloserStep ==
    ASSUME ReceiverTypeOK, ReceiverInv, OwedInv, RecvOrdered
    PROVE  [ReceiverStep \/ AnyPacket]_receiverVars => CloserInv'
<1> USE DEF receiverVars, recvConnVars, orderVars, appVars, rCloseVars, inboxVars, dispatchVars,
            ackVars
<1> DEFINE count == Len(read) + Len(recvCh)
<1>1. /\ read \in Seq(Nat) /\ recvCh \in Seq(Nat) /\ Len(read) \in Nat /\ Len(recvCh) \in Nat
      /\ count \in Nat /\ closeMark \in Nat /\ ackGenerating \in Int /\ ackNet \in SUBSET Nat
      /\ ackIdle \in {"nil", "open"}
  BY DEF ReceiverTypeOK, StreamTypeOK, AckTypeOK
<1>2. /\ rCloser = "receiveACK" => closeMark <= count
      /\ rCloser = "receiveACK" /\ "closer" \notin waiting /\ ~Broken => Accepted(closeMark)
      /\ rCloser = "sending" => AckFailed \/ Accepted(closeMark)
  BY Zenon DEF OwedInv, CloserInv
<1>3. ASSUME count' \in Nat, count' >= count, ackNet \subseteq ackNet', UNCHANGED rCloseVars,
             AckFailed => AckFailed', Broken => Broken',
             \/ "closer" \in waiting => "closer" \in waiting'
             \/ ~Broken => Accepted(count)
      PROVE  CloserInv'
  <2>1. \A n \in Nat : Accepted(n) => (n > 0 => \E a \in ackNet' : a >= n)
    BY <1>3, Zenon DEF Accepted
  <2>2. Accepted(count) /\ closeMark <= count => Accepted(closeMark)
    BY <1>1 DEF Accepted
  <2>3. Accepted(closeMark) => Accepted(closeMark)'
    BY <1>1, <1>3, <2>1, Zenon DEF Accepted
  <2>4. rCloser' = rCloser /\ closeMark' = closeMark
    BY <1>3, Zenon
  <2>5. rCloser = "receiveACK" => closeMark <= count'
    BY <1>1, <1>2, <1>3
  <2> HIDE DEF count
  <2>6. rCloser = "receiveACK" /\ "closer" \notin waiting' /\ ~Broken' => Accepted(closeMark)
    BY <1>2, <1>3, <2>2, Zenon
  <2> QED
    BY <1>2, <1>3, <2>3, <2>4, <2>5, <2>6, Zenon DEF CloserInv, count
<1>4. ASSUME \/ AnyPacket \/ EnqueueDecide \/ DispatchTake \/ DispatchTerminal \/ HandleData
             \/ DeliverAbandon \/ DeliverEnd \/ DispatchRelease \/ DispatchStop \/ AppEnd
             \/ ReceiverAbort \/ UNCHANGED receiverVars
      PROVE  CloserInv'
  <2>1. UNCHANGED <<read, recvCh, ackNet, rCloseVars>>
    BY <1>4, Zenon DEF AnyPacket, EnqueueRead, EnqueueDecide, EnqueueDrop, EnqueueReplayACK,
       EnqueueOverflow, EnqueuePush, DispatchTake, DispatchTerminal, HandleData, DeliverAbandon,
       DeliverEnd, DispatchRelease, DispatchStop, AppEnd, ReceiverAbort
  <2>2. (AckFailed => AckFailed') /\ (Broken => Broken')
    BY <1>4, BrokenStays, Zenon DEF ReceiverStep, DispatchStep, AppStep
  <2>3. "closer" \in waiting => "closer" \in waiting'
    <3>1. CASE DispatchTake \/ DispatchTerminal
      BY <3>1, Zenon DEF DispatchTake, DispatchTerminal, WaitReceiveACK
    <3>2. CASE ~(DispatchTake \/ DispatchTerminal)
      BY <1>4, <3>2, Zenon DEF AnyPacket, EnqueueRead, EnqueueDecide, EnqueueDrop, EnqueueReplayACK,
         EnqueueOverflow, EnqueuePush, HandleData, DeliverAbandon, DeliverEnd, DispatchRelease,
         DispatchStop, AppEnd, ReceiverAbort
    <3> QED
      BY <3>1, <3>2, Zenon
  <2> QED
    BY <1>1, <1>3, <2>1, <2>2, <2>3
<1>5. ASSUME Deliver \/ AppRead PROVE CloserInv'
  <2>1. UNCHANGED <<ackNet, rCloseVars, rState, ackWorker, waiting>>
    BY <1>5, Zenon DEF Deliver, AppRead
  <2>2. ready \in Seq(Nat)
    BY Zenon DEF ReceiverTypeOK, StreamTypeOK
  <2>3. count' \in Nat /\ count' >= count
    <3>1. CASE Deliver
      <4>1. Head(ready) \in Nat /\ recvCh' = Append(recvCh, Head(ready)) /\ read' = read
        BY <2>2, <3>1, ChanHead, Zenon DEF Deliver
      <4>2. Len(recvCh') = Len(recvCh) + 1
        BY <1>1, <4>1, ChanPut, Zenon
      <4> QED
        BY <1>1, <4>1, <4>2, SMTT(30)
    <3>2. CASE AppRead
      <4>1. recvCh # <<>> /\ read' = Append(read, Head(recvCh)) /\ recvCh' = Tail(recvCh)
        BY <3>2, Zenon DEF AppRead
      <4>2. Head(recvCh) \in Nat /\ Len(recvCh') = Len(recvCh) - 1 /\ Len(recvCh) \in Nat \ {0}
        BY <1>1, <4>1, ChanHead, Zenon
      <4>3. Len(read') = Len(read) + 1
        BY <1>1, <4>1, <4>2, ChanPut, Zenon
      <4> QED
        BY <1>1, <4>2, <4>3
    <3> QED
      BY <1>5, <3>1, <3>2, Zenon
  <2> QED
    BY <1>3, <2>1, <2>3, Zenon DEF Broken, AckFailed
<1>6. ASSUME AckWake \/ AckTransmit \/ AckReject \/ AckFail \/ AckFailClose \/ AckExit PROVE CloserInv'
  <2>1. UNCHANGED <<read, recvCh, rCloseVars, waiting>> /\ ackNet \subseteq ackNet'
    BY <1>6, ZenonT(30) DEF AckWake, AckTransmit, AckReject, AckFail, AckFailClose, AckExit
  <2>2. (AckFailed => AckFailed') /\ (Broken => Broken')
    BY <1>6, BrokenStays, Zenon DEF ReceiverStep, AckStep
  <2> QED
    BY <1>1, <1>3, <2>1, <2>2, SMTT(30)
<1>7. ASSUME FinishReceiveACK \/ AckTake \/ AckSent PROVE CloserInv'
  <2>1. /\ UNCHANGED <<read, recvCh, ackNet, rCloseVars>>
        /\ (AckFailed => AckFailed') /\ (Broken => Broken')
    BY <1>7, BrokenStays, Zenon DEF FinishReceiveACK, AckTake, AckSent, ReceiverStep, DispatchStep, AckStep
  <2>2. CASE waiting' = waiting
    BY <1>1, <1>3, <2>1, <2>2
  <2>3. CASE waiting' # waiting
    <3>1. CASE FinishReceiveACK
      <4>1. dispatch = "finish" /\ ackPending = 0 /\ ackSending = 0
        BY <2>3, <3>1, Zenon DEF FinishReceiveACK, CloseACKIdle
      <4>2. ~Broken => Accepted(count)
        BY <4>1, IdleIsAccepted, Zenon DEF OwedInv
      <4> QED
        BY <1>1, <1>3, <2>1, <4>2
    <3>2. CASE AckTake \/ AckSent
      <4>1. ackGenerating = 0 /\ ackPending = 0 /\ ackSending \in ackNet \cup {0}
        BY <2>3, <3>2, Zenon DEF AckTake, AckSent, CloseACKIdle, OwedInv, IdleInv
      <4>2. dispatch # "deliver"
        BY <4>1 DEF OwedInv, CountInv, Busy
      <4>3. ~Broken => Accepted(count)
        BY <4>1, <4>2, IdleIsAccepted, Zenon DEF OwedInv
      <4> QED
        BY <1>1, <1>3, <2>1, <4>3
    <3> QED
      BY <1>7, <3>1, <3>2, Zenon
  <2> QED
    BY <2>2, <2>3, Zenon
<1>8. ASSUME RCloseCall PROVE CloserInv'
  <2>1. /\ rState = "Open" /\ rState' = "Closing" /\ rCloser' = "receiveACK"
        /\ UNCHANGED <<read, recvCh, ackNet>> /\ closeMark' = Len(delivered)
        /\ waiting' = IF ackIdle = "open" THEN waiting \cup {"closer"} ELSE waiting
    BY <1>8, Zenon DEF RCloseCall, WaitReceiveACK
  <2>2. Len(delivered) = count
    BY ReceiverInvSafe, Zenon
  <2>3. ASSUME "closer" \notin waiting', ~Broken PROVE Accepted(count)
    <3>1. ackIdle = "nil"
      BY <1>1, <2>1, <2>3, Zenon
    <3>2. ackGenerating = 0 /\ ackPending = 0 /\ ackSending = 0
      BY <3>1, Zenon DEF OwedInv, IdleInv
    <3>3. dispatch # "deliver"
      BY <3>2 DEF OwedInv, CountInv, Busy
    <3> QED
      BY <2>3, <3>2, <3>3, IdleIsAccepted, Zenon DEF OwedInv
  <2>4. ~Broken' => ~Broken
    BY <1>8, BrokenStays, Zenon DEF ReceiverStep, AppStep
  <2> QED
    BY <1>1, <2>1, <2>2, <2>3, <2>4, SMTT(30) DEF CloserInv, Accepted
<1>9. ASSUME RCloseSend PROVE CloserInv'
  <2>1. /\ rCloser = "receiveACK" /\ UNCHANGED <<closeMark, ackNet, ackWorker>>
        /\ rCloser' = IF rState = "Closed" THEN "done" ELSE "sending"
        /\ "closer" \notin waiting \/ rState = "Closed"
    BY <1>9, Zenon DEF RCloseSend, Released
  <2> QED
    BY <1>2, <2>1, Zenon DEF CloserInv, Accepted, Broken, AckFailed
<1>10. ASSUME RCloseSent PROVE CloserInv'
  BY <1>10, Zenon DEF RCloseSent, CloserInv
<1> QED
  BY <1>4, <1>5, <1>6, <1>7, <1>8, <1>9, <1>10, Zenon
  DEF ReceiverStep, DispatchStep, AckStep, AppStep

\* Every step of the receiving half keeps the account of its ACKs.
LEMMA OwedInvStep ==
    ASSUME RecvOrdered, ReceiverTypeOK, ReceiverInv, OwedInv
    PROVE  [ReceiverStep \/ AnyPacket]_receiverVars => OwedInv'
BY CountStep, IdleStep, CoverStep, CloserStep, Zenon DEF ReceiverInv, OwedInv

\* Nothing is owed on a connection that has just been opened.
LEMMA OwedInvInit == ReceiverInit => OwedInv
<1>1. Len(<<>>) = 0 /\ 1..0 = {}
  OBVIOUS
<1> QED
  BY <1>1 DEF ReceiverInit, OwedInv, CountInv, IdleInv, CoverInv, CloserInv, Busy

\* Close of this side does not overtake the ACKs it owes unless one of them failed
\* for good: when it sends CLOSE, either receiveACKLoop has given up an ACK (and
\* has closed the connection or is about to), or the server has accepted an ACK of
\* everything that was in recvCh when the call began, whatever arrives meanwhile
\* (waitReceiveACK, closeACKIdleLocked).
THEOREM CloseNotBeforeAckCorrect == ReceiverSpec => []CloseNotBeforeAck
<1> DEFINE Inv == ReceiverTypeOK /\ (RecvOrdered => ReceiverInv)
<1>1. (RecvOrdered => OwedInv) => CloseNotBeforeAck
  BY Zenon DEF OwedInv, CloserInv, Accepted, CloseNotBeforeAck, CloseNeverBeforeAck
<1>2. ASSUME Inv, RecvOrdered => OwedInv, [ReceiverNext]_receiverVars
      PROVE  (RecvOrdered => OwedInv)'
  <2>1. RecvOrdered' <=> RecvOrdered
    BY DEF RecvOrdered
  <2> QED
    BY <1>2, <2>1, OwedInvStep, AnyPeer, Zenon
<1>3. ReceiverInit => (RecvOrdered => OwedInv)
  BY OwedInvInit, Zenon
<1> QED
  BY <1>1, <1>2, <1>3, ReceiverInvariant, PTL DEF ReceiverSpec

(***************************************************************************)
(* The reorder window. enqueueEnvelope admits a frame on old values of     *)
(* expectedSeq and recvBuf and on inboxSeq; FitInv says which numbers are  *)
(* where, and that no admitted frame lies a window ahead of a gap.         *)
(***************************************************************************)
\* A frame that is neither delivered nor in the reorder buffer.
Fresh(n) == n >= expectedSeq /\ n \notin Seqs(recvBuf)
DataAt(i) == i \in 1..Len(inbox) /\ inbox[i].kind = "data"
Ahead(i, k) == \E j \in 1..Len(inbox) : j < i /\ DataAt(j) /\ inbox[j].seq = k

\* inboxSeq is the set of the numbers of the frames in the inbox and in hand; all
\* of them are fresh until handleData has stored them.
HeldInv == \A f \in recvBuf : f.seq > expectedSeq
HandInv ==
    /\ Handling \/ Stored => active.kind = "data" /\ active.seq \in inboxSeq
    /\ Handling => Fresh(active.seq)
    /\ Stored => ~Fresh(active.seq)
InboxInv ==
    /\ IsFiniteSet(inboxSeq)
    /\ \A i \in 1..Len(inbox) : DataAt(i) =>
          /\ inbox[i].seq \in inboxSeq /\ Fresh(inbox[i].seq)
          /\ Handling \/ Stored => inbox[i].seq # active.seq
          /\ ~Ahead(i, inbox[i].seq)
    /\ \A k \in inboxSeq : ((Handling \/ Stored) /\ k = active.seq) \/ Ahead(Len(inbox) + 1, k)

\* Whatever lies a window or more before an admitted frame is stored, in hand or
\* ahead of it in the inbox.
GapInv ==
    /\ \A i \in 1..Len(inbox) : \A k \in Nat :
          DataAt(i) /\ k >= expectedSeq /\ k + RecvWindow <= inbox[i].seq =>
             k \in Seqs(recvBuf) \/ (Handling /\ k = active.seq) \/ Ahead(i, k)
    /\ Handling => \A k \in Nat : k >= expectedSeq /\ k + RecvWindow <= active.seq => k \in Seqs(recvBuf)

\* The values enqueueEnvelope read are old, but what they say of its frame is true.
CallInv ==
    reader.env.kind = "data" =>
       /\ reader.expected <= expectedSeq
       /\ reader.copy = "none" /\ reader.env.seq >= reader.expected /\ reader.env.seq \notin inboxSeq
             => Fresh(reader.env.seq)

FitInv == HeldInv /\ HandInv /\ InboxInv /\ GapInv /\ CallInv

\* What the invariant says of the frame handleData gets.
LEMMA FitInvFits == ASSUME ReceiverTypeOK, FitInv PROVE AdmittedFits
<1> SUFFICES ASSUME dispatch = "handle" PROVE active.seq - expectedSeq \in 0..(RecvWindow - 1)
  BY Zenon DEF AdmittedFits
<1>1. expectedSeq \in Nat /\ active.seq \in Nat /\ RecvWindow \in Nat
  BY ReceiverAssumption DEF ReceiverTypeOK, StreamTypeOK, Envelope, NoEnvelope
<1>2. active.seq >= expectedSeq
  BY Zenon DEF FitInv, HandInv, Handling, Fresh
<1>3. expectedSeq \notin Seqs(recvBuf)
  <2> SUFFICES ASSUME NEW f \in recvBuf, f.seq = expectedSeq PROVE FALSE
    BY Zenon DEF Seqs
  <2> QED
    BY <1>1 DEF FitInv, HeldInv
<1>4. ~(expectedSeq + RecvWindow <= active.seq)
  BY <1>1, <1>3 DEF FitInv, GapInv, Handling
<1> QED
  BY <1>1, <1>2, <1>4

\* The numbers of the frames under way.
LEMMA FrameTypes ==
    ASSUME ReceiverTypeOK
    PROVE  /\ expectedSeq \in Nat \ {0} /\ active.seq \in Nat
           /\ \A i \in 1..Len(inbox) : inbox[i].seq \in Nat
           /\ reader.env.seq \in Nat /\ reader.expected \in Nat /\ reader.copy \in {"buffered", "none"}
           /\ inbox \in Seq(Envelope) /\ Len(inbox) \in Nat /\ RecvWindow \in Nat
<1>1. expectedSeq \in Nat \ {0} /\ active.seq \in Nat
  BY DEF ReceiverTypeOK, StreamTypeOK, Envelope, NoEnvelope
<1>2. inbox \in Seq(Envelope) /\ Len(inbox) \in Nat /\ \A i \in 1..Len(inbox) : inbox[i] \in Envelope
  BY DEF ReceiverTypeOK, StreamTypeOK
<1>3. \A i \in 1..Len(inbox) : inbox[i].seq \in Nat
  BY <1>2, Zenon DEF Envelope
<1>4. reader.env.seq \in Nat /\ reader.expected \in Nat /\ reader.copy \in {"buffered", "none"}
  BY DEF ReceiverTypeOK, StreamTypeOK, Envelope, NoEnvelope, NoCall
<1> QED
  BY <1>1, <1>2, <1>3, <1>4, ReceiverAssumption, Zenon

\* A step that moves no frame.
LEMMA FitAside ==
    ASSUME FitInv, UNCHANGED <<expectedSeq, recvBuf, inbox, inboxSeq>>, CallInv',
           UNCHANGED <<Handling, Stored>>, (Handling \/ Stored) => UNCHANGED active
    PROVE  FitInv'
<1>1. HeldInv'
  BY Zenon DEF FitInv, HeldInv
<1>2. HandInv'
  BY Zenon DEF FitInv, HandInv, Fresh
<1>3. InboxInv'
  BY Zenon DEF FitInv, InboxInv, Fresh, DataAt, Ahead
<1>4. GapInv'
  BY DEF FitInv, GapInv, DataAt, Ahead
<1> QED
  BY <1>1, <1>2, <1>3, <1>4, Zenon DEF FitInv

\* The first half of enqueueEnvelope, and the ways in which the second admits nothing.
LEMMA FitCall ==
    ASSUME RecvOrdered, ReceiverTypeOK, FitInv,
           AnyPacket \/ EnqueueDrop \/ EnqueueReplayACK \/ EnqueueOverflow
    PROVE  FitInv'
<1> USE DEF receiverVars, recvConnVars, orderVars, appVars, rCloseVars, inboxVars, dispatchVars,
            ackVars
<1>1. UNCHANGED <<expectedSeq, recvBuf, inbox, inboxSeq, dispatch, active>>
  BY Zenon DEF AnyPacket, EnqueueRead, EnqueueDrop, EnqueueReplayACK, EnqueueOverflow
<1>2. CallInv'
  <2>1. CASE AnyPacket
    <3>1. PICK e \in Envelope : EnqueueRead(e)
      BY <2>1, Zenon DEF AnyPacket
    <3>2. /\ reader'.env = e /\ reader'.expected = expectedSeq
          /\ reader'.copy = "none" => e.seq \notin Seqs(recvBuf)
      BY <3>1, Zenon DEF EnqueueRead
    <3>3. expectedSeq \in Nat
      BY Zenon DEF ReceiverTypeOK, StreamTypeOK
    <3> QED
      BY <1>1, <3>2, <3>3 DEF CallInv, Fresh
  <2>2. CASE ~AnyPacket
    <3>1. reader'.env.kind = "none"
      BY <2>2 DEF EnqueueDrop, EnqueueReplayACK, EnqueueOverflow, NoCall, NoEnvelope
    <3> QED
      BY <3>1, Zenon DEF CallInv
  <2> QED
    BY <2>1, <2>2, Zenon
<1> QED
  BY <1>1, <1>2, FitAside, Zenon DEF Handling, Stored

\* The other steps that move no frame.
LEMMA FitRest ==
    ASSUME ReceiverTypeOK, FitInv,
           \/ DispatchTerminal \/ Deliver \/ DeliverAbandon \/ DeliverEnd \/ FinishReceiveACK
           \/ AckStep \/ AppStep \/ ReceiverAbort \/ UNCHANGED receiverVars
    PROVE  FitInv'
<1> USE DEF receiverVars, recvConnVars, orderVars, appVars, rCloseVars, inboxVars, dispatchVars,
            ackVars
<1>1. UNCHANGED <<expectedSeq, recvBuf, inbox, inboxSeq, reader>>
  BY Zenon DEF DispatchTerminal, Deliver, DeliverAbandon, DeliverEnd, FinishReceiveACK,
     AckStep, AckWake, AckTake, AckTransmit, AckSent, AckReject, AckFail, AckFailClose, AckExit,
     AppStep, AppRead, AppEnd, RCloseCall, RCloseSend, RCloseSent, ReceiverAbort
<1>2. UNCHANGED <<Handling, Stored>> /\ ((Handling \/ Stored) => UNCHANGED active)
  <2>1. CASE DispatchTerminal \/ Deliver \/ DeliverAbandon \/ DeliverEnd \/ FinishReceiveACK
    <3>1. /\ \/ dispatch = "waitACK" /\ dispatch' = "idle"
             \/ dispatch = "deliver" /\ dispatch' \in {"deliver", "finish"}
             \/ dispatch = "finish" /\ dispatch' = "release"
          /\ dispatch # "waitACK" => UNCHANGED active
      BY <2>1, ZenonT(30) DEF DispatchTerminal, Deliver, DeliverAbandon, DeliverEnd, FinishReceiveACK
    <3> QED
      BY <3>1 DEF Handling, Stored
  <2>2. CASE AckStep \/ AppStep \/ ReceiverAbort \/ UNCHANGED receiverVars
    <3>1. UNCHANGED <<dispatch, active>>
      BY <2>2, ZenonT(30) DEF AckStep, AckWake, AckTake, AckTransmit, AckSent, AckReject, AckFail, AckFailClose, AckExit,
         AppStep, AppRead, AppEnd, RCloseCall, RCloseSend, RCloseSent, ReceiverAbort
    <3> QED
      BY <3>1, Zenon DEF Handling, Stored
  <2> QED
    BY <2>1, <2>2, ZenonT(30)
<1>3. CallInv'
  BY <1>1, Zenon DEF FitInv, CallInv, Fresh
<1> QED
  BY <1>1, <1>2, <1>3, FitAside, Zenon

\* handleData: the expected frame takes its successors out of the buffer, another
\* one joins the buffer.  Either way the frames that were fresh and are not this
\* one stay fresh.
LEMMA HandleEffect ==
    ASSUME RecvOrdered, ReceiverTypeOK, GenuineInv, FitInv, HandleData
    PROVE  /\ HeldInv' /\ expectedSeq' \in Nat /\ expectedSeq <= expectedSeq'
           /\ ~Fresh(active.seq)' /\ Handling /\ Stored'
           /\ \A k \in Nat : Fresh(k) /\ k # active.seq => Fresh(k)'
           /\ \A k \in Nat : k >= expectedSeq' /\ k \in Seqs(recvBuf) \cup {active.seq} => k \in Seqs(recvBuf)'
<1>1. /\ expectedSeq \in Nat \ {0} /\ active.seq \in Nat /\ RecvWindow \in Nat
      /\ \A f \in recvBuf : f.seq \in Nat
  BY ReceiverAssumption DEF ReceiverTypeOK, StreamTypeOK, Envelope, NoEnvelope
<1>2. Handling /\ active' = active /\ active.seq - expectedSeq \in 0..(RecvWindow - 1)
  BY FitInvFits, Zenon DEF HandleData, AdmittedFits, Handling, dispatchVars
<1>3. CASE active.seq = expectedSeq
  <2> DEFINE next == Frontier(expectedSeq + 1, Seqs(recvBuf))
  <2>1. /\ expectedSeq' = next /\ recvBuf' = {f \in recvBuf : f.seq >= next} /\ dispatch' = "deliver"
    BY <1>3, ZenonT(30) DEF HandleData
  <2>2. /\ next \in Nat /\ next >= expectedSeq + 1 /\ next \notin Seqs(recvBuf)
        /\ \A k \in (expectedSeq + 1)..(next - 1) : k \in Seqs(recvBuf)
    <3>1. IsFiniteSet(Seqs(recvBuf))
      BY Zenon DEF GenuineInv
    <3>2. expectedSeq + 1 \in Nat
      BY <1>1
    <3> QED
      BY <3>1, <3>2, FrontierFacts, ZenonT(30)
  <2> HIDE DEF next
  <2>3. HeldInv'
    <3> SUFFICES ASSUME NEW f \in recvBuf, f.seq >= next PROVE f.seq > next
      BY <2>1, Zenon DEF HeldInv
    <3>1. f.seq # next
      BY <2>2, Zenon DEF Seqs
    <3> QED
      BY <1>1, <2>2, <3>1
  <2>4. \A k \in Nat : k >= next => (k \in Seqs(recvBuf') <=> k \in Seqs(recvBuf))
    BY <2>1, Zenon DEF Seqs
  <2>5. ASSUME NEW k \in Nat, Fresh(k), k # active.seq PROVE Fresh(k)'
    <3>1. k >= next
      BY <1>1, <1>3, <2>2, <2>5 DEF Fresh
    <3> QED
      BY <2>1, <2>4, <2>5, <3>1, Zenon DEF Fresh
  <2>6. ~Fresh(active.seq)'
    BY <1>1, <1>2, <1>3, <2>1, <2>2 DEF Fresh
  <2>7. ASSUME NEW k \in Nat, k >= expectedSeq', k \in Seqs(recvBuf) \cup {active.seq}
        PROVE  k \in Seqs(recvBuf)'
    BY <1>1, <1>3, <2>1, <2>2, <2>4, <2>7
  <2>8. Stored'
    BY <2>1, Zenon DEF Stored
  <2>9. expectedSeq' \in Nat /\ expectedSeq <= expectedSeq'
    BY <1>1, <2>1, <2>2
  <2> QED
    BY <1>2, <2>3, <2>5, <2>6, <2>7, <2>8, <2>9, Zenon
<1>4. CASE active.seq # expectedSeq
  <2> DEFINE new == [seq |-> active.seq, id |-> active.id]
  <2>1. active.seq > expectedSeq /\ ~(active.seq - expectedSeq >= RecvWindow)
    BY <1>1, <1>2, <1>4
  <2>2. recvBuf' = recvBuf \cup {new} /\ expectedSeq' = expectedSeq /\ dispatch' = "deliver"
    BY <1>4, <2>1, ZenonT(30) DEF HandleData
  <2>3. new.seq = active.seq
    BY Zenon
  <2> HIDE DEF new
  <2>4. Seqs(recvBuf') = Seqs(recvBuf) \cup {active.seq}
    BY <2>2, <2>3, Zenon DEF Seqs
  <2>5. HeldInv'
    BY <2>1, <2>2, <2>3, Zenon DEF FitInv, HeldInv
  <2>6. /\ ~Fresh(active.seq)'
        /\ \A k \in Nat : Fresh(k) /\ k # active.seq => Fresh(k)'
    BY <1>2, <2>2, <2>4, Zenon DEF Fresh
  <2>7. Stored'
    BY <2>2, Zenon DEF Stored
  <2>8. \A k \in Nat : k \in Seqs(recvBuf) \cup {active.seq} => k \in Seqs(recvBuf)'
    BY <2>4, Zenon
  <2>9. expectedSeq' \in Nat /\ expectedSeq <= expectedSeq'
    BY <1>1, <2>2
  <2> QED
    BY <1>2, <2>5, <2>6, <2>7, <2>8, <2>9, Zenon
<1> QED
  BY <1>3, <1>4, Zenon

\* handleData stores the frame in hand; the others stay where they are.
LEMMA FitHandle ==
    ASSUME RecvOrdered, ReceiverTypeOK, GenuineInv, FitInv, HandleData
    PROVE  FitInv'
<1>1. /\ HeldInv' /\ expectedSeq' \in Nat /\ expectedSeq <= expectedSeq'
      /\ ~Fresh(active.seq)' /\ Handling /\ Stored'
      /\ \A k \in Nat : Fresh(k) /\ k # active.seq => Fresh(k)'
      /\ \A k \in Nat : k >= expectedSeq' /\ k \in Seqs(recvBuf) \cup {active.seq} => k \in Seqs(recvBuf)'
  BY HandleEffect, Zenon
<1>2. UNCHANGED <<inbox, inboxSeq, active, reader>>
  BY Zenon DEF HandleData, inboxVars
<1>3. ~Handling' /\ ~Stored
  BY <1>1, Zenon DEF Handling, Stored
<1>4. /\ expectedSeq \in Nat /\ active.seq \in Nat
      /\ \A i \in 1..Len(inbox) : inbox[i].seq \in Nat
      /\ reader.env.seq \in Nat /\ reader.expected \in Nat
  BY FrameTypes, Zenon
<1>5. HandInv'
  BY <1>1, <1>2, <1>3, Zenon DEF FitInv, HandInv
<1>6. InboxInv'
  <2>1. \A i, k : Ahead(i, k)' <=> Ahead(i, k)
    BY <1>2, Zenon DEF Ahead, DataAt
  <2>2. \A i : DataAt(i)' <=> DataAt(i)
    BY <1>2, Zenon DEF DataAt
  <2>3. \A i \in 1..Len(inbox) : DataAt(i) => inbox[i].seq # active.seq /\ Fresh(inbox[i].seq)
    BY <1>1, Zenon DEF FitInv, InboxInv
  <2>4. \A i \in 1..Len(inbox) : DataAt(i) => Fresh(inbox[i].seq)'
    BY <1>1, <1>2, <1>4, <2>3, Zenon
  <2> QED
    BY <1>1, <1>2, <2>1, <2>2, <2>3, <2>4, Zenon DEF FitInv, InboxInv
<1>7. GapInv'
  <2>1. \A i, k : Ahead(i, k)' <=> Ahead(i, k)
    BY <1>2 DEF Ahead, DataAt
  <2> SUFFICES ASSUME NEW i \in 1..Len(inbox), NEW k \in Nat, DataAt(i), k >= expectedSeq',
                      k + RecvWindow <= inbox[i].seq
               PROVE  k \in Seqs(recvBuf)' \/ Ahead(i, k)
    BY <1>2, <1>3, <2>1, Zenon DEF GapInv, DataAt
  <2>2. k >= expectedSeq
    BY <1>1, <1>4
  <2>3. k \in Seqs(recvBuf) \cup {active.seq} \/ Ahead(i, k)
    BY <2>2, Zenon DEF FitInv, GapInv
  <2> QED
    BY <1>1, <2>3, Zenon
<1>8. CallInv'
  <2> SUFFICES ASSUME reader.env.kind = "data"
               PROVE  /\ reader.expected <= expectedSeq'
                      /\ reader.copy = "none" /\ reader.env.seq >= reader.expected
                            /\ reader.env.seq \notin inboxSeq => Fresh(reader.env.seq)'
    BY <1>2, Zenon DEF CallInv
  <2>1. reader.expected <= expectedSeq'
    BY <1>1, <1>4 DEF FitInv, CallInv
  <2>2. active.seq \in inboxSeq
    BY <1>1, Zenon DEF FitInv, HandInv
  <2> QED
    BY <1>1, <1>2, <1>4, <2>1, <2>2, Zenon DEF FitInv, CallInv
<1> QED
  BY <1>1, <1>5, <1>6, <1>7, <1>8, Zenon DEF FitInv

\* dispatchLoop takes the first envelope: DATA comes into its hand.
LEMMA FitTake ==
    ASSUME ReceiverTypeOK, FitInv, DispatchTake
    PROVE  FitInv'
<1> USE DEF receiverVars, recvConnVars, orderVars, inboxVars, dispatchVars
<1>1. /\ inbox # <<>> /\ inbox' = Tail(inbox) /\ active' = Head(inbox) /\ ~Handling /\ ~Stored /\ ~Stored'
      /\ Handling' <=> active'.kind = "data"
      /\ UNCHANGED <<expectedSeq, recvBuf, inboxSeq, reader>>
  BY Zenon DEF DispatchTake, Handling, Stored
<1>2. /\ Len(inbox) \in Nat \ {0} /\ Len(inbox') = Len(inbox) - 1 /\ active' = inbox[1]
      /\ \A i \in 1..(Len(inbox) - 1) : inbox'[i] = inbox[i + 1]
  BY <1>1, FrameTypes, ChanHead, Zenon
<1>3. /\ DataAt(1) <=> Handling'
      /\ \A i \in 1..Len(inbox') : DataAt(i)' <=> DataAt(i + 1)
  BY <1>1, <1>2 DEF DataAt
<1>4. ASSUME NEW i \in 1..(Len(inbox') + 1), NEW k
      PROVE  Ahead(i + 1, k) <=> (Handling' /\ k = active'.seq) \/ Ahead(i, k)'
  <2>1. ASSUME Ahead(i + 1, k) PROVE (Handling' /\ k = active'.seq) \/ Ahead(i, k)'
    <3>1. PICK j \in 1..Len(inbox) : j < i + 1 /\ DataAt(j) /\ inbox[j].seq = k
      BY <2>1, Zenon DEF Ahead
    <3>2. CASE j = 1
      BY <1>2, <1>3, <3>1, <3>2, Zenon
    <3>3. CASE j # 1
      <4>1. j - 1 \in 1..Len(inbox') /\ j - 1 < i /\ (j - 1) + 1 = j
        BY <1>2, <3>1, <3>3
      <4>2. DataAt(j - 1)' /\ inbox'[j - 1].seq = k
        BY <1>2, <1>3, <3>1, <4>1, Zenon
      <4> QED
        BY <4>1, <4>2, Zenon DEF Ahead
    <3> QED
      BY <3>2, <3>3, Zenon
  <2>2. ASSUME Handling', k = active'.seq PROVE Ahead(i + 1, k)
    <3>1. 1 \in 1..Len(inbox) /\ 1 < i + 1 /\ DataAt(1) /\ inbox[1].seq = k
      BY <1>2, <1>3, <2>2
    <3> QED
      BY <3>1, Zenon DEF Ahead
  <2>3. ASSUME Ahead(i, k)' PROVE Ahead(i + 1, k)
    <3>1. PICK j \in 1..Len(inbox') : j < i /\ DataAt(j)' /\ inbox'[j].seq = k
      BY <2>3, Zenon DEF Ahead
    <3>2. j + 1 \in 1..Len(inbox) /\ j + 1 < i + 1
      BY <1>2, <3>1
    <3>3. DataAt(j + 1) /\ inbox[j + 1].seq = k
      BY <1>2, <1>3, <3>1, Zenon
    <3> QED
      BY <3>2, <3>3, Zenon DEF Ahead
  <2> QED
    BY <2>1, <2>2, <2>3, Zenon
<1>5. \A i \in 1..Len(inbox') : i \in 1..(Len(inbox') + 1) /\ i + 1 \in 1..Len(inbox) /\ inbox'[i] = inbox[i + 1]
  BY <1>2
<1>6. \A k : Fresh(k)' <=> Fresh(k)
  BY <1>1, Zenon DEF Fresh
<1>7. HeldInv' /\ CallInv'
  BY <1>1, <1>6, Zenon DEF FitInv, HeldInv, CallInv
<1>8. HandInv'
  <2>1. Handling' => active'.kind = "data" /\ active'.seq \in inboxSeq /\ Fresh(active'.seq)
    BY <1>1, <1>2, <1>3 DEF FitInv, InboxInv
  <2> QED
    BY <1>1, <1>6, <2>1, Zenon DEF HandInv
<1>9. InboxInv'
  <2>1. IsFiniteSet(inboxSeq')
    BY <1>1, Zenon DEF FitInv, InboxInv
  <2>2. ASSUME NEW i \in 1..Len(inbox'), DataAt(i)'
        PROVE  /\ inbox'[i].seq \in inboxSeq' /\ Fresh(inbox[i].seq)'
               /\ Handling' \/ Stored' => inbox'[i].seq # active'.seq
               /\ ~Ahead(i, inbox[i].seq)'
    <3>1. DataAt(i + 1) /\ i + 1 \in 1..Len(inbox)
      BY <1>3, <1>5, <2>2, Zenon
    <3>2. inbox[i + 1].seq \in inboxSeq /\ Fresh(inbox[i + 1].seq) /\ ~Ahead(i + 1, inbox[i + 1].seq)
      BY <3>1, Zenon DEF FitInv, InboxInv
    <3>3. Ahead(i + 1, inbox[i + 1].seq) <=>
             (Handling' /\ inbox[i + 1].seq = active'.seq) \/ Ahead(i, inbox[i].seq)'
      BY <1>4, <1>5, Zenon
    <3> QED
      BY <1>1, <1>5, <1>6, <3>2, <3>3, Zenon
  <2>3. ASSUME NEW k \in inboxSeq'
        PROVE  ((Handling' \/ Stored') /\ k = active'.seq) \/ Ahead(Len(inbox) + 1, k)'
    <3>1. Ahead(Len(inbox) + 1, k)
      BY <1>1, <2>3, Zenon DEF FitInv, InboxInv
    <3>2. Len(inbox') + 1 \in 1..(Len(inbox') + 1) /\ Len(inbox') + 1 = Len(inbox)
      BY <1>2
    <3> QED
      BY <1>4, <3>1, <3>2, Zenon
  <2> QED
    BY <2>1, <2>2, <2>3, Zenon DEF InboxInv
<1>10. GapInv'
  <2>1. ASSUME NEW i \in 1..Len(inbox), NEW k \in Nat, DataAt(i), k >= expectedSeq,
               k + RecvWindow <= inbox[i].seq
        PROVE  k \in Seqs(recvBuf) \/ Ahead(i, k)
    BY <1>1, <2>1, Zenon DEF FitInv, GapInv
  <2>2. ASSUME NEW i \in 1..Len(inbox'), NEW k \in Nat, DataAt(i)', k >= expectedSeq',
               k + RecvWindow <= inbox'[i].seq
        PROVE  k \in Seqs(recvBuf)' \/ (Handling' /\ k = active'.seq) \/ Ahead(i, k)'
    <3>1. DataAt(i + 1) /\ i + 1 \in 1..Len(inbox) /\ i \in 1..(Len(inbox') + 1) /\ inbox'[i] = inbox[i + 1]
      BY <1>3, <1>5, <2>2, Zenon
    <3>2. k \in Seqs(recvBuf) \/ Ahead(i + 1, k)
      BY <1>1, <2>1, <2>2, <3>1, Zenon
    <3> QED
      BY <1>1, <1>4, <3>1, <3>2, Zenon
  <2>3. ASSUME Handling', NEW k \in Nat, k >= expectedSeq', k + RecvWindow <= active'.seq
        PROVE  k \in Seqs(recvBuf)'
    <3>1. 1 \in 1..Len(inbox) /\ DataAt(1) /\ active' = inbox[1]
      BY <1>2, <1>3, <2>3
    <3>2. ~Ahead(1, k)
      BY <1>2 DEF Ahead
    <3> QED
      BY <1>1, <2>1, <2>3, <3>1, <3>2, Zenon
  <2> QED
    BY <2>2, <2>3, Zenon DEF GapInv
<1> QED
  BY <1>7, <1>8, <1>9, <1>10, Zenon DEF FitInv

\* dispatchLoop lets go of a frame, or of all of them when the connection has ended.
LEMMA FitRelease ==
    ASSUME ReceiverTypeOK, FitInv, DispatchRelease \/ DispatchStop
    PROVE  FitInv'
<1> USE DEF receiverVars, recvConnVars, orderVars, inboxVars, dispatchVars
<1>1. /\ UNCHANGED <<expectedSeq, recvBuf>> /\ reader' = NoCall /\ ~Handling' /\ ~Stored'
  BY Zenon DEF DispatchRelease, DispatchStop, Handling, Stored
<1>2. \A k : Fresh(k)' <=> Fresh(k)
  BY <1>1, Zenon DEF Fresh
<1>3. HeldInv' /\ HandInv' /\ CallInv'
  BY <1>1, Zenon DEF FitInv, HeldInv, HandInv, CallInv, NoCall, NoEnvelope
<1>4. CASE DispatchRelease
  <2>1. Stored /\ ~Handling /\ UNCHANGED inbox /\ inboxSeq' = inboxSeq \ {active.seq}
    BY <1>4, Zenon DEF DispatchRelease, Stored, Handling
  <2>2. IsFiniteSet(inboxSeq')
    <3>1. inboxSeq' \in SUBSET inboxSeq /\ IsFiniteSet(inboxSeq)
      BY <2>1, Zenon DEF FitInv, InboxInv
    <3> QED
      BY <3>1, FS_Subset, Zenon
  <2>3. \A i, k : (Ahead(i, k)' <=> Ahead(i, k)) /\ (DataAt(i)' <=> DataAt(i))
    BY <2>1, Zenon DEF Ahead, DataAt
  <2>4. InboxInv'
    BY <1>1, <1>2, <2>1, <2>2, <2>3, Zenon DEF FitInv, InboxInv
  <2>5. GapInv'
    BY <1>1, <2>1, <2>3, Zenon DEF FitInv, GapInv
  <2> QED
    BY <1>3, <2>4, <2>5, Zenon DEF FitInv
<1>5. CASE DispatchStop
  <2>1. inbox' = <<>> /\ inboxSeq' = {} /\ Len(<<>>) = 0 /\ 1..0 = {}
    BY <1>5 DEF DispatchStop
  <2>2. InboxInv' /\ GapInv'
    BY <1>1, <2>1, FS_EmptySet, Zenon DEF InboxInv, GapInv
  <2> QED
    BY <1>3, <2>2, Zenon DEF FitInv
<1> QED
  BY <1>4, <1>5, Zenon

\* A frame that passes the tests of enqueueEnvelope is fresh, although the tests
\* read old values, and what it leaves open before it is within the window.
LEMMA Admitted ==
    ASSUME RecvOrdered, ReceiverTypeOK, FitInv, EnqueuePush, IsData
    PROVE  /\ reader.env.seq \notin inboxSeq /\ Fresh(reader.env.seq)
           /\ \A k \in Nat : k >= expectedSeq /\ k + RecvWindow <= reader.env.seq => k \in inboxSeq
<1> DEFINE front == Frontier(reader.expected, inboxSeq)
           n == reader.env.seq
<1>1. /\ n \in Nat /\ reader.expected \in Nat /\ reader.copy \in {"buffered", "none"}
      /\ expectedSeq \in Nat /\ RecvWindow \in Nat
  BY FrameTypes, Zenon
<1>2. ~Duplicate /\ ~Old /\ ~BeyondWindow
  BY Zenon DEF EnqueuePush
<1>3. n \notin inboxSeq /\ reader.copy # "buffered"
  BY <1>2, Zenon DEF Duplicate, Dedup
<1>4. n >= reader.expected
  BY <1>1, <1>2 DEF Old, Dedup
<1>5. reader.expected <= expectedSeq /\ Fresh(n)
  BY <1>1, <1>3, <1>4, Zenon DEF FitInv, CallInv, IsData
<1>6. /\ front \in Nat /\ front >= reader.expected
      /\ \A k \in reader.expected..(front - 1) : k \in inboxSeq
  BY <1>1, FrontierFacts, Zenon DEF FitInv, InboxInv
<1>7. ~(n - front >= RecvWindow)
  BY <1>2, Zenon DEF BeyondWindow, Dedup
<1> HIDE DEF front
<1>8. ASSUME NEW k \in Nat, k >= expectedSeq, k + RecvWindow <= n PROVE k \in inboxSeq
  <2>1. k \in reader.expected..(front - 1)
    BY <1>1, <1>5, <1>6, <1>7, <1>8
  <2> QED
    BY <1>6, <2>1, Zenon
<1> QED
  BY <1>3, <1>5, <1>8, Zenon

\* enqueueEnvelope puts the frame it admits at the end of the inbox, or a CLOSE or
\* ERROR.
LEMMA FitPush ==
    ASSUME RecvOrdered, ReceiverTypeOK, FitInv, EnqueuePush
    PROVE  FitInv'
<1> USE DEF receiverVars, recvConnVars, orderVars, inboxVars, dispatchVars
<1> DEFINE e == reader.env
<1>1. /\ e \in Envelope /\ e.seq \in Nat /\ Len(inbox) \in Nat /\ inbox \in Seq(Envelope)
  BY FrameTypes, Zenon DEF EnqueuePush, ReceiverTypeOK, StreamTypeOK
<1>0. PICK top \in Nat : top = Len(inbox) + 1
  BY <1>1
<1>2. /\ inbox' = Append(inbox, e) /\ reader' = NoCall /\ UNCHANGED <<expectedSeq, recvBuf, active>>
      /\ inboxSeq' = IF IsData THEN inboxSeq \cup {e.seq} ELSE inboxSeq
  BY Zenon DEF EnqueuePush, Dedup
<1>3. UNCHANGED <<Handling, Stored>>
  BY SMTT(30) DEF EnqueuePush, Handling, Stored
<1>4. /\ Len(inbox') = top /\ inbox'[top] = e
      /\ \A i \in 1..Len(inbox) : inbox'[i] = inbox[i]
  <2>1. /\ Len(Append(inbox, e)) = Len(inbox) + 1 /\ Append(inbox, e)[Len(inbox) + 1] = e
        /\ \A i \in 1..Len(inbox) : Append(inbox, e)[i] = inbox[i]
    BY <1>1, ChanPut
  <2> QED
    BY <1>0, <1>2, <2>1, Zenon
<1>5. /\ DataAt(top)' <=> IsData
      /\ \A i \in 1..Len(inbox) : (DataAt(i)' <=> DataAt(i)) /\ i \in 1..Len(inbox') /\ i < top /\ i # top
      /\ \A i \in 1..Len(inbox') : i # top => i \in 1..Len(inbox)
      /\ top \in 1..Len(inbox')
  BY <1>0, <1>1, <1>4 DEF DataAt, IsData
<1>6. ASSUME NEW i \in 1..top, NEW k PROVE Ahead(i, k)' <=> Ahead(i, k)
  <2>1. ASSUME Ahead(i, k) PROVE Ahead(i, k)'
    BY <1>4, <1>5, <2>1, Zenon DEF Ahead
  <2>2. ASSUME Ahead(i, k)' PROVE Ahead(i, k)
    <3>1. PICK j \in 1..Len(inbox') : j < i /\ DataAt(j)' /\ inbox'[j].seq = k
      BY <2>2, Zenon DEF Ahead
    <3>2. j \in 1..Len(inbox)
      BY <1>0, <1>1, <1>4, <3>1
    <3> QED
      BY <1>4, <1>5, <3>1, <3>2, Zenon DEF Ahead
  <2> QED
    BY <2>1, <2>2, Zenon
<1>7. ASSUME NEW k PROVE Ahead(top, k) \/ (IsData /\ k = e.seq) => Ahead(Len(inbox) + 1, k)'
  <2>1. CASE Ahead(top, k)
    <3>1. PICK j \in 1..Len(inbox) : DataAt(j) /\ inbox[j].seq = k
      BY <2>1, Zenon DEF Ahead
    <3>2. j \in 1..Len(inbox') /\ j < Len(inbox') + 1 /\ DataAt(j)' /\ inbox'[j].seq = k
      BY <1>0, <1>1, <1>4, <1>5, <3>1
    <3> QED
      BY <3>2, Zenon DEF Ahead
  <2>2. CASE IsData /\ k = e.seq
    <3>1. top \in 1..Len(inbox') /\ top < Len(inbox') + 1 /\ DataAt(top)' /\ inbox'[top].seq = k
      BY <1>0, <1>1, <1>4, <1>5, <2>2
    <3> QED
      BY <3>1, Zenon DEF Ahead
  <2> QED
    BY <2>1, <2>2, Zenon
<1>8. \A k : Fresh(k)' <=> Fresh(k)
  BY <1>2, Zenon DEF Fresh
<1>9. IsData => /\ e.seq \notin inboxSeq /\ Fresh(e.seq)
                /\ \A k \in Nat : k >= expectedSeq /\ k + RecvWindow <= e.seq => k \in inboxSeq
  BY Admitted, Zenon
<1> HIDE DEF e
<1>10. HeldInv' /\ HandInv' /\ CallInv'
  <2>1. inboxSeq \subseteq inboxSeq'
    BY <1>2, Zenon
  <2> QED
    BY <1>2, <1>3, <1>8, <2>1, Zenon DEF FitInv, HeldInv, HandInv, CallInv, NoCall, NoEnvelope
<1>11. InboxInv'
  <2>1. IsFiniteSet(inboxSeq')
    <3>1. IsFiniteSet(inboxSeq)
      BY Zenon DEF FitInv, InboxInv
    <3> QED
      BY <1>2, <3>1, FS_AddElement, Zenon
  <2>2. ASSUME NEW i \in 1..Len(inbox'), DataAt(i)'
        PROVE  /\ inbox'[i].seq \in inboxSeq' /\ Fresh(inbox[i].seq)'
               /\ Handling' \/ Stored' => inbox'[i].seq # active'.seq
               /\ ~Ahead(i, inbox[i].seq)'
    <3>1. CASE i = top
      <4>1. IsData /\ inbox'[i] = e /\ e.seq \in inboxSeq' /\ e.seq \notin inboxSeq
        BY <1>2, <1>4, <1>5, <1>9, <2>2, <3>1, Zenon
      <4>2. Handling \/ Stored => active.seq \in inboxSeq
        BY Zenon DEF FitInv, HandInv
      <4>3. ~Ahead(top, e.seq)
        BY <4>1, Zenon DEF Ahead, FitInv, InboxInv
      <4>4. top \in 1..top
        BY <1>0, <1>1
      <4>5. ~Ahead(i, inbox[i].seq)'
        BY <1>6, <3>1, <4>1, <4>3, <4>4, Zenon
      <4> QED
        BY <1>2, <1>3, <1>8, <1>9, <4>1, <4>2, <4>5, Zenon
    <3>2. CASE i # top
      <4>1. i \in 1..Len(inbox) /\ DataAt(i) /\ inbox'[i] = inbox[i] /\ i \in 1..top
        BY <1>4, <1>5, <2>2, <3>2, Zenon
      <4>2. /\ inbox[i].seq \in inboxSeq /\ Fresh(inbox[i].seq) /\ ~Ahead(i, inbox[i].seq)
            /\ Handling \/ Stored => inbox[i].seq # active.seq
        BY <4>1, Zenon DEF FitInv, InboxInv
      <4>3. ~Ahead(i, inbox[i].seq)'
        BY <1>6, <4>1, <4>2, Zenon
      <4> QED
        BY <1>2, <1>3, <1>8, <4>1, <4>2, <4>3, Zenon
    <3> QED
      BY <3>1, <3>2, Zenon
  <2>3. ASSUME NEW k \in inboxSeq'
        PROVE  ((Handling' \/ Stored') /\ k = active'.seq) \/ Ahead(Len(inbox) + 1, k)'
    <3>1. k \in inboxSeq \/ (IsData /\ k = e.seq)
      BY <1>2, Zenon
    <3>2. k \in inboxSeq => ((Handling \/ Stored) /\ k = active.seq) \/ Ahead(top, k)
      BY <1>0, Zenon DEF FitInv, InboxInv
    <3> QED
      BY <1>2, <1>3, <1>7, <3>1, <3>2, Zenon
  <2> QED
    BY <2>1, <2>2, <2>3, Zenon DEF InboxInv
<1>12. GapInv'
  <2>1. ASSUME NEW i \in 1..Len(inbox'), NEW k \in Nat, DataAt(i)', k >= expectedSeq',
               k + RecvWindow <= inbox'[i].seq
        PROVE  k \in Seqs(recvBuf)' \/ (Handling' /\ k = active'.seq) \/ Ahead(i, k)'
    <3>1. CASE i = top
      <4>1. k \in inboxSeq
        BY <1>2, <1>4, <1>5, <1>9, <2>1, <3>1, Zenon
      <4>2. ((Handling \/ Stored) /\ k = active.seq) \/ Ahead(top, k)
        BY <1>0, <4>1, Zenon DEF FitInv, InboxInv
      <4>3. Stored /\ k = active.seq => k \in Seqs(recvBuf)
        BY <1>2, <2>1, Zenon DEF FitInv, HandInv, Fresh
      <4>4. top \in 1..top
        BY <1>0, <1>1
      <4> QED
        BY <1>2, <1>3, <1>6, <3>1, <4>2, <4>3, <4>4, Zenon
    <3>2. CASE i # top
      <4>1. i \in 1..Len(inbox) /\ DataAt(i) /\ inbox'[i] = inbox[i] /\ i \in 1..top
        BY <1>4, <1>5, <2>1, <3>2, Zenon
      <4>2. k \in Seqs(recvBuf) \/ (Handling /\ k = active.seq) \/ Ahead(i, k)
        BY <1>2, <2>1, <4>1, Zenon DEF FitInv, GapInv
      <4> QED
        BY <1>2, <1>3, <1>6, <4>1, <4>2, Zenon
    <3> QED
      BY <3>1, <3>2, Zenon
  <2>2. Handling' => \A k \in Nat : k >= expectedSeq' /\ k + RecvWindow <= active'.seq => k \in Seqs(recvBuf)'
    BY <1>2, <1>3, Zenon DEF FitInv, GapInv
  <2> QED
    BY <2>1, <2>2, Zenon DEF GapInv
<1> QED
  BY <1>10, <1>11, <1>12, Zenon DEF FitInv

\* Every step of the receiving half keeps FitInv.
LEMMA FitInvStep ==
    ASSUME RecvOrdered, ReceiverTypeOK, GenuineInv, FitInv
    PROVE  [ReceiverStep \/ AnyPacket]_receiverVars => FitInv'
BY FitCall, FitPush, FitTake, FitHandle, FitRelease, FitRest, ZenonT(30)
DEF ReceiverStep, EnqueueDecide, DispatchStep

\* A new connection has no frames.
LEMMA FitInvInit == ReceiverInit => FitInv
<1>1. Len(<<>>) = 0 /\ 1..0 = {} /\ IsFiniteSet({})
  BY FS_EmptySet
<1> SUFFICES ASSUME ReceiverInit PROVE FitInv
  OBVIOUS
<1>2. recvBuf = {} /\ 1..Len(inbox) = {} /\ inboxSeq = {} /\ ~Handling /\ ~Stored
  BY <1>1 DEF ReceiverInit, Handling, Stored
<1>3. reader.env.kind # "data"
  BY DEF ReceiverInit, NoCall, NoEnvelope
<1> QED
  BY <1>1, <1>2, <1>3, Zenon DEF FitInv, HeldInv, HandInv, InboxInv, GapInv, CallInv

\* enqueueEnvelope admits a frame on values of expectedSeq and recvBuf it read before
\* the dispatcher moved on; still, when handleData gets the frame, it is neither
\* delivered nor a window ahead, for every window and whatever the peer sends.
THEOREM AdmittedFitsCorrect == ReceiverSpec => []AdmittedFits
<1> DEFINE Inv == ReceiverTypeOK /\ (RecvOrdered => ReceiverInv)
<1>1. Inv /\ (RecvOrdered => FitInv) => AdmittedFits
  BY FitInvFits, Zenon DEF AdmittedFits
<1>2. ASSUME Inv, RecvOrdered => FitInv, [ReceiverNext]_receiverVars
      PROVE  (RecvOrdered => FitInv)'
  <2>1. RecvOrdered' <=> RecvOrdered
    BY Zenon DEF RecvOrdered
  <2> QED
    BY <1>2, <2>1, FitInvStep, AnyPeer, Zenon DEF ReceiverInv
<1>3. ReceiverInit => (RecvOrdered => FitInv)
  BY FitInvInit, Zenon
<1> QED
  BY <1>1, <1>2, <1>3, ReceiverInvariant, PTL DEF ReceiverSpec

\* The frames that a connection stores never exceed its budget: those in the inbox,
\* the one in hand, the reorder buffer, the batch under way and recvCh together,
\* although enqueueEnvelope counts them at different times, in every mode.
THEOREM WithinBudgetCorrect == ReceiverSpec => []WithinBudget
<1> DEFINE Inv == ReceiverTypeOK /\ (RecvOrdered => ReceiverInv)
<1>1. ReceiverInit => BudgetInv
  BY BudgetInvInit, Zenon
<1>2. Inv /\ Inv' /\ BudgetInv /\ [ReceiverNext]_receiverVars => BudgetInv'
  BY AnyPeer, BudgetInvStep, Zenon DEF ReceiverInv
<1>3. Inv /\ BudgetInv => WithinBudget
  BY PrefixesAreAll, Zenon DEF BudgetInv
<1> QED
  BY <1>1, <1>2, <1>3, ReceiverInvariant, PTL DEF ReceiverSpec
=============================================================================
