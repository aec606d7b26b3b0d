---------------------------- MODULE ClientProofs ----------------------------
(***************************************************************************)
(* Proofs about a Client and the two registries behind it.                 *)
(*                                                                         *)
(* The Relays of one Client, for any Relays, IDs and Connects, across      *)
(* logins, connection losses and Close.                                    *)
(*                                                                         *)
(* The streams of one Relay, for any streams, IDs, dialers and handlers    *)
(* and any order of their critical sections.                               *)
(*                                                                         *)
(* The Client, for any calls, messages, bounds and faults: a tracked send  *)
(* is reported at most once, Close leaves nothing behind, and no message   *)
(* is shown twice or skipped.  Three inductive invariants, one for each    *)
(* part of the state: tracked sends, calls and connection, messages.       *)
(***************************************************************************)
EXTENDS Integers, Client, StreamMux, RelayManager, TLAPS

(***************************************************************************)
(* The registry of Relays.                                                 *)
(***************************************************************************)
RelayTypeOK ==
    /\ relaysMade \in Nat /\ conns \in [Ids -> Nat]
    /\ relay \in [Relays -> [id : Ids \cup {NoRelay.id}, session : Nat,
                             state : {"none", "Opening", "Open", "Closed"}]]
    /\ ending \in SUBSET Nat /\ login \in Nat /\ up \in BOOLEAN
    /\ inbox \in SUBSET (Nat \X {"OpenAck", "Close"}) /\ openSent \in SUBSET Nat
    /\ teardown \in {"none", "closeAll", "end", "down", "exit"} /\ downTodo \in SUBSET Nat
    /\ closing \in {"idle", "closed", "end", "done"} /\ closeTodo \in SUBSET Nat
    /\ connect \in [Connects -> {"idle", "open", "send", "wait", "ok", "failed"}]
    /\ mine \in [Connects -> Nat]

\* Numbers are given in order; an ID of a Connect is that call's own.
OwnerInv ==
    /\ relaysMade <= MaxRelays
    /\ \A c \in Relays : Alive(c) => c <= relaysMade /\ relay[c].id \in Ids
    /\ \A i \in Ids : conns[i] <= relaysMade
    /\ \A c \in Relays : c \in ending => c <= relaysMade /\ ~Alive(c)
    /\ \A k \in Connects : connect[k] = "idle" => conns[k] = 0

\* OPEN_ACK comes only for a connection whose OPEN has been sent, and a call
\* before its send has a connection of its own that is not open.
OpenSentInv ==
    /\ \A c \in openSent : c <= relaysMade
    /\ \A e \in inbox : e[1] <= relaysMade
    /\ \A c \in Nat : <<c, "OpenAck">> \in inbox => c \in openSent
    /\ \A k \in Connects : connect[k] # "idle" => mine[k] \in 1..relaysMade /\ relay[mine[k]].id = k
    /\ \A k \in Connects : connect[k] \in {"open", "send"} =>
          mine[k] \notin openSent /\ relay[mine[k]].state # "Open"

\* What a login carries: open, or open to its OPEN_ACK.
Carried(c) == Alive(c) /\ (relay[c].state = "Open" \/ c \in openSent)

\* The teardown has ended what the login carried before the next one begins.
CarriedInv ==
    /\ up <=> teardown = "none"
    /\ teardown = "end" => \A c \in Relays : Carried(c) => c \in downTodo
    /\ teardown \in {"down", "exit"} => \A c \in Relays : ~Carried(c)
    /\ \A c \in Relays : up /\ Alive(c) /\ <<c, "OpenAck">> \in inbox => relay[c].session = login

ManagerInv ==
    /\ RelayTypeOK /\ OwnerInv /\ OpenSentInv /\ CarriedInv
    /\ AliveIsOwner /\ SessionBound

RelayRecord == [id : Ids \cup {NoRelay.id}, session : Nat, state : {"none", "Opening", "Open", "Closed"}]

\* closeWithSource ends one connection and touches no other.
LEMMA CloseEndsOne ==
    ASSUME RelayTypeOK, NEW x \in Nat, CloseConnection(x)
    PROVE  /\ relay' \in [Relays -> RelayRecord] /\ ending' \in SUBSET Nat
           /\ \A c \in Relays : relay'[c].id = relay[c].id /\ relay'[c].session = relay[c].session
           /\ \A c \in Relays : Alive(c)' <=> Alive(c) /\ c # x
           /\ \A c \in Relays : relay'[c].state = "Open" <=> relay[c].state = "Open" /\ c # x
           /\ \A c \in Relays : c \in ending' => c \in ending \/ (c = x /\ Alive(c))
<1>1. relay' = [relay EXCEPT ![x].state = "Closed"] /\ relay \in [Relays -> RelayRecord]
  BY Zenon DEF CloseConnection, RelayTypeOK, RelayRecord
<1>2. ending' \in SUBSET Nat /\ \A c \in Relays : c \in ending' => c \in ending \/ (c = x /\ Alive(c))
  <2>1. ending' = (IF Alive(x) THEN ending \cup {x} ELSE ending) /\ ending \in SUBSET Nat
    BY Zenon DEF CloseConnection, RelayTypeOK
  <2> QED
    BY <2>1, Zenon
<1> QED
  BY <1>1, <1>2, Zenon DEF RelayRecord, Alive

\* A new connection is the next one and gets the entry.
LEMMA EnterMakes ==
    ASSUME RelayTypeOK, NEW i \in Ids, NEW n \in Nat, NEW st \in {"Opening", "Open"},
           relaysMade < MaxRelays, Enter(i, n, st)
    PROVE  /\ relaysMade' \in Nat /\ relaysMade' = relaysMade + 1 /\ relaysMade + 1 \in Relays
           /\ conns' \in [Ids -> Nat] /\ conns'[i] = relaysMade + 1
           /\ \A j \in Ids : j # i => conns'[j] = conns[j]
           /\ relay' \in [Relays -> RelayRecord]
           /\ relay'[relaysMade + 1] = [id |-> i, session |-> n, state |-> st]
           /\ \A c \in Relays : c # relaysMade + 1 => relay'[c] = relay[c]
<1>1. relaysMade \in Nat /\ relaysMade + 1 \in Relays /\ relay \in [Relays -> RelayRecord]
  BY ManagerConstants DEF RelayTypeOK, Relays, RelayRecord
<1>2. [id |-> i, session |-> n, state |-> st] \in RelayRecord
  BY Zenon DEF RelayRecord
<1> QED
  BY <1>1, <1>2 DEF Enter, RelayTypeOK

\* The invariant holds before the first connection.
LEMMA ManagerInvInit == ManagerInit => ManagerInv
<1> SUFFICES ASSUME ManagerInit PROVE ManagerInv
  BY Zenon
<1>1. \A c \in Relays : ~Alive(c) /\ relay[c].state # "Open"
  BY Zenon DEF ManagerInit, Alive, NoRelay
<1>2. RelayTypeOK
  <2>1. NoRelay \in RelayRecord
    BY Zenon DEF NoRelay, RelayRecord
  <2>2. relay \in [Relays -> RelayRecord]
    BY <2>1, Zenon DEF ManagerInit
  <2> QED
    BY <2>2, Zenon DEF ManagerInit, RelayTypeOK, RelayRecord
<1> QED
  BY <1>1, <1>2, ManagerConstants DEF ManagerInit, ManagerInv, OwnerInv, OpenSentInv,
     CarriedInv, Carried,
                    AliveIsOwner, SessionBound, Ids

\* Everything of the invariant but the types.
RelaysInv == OwnerInv /\ OpenSentInv /\ CarriedInv /\ AliveIsOwner /\ SessionBound

\* The end of the connection x, whoever calls it, keeps the invariant.
LEMMA CloseKeeps ==
    ASSUME ManagerInv, NEW x \in Nat, CloseConnection(x),
           UNCHANGED <<conns, relaysMade, login, up, teardown, mine, openSent>>,
           inbox' \subseteq inbox, downTodo \subseteq downTodo' \cup {x},
           \A k \in Connects : connect'[k] = "idle" => connect[k] = "idle",
           \A k \in Connects : connect[k] = "idle" => connect'[k] = "idle",
           \A k \in Connects : connect'[k] \in {"open", "send"} => connect[k] \in {"open", "send"}
    PROVE  RelaysInv' /\ relay' \in [Relays -> RelayRecord] /\ ending' \in SUBSET Nat
<1>1. RelayTypeOK /\ relaysMade \in Nat /\ relaysMade <= MaxRelays /\ MaxRelays \in Nat
  BY ManagerConstants, Zenon DEF ManagerInv, RelayTypeOK, OwnerInv
<1>2. /\ relay' \in [Relays -> RelayRecord] /\ ending' \in SUBSET Nat
      /\ \A c \in Relays : relay'[c].id = relay[c].id /\ relay'[c].session = relay[c].session
      /\ \A c \in Relays : Alive(c)' <=> Alive(c) /\ c # x
      /\ \A c \in Relays : relay'[c].state = "Open" <=> relay[c].state = "Open" /\ c # x
      /\ \A c \in Relays : c \in ending' => c \in ending \/ (c = x /\ Alive(c))
  BY <1>1, CloseEndsOne, Zenon
<1>3. OwnerInv' /\ AliveIsOwner' /\ SessionBound'
  BY <1>2, Zenon DEF ManagerInv, OwnerInv, AliveIsOwner, SessionBound
<1>4. \A k \in Connects : connect[k] # "idle" => mine[k] \in Relays
  BY <1>1 DEF ManagerInv, OpenSentInv, Relays
<1>5. OpenSentInv'
  BY <1>2, <1>4, Zenon DEF ManagerInv, OpenSentInv
<1>6. CarriedInv'
  BY <1>2, Zenon DEF ManagerInv, CarriedInv, Carried
<1> QED
  BY <1>2, <1>3, <1>5, <1>6, Zenon DEF RelaysInv

\* A new connection under a free ID keeps the invariant: it is not open, or
\* open under the present login.
LEMMA EnterKeeps ==
    ASSUME ManagerInv, NEW i \in Ids, NEW n \in Nat, NEW st \in {"Opening", "Open"},
           relaysMade < MaxRelays, Enter(i, n, st), conns[i] = 0, st = "Open" => up /\ n = login,
           UNCHANGED <<ending, login, up, teardown, downTodo, inbox, openSent>>,
           \A k \in Connects : connect'[k] = "idle" => connect[k] = "idle" /\ k # i,
           \A k \in Connects : connect'[k] # "idle" =>
              \/ connect[k] = connect'[k] /\ mine'[k] = mine[k]
              \/ k = i /\ mine'[k] = relaysMade + 1 /\ st # "Open"
    PROVE  RelaysInv' /\ relay' \in [Relays -> RelayRecord] /\ relaysMade' \in Nat /\ conns' \in [Ids -> Nat]
<1>1. RelayTypeOK /\ relaysMade \in Nat /\ MaxRelays \in Nat /\ \A c \in Relays : c \in Nat \ {0}
  BY ManagerConstants DEF ManagerInv, RelayTypeOK, Relays
<1>2. /\ relaysMade' \in Nat /\ relaysMade' = relaysMade + 1 /\ relaysMade + 1 \in Relays
      /\ conns' \in [Ids -> Nat] /\ conns'[i] = relaysMade + 1
      /\ \A j \in Ids : j # i => conns'[j] = conns[j]
      /\ relay' \in [Relays -> RelayRecord]
      /\ relay'[relaysMade + 1] = [id |-> i, session |-> n, state |-> st]
      /\ \A c \in Relays : c # relaysMade + 1 => relay'[c] = relay[c]
  BY <1>1, EnterMakes, Zenon
<1>3. \A c \in Relays : Alive(c)' <=> Alive(c) \/ c = relaysMade + 1
  BY <1>2 DEF Alive
<1>4. \A c \in Relays : Alive(c) => c <= relaysMade /\ c # relaysMade + 1 /\ relay[c].id # i
  BY <1>1 DEF ManagerInv, OwnerInv, AliveIsOwner
<1>5. OwnerInv'
  <2>1. \A j \in Ids : conns'[j] <= relaysMade'
    <3>1. \A j \in Ids : conns[j] \in Nat /\ conns[j] <= relaysMade
      BY <1>1, Zenon DEF ManagerInv, OwnerInv, RelayTypeOK
    <3> QED
      BY <1>1, <1>2, <3>1
  <2>2. \A c \in Relays : Alive(c)' => c <= relaysMade' /\ relay'[c].id \in Ids
    BY <1>1, <1>2, <1>3, <1>4 DEF ManagerInv, OwnerInv
  <2>3. \A c \in Relays : c \in ending' => c <= relaysMade' /\ ~Alive(c)'
    BY <1>1, <1>2, <1>3 DEF ManagerInv, OwnerInv
  <2>4. \A k \in Connects : connect'[k] = "idle" => conns'[k] = 0
    BY <1>2, Zenon DEF ManagerInv, OwnerInv, Ids
  <2> QED
    BY <1>1, <1>2, <2>1, <2>2, <2>3, <2>4 DEF OwnerInv
<1>6. AliveIsOwner' /\ SessionBound'
  <2>1. ASSUME NEW c \in Relays, Alive(c)' PROVE conns'[relay'[c].id] = c
    BY <1>2, <1>3, <1>4, <2>1 DEF ManagerInv, OwnerInv, AliveIsOwner
  <2>2. ASSUME NEW c \in Relays, up', relay'[c].state = "Open" PROVE relay'[c].session = login'
    BY <1>2, <2>2 DEF ManagerInv, SessionBound
  <2> QED
    BY <2>1, <2>2, Zenon DEF AliveIsOwner, SessionBound
<1>7. OpenSentInv'
  <2>0. /\ \A c \in openSent : c \in Nat /\ c <= relaysMade
        /\ \A e \in inbox : e[1] \in Nat /\ e[1] <= relaysMade
    BY <1>1, Zenon DEF ManagerInv, OpenSentInv, RelayTypeOK
  <2>1. /\ \A c \in openSent' : c <= relaysMade'
        /\ \A e \in inbox' : e[1] <= relaysMade'
        /\ \A c \in Nat : <<c, "OpenAck">> \in inbox' => c \in openSent'
    BY <1>1, <1>2, <2>0 DEF ManagerInv, OpenSentInv
  <2>2. ASSUME NEW k \in Connects, connect'[k] # "idle"
        PROVE  /\ mine'[k] \in 1..relaysMade' /\ relay'[mine'[k]].id = k
               /\ connect'[k] \in {"open", "send"} => mine'[k] \notin openSent' /\ relay'[mine'[k]].state # "Open"
    <3>1. CASE connect[k] = connect'[k] /\ mine'[k] = mine[k]
      <4>1. mine[k] \in 1..relaysMade /\ mine[k] \in Relays /\ mine[k] # relaysMade + 1
        BY <1>1, <2>2, <3>1 DEF ManagerInv, OpenSentInv, OwnerInv, Relays
      <4> QED
        BY <1>1, <1>2, <2>2, <3>1, <4>1 DEF ManagerInv, OpenSentInv
    <3>2. CASE k = i /\ mine'[k] = relaysMade + 1 /\ st # "Open"
      BY <1>1, <1>2, <2>0, <3>2
    <3> QED
      BY <2>2, <3>1, <3>2, Zenon
  <2> QED
    BY <2>1, <2>2, Zenon DEF OpenSentInv
<1>8. CarriedInv'
  <2>1. relaysMade + 1 \notin openSent /\ <<relaysMade + 1, "OpenAck">> \notin inbox
    <3>1. relaysMade + 1 \in Nat /\ ~(relaysMade + 1 <= relaysMade)
      BY <1>1
    <3> QED
      BY <3>1, Zenon DEF ManagerInv, OpenSentInv
  <2>2. ASSUME NEW c \in Relays, c # relaysMade + 1 PROVE Carried(c)' <=> Carried(c)
    <3>1. relay'[c] = relay[c] /\ (Alive(c)' <=> Alive(c)) /\ openSent' = openSent
      BY <1>2, <1>3, <2>2, Zenon
    <3> QED
      BY <3>1, Zenon DEF Carried
  <2>3. ASSUME NEW c \in Relays, c = relaysMade + 1, Carried(c)' PROVE up
    <3>1. relay'[c].state = st /\ c \notin openSent'
      BY <1>2, <2>1, <2>3
    <3> QED
      BY <2>3, <3>1, Zenon DEF Carried
  <2>4. \A c \in Relays : c # relaysMade + 1 => relay'[c].session = relay[c].session
    BY <1>2, Zenon
  <2> QED
    BY <1>3, <2>1, <2>2, <2>3, <2>4, Zenon DEF ManagerInv, CarriedInv
<1> QED
  BY <1>2, <1>5, <1>6, <1>7, <1>8, Zenon DEF RelaysInv

\* Steps that leave the connections alone, and at most forget envelopes.
LEMMA RelaysStutter ==
    ASSUME ManagerInv, UNCHANGED <<conns, relaysMade, relay, ending, login, up, teardown, mine, openSent>>,
           inbox' \subseteq inbox, downTodo' = downTodo,
           \A k \in Connects : connect'[k] = "idle" <=> connect[k] = "idle",
           \A k \in Connects : connect'[k] \in {"open", "send"} => connect[k] \in {"open", "send"}
    PROVE  RelaysInv'
<1>1. \A c \in Relays : Alive(c)' <=> Alive(c)
  BY Zenon DEF Alive
<1>2. \A c \in Relays : Carried(c)' <=> Carried(c)
  BY <1>1, Zenon DEF Carried
<1>3. OwnerInv' /\ AliveIsOwner' /\ SessionBound'
  BY <1>1, Zenon DEF ManagerInv, OwnerInv, AliveIsOwner, SessionBound
<1>4. OpenSentInv'
  BY Zenon DEF ManagerInv, OpenSentInv
<1>5. CarriedInv'
  BY <1>1, <1>2, Zenon DEF ManagerInv, CarriedInv
<1> QED
  BY <1>3, <1>4, <1>5, Zenon DEF RelaysInv

\* Connect keeps the invariant: before its OPEN is sent nobody can answer it.
LEMMA ConnectKeeps ==
    ASSUME ManagerInv, NEW k \in Connects,
           ConnectRegister(k) \/ ConnectOpen(k) \/ ConnectSend(k) \/ ConnectReturn(k)
    PROVE  ManagerInv'
<1>1. RelayTypeOK /\ OwnerInv /\ OpenSentInv /\ CarriedInv /\ AliveIsOwner /\ SessionBound
  BY Zenon DEF ManagerInv
<1>2. /\ connect \in [Connects -> {"idle", "open", "send", "wait", "ok", "failed"}]
      /\ mine \in [Connects -> Nat] /\ relay \in [Relays -> RelayRecord] /\ mine[k] \in Nat
  BY <1>1, Zenon DEF RelayTypeOK, RelayRecord
<1>3. CASE ConnectRegister(k)
  <2>1. /\ connect[k] = "idle" /\ relaysMade < MaxRelays /\ Enter(k, 0, "Opening")
        /\ connect' = [connect EXCEPT ![k] = "open"] /\ mine' = [mine EXCEPT ![k] = relaysMade + 1]
        /\ UNCHANGED <<ending, login, up, teardown, downTodo, closing, closeTodo, inbox, openSent>>
    BY <1>3, Zenon DEF ConnectRegister, loginVars, closeVars
  <2>2. k \in Ids /\ conns[k] = 0 /\ relaysMade + 1 \in Nat
    BY <1>1, <2>1 DEF OwnerInv, Ids, RelayTypeOK
  <2>3. /\ \A j \in Connects : connect'[j] = "idle" => connect[j] = "idle" /\ j # k
        /\ \A j \in Connects : connect'[j] # "idle" =>
              \/ connect[j] = connect'[j] /\ mine'[j] = mine[j]
              \/ j = k /\ mine'[j] = relaysMade + 1
    BY <1>2, <2>1, Zenon
  <2>4. RelaysInv' /\ relay' \in [Relays -> RelayRecord] /\ relaysMade' \in Nat /\ conns' \in [Ids -> Nat]
    BY <2>1, <2>2, <2>3, EnterKeeps
  <2>5. RelayTypeOK'
    BY <1>1, <2>1, <2>2, <2>4, Zenon DEF RelayTypeOK, RelayRecord
  <2> QED
    BY <2>4, <2>5, Zenon DEF ManagerInv, RelaysInv
<1>x. ASSUME connect[k] # "idle"
      PROVE  /\ mine[k] \in Relays /\ relay[mine[k]].id = k
             /\ \A j \in Connects : connect[j] # "idle" /\ mine[j] = mine[k] => j = k
  BY <1>1, <1>x, ManagerConstants DEF OpenSentInv, OwnerInv, RelayTypeOK, Relays
<1>4. CASE ConnectOpen(k)
  <2>1. PICK n \in {0, login} :
           /\ connect[k] = "open" /\ connect' = [connect EXCEPT ![k] = "send"]
           /\ relay' = [relay EXCEPT ![mine[k]].session = n]
    BY <1>4, Zenon DEF ConnectOpen
  <2>2. UNCHANGED <<conns, relaysMade, ending, login, up, teardown, downTodo, closing, closeTodo, inbox, mine, openSent>>
    BY <1>4, Zenon DEF ConnectOpen, loginVars, closeVars
  <2>3. /\ mine[k] \in Relays /\ mine[k] \notin openSent /\ relay[mine[k]].state # "Open"
        /\ <<mine[k], "OpenAck">> \notin inbox
    BY <1>1, <1>2, <1>x, <2>1, Zenon DEF OpenSentInv
  <2>4. /\ relay' \in [Relays -> RelayRecord]
        /\ \A c \in Relays : relay'[c].id = relay[c].id /\ relay'[c].state = relay[c].state
        /\ \A c \in Relays : c # mine[k] => relay'[c].session = relay[c].session
    BY <1>1, <1>2, <2>1, <2>3 DEF RelayRecord, RelayTypeOK
  <2>5. \A c \in Relays : (Alive(c)' <=> Alive(c)) /\ (Carried(c)' <=> Carried(c))
    BY <2>2, <2>4, Zenon DEF Alive, Carried
  <2>6. \A j \in Connects : /\ connect'[j] = "idle" <=> connect[j] = "idle"
                            /\ connect'[j] \in {"open", "send"} => connect[j] \in {"open", "send"}
    BY <1>2, <2>1, Zenon
  <2>7. OwnerInv' /\ AliveIsOwner' /\ SessionBound'
    BY <1>1, <2>2, <2>3, <2>4, <2>5, <2>6 DEF OwnerInv, AliveIsOwner, SessionBound
  <2>8. OpenSentInv'
    <3>1. \A j \in Connects : connect[j] # "idle" => mine[j] \in Relays
      BY <1>1, ManagerConstants DEF OpenSentInv, OwnerInv, RelayTypeOK, Relays
    <3> QED
      BY <1>1, <2>2, <2>4, <2>6, <3>1 DEF OpenSentInv
  <2>9. CarriedInv'
    BY <1>1, <2>2, <2>3, <2>4, <2>5, Zenon DEF CarriedInv
  <2>10. RelayTypeOK'
    BY <1>1, <2>1, <2>2, <2>4, Zenon DEF RelayTypeOK, RelayRecord
  <2> QED
    BY <2>7, <2>8, <2>9, <2>10, Zenon DEF ManagerInv
<1>5. ASSUME connect[k] \in {"send", "wait"}, CloseConnection(mine[k]), connect' = [connect EXCEPT ![k] = "failed"],
             UNCHANGED <<loginVars, closeVars, conns, relaysMade, inbox, mine, openSent>>
      PROVE  ManagerInv'
  <2>1. \A j \in Connects : /\ connect'[j] = "idle" => connect[j] = "idle"
                            /\ connect[j] = "idle" => connect'[j] = "idle"
                            /\ connect'[j] \in {"open", "send"} => connect[j] \in {"open", "send"}
    BY <1>2, <1>5, Zenon
  <2>2. RelaysInv' /\ relay' \in [Relays -> RelayRecord] /\ ending' \in SUBSET Nat
    BY <1>2, <1>5, <2>1, CloseKeeps, Zenon DEF loginVars
  <2>3. RelayTypeOK'
    BY <1>1, <1>5, <2>2, Zenon DEF RelayTypeOK, RelayRecord, loginVars, closeVars
  <2> QED
    BY <2>2, <2>3, Zenon DEF ManagerInv, RelaysInv
<1>6. ASSUME connect[k] = "send", up, openSent' = openSent \cup {mine[k]}, connect' = [connect EXCEPT ![k] = "wait"],
             UNCHANGED <<relay, ending, loginVars, closeVars, conns, relaysMade, inbox, mine>>
      PROVE  ManagerInv'
  <2>1. UNCHANGED <<conns, relaysMade, relay, ending, login, up, teardown, downTodo, closing, closeTodo, inbox, mine>>
    BY <1>6, Zenon DEF loginVars, closeVars
  <2>2. /\ mine[k] \in Relays /\ mine[k] \in 1..relaysMade /\ mine[k] \notin openSent
        /\ <<mine[k], "OpenAck">> \notin inbox
        /\ \A j \in Connects : connect[j] # "idle" /\ mine[j] = mine[k] => j = k
    BY <1>1, <1>2, <1>x, <1>6, Zenon DEF OpenSentInv
  <2>3. \A c \in Relays : Alive(c)' <=> Alive(c)
    BY <2>1, Zenon DEF Alive
  <2>4. \A j \in Connects : /\ connect'[j] = "idle" <=> connect[j] = "idle"
                            /\ connect'[j] \in {"open", "send"} => connect[j] \in {"open", "send"} /\ j # k
    BY <1>2, <1>6, Zenon
  <2>5. OwnerInv' /\ AliveIsOwner' /\ SessionBound'
    BY <1>1, <2>1, <2>3, <2>4, Zenon DEF OwnerInv, AliveIsOwner, SessionBound
  <2>6. OpenSentInv'
    BY <1>1, <1>6, <2>1, <2>2, <2>4 DEF OpenSentInv
  <2>7. CarriedInv'
    BY <1>1, <1>6, <2>1, <2>3, Zenon DEF CarriedInv
  <2>8. RelayTypeOK'
    BY <1>1, <1>2, <1>6, <2>1, Zenon DEF RelayTypeOK
  <2> QED
    BY <2>5, <2>6, <2>7, <2>8, Zenon DEF ManagerInv
<1>7. ASSUME connect[k] = "wait", connect' = [connect EXCEPT ![k] = "ok"],
             UNCHANGED <<relay, ending, loginVars, closeVars, conns, relaysMade, inbox, mine, openSent>>
      PROVE  ManagerInv'
  <2>1. \A j \in Connects : /\ connect'[j] = "idle" <=> connect[j] = "idle"
                            /\ connect'[j] \in {"open", "send"} => connect[j] \in {"open", "send"}
    BY <1>2, <1>7, Zenon
  <2>2. RelaysInv'
    BY <1>7, <2>1, RelaysStutter, Zenon DEF loginVars
  <2>3. RelayTypeOK'
    BY <1>1, <1>7, Zenon DEF RelayTypeOK, loginVars, closeVars
  <2> QED
    BY <2>2, <2>3, Zenon DEF ManagerInv, RelaysInv
<1>8. CASE ConnectSend(k)
  BY <1>5, <1>6, <1>8, Zenon DEF ConnectSend
<1>9. CASE ConnectReturn(k)
  BY <1>5, <1>7, <1>9, Zenon DEF ConnectReturn
<1> QED
  BY <1>3, <1>4, <1>8, <1>9, Zenon

\* The packets of the reader, the dispatchers and the end of a connection keep
\* the invariant.
LEMMA PacketKeeps ==
    ASSUME ManagerInv,
           \/ \E i \in RelayIds : HandleOpen(i)
           \/ \E i \in Ids, kind \in {"OpenAck", "Close"} : HandlePacket(i, kind)
           \/ \E c \in Relays : RelayEnds(c) \/ RemoveConnection(c) \/ Dispatch(c, "OpenAck") \/ Dispatch(c, "Close")
    PROVE  ManagerInv'
<1>1. RelayTypeOK /\ OwnerInv /\ OpenSentInv /\ CarriedInv /\ AliveIsOwner /\ SessionBound
  BY Zenon DEF ManagerInv
<1>2. relay \in [Relays -> RelayRecord] /\ conns \in [Ids -> Nat] /\ login \in Nat /\ \A c \in Relays : c \in Nat \ {0}
  BY <1>1, ManagerConstants DEF RelayTypeOK, RelayRecord, Relays
<1>3. ASSUME NEW i \in RelayIds, HandleOpen(i) PROVE ManagerInv'
  <2>1. /\ up /\ conns[i] = 0 /\ relaysMade < MaxRelays /\ Enter(i, login, "Open")
        /\ UNCHANGED <<ending, login, up, teardown, downTodo, closing, closeTodo, connect, mine, inbox, openSent>>
    BY <1>3, Zenon DEF HandleOpen, loginVars, closeVars, callVars
  <2>2. i \in Ids /\ \A k \in Connects : k # i
    BY ManagerConstants, Zenon DEF Ids
  <2>3. RelaysInv' /\ relay' \in [Relays -> RelayRecord] /\ relaysMade' \in Nat /\ conns' \in [Ids -> Nat]
    BY <1>2, <2>1, <2>2, EnterKeeps, Zenon
  <2>4. RelayTypeOK'
    BY <1>1, <2>1, <2>3, Zenon DEF RelayTypeOK, RelayRecord
  <2> QED
    BY <2>3, <2>4, Zenon DEF ManagerInv, RelaysInv
<1>4. ASSUME NEW i \in Ids, NEW kind \in {"OpenAck", "Close"}, HandlePacket(i, kind) PROVE ManagerInv'
  <2>1. /\ up /\ inbox' = inbox \cup {<<conns[i], kind>>}
        /\ kind = "OpenAck" => conns[i] \in openSent /\ relay[conns[i]].session = login
        /\ UNCHANGED <<conns, relaysMade, relay, ending, login, up, teardown, downTodo, closing, closeTodo,
                       connect, mine, openSent>>
    BY <1>4, Zenon DEF HandlePacket, registryVars, loginVars, closeVars, callVars
  <2>2. \A c \in Relays : Alive(c)' <=> Alive(c)
    BY <2>1, Zenon DEF Alive
  <2>3. OwnerInv' /\ AliveIsOwner' /\ SessionBound'
    BY <1>1, <2>1, <2>2, Zenon DEF OwnerInv, AliveIsOwner, SessionBound
  <2>4. OpenSentInv'
    <3>1. conns[i] <= relaysMade
      BY <1>1, Zenon DEF OwnerInv
    <3>2. \A e \in inbox' : e \in inbox \/ e = <<conns[i], kind>>
      BY <2>1, Zenon
    <3>3. \A e \in inbox' : e[1] <= relaysMade
      BY <1>1, <3>1, <3>2 DEF OpenSentInv
    <3>4. \A c \in Nat : <<c, "OpenAck">> \in inbox' => c \in openSent
      BY <1>1, <2>1, <3>2, Zenon DEF OpenSentInv
    <3> QED
      BY <1>1, <2>1, <3>3, <3>4, Zenon DEF OpenSentInv
  <2>5. CarriedInv'
    <3>1. \A c \in Relays : <<c, "OpenAck">> \in inbox' => <<c, "OpenAck">> \in inbox \/ relay[c].session = login
      BY <2>1, Zenon
    <3>2. \A c \in Relays : Carried(c)' <=> Carried(c)
      BY <2>1, <2>2, Zenon DEF Carried
    <3> QED
      BY <1>1, <2>1, <2>2, <3>1, <3>2, Zenon DEF CarriedInv
  <2>6. RelayTypeOK'
    BY <1>1, <1>2, <2>1 DEF RelayTypeOK
  <2> QED
    BY <2>3, <2>4, <2>5, <2>6, Zenon DEF ManagerInv
<1>5. ASSUME NEW x \in Relays, CloseConnection(x), inbox' \subseteq inbox,
             UNCHANGED <<loginVars, closeVars, callVars, conns, relaysMade>>
      PROVE  ManagerInv'
  <2>1. UNCHANGED <<conns, relaysMade, login, up, teardown, downTodo, closing, closeTodo, connect, mine, openSent>>
    BY <1>5, Zenon DEF loginVars, closeVars, callVars
  <2>2. RelaysInv' /\ relay' \in [Relays -> RelayRecord] /\ ending' \in SUBSET Nat
    BY <1>2, <1>5, <2>1, CloseKeeps, Zenon
  <2>3. RelayTypeOK'
    BY <1>1, <1>5, <2>1, <2>2, Zenon DEF RelayTypeOK, RelayRecord
  <2> QED
    BY <2>2, <2>3, Zenon DEF ManagerInv, RelaysInv
<1>6. ASSUME NEW x \in Relays, RemoveConnection(x) PROVE ManagerInv'
  <2>1. /\ x \in ending /\ ending' = ending \ {x}
        /\ conns' = [i \in Ids |-> IF conns[i] = x THEN 0 ELSE conns[i]]
        /\ UNCHANGED <<relaysMade, relay, login, up, teardown, downTodo, closing, closeTodo, connect, mine, inbox, openSent>>
    BY <1>6, Zenon DEF RemoveConnection, loginVars, closeVars, callVars
  <2>2. \A c \in Relays : (Alive(c)' <=> Alive(c)) /\ (Carried(c)' <=> Carried(c))
    BY <2>1, Zenon DEF Alive, Carried
  <2>3. ~Alive(x)
    BY <1>1, <2>1, Zenon DEF OwnerInv
  <2>4. OwnerInv'
    <3>1. \A i \in Ids : conns'[i] = 0 \/ conns'[i] = conns[i]
      BY <2>1, Zenon
    <3>2. relaysMade \in Nat /\ \A k \in Connects : k \in Ids
      BY <1>1, Zenon DEF RelayTypeOK, Ids
    <3> QED
      BY <1>1, <2>1, <2>2, <3>1, <3>2 DEF OwnerInv
  <2>5. AliveIsOwner' /\ SessionBound'
    BY <1>1, <2>1, <2>2, <2>3, Zenon DEF AliveIsOwner, SessionBound, OwnerInv
  <2>6. OpenSentInv' /\ CarriedInv'
    BY <1>1, <2>1, <2>2, Zenon DEF OpenSentInv, CarriedInv
  <2>7. RelayTypeOK'
    BY <1>1, <1>2, <2>1, Zenon DEF RelayTypeOK
  <2> QED
    BY <2>4, <2>5, <2>6, <2>7, Zenon DEF ManagerInv
<1>7. ASSUME NEW x \in Relays, ~Alive(x), inbox' \subseteq inbox,
             UNCHANGED <<relay, ending, loginVars, closeVars, callVars, conns, relaysMade>>
      PROVE  ManagerInv'
  <2>1. UNCHANGED <<conns, relaysMade, relay, ending, login, up, teardown, downTodo, closing, closeTodo,
                    connect, mine, openSent>>
    BY <1>7, Zenon DEF loginVars, closeVars, callVars
  <2>2. RelaysInv'
    BY <1>7, <2>1, RelaysStutter, Zenon
  <2>3. RelayTypeOK'
    BY <1>1, <1>7, <2>1, Zenon DEF RelayTypeOK
  <2> QED
    BY <2>2, <2>3, Zenon DEF ManagerInv, RelaysInv
<1>8. ASSUME NEW x \in Relays, Alive(x), <<x, "OpenAck">> \in inbox, inbox' \subseteq inbox,
             relay' = [relay EXCEPT ![x].state = "Open"],
             UNCHANGED <<ending, loginVars, closeVars, callVars, conns, relaysMade>>
      PROVE  ManagerInv'
  <2>1. UNCHANGED <<conns, relaysMade, ending, login, up, teardown, downTodo, closing, closeTodo, connect, mine, openSent>>
    BY <1>8, Zenon DEF loginVars, closeVars, callVars
  <2>2. /\ relay' \in [Relays -> RelayRecord]
        /\ \A c \in Relays : relay'[c].id = relay[c].id /\ relay'[c].session = relay[c].session
        /\ \A c \in Relays : c # x => relay'[c].state = relay[c].state
    BY <1>2, <1>8 DEF RelayRecord
  <2>3. \A c \in Relays : Alive(c)' <=> Alive(c)
    BY <1>2, <1>8, Zenon DEF Alive, RelayRecord
  <2>4. x \in openSent /\ Carried(x)
    BY <1>1, <1>2, <1>8, Zenon DEF OpenSentInv, Carried
  <2>5. \A c \in Relays : Carried(c)' <=> Carried(c)
    BY <2>1, <2>2, <2>3, <2>4, Zenon DEF Carried
  <2>6. OwnerInv' /\ AliveIsOwner'
    BY <1>1, <2>1, <2>2, <2>3, Zenon DEF OwnerInv, AliveIsOwner
  <2>7. SessionBound'
    BY <1>1, <1>8, <2>1, <2>2, Zenon DEF SessionBound, CarriedInv
  <2>8. OpenSentInv'
    <3>1. \A k \in Connects : connect[k] # "idle" => mine[k] \in Relays
      BY <1>1, ManagerConstants DEF OpenSentInv, OwnerInv, RelayTypeOK, Relays
    <3> QED
      BY <1>1, <1>8, <2>1, <2>2, <2>4, <3>1 DEF OpenSentInv
  <2>9. CarriedInv'
    BY <1>1, <1>8, <2>1, <2>2, <2>3, <2>5, Zenon DEF CarriedInv
  <2>10. RelayTypeOK'
    BY <1>1, <1>8, <2>1, <2>2, Zenon DEF RelayTypeOK, RelayRecord
  <2> QED
    BY <2>6, <2>7, <2>8, <2>9, <2>10, Zenon DEF ManagerInv
<1>9. ASSUME NEW c \in Relays, NEW kind \in {"OpenAck", "Close"}, Dispatch(c, kind) PROVE ManagerInv'
  <2>1. <<c, kind>> \in inbox /\ inbox' \subseteq inbox /\ UNCHANGED <<loginVars, closeVars, callVars, conns, relaysMade>>
    BY <1>9, Zenon DEF Dispatch
  <2>2. CASE ~Alive(c)
    BY <1>7, <1>9, <2>1, <2>2, Zenon DEF Dispatch
  <2>3. CASE Alive(c) /\ kind = "Close"
    BY <1>5, <1>9, <2>1, <2>3, Zenon DEF Dispatch
  <2>4. CASE Alive(c) /\ kind = "OpenAck"
    BY <1>8, <1>9, <2>1, <2>4, Zenon DEF Dispatch
  <2> QED
    BY <2>2, <2>3, <2>4, Zenon
<1>10. ASSUME NEW c \in Relays, RelayEnds(c) PROVE ManagerInv'
  BY <1>5, <1>10, Zenon DEF RelayEnds
<1> QED
  BY <1>3, <1>4, <1>6, <1>9, <1>10, Zenon

\* The end of a login, its closeAll and the next login keep the invariant: what
\* the old login carried was registered when closeAll took its snapshot.
LEMMA LoginKeeps ==
    ASSUME ManagerInv, ReaderEnds \/ TeardownSnapshot \/ TeardownEnd \/ LoginAgain \/ RunExit
    PROVE  ManagerInv'
<1>1. RelayTypeOK /\ OwnerInv /\ OpenSentInv /\ CarriedInv /\ AliveIsOwner /\ SessionBound
  BY Zenon DEF ManagerInv
<1>2. ASSUME UNCHANGED <<registryVars, closeVars, callVars, inbox>>
      PROVE  /\ OwnerInv' /\ OpenSentInv' /\ AliveIsOwner'
             /\ UNCHANGED <<conns, relaysMade, relay, ending, closing, closeTodo, connect, mine, openSent, inbox>>
             /\ \A c \in Relays : (Alive(c)' <=> Alive(c)) /\ (Carried(c)' <=> Carried(c))
  <2>1. UNCHANGED <<conns, relaysMade, relay, ending, closing, closeTodo, connect, mine, openSent, inbox>>
    BY <1>2, Zenon DEF registryVars, closeVars, callVars
  <2>2. \A c \in Relays : (Alive(c)' <=> Alive(c)) /\ (Carried(c)' <=> Carried(c))
    BY <2>1, Zenon DEF Alive, Carried
  <2>3. OwnerInv' /\ AliveIsOwner'
    BY <1>1, <2>1, <2>2, Zenon DEF OwnerInv, AliveIsOwner
  <2>4. OpenSentInv'
    BY <1>1, <2>1, Zenon DEF OpenSentInv
  <2> QED
    BY <2>1, <2>2, <2>3, <2>4, Zenon
<1>3. CASE ReaderEnds
  <2>1. up /\ ~up' /\ up' = FALSE /\ teardown' = "closeAll" /\ UNCHANGED <<login, downTodo>>
        /\ UNCHANGED <<registryVars, closeVars, callVars, inbox>>
    BY <1>3, Zenon DEF ReaderEnds
  <2>2. CarriedInv' /\ SessionBound'
    BY <2>1, Zenon DEF CarriedInv, SessionBound
  <2>3. RelayTypeOK'
    BY <1>1, <1>2, <2>1, Zenon DEF RelayTypeOK
  <2> QED
    BY <1>2, <2>1, <2>2, <2>3, Zenon DEF ManagerInv
<1>4. CASE TeardownSnapshot
  <2>1. /\ teardown = "closeAll" /\ downTodo' = Registered /\ teardown' = "end" /\ UNCHANGED <<login, up>>
        /\ UNCHANGED <<registryVars, closeVars, callVars, inbox>>
    BY <1>4, Zenon DEF TeardownSnapshot
  <2>2. ~up
    BY <1>1, <2>1, Zenon DEF CarriedInv
  <2>3. ASSUME NEW c \in Relays, Carried(c) PROVE c \in Registered
    <3>1. c # 0 /\ relay[c].id \in Ids /\ conns[relay[c].id] = c
      BY <1>1, <2>3 DEF Carried, OwnerInv, AliveIsOwner, Relays
    <3> QED
      BY <3>1, Zenon DEF Registered
  <2>4. CarriedInv' /\ SessionBound'
    BY <1>2, <2>1, <2>2, <2>3, Zenon DEF CarriedInv, SessionBound
  <2>5. Registered \in SUBSET Nat
    BY <1>1 DEF Registered, RelayTypeOK
  <2>6. RelayTypeOK'
    BY <1>1, <1>2, <2>1, <2>5, Zenon DEF RelayTypeOK
  <2> QED
    BY <1>2, <2>1, <2>4, <2>6, Zenon DEF ManagerInv
<1>5. CASE TeardownEnd
  <2>1. teardown = "end" /\ UNCHANGED <<closing, closeTodo, connect, mine, openSent, conns, relaysMade, login, up, inbox>>
    BY <1>5, Zenon DEF TeardownEnd, closeVars, callVars
  <2>2. CASE \E c \in downTodo : CloseConnection(c) /\ downTodo' = downTodo \ {c} /\ UNCHANGED teardown
    <3>1. PICK x \in downTodo : CloseConnection(x) /\ downTodo' = downTodo \ {x} /\ UNCHANGED teardown
      BY <2>2, Zenon
    <3>2. x \in Nat /\ downTodo' \in SUBSET Nat
      BY <1>1, <3>1, Zenon DEF RelayTypeOK
    <3>3. RelaysInv' /\ relay' \in [Relays -> RelayRecord] /\ ending' \in SUBSET Nat
      BY <2>1, <3>1, <3>2, CloseKeeps, Zenon
    <3>4. RelayTypeOK'
      BY <1>1, <2>1, <3>1, <3>2, <3>3, Zenon DEF RelayTypeOK, RelayRecord
    <3> QED
      BY <3>3, <3>4, Zenon DEF ManagerInv, RelaysInv
  <2>3. CASE downTodo = {} /\ teardown' = "down" /\ UNCHANGED <<downTodo, relay, ending>>
    <3>1. UNCHANGED <<registryVars, closeVars, callVars, inbox>>
      BY <2>1, <2>3, Zenon DEF registryVars, closeVars, callVars
    <3>2. ~up /\ \A c \in Relays : ~Carried(c)
      BY <1>1, <2>1, <2>3, Zenon DEF CarriedInv
    <3>3. CarriedInv' /\ SessionBound'
      BY <1>2, <2>1, <2>3, <3>1, <3>2, Zenon DEF CarriedInv, SessionBound
    <3>4. RelayTypeOK'
      BY <1>1, <2>1, <2>3, Zenon DEF RelayTypeOK
    <3> QED
      BY <1>2, <3>1, <3>3, <3>4, Zenon DEF ManagerInv
  <2> QED
    BY <1>5, <2>2, <2>3, Zenon DEF TeardownEnd
<1>6. CASE LoginAgain
  <2>1. /\ teardown = "down" /\ login' = login + 1 /\ up' = TRUE /\ teardown' = "none" /\ UNCHANGED downTodo
        /\ UNCHANGED <<registryVars, closeVars, callVars, inbox>>
    BY <1>6, Zenon DEF LoginAgain
  <2>2. \A c \in Relays : ~Carried(c)
    BY <1>1, <2>1, Zenon DEF CarriedInv
  <2>3. \A c \in Relays : relay[c].state # "Open"
    BY <2>2, Zenon DEF Carried, Alive
  <2>4. \A c \in Relays : ~(Alive(c) /\ <<c, "OpenAck">> \in inbox)
    <3>1. \A c \in Relays : c \in Nat
      BY ManagerConstants DEF Relays
    <3> QED
      BY <1>1, <2>2, <3>1 DEF Carried, OpenSentInv
  <2>5. CarriedInv' /\ SessionBound'
    BY <1>2, <2>1, <2>3, <2>4, Zenon DEF CarriedInv, SessionBound
  <2>6. RelayTypeOK'
    <3>1. login' \in Nat /\ up' \in BOOLEAN
      BY <1>1, <2>1 DEF RelayTypeOK
    <3> QED
      BY <1>1, <1>2, <2>1, <3>1, Zenon DEF RelayTypeOK
  <2> QED
    BY <1>2, <2>1, <2>5, <2>6, Zenon DEF ManagerInv
<1>7. CASE RunExit
  <2>1. /\ teardown = "down" /\ teardown' = "exit" /\ UNCHANGED <<login, up, downTodo>>
        /\ UNCHANGED <<registryVars, closeVars, callVars, inbox>>
    BY <1>7, Zenon DEF RunExit
  <2>2. CarriedInv' /\ SessionBound'
    BY <1>1, <1>2, <2>1, Zenon DEF CarriedInv, SessionBound
  <2>3. RelayTypeOK'
    BY <1>1, <1>2, <2>1, Zenon DEF RelayTypeOK
  <2> QED
    BY <1>2, <2>1, <2>2, <2>3, Zenon DEF ManagerInv
<1> QED
  BY <1>3, <1>4, <1>5, <1>6, <1>7, Zenon

\* Client.Close and its closeAll keep the invariant.
LEMMA ClientCloseKeeps ==
    ASSUME ManagerInv, ClientClose \/ ClientCloseSnapshot \/ ClientCloseEnd
    PROVE  ManagerInv'
<1>1. RelayTypeOK
  BY Zenon DEF ManagerInv
<1>2. ASSUME UNCHANGED <<registryVars, loginVars, callVars, inbox>>,
             closing' \in {"idle", "closed", "end", "done"}, closeTodo' \in SUBSET Nat
      PROVE  ManagerInv'
  <2>1. UNCHANGED <<conns, relaysMade, relay, ending, login, up, teardown, downTodo, connect, mine, openSent, inbox>>
    BY <1>2, Zenon DEF registryVars, loginVars, callVars
  <2>2. RelaysInv'
    BY <2>1, RelaysStutter, Zenon
  <2>3. RelayTypeOK'
    BY <1>1, <1>2, <2>1, Zenon DEF RelayTypeOK
  <2> QED
    BY <2>2, <2>3, Zenon DEF ManagerInv, RelaysInv
<1>3. closing \in {"idle", "closed", "end", "done"} /\ closeTodo \in SUBSET Nat /\ Registered \in SUBSET Nat
  BY <1>1 DEF RelayTypeOK, Registered
<1>4. CASE ClientClose \/ ClientCloseSnapshot
  BY <1>2, <1>3, <1>4, Zenon DEF ClientClose, ClientCloseSnapshot
<1>5. CASE ClientCloseEnd
  <2>1. CASE \E c \in closeTodo : CloseConnection(c) /\ closeTodo' = closeTodo \ {c}
    <3>1. PICK x \in closeTodo : CloseConnection(x) /\ closeTodo' = closeTodo \ {x}
      BY <2>1, Zenon
    <3>2. x \in Nat /\ closeTodo' \in SUBSET Nat /\ closing' \in {"idle", "closed", "end", "done"}
      BY <1>3, <1>5, <3>1, Zenon DEF ClientCloseEnd
    <3>3. UNCHANGED <<conns, relaysMade, login, up, teardown, downTodo, connect, mine, openSent, inbox>>
      BY <1>5, Zenon DEF ClientCloseEnd, loginVars, callVars
    <3>4. RelaysInv' /\ relay' \in [Relays -> RelayRecord] /\ ending' \in SUBSET Nat
      BY <3>1, <3>2, <3>3, CloseKeeps, Zenon
    <3>5. RelayTypeOK'
      BY <1>1, <3>2, <3>3, <3>4, Zenon DEF RelayTypeOK, RelayRecord
    <3> QED
      BY <3>4, <3>5, Zenon DEF ManagerInv, RelaysInv
  <2>2. CASE closing' = "done" /\ UNCHANGED <<closeTodo, relay, ending>>
    BY <1>2, <1>3, <1>5, <2>2, Zenon DEF ClientCloseEnd, registryVars
  <2> QED
    BY <1>5, <2>1, <2>2, Zenon DEF ClientCloseEnd
<1> QED
  BY <1>4, <1>5, Zenon

\* No step of the manager breaks its invariant.
LEMMA ManagerInvNext == ManagerInv /\ [ManagerNext]_managerVars => ManagerInv'
<1> SUFFICES ASSUME ManagerInv, [ManagerNext]_managerVars PROVE ManagerInv'
  BY Zenon
<1>1. CASE UNCHANGED managerVars
  <2>1. UNCHANGED <<conns, relaysMade, relay, ending, login, up, teardown, downTodo, closing, closeTodo,
                    connect, mine, openSent, inbox>>
    BY <1>1, Zenon DEF managerVars, registryVars, loginVars, closeVars, callVars
  <2>2. RelaysInv'
    BY <2>1, RelaysStutter, Zenon
  <2>3. RelayTypeOK'
    BY <2>1, Zenon DEF ManagerInv, RelayTypeOK
  <2> QED
    BY <2>2, <2>3, Zenon DEF ManagerInv, RelaysInv
<1>2. CASE ManagerNext
  BY <1>2, ConnectKeeps, PacketKeeps, LoginKeeps, ClientCloseKeeps, Zenon DEF ManagerNext
<1> QED
  BY <1>1, <1>2, Zenon

\* A connection that has not closed owns its relay ID, for any number of IDs,
\* Connect calls and logins (acceptIncoming, removeConnection).
THEOREM AliveIsOwnerCorrect == ManagerSpec => []AliveIsOwner
<1>1. ManagerInv => AliveIsOwner
  BY Zenon DEF ManagerInv
<1> QED
  BY <1>1, ManagerInvInit, ManagerInvNext, PTL DEF ManagerSpec

\* No open connection outlives the login that carried it, for any number of
\* logins (connectAndServe, closeAll, Connect).
THEOREM SessionBoundCorrect == ManagerSpec => []SessionBound
<1>1. ManagerInv => SessionBound
  BY Zenon DEF ManagerInv
<1> QED
  BY <1>1, ManagerInvInit, ManagerInvNext, PTL DEF ManagerSpec

(***************************************************************************)
(* The registry of streams.                                                *)
(***************************************************************************)
MuxPhases == {"none", "new", "open", "done", "ended"}

MuxTypeOK ==
    /\ made \in Nat /\ streams \in [StreamIds -> Nat]
    /\ stream \in [Streams -> [id : StreamIds \cup {NoStream.id}, phase : MuxPhases]]
    /\ removing \in SUBSET Nat /\ todo \in SUBSET Nat
    /\ accept \in Seq(Nat)
    /\ muxClosed \in BOOLEAN /\ muxCloser \in {"idle", "collect", "end", "done"}
    /\ dial \in [Dialers -> {"idle", "send", "wait", "ok", "failed"}] /\ dialled \in [Dialers -> Nat]
    /\ handler \in [Handlers -> [pc : {"idle", "ack", "queue"}, of : Nat, created : BOOLEAN]]

\* A stream has its number once it is made; a registered or removed one was made.
MadeInv ==
    /\ \A c \in Streams : Live(c) => c <= made /\ stream[c].id \in StreamIds
    /\ \A i \in StreamIds : streams[i] <= made
    /\ \A c \in Streams : c \in removing => c <= made /\ ~Live(c)

\* Once Close has taken the streams, only those it has still to end are live.
MuxClosingInv ==
    /\ muxClosed <=> muxCloser # "idle"
    /\ muxCloser = "end" => \A c \in Streams : Live(c) => c \in todo

\* A call that has not begun holds no stream.
CallsInv ==
    /\ \A d \in Dialers : dial[d] = "idle" => dialled[d] = 0
    /\ \A h \in Handlers : handler[h].pc = "idle" => ~handler[h].created

MuxInv ==
    /\ MuxTypeOK /\ MadeInv /\ MuxClosingInv /\ CallsInv
    /\ LiveIsRegistered /\ CloseEndsStreams /\ NoStrandedStream

\* terminate ends one stream and touches no other.
LEMMA TerminateEnds ==
    ASSUME MuxTypeOK, NEW x \in Nat, Terminate(x)
    PROVE  /\ stream' \in [Streams -> [id : StreamIds \cup {NoStream.id}, phase : MuxPhases]]
           /\ removing' \in SUBSET Nat
           /\ \A c \in Streams : stream'[c].id = stream[c].id
           /\ \A c \in Streams : Live(c)' <=> Live(c) /\ c # x
           /\ \A c \in Streams : c \in removing' => c \in removing \/ (c = x /\ Live(c))
<1>0. /\ \A p \in MuxPhases : WithDone(p) \in MuxPhases \ {"new", "open"}
      /\ \A p \in MuxPhases \ {"new", "open"} : WithDone(p) = p
  BY Zenon DEF WithDone, MuxPhases
<1>1. ASSUME NEW c \in Streams
      PROVE  /\ stream'[c] \in [id : StreamIds \cup {NoStream.id}, phase : MuxPhases]
             /\ stream'[c].id = stream[c].id
             /\ Live(c)' <=> Live(c) /\ c # x
  BY <1>0, <1>1 DEF Terminate, MuxTypeOK, MuxPhases, Live
<1>2. stream' = [c \in Streams |-> stream'[c]]
  BY Zenon DEF Terminate, MuxTypeOK
<1>3. removing' \in SUBSET Nat /\ \A c \in Streams : c \in removing' => c \in removing \/ (c = x /\ Live(c))
  <2>1. removing' = IF Live(x) THEN removing \cup {x} ELSE removing
    BY Zenon DEF Terminate
  <2> QED
    BY <2>1, Zenon DEF MuxTypeOK
<1>4. stream' \in [Streams -> [id : StreamIds \cup {NoStream.id}, phase : MuxPhases]]
  BY <1>1, <1>2, Zenon
<1> QED
  BY <1>1, <1>3, <1>4, Zenon

\* Register makes one live stream, the next one, and gives it the entry.
LEMMA RegisterMakes ==
    ASSUME MuxTypeOK, NEW i \in StreamIds, NEW p \in {"new", "open"}, made < MaxStreams,
           Register(i, p)
    PROVE  /\ made' \in Nat /\ made' = made + 1 /\ made + 1 \in Streams
           /\ streams' \in [StreamIds -> Nat]
           /\ stream' \in [Streams -> [id : StreamIds \cup {NoStream.id}, phase : MuxPhases]]
           /\ \A c \in Streams : Live(c)' <=> Live(c) \/ c = made + 1
           /\ stream'[made + 1].id = i
           /\ \A c \in Streams : c # made + 1 => stream'[c].id = stream[c].id
           /\ streams'[i] = made + 1
           /\ \A j \in StreamIds : j # i => streams'[j] = streams[j]
<1>1. made \in Nat /\ made + 1 \in Streams
  BY MuxConstants DEF MuxTypeOK, Streams
<1> QED
  BY <1>1 DEF Register, MuxTypeOK, MuxPhases, Live

\* The invariant holds before anything is made.
LEMMA MuxInvInit == MuxInit => MuxInv
<1> SUFFICES ASSUME MuxInit PROVE MuxInv
  BY Zenon
<1>1. \A c \in Streams : ~Live(c)
  BY Zenon DEF MuxInit, Live, NoStream
<1>2. NoStream \in [id : StreamIds \cup {NoStream.id}, phase : MuxPhases]
  BY Zenon DEF NoStream, MuxPhases
<1>3. MuxTypeOK
  <2>1. stream \in [Streams -> [id : StreamIds \cup {NoStream.id}, phase : MuxPhases]]
    BY <1>2, Zenon DEF MuxInit
  <2>2. /\ accept \in Seq(Nat) /\ made \in Nat /\ streams \in [StreamIds -> Nat]
        /\ dialled \in [Dialers -> Nat]
    BY DEF MuxInit
  <2>3. handler \in [Handlers -> [pc : {"idle", "ack", "queue"}, of : Nat, created : BOOLEAN]]
    BY Zenon DEF MuxInit, Idle
  <2> QED
    BY <2>1, <2>2, <2>3, Zenon DEF MuxInit, MuxTypeOK
<1> QED
  BY <1>1, <1>3 DEF MuxInit, MuxInv, MadeInv, MuxClosingInv, CallsInv, LiveIsRegistered,
                    CloseEndsStreams, NoStrandedStream, Idle

\* A step that ends at most the stream x, and changes no call, no queue and no
\* phase of Close, keeps the invariant.
LEMMA TerminateKeeps ==
    ASSUME MuxInv, NEW x \in Nat, Terminate(x), UNCHANGED <<made, streams, muxClosed, muxCloser, todo>>
    PROVE  MadeInv' /\ MuxClosingInv' /\ LiveIsRegistered' /\ CloseEndsStreams'
<1>1. MuxTypeOK
  BY Zenon DEF MuxInv
<1>2. /\ \A c \in Streams : stream'[c].id = stream[c].id
      /\ \A c \in Streams : Live(c)' <=> Live(c) /\ c # x
      /\ \A c \in Streams : c \in removing' => c \in removing \/ (c = x /\ Live(c))
  BY <1>1, TerminateEnds, Zenon
<1> QED
  BY <1>2, Zenon DEF MuxInv, MadeInv, MuxClosingInv, LiveIsRegistered, CloseEndsStreams

\* A new stream under a free ID keeps the invariant, before Close has begun.
LEMMA RegisterKeeps ==
    ASSUME MuxInv, NEW i \in StreamIds, NEW p \in {"new", "open"}, made < MaxStreams,
           streams[i] = 0, ~muxClosed, Register(i, p),
           UNCHANGED <<removing, muxClosed, muxCloser, todo>>
    PROVE  MadeInv' /\ MuxClosingInv' /\ LiveIsRegistered' /\ CloseEndsStreams'
<1>1. MuxTypeOK /\ made \in Nat
  BY Zenon DEF MuxInv, MuxTypeOK
<1>2. /\ made' = made + 1 /\ made + 1 \in Streams
      /\ \A c \in Streams : Live(c)' <=> Live(c) \/ c = made + 1
      /\ stream'[made + 1].id = i
      /\ \A c \in Streams : c # made + 1 => stream'[c].id = stream[c].id
      /\ streams'[i] = made + 1
      /\ \A j \in StreamIds : j # i => streams'[j] = streams[j]
  BY <1>1, RegisterMakes, Zenon
<1>3. muxCloser = "idle" /\ muxCloser' = "idle"
  BY Zenon DEF MuxInv, MuxClosingInv
<1>4. MadeInv'
  <2>1. \A c \in Streams : c \in Int
    BY DEF Streams
  <2>2. ASSUME NEW c \in Streams, Live(c)' PROVE c <= made' /\ stream'[c].id \in StreamIds
    BY <1>1, <1>2, <2>1, <2>2 DEF MuxInv, MadeInv
  <2>3. ASSUME NEW j \in StreamIds PROVE streams'[j] <= made'
    <3>1. streams[j] \in Nat /\ streams[j] <= made
      BY Zenon DEF MuxInv, MadeInv, MuxTypeOK
    <3> QED
      BY <1>1, <1>2, <3>1
  <2>4. ASSUME NEW c \in Streams, c \in removing' PROVE c <= made' /\ ~Live(c)'
    BY <1>1, <1>2, <2>1, <2>4 DEF MuxInv, MadeInv
  <2> QED
    BY <2>2, <2>3, <2>4, Zenon DEF MadeInv
<1> QED
  BY <1>1, <1>2, <1>3, <1>4 DEF MuxInv, MadeInv, MuxClosingInv, LiveIsRegistered,
     CloseEndsStreams, Streams

\* Where a live stream may be.
Queued(c) == \E k \in 1..Len(accept) : accept[k] = c
Handled(c) == \E h \in Handlers : handler[h].of = c /\ handler[h].created
Dialled(c) == \E d \in Dialers : dialled[d] = c /\ dial[d] # "failed"
Held(c) == c \in accepted \/ Queued(c) \/ Handled(c) \/ Dialled(c)

(* NoStrandedStream, with the places named.                                    *)
LEMMA HeldIsNotStranded ==
    /\ NoStrandedStream <=> \A c \in Streams : Live(c) => Held(c)
    /\ NoStrandedStream' <=> \A c \in Streams : Live(c)' => Held(c)'
BY Zenon DEF NoStrandedStream, Held, Queued, Handled, Dialled

RegistryInv == MadeInv /\ MuxClosingInv /\ LiveIsRegistered /\ CloseEndsStreams

\* Steps that leave the streams and Close alone.
LEMMA RegistryStutters ==
    ASSUME MuxInv, UNCHANGED <<made, streams, stream, removing, muxClosed, muxCloser, todo>>
    PROVE  RegistryInv' /\ \A c \in Streams : Live(c)' <=> Live(c)
BY Zenon DEF RegistryInv, MuxInv, MadeInv, MuxClosingInv, LiveIsRegistered, CloseEndsStreams, Live

\* DialID keeps the invariant.
LEMMA DialKeeps ==
    ASSUME MuxInv, NEW d \in Dialers,
           \/ \E i \in StreamIds : DialRegister(d, i)
           \/ DialSend(d) \/ DialReturn(d) \/ DialExpires(d)
    PROVE  MuxInv'
<1>1. MuxTypeOK /\ CallsInv /\ NoStrandedStream
  BY Zenon DEF MuxInv
<1>2. CASE \E i \in StreamIds : DialRegister(d, i)
  <2>1. PICK i \in StreamIds : DialRegister(d, i)
    BY <1>2, Zenon
  <2>2. CASE muxClosed \/ streams[i] # 0
    <3>1. /\ dial[d] = "idle" /\ dial' = [dial EXCEPT ![d] = "failed"]
          /\ UNCHANGED <<made, streams, stream, removing, muxClosed, muxCloser, todo, accept, accepted, dialled, handler>>
      BY <2>1, <2>2, Zenon DEF DialRegister, acceptVars, muxCloseVars
    <3>2. RegistryInv' /\ \A c \in Streams : Live(c)' <=> Live(c)
      BY <3>1, RegistryStutters, Zenon
    <3>3. MuxTypeOK' /\ CallsInv'
      BY <1>1, <3>1, Zenon DEF MuxTypeOK, CallsInv
    <3>4. dialled[d] = 0 /\ \A c \in Streams : c # 0
      BY <1>1, <3>1 DEF CallsInv, Streams
    <3>5. \A c \in Streams : Held(c) => Held(c)'
      <4>1. \A c \in Streams : Dialled(c) => Dialled(c)'
        BY <1>1, <3>1, <3>4, Zenon DEF Dialled, MuxTypeOK
      <4> QED
        BY <3>1, <4>1, Zenon DEF Held, Queued, Handled
    <3>6. NoStrandedStream'
      BY <1>1, <3>2, <3>5, HeldIsNotStranded, Zenon
    <3> QED
      BY <3>2, <3>3, <3>6, Zenon DEF MuxInv, RegistryInv
  <2>3. CASE ~(muxClosed \/ streams[i] # 0)
    <3>1. /\ dial[d] = "idle" /\ dial' = [dial EXCEPT ![d] = "send"] /\ dialled' = [dialled EXCEPT ![d] = made + 1]
          /\ Register(i, "new") /\ made < MaxStreams /\ ~muxClosed /\ streams[i] = 0
          /\ UNCHANGED <<removing, muxClosed, muxCloser, todo, accept, accepted, handler>>
      BY <2>1, <2>3, Zenon DEF DialRegister, acceptVars, muxCloseVars
    <3>2. MadeInv' /\ MuxClosingInv' /\ LiveIsRegistered' /\ CloseEndsStreams'
      BY <3>1, RegisterKeeps, Zenon
    <3>3. /\ made' \in Nat /\ streams' \in [StreamIds -> Nat]
          /\ stream' \in [Streams -> [id : StreamIds \cup {NoStream.id}, phase : MuxPhases]]
          /\ \A c \in Streams : Live(c)' <=> Live(c) \/ c = made + 1
      BY <1>1, <3>1, RegisterMakes, Zenon
    <3>4. MuxTypeOK' /\ CallsInv'
      BY <1>1, <3>1, <3>3, SMTT(30) DEF MuxTypeOK, CallsInv
    <3>5. dialled[d] = 0 /\ \A c \in Streams : c # 0
      BY <1>1, <3>1, SMTT(30) DEF CallsInv, Streams
    <3>6. \A c \in Streams : Held(c) \/ c = made + 1 => Held(c)'
      <4>1. \A c \in Streams : Dialled(c) \/ c = made + 1 => Dialled(c)'
        BY <1>1, <3>1, <3>5, Zenon DEF Dialled, MuxTypeOK
      <4> QED
        BY <3>1, <4>1, Zenon DEF Held, Queued, Handled
    <3>7. NoStrandedStream'
      BY <1>1, <3>3, <3>6, HeldIsNotStranded, Zenon
    <3> QED
      BY <3>2, <3>4, <3>7, Zenon DEF MuxInv
  <2> QED
    BY <2>2, <2>3, Zenon
<1>3. CASE dial[d] \in {"send", "wait"} /\ dial' = [dial EXCEPT ![d] = "failed"] /\ Terminate(dialled[d])
           /\ UNCHANGED <<acceptVars, muxCloseVars, streams, made, dialled, handler>>
  <2>1. dialled[d] \in Nat
    BY <1>1, Zenon DEF MuxTypeOK
  <2>2. MadeInv' /\ MuxClosingInv' /\ LiveIsRegistered' /\ CloseEndsStreams'
    BY <1>3, <2>1, TerminateKeeps, Zenon DEF muxCloseVars
  <2>3. /\ stream' \in [Streams -> [id : StreamIds \cup {NoStream.id}, phase : MuxPhases]]
        /\ removing' \in SUBSET Nat
        /\ \A c \in Streams : Live(c)' <=> Live(c) /\ c # dialled[d]
    BY <1>1, <1>3, <2>1, TerminateEnds, Zenon
  <2>4. MuxTypeOK' /\ CallsInv'
    BY <1>1, <1>3, <2>3, Zenon DEF MuxTypeOK, CallsInv, acceptVars, muxCloseVars
  <2>5. \A c \in Streams : Held(c) /\ c # dialled[d] => Held(c)'
    <3>1. \A c \in Streams : Dialled(c) /\ c # dialled[d] => Dialled(c)'
      BY <1>1, <1>3, Zenon DEF Dialled, MuxTypeOK
    <3> QED
      BY <1>3, <3>1, Zenon DEF Held, Queued, Handled, acceptVars
  <2>6. NoStrandedStream'
    BY <1>1, <2>3, <2>5, HeldIsNotStranded, Zenon
  <2> QED
    BY <2>2, <2>4, <2>6, Zenon DEF MuxInv
<1>4. CASE DialReturn(d) \/ (dial[d] = "send" /\ dial' = [dial EXCEPT ![d] = "wait"]
                             /\ UNCHANGED <<muxRegistryVars, acceptVars, muxCloseVars, dialled, handler>>)
  <2>1. /\ dial[d] \in {"send", "wait"} /\ \E r \in {"wait", "ok", "failed"} : dial' = [dial EXCEPT ![d] = r]
        /\ UNCHANGED <<muxRegistryVars, acceptVars, muxCloseVars, dialled, handler>>
    BY <1>4, Zenon DEF DialReturn
  <2>2. dial'[d] = "failed" => stream[dialled[d]].phase \in {"done", "ended"}
    BY <1>1, <1>4, Zenon DEF DialReturn, MuxTypeOK
  <2>3. RegistryInv' /\ \A c \in Streams : Live(c)' <=> Live(c)
    BY <2>1, RegistryStutters, Zenon DEF muxRegistryVars, muxCloseVars
  <2>4. MuxTypeOK' /\ CallsInv'
    BY <1>1, <2>1, Zenon DEF MuxTypeOK, CallsInv, muxRegistryVars, acceptVars, muxCloseVars
  <2>5. \A c \in Streams : Held(c) /\ Live(c) => Held(c)'
    <3>1. \A c \in Streams : Dialled(c) /\ Live(c) => Dialled(c)'
      BY <1>1, <2>1, <2>2, Zenon DEF Dialled, MuxTypeOK, Live
    <3> QED
      BY <2>1, <3>1, Zenon DEF Held, Queued, Handled, acceptVars
  <2>6. NoStrandedStream'
    BY <1>1, <2>3, <2>5, HeldIsNotStranded, Zenon
  <2> QED
    BY <2>3, <2>4, <2>6, Zenon DEF MuxInv, RegistryInv
<1> QED
  BY <1>2, <1>3, <1>4, Zenon DEF DialSend, DialReturn, DialExpires, muxRegistryVars

\* What a step that ends the stream x and changes no call, queue or phase of
\* Close keeps of the invariant, and what is left to show.
LEMMA EndKeeps ==
    ASSUME MuxInv, NEW x \in Nat, Terminate(x), UNCHANGED <<made, streams, muxClosed, muxCloser>>,
           todo' \in SUBSET Nat, muxCloser = "end" => todo' \cup {x} = todo \cup {x},
           muxCloser # "end" => todo' = todo,
           UNCHANGED <<dial, dialled>>, accept' = accept, accepted' = accepted,
           handler' \in [Handlers -> [pc : {"idle", "ack", "queue"}, of : Nat, created : BOOLEAN]],
           \A h \in Handlers : handler'[h].pc = "idle" => ~handler'[h].created,
           \A c \in Streams : Handled(c) /\ c # x => Handled(c)'
    PROVE  MuxInv'
<1>1. MuxTypeOK /\ CallsInv /\ NoStrandedStream
  BY Zenon DEF MuxInv
<1>2. /\ stream' \in [Streams -> [id : StreamIds \cup {NoStream.id}, phase : MuxPhases]]
      /\ removing' \in SUBSET Nat
      /\ \A c \in Streams : stream'[c].id = stream[c].id
      /\ \A c \in Streams : Live(c)' <=> Live(c) /\ c # x
      /\ \A c \in Streams : c \in removing' => c \in removing \/ (c = x /\ Live(c))
  BY <1>1, TerminateEnds, Zenon
<1>3. MadeInv' /\ MuxClosingInv' /\ LiveIsRegistered' /\ CloseEndsStreams'
  BY <1>2, Zenon DEF MuxInv, MadeInv, MuxClosingInv, LiveIsRegistered, CloseEndsStreams
<1>4. MuxTypeOK' /\ CallsInv'
  BY <1>1, <1>2, Zenon DEF MuxTypeOK, CallsInv
<1>5. \A c \in Streams : Held(c) /\ c # x => Held(c)'
  BY Zenon DEF Held, Queued, Dialled
<1>6. NoStrandedStream'
  BY <1>1, <1>2, <1>5, HeldIsNotStranded, Zenon
<1> QED
  BY <1>3, <1>4, <1>6, Zenon DEF MuxInv

\* handleOpen keeps the invariant.
LEMMA OpenKeeps ==
    ASSUME MuxInv, NEW h \in Handlers,
           (\E i \in StreamIds : OpenLookup(h, i)) \/ OpenAck(h) \/ OpenQueue(h)
    PROVE  MuxInv'
<1>1. MuxTypeOK /\ CallsInv /\ NoStrandedStream
  BY Zenon DEF MuxInv
<1>h. /\ handler[h] \in [pc : {"idle", "ack", "queue"}, of : Nat, created : BOOLEAN]
      /\ Idle \in [pc : {"idle", "ack", "queue"}, of : Nat, created : BOOLEAN] /\ ~Idle.created
  BY <1>1, Zenon DEF MuxTypeOK, Idle
<1>2. CASE \E i \in StreamIds : OpenLookup(h, i)
  <2>1. PICK i \in StreamIds : OpenLookup(h, i)
    BY <1>2, Zenon
  <2>2. handler[h].pc = "idle" /\ ~handler[h].created /\ ~muxClosed
    BY <1>1, <2>1, Zenon DEF OpenLookup, CallsInv
  <2>3. CASE streams[i] = 0
    <3>1. /\ handler' = [handler EXCEPT ![h] = [pc |-> "ack", of |-> made + 1, created |-> TRUE]]
          /\ Register(i, "open") /\ made < MaxStreams
          /\ UNCHANGED <<removing, muxClosed, muxCloser, todo, accept, accepted, dial, dialled>>
      BY <2>1, <2>3, Zenon DEF OpenLookup, acceptVars, muxCloseVars
    <3>2. MadeInv' /\ MuxClosingInv' /\ LiveIsRegistered' /\ CloseEndsStreams'
      BY <2>2, <2>3, <3>1, RegisterKeeps, Zenon
    <3>3. /\ made' \in Nat /\ streams' \in [StreamIds -> Nat] /\ made + 1 \in Nat
          /\ stream' \in [Streams -> [id : StreamIds \cup {NoStream.id}, phase : MuxPhases]]
          /\ \A c \in Streams : Live(c)' <=> Live(c) \/ c = made + 1
      BY <1>1, <3>1, RegisterMakes, Zenon
    <3>4. MuxTypeOK' /\ CallsInv'
      BY <1>1, <3>1, <3>3, Zenon DEF MuxTypeOK, CallsInv
    <3>5. \A c \in Streams : Held(c) \/ c = made + 1 => Held(c)'
      <4>1. \A c \in Streams : Handled(c) \/ c = made + 1 => Handled(c)'
        BY <1>1, <2>2, <3>1, Zenon DEF Handled, MuxTypeOK
      <4> QED
        BY <3>1, <4>1, ZenonT(30) DEF Held, Queued, Dialled
    <3>6. NoStrandedStream'
      BY <1>1, <3>3, <3>5, HeldIsNotStranded, Zenon
    <3> QED
      BY <3>2, <3>4, <3>6, Zenon DEF MuxInv
  <2>4. CASE streams[i] # 0
    <3>1. /\ handler' = [handler EXCEPT ![h] = [pc |-> "ack", of |-> streams[i], created |-> FALSE]]
          /\ UNCHANGED <<made, streams, stream, removing, muxClosed, muxCloser, todo, accept, accepted, dial, dialled>>
      BY <2>1, <2>4, Zenon DEF OpenLookup, acceptVars, muxCloseVars
    <3>2. RegistryInv' /\ \A c \in Streams : Live(c)' <=> Live(c)
      BY <3>1, RegistryStutters, Zenon
    <3>3. MuxTypeOK' /\ CallsInv'
      BY <1>1, <3>1, Zenon DEF MuxTypeOK, CallsInv
    <3>4. \A c \in Streams : Held(c) => Held(c)'
      <4>1. \A c \in Streams : Handled(c) => Handled(c)'
        BY <1>1, <2>2, <3>1, Zenon DEF Handled, MuxTypeOK
      <4> QED
        BY <3>1, <4>1, ZenonT(30) DEF Held, Queued, Dialled
    <3>5. NoStrandedStream'
      BY <1>1, <3>2, <3>4, HeldIsNotStranded, Zenon
    <3> QED
      BY <3>2, <3>3, <3>5, Zenon DEF MuxInv, RegistryInv
  <2> QED
    BY <2>3, <2>4, Zenon
<1>3. CASE /\ handler' = [handler EXCEPT ![h] = Idle] /\ Terminate(handler[h].of)
           /\ UNCHANGED <<acceptVars, muxCloseVars, streams, made, dial, dialled>>
  <2>1. handler' \in [Handlers -> [pc : {"idle", "ack", "queue"}, of : Nat, created : BOOLEAN]]
    BY <1>1, <1>3, <1>h, Zenon DEF MuxTypeOK
  <2>2. \A g \in Handlers : handler'[g].pc = "idle" => ~handler'[g].created
    BY <1>1, <1>3, <1>h, Zenon DEF MuxTypeOK, CallsInv
  <2>3. \A c \in Streams : Handled(c) /\ c # handler[h].of => Handled(c)'
    BY <1>1, <1>3, Zenon DEF Handled, MuxTypeOK
  <2>4. handler[h].of \in Nat /\ todo \in SUBSET Nat
    BY <1>1, <1>h, Zenon DEF MuxTypeOK
  <2> QED
    BY <1>3, <2>1, <2>2, <2>3, <2>4, EndKeeps, Zenon DEF acceptVars, muxCloseVars
<1>4. CASE /\ \/ handler[h].created /\ handler' = [handler EXCEPT ![h] = [@ EXCEPT !.pc = "queue"]]
              \/ ~handler[h].created /\ handler' = [handler EXCEPT ![h] = Idle]
           /\ UNCHANGED <<muxRegistryVars, acceptVars, muxCloseVars, dial, dialled>>
  <2>1. RegistryInv' /\ \A c \in Streams : Live(c)' <=> Live(c)
    BY <1>4, RegistryStutters, Zenon DEF muxRegistryVars, muxCloseVars
  <2>r. PICK r \in [pc : {"idle", "ack", "queue"}, of : Nat, created : BOOLEAN] :
           /\ handler' = [handler EXCEPT ![h] = r] /\ (r.pc = "idle" => ~r.created)
           /\ handler[h].created => r.of = handler[h].of /\ r.created
    <3>1. CASE handler[h].created /\ handler' = [handler EXCEPT ![h] = [@ EXCEPT !.pc = "queue"]]
      <4> DEFINE r == [pc |-> "queue", of |-> handler[h].of, created |-> handler[h].created]
      <4>1. [handler[h] EXCEPT !.pc = "queue"] = r
        BY <1>h
      <4> QED
        BY <1>h, <3>1, <4>1, Zenon
    <3>2. CASE ~handler[h].created /\ handler' = [handler EXCEPT ![h] = Idle]
      BY <1>h, <3>2, Zenon
    <3> QED
      BY <1>4, <3>1, <3>2, Zenon
  <2>2. /\ handler' \in [Handlers -> [pc : {"idle", "ack", "queue"}, of : Nat, created : BOOLEAN]]
        /\ \A g \in Handlers : handler'[g].pc = "idle" => ~handler'[g].created
    BY <1>1, <2>r, Zenon DEF MuxTypeOK, CallsInv
  <2>3. MuxTypeOK' /\ CallsInv'
    BY <1>1, <1>4, <2>2, Zenon DEF MuxTypeOK, CallsInv, muxRegistryVars, acceptVars, muxCloseVars
  <2>4. \A c \in Streams : Handled(c) => Handled(c)'
    BY <1>1, <2>r, Zenon DEF Handled, MuxTypeOK
  <2>5. \A c \in Streams : Held(c) => Held(c)'
    BY <1>4, <2>4, Zenon DEF Held, Queued, Dialled, acceptVars
  <2>6. NoStrandedStream'
    BY <1>1, <2>1, <2>5, HeldIsNotStranded, Zenon
  <2> QED
    BY <2>1, <2>3, <2>6, Zenon DEF MuxInv, RegistryInv
<1>5. CASE /\ handler' = [handler EXCEPT ![h] = Idle] /\ accept' = Append(accept, handler[h].of)
           /\ UNCHANGED <<muxRegistryVars, muxCloseVars, accepted, dial, dialled>>
  <2>1. RegistryInv' /\ \A c \in Streams : Live(c)' <=> Live(c)
    BY <1>5, RegistryStutters, Zenon DEF muxRegistryVars, muxCloseVars
  <2>2. /\ handler' \in [Handlers -> [pc : {"idle", "ack", "queue"}, of : Nat, created : BOOLEAN]]
        /\ \A g \in Handlers : handler'[g].pc = "idle" => ~handler'[g].created
    BY <1>1, <1>5, <1>h, Zenon DEF MuxTypeOK, CallsInv
  <2>3. accept \in Seq(Nat) /\ handler[h].of \in Nat
    BY <1>1, <1>h, Zenon DEF MuxTypeOK
  <2>4. /\ accept' \in Seq(Nat) /\ Len(accept) \in Nat /\ Len(accept') = Len(accept) + 1
        /\ \A k \in 1..Len(accept) : accept'[k] = accept[k]
        /\ accept'[Len(accept) + 1] = handler[h].of
    BY <1>5, <2>3, SMTT(30)
  <2>5. MuxTypeOK' /\ CallsInv'
    BY <1>1, <1>5, <2>2, <2>4, Zenon DEF MuxTypeOK, CallsInv, muxRegistryVars, muxCloseVars
  <2>6. \A c \in Streams : Queued(c) \/ c = handler[h].of => Queued(c)'
    BY <2>4, SMTT(30) DEF Queued
  <2>7. \A c \in Streams : Handled(c) /\ c # handler[h].of => Handled(c)'
    BY <1>1, <1>5, Zenon DEF Handled, MuxTypeOK
  <2>8. \A c \in Streams : Held(c) => Held(c)'
    BY <1>5, <2>6, <2>7, Zenon DEF Held, Dialled
  <2>9. NoStrandedStream'
    BY <1>1, <2>1, <2>8, HeldIsNotStranded, Zenon
  <2> QED
    BY <2>1, <2>5, <2>9, Zenon DEF MuxInv, RegistryInv
<1>6. CASE OpenAck(h)
  BY <1>3, <1>4, <1>6, <1>h, Zenon DEF OpenAck, muxRegistryVars
<1>7. CASE OpenQueue(h)
  BY <1>3, <1>5, <1>7, Zenon DEF OpenQueue, acceptVars, muxRegistryVars
<1> QED
  BY <1>2, <1>6, <1>7, Zenon

\* Accept takes the stream out of the queue into the hands of its caller.
LEMMA AcceptKeeps ==
    ASSUME MuxInv, Accept
    PROVE  MuxInv'
<1>1. MuxTypeOK /\ CallsInv /\ NoStrandedStream /\ accept \in Seq(Nat) /\ accept # <<>>
  BY Zenon DEF MuxInv, MuxTypeOK, Accept
<1>2. RegistryInv' /\ \A c \in Streams : Live(c)' <=> Live(c)
  BY RegistryStutters, Zenon DEF Accept, muxRegistryVars, muxCloseVars
<1>3. /\ accept' \in Seq(Nat) /\ Len(accept) \in Nat /\ Len(accept') = Len(accept) - 1
      /\ Head(accept) = accept[1]
      /\ \A k \in 1..Len(accept') : accept'[k] = accept[k + 1]
  BY <1>1, SMTT(30) DEF Accept
<1>4. MuxTypeOK' /\ CallsInv'
  BY <1>1, <1>3, Zenon DEF MuxTypeOK, CallsInv, Accept, muxRegistryVars, muxCloseVars, muxCallVars
<1>5. ASSUME NEW c \in Streams, Queued(c), Live(c) PROVE Queued(c)' \/ c \in accepted'
  <2>1. PICK k \in 1..Len(accept) : accept[k] = c
    BY <1>5, Zenon DEF Queued
  <2>2. CASE k = 1
    BY <1>3, <1>5, <2>1, <2>2, Zenon DEF Accept
  <2>3. CASE k # 1
    <3>1. k - 1 \in 1..Len(accept') /\ accept'[k - 1] = c
      BY <1>3, <2>1, <2>3, SMTT(30)
    <3> QED
      BY <3>1, Zenon DEF Queued
  <2> QED
    BY <2>2, <2>3, Zenon
<1>6. \A c \in Streams : Held(c) /\ Live(c) => Held(c)'
  BY <1>5, Zenon DEF Held, Handled, Dialled, Accept, muxCallVars
<1>7. NoStrandedStream'
  BY <1>1, <1>2, <1>6, HeldIsNotStranded, Zenon
<1> QED
  BY <1>2, <1>4, <1>7, Zenon DEF MuxInv, RegistryInv

\* OPEN_ACK, the end of a stream and its removal keep the invariant.
LEMMA StreamKeeps ==
    ASSUME MuxInv, NEW x \in Streams, HandleOpenAck(x) \/ StreamEnds(x) \/ Remove(x)
    PROVE  MuxInv'
<1>1. MuxTypeOK /\ CallsInv /\ NoStrandedStream /\ x \in Nat /\ x # 0
  BY DEF MuxInv, Streams
<1>2. CASE StreamEnds(x)
  <2>1. /\ Terminate(x) /\ UNCHANGED <<made, streams, muxClosed, muxCloser, todo, accept, accepted, dial, dialled, handler>>
    BY <1>2, Zenon DEF StreamEnds, acceptVars, muxCloseVars, muxCallVars
  <2>2. /\ handler' \in [Handlers -> [pc : {"idle", "ack", "queue"}, of : Nat, created : BOOLEAN]]
        /\ \A h \in Handlers : handler'[h].pc = "idle" => ~handler'[h].created
        /\ todo \in SUBSET Nat
    BY <1>1, <2>1, Zenon DEF MuxTypeOK, CallsInv
  <2>3. \A c \in Streams : Handled(c) /\ c # x => Handled(c)'
    BY <2>1, Zenon DEF Handled
  <2> QED
    BY <1>1, <2>1, <2>2, <2>3, EndKeeps, Zenon
<1>3. ASSUME \A c \in Streams : Held(c)' <=> Held(c), \A c \in Streams : Live(c)' <=> Live(c)
      PROVE  NoStrandedStream'
  BY <1>1, <1>3, HeldIsNotStranded, Zenon
<1>4. CASE HandleOpenAck(x)
  <2>1. PICK p \in {"open", "ended"} :
           /\ stream' = [stream EXCEPT ![x].phase = p]
           /\ stream[x].phase \in {"new", "done"} /\ (p = "open" <=> stream[x].phase = "new")
    BY <1>4, Zenon DEF HandleOpenAck
  <2>2. UNCHANGED <<made, streams, removing, muxClosed, muxCloser, todo, accept, accepted, dial, dialled, handler>>
    BY <1>4, Zenon DEF HandleOpenAck, acceptVars, muxCloseVars, muxCallVars
  <2>3. /\ stream' \in [Streams -> [id : StreamIds \cup {NoStream.id}, phase : MuxPhases]]
        /\ \A c \in Streams : stream'[c].id = stream[c].id
        /\ \A c \in Streams : Live(c)' <=> Live(c)
    BY <1>1, <2>1, ZenonT(30) DEF MuxTypeOK, MuxPhases, Live
  <2>4. MadeInv' /\ MuxClosingInv' /\ LiveIsRegistered' /\ CloseEndsStreams'
    BY <2>2, <2>3, Zenon DEF MuxInv, MadeInv, MuxClosingInv, LiveIsRegistered, CloseEndsStreams
  <2>5. MuxTypeOK' /\ CallsInv'
    BY <1>1, <2>2, <2>3, Zenon DEF MuxTypeOK, CallsInv
  <2>6. NoStrandedStream'
    BY <1>3, <2>2, <2>3, Zenon DEF Held, Queued, Handled, Dialled
  <2> QED
    BY <2>4, <2>5, <2>6, Zenon DEF MuxInv
<1>5. CASE Remove(x)
  <2>1. /\ x \in removing /\ removing' = removing \ {x}
        /\ streams' = [i \in StreamIds |-> IF streams[i] = x THEN 0 ELSE streams[i]]
        /\ UNCHANGED <<made, stream, muxClosed, muxCloser, todo, accept, accepted, dial, dialled, handler>>
    BY <1>5, Zenon DEF Remove, acceptVars, muxCloseVars, muxCallVars
  <2>2. \A c \in Streams : Live(c)' <=> Live(c)
    BY <2>1, ZenonT(30) DEF Live
  <2>3. ~Live(x)
    BY <2>1, Zenon DEF MuxInv, MadeInv
  <2>4. MuxTypeOK' /\ CallsInv'
    BY <1>1, <2>1, Zenon DEF MuxTypeOK, CallsInv
  <2>5. MadeInv'
    BY <1>1, <2>1, <2>2, SMTT(30) DEF MuxInv, MadeInv, MuxTypeOK
  <2>6. MuxClosingInv' /\ LiveIsRegistered' /\ CloseEndsStreams'
    BY <2>1, <2>2, <2>3, ZenonT(30) DEF MuxInv, MadeInv, MuxClosingInv, LiveIsRegistered, CloseEndsStreams
  <2>7. NoStrandedStream'
    BY <1>3, <2>1, <2>2, Zenon DEF Held, Queued, Handled, Dialled
  <2> QED
    BY <2>4, <2>5, <2>6, <2>7, Zenon DEF MuxInv
<1> QED
  BY <1>2, <1>4, <1>5, Zenon

\* Close of the mux keeps the invariant: every live stream is in the map when
\* it is taken.
LEMMA MuxCloseKeeps ==
    ASSUME MuxInv, MuxCloseBegin \/ MuxCloseCollect \/ MuxCloseEnd
    PROVE  MuxInv'
<1>1. MuxTypeOK /\ CallsInv /\ NoStrandedStream
  BY Zenon DEF MuxInv
<1>2. ASSUME UNCHANGED <<stream, accept, accepted, dial, dialled, handler>>
      PROVE  (\A c \in Streams : Live(c)' <=> Live(c)) /\ NoStrandedStream' /\ CallsInv'
  <2>1. \A c \in Streams : Live(c)' <=> Live(c)
    BY <1>2, Zenon DEF Live
  <2>2. \A c \in Streams : Held(c)' <=> Held(c)
    BY <1>2, Zenon DEF Held, Queued, Handled, Dialled
  <2> QED
    BY <1>1, <1>2, <2>1, <2>2, HeldIsNotStranded, Zenon DEF CallsInv
<1>3. CASE MuxCloseBegin
  <2>1. /\ muxCloser = "idle" /\ muxClosed' = TRUE /\ muxCloser' = "collect"
        /\ UNCHANGED <<made, streams, stream, removing, todo, accept, accepted, dial, dialled, handler>>
    BY <1>3, Zenon DEF MuxCloseBegin, muxRegistryVars, acceptVars, muxCallVars
  <2>2. (\A c \in Streams : Live(c)' <=> Live(c)) /\ NoStrandedStream' /\ CallsInv'
    BY <1>2, <2>1, Zenon
  <2>3. MuxTypeOK'
    BY <1>1, <2>1, Zenon DEF MuxTypeOK
  <2>4. MadeInv' /\ MuxClosingInv' /\ LiveIsRegistered' /\ CloseEndsStreams'
    BY <2>1, <2>2, Zenon DEF MuxInv, MadeInv, MuxClosingInv, LiveIsRegistered, CloseEndsStreams
  <2> QED
    BY <2>2, <2>3, <2>4, Zenon DEF MuxInv
<1>4. CASE MuxCloseCollect
  <2>1. /\ muxCloser = "collect" /\ todo' = {streams[i] : i \in StreamIds} \ {0}
        /\ streams' = [i \in StreamIds |-> 0] /\ muxCloser' = "end"
        /\ UNCHANGED <<made, stream, removing, muxClosed, accept, accepted, dial, dialled, handler>>
    BY <1>4, Zenon DEF MuxCloseCollect, acceptVars, muxCallVars
  <2>2. (\A c \in Streams : Live(c)' <=> Live(c)) /\ NoStrandedStream' /\ CallsInv'
    BY <1>2, <2>1, ZenonT(30)
  <2>3. MuxTypeOK'
    BY <1>1, <2>1, SMTT(30) DEF MuxTypeOK
  <2>4. ASSUME NEW c \in Streams, Live(c) PROVE c \in todo'
    <3>1. c # 0 /\ stream[c].id \in StreamIds /\ streams[stream[c].id] = c
      BY <2>1, <2>4, SMTT(30) DEF MuxInv, MadeInv, LiveIsRegistered, Streams
    <3> QED
      BY <2>1, <3>1, Zenon
  <2>5. MadeInv'
    BY <1>1, <2>1, <2>2 DEF MuxInv, MadeInv, MuxTypeOK
  <2>6. MuxClosingInv' /\ LiveIsRegistered' /\ CloseEndsStreams'
    BY <2>1, <2>2, <2>4, Zenon DEF MuxInv, MuxClosingInv, LiveIsRegistered, CloseEndsStreams
  <2> QED
    BY <2>2, <2>3, <2>5, <2>6, Zenon DEF MuxInv
<1>5. CASE MuxCloseEnd
  <2>1. muxCloser = "end" /\ UNCHANGED <<made, streams, muxClosed, accept, accepted, dial, dialled, handler>>
    BY <1>5, Zenon DEF MuxCloseEnd, acceptVars, muxCallVars
  <2>2. CASE \E x \in todo : Terminate(x) /\ todo' = todo \ {x} /\ UNCHANGED muxCloser
    <3>1. PICK x \in todo : Terminate(x) /\ todo' = todo \ {x} /\ UNCHANGED muxCloser
      BY <2>2, Zenon
    <3>2. /\ handler' \in [Handlers -> [pc : {"idle", "ack", "queue"}, of : Nat, created : BOOLEAN]]
          /\ \A h \in Handlers : handler'[h].pc = "idle" => ~handler'[h].created
          /\ x \in Nat /\ todo' \in SUBSET Nat
      BY <1>1, <2>1, <3>1, Zenon DEF MuxTypeOK, CallsInv
    <3>3. \A c \in Streams : Handled(c) /\ c # x => Handled(c)'
      BY <2>1, Zenon DEF Handled
    <3> QED
      BY <2>1, <3>1, <3>2, <3>3, EndKeeps, Zenon
  <2>3. CASE todo = {} /\ muxCloser' = "done" /\ UNCHANGED <<todo, stream, removing>>
    <3>1. (\A c \in Streams : Live(c)' <=> Live(c)) /\ NoStrandedStream' /\ CallsInv'
      BY <1>2, <2>1, <2>3, Zenon
    <3>2. MuxTypeOK'
      BY <1>1, <2>1, <2>3, Zenon DEF MuxTypeOK
    <3>3. MadeInv' /\ MuxClosingInv' /\ LiveIsRegistered' /\ CloseEndsStreams'
      BY <2>1, <2>3, <3>1, Zenon DEF MuxInv, MadeInv, MuxClosingInv, LiveIsRegistered, CloseEndsStreams
    <3> QED
      BY <3>1, <3>2, <3>3 DEF MuxInv
  <2> QED
    BY <1>5, <2>2, <2>3, Zenon DEF MuxCloseEnd
<1> QED
  BY <1>3, <1>4, <1>5, Zenon

\* No step of the registry breaks its invariant.
LEMMA MuxInvNext == MuxInv /\ [MuxNext]_muxVars => MuxInv'
<1> SUFFICES ASSUME MuxInv, [MuxNext]_muxVars PROVE MuxInv'
  BY Zenon
<1>1. CASE UNCHANGED muxVars
  <2>1. UNCHANGED <<made, streams, stream, removing, muxClosed, muxCloser, todo, accept, accepted, dial, dialled, handler>>
    BY <1>1, Zenon DEF muxVars, muxRegistryVars, acceptVars, muxCloseVars, muxCallVars
  <2>2. RegistryInv' /\ \A c \in Streams : Live(c)' <=> Live(c)
    BY <2>1, RegistryStutters, Zenon
  <2>3. MuxTypeOK' /\ CallsInv'
    BY <2>1, Zenon DEF MuxInv, MuxTypeOK, CallsInv
  <2>4. \A c \in Streams : Held(c)' <=> Held(c)
    BY <2>1, Zenon DEF Held, Queued, Handled, Dialled
  <2>5. NoStrandedStream'
    BY <2>2, <2>4, HeldIsNotStranded, Zenon DEF MuxInv
  <2> QED
    BY <2>2, <2>3, <2>5, Zenon DEF MuxInv, RegistryInv
<1>2. CASE MuxNext
  BY <1>2, DialKeeps, OpenKeeps, AcceptKeeps, StreamKeeps, MuxCloseKeeps, Zenon DEF MuxNext
<1> QED
  BY <1>1, <1>2, Zenon

\* The frames of a live stream reach it until the mux is closed, for any number
\* of IDs, dials and incoming opens (DialID, handleOpen, remove).
THEOREM LiveIsRegisteredCorrect == MuxSpec => []LiveIsRegistered
<1>1. MuxInv => LiveIsRegistered
  BY Zenon DEF MuxInv
<1> QED
  BY <1>1, MuxInvInit, MuxInvNext, PTL DEF MuxSpec

\* Close of the mux leaves no live stream, however many dials and opens race
\* with it (StreamMux.Close).
THEOREM CloseEndsStreamsCorrect == MuxSpec => []CloseEndsStreams
<1>1. MuxInv => CloseEndsStreams
  BY Zenon DEF MuxInv
<1> QED
  BY <1>1, MuxInvInit, MuxInvNext, PTL DEF MuxSpec

\* A live stream is always in somebody's hands, for every backlog and number of
\* handlers (handleOpen, Accept, DialID).
THEOREM NoStrandedStreamCorrect == MuxSpec => []NoStrandedStream
<1>1. MuxInv => NoStrandedStream
  BY Zenon DEF MuxInv
<1> QED
  BY <1>1, MuxInvInit, MuxInvNext, PTL DEF MuxSpec

(***************************************************************************)
(* The client.                                                             *)
(***************************************************************************)
SendStates == {"idle", "registered", "captured", "writing", "sent", "failing", "failed"}
RpcStates == {"idle", "registered", "captured", "writing", "waiting", "done"}
RunStates == {"off", "start", "login", "install", "serve", "clear", "failPending", "failSends",
              "decide", "backoff", "exit"}

(* A tracked send has not been reported, a send that is not tracked is never  *)
(* tracked again.                                                             *)
SendInv ==
    /\ tracked \subseteq Sends
    /\ send \in [Sends -> SendStates] /\ notified \in [Sends -> Nat]
    /\ \A s \in Sends : /\ notified[s] <= 1
                        /\ s \in tracked => notified[s] = 0
                        /\ send[s] = "idle" => notified[s] = 0 /\ s \notin tracked

(* A connection is published only while run serves it, and a call that was    *)
(* written and has neither result nor ended ctx only exists until run fails   *)
(* the calls of that connection.                                              *)
QuietInv ==
    /\ started \in BOOLEAN /\ waitDone \in BOOLEAN /\ closed \in BOOLEAN
    /\ conn \in Nat /\ gen \in Nat /\ run \in RunStates
    /\ pending \subseteq Rpcs /\ rpc \in [Rpcs -> RpcStates]
    /\ result \in [Rpcs -> {None, "failed", "answer"}]
    /\ run # "off" => started
    /\ waitDone => started
    /\ closer \notin {"idle", "loaded"} => closed
    /\ closer \in {"wait", "done"} => tracked = {}
    /\ closer = "done" /\ waitDone => run = "exit"
    /\ conn # 0 => conn = gen /\ run \in {"serve", "clear"}
    /\ \A r \in pending :
          result[r] = None /\ rpc[r] \in {"captured", "writing", "waiting"}
             => run \in {"serve", "clear", "failPending"}

(* A message that answered a SendMessage, whether the call took it or not.     *)
Created(m) == \E r \in Rpcs, fate \in {"taken", "dropped"} : <<m, r, fate>> \in own

(* A stored cursor stands for a message that was shown, is being shown or was *)
(* created here, and it keeps the server from pushing that message again.     *)
MessageInv ==
    /\ gen \in Nat /\ cursors \subseteq Msgs /\ seen \subseteq Msgs
    /\ shown \in [Msgs -> Nat] /\ msg \in {NoMsg} \cup ({"ack", "show"} \X Msgs)
    /\ \A m \in Msgs : shown[m] <= 1 /\ (shown[m] > 0 => m \in cursors)
    /\ \A m \in cursors : shown[m] > 0 \/ Created(m) \/ msg \in {<<"ack", m>>, <<"show", m>>}
    /\ \A m \in seen : shown[m] > 0 \/ Created(m)
    /\ \A m \in Msgs : msg \in {<<"ack", m>>, <<"show", m>>} =>
                          run = "serve" /\ m \in cursors /\ shown[m] = 0
    /\ run \in {"login", "install"} => cursors \subseteq seen
    /\ run = "serve" => \A m \in cursors : m \in seen \/ <<m, gen>> \in pushed
    /\ ~started => run = "off"

(* A call is answered at most once, after it was written; one that did not     *)
(* take its answer has ended, and its slot does not come back.                 *)
DroppedInv ==
    /\ \A r \in Rpcs : r \in onServer => rpc[r] \in {"waiting", "done"}
    /\ \A r \in Rpcs : result[r] = "answer" => r \notin onServer /\ rpc[r] \in {"waiting", "done"}
    /\ \A m \in Msgs, r \in Rpcs :
          <<m, r, "dropped">> \in own => rpc[r] \in {"waiting", "done"} /\ Ended(r)
-----------------------------------------------------------------------------
(* No send is registered when NewClient returns.                               *)
LEMMA SendInvInit == ClientInit => SendInv
  BY SMTT(30) DEF ClientInit, SendInv, SendStates

(* Every step of the run goroutine, of Close and of the calls keeps SendInv.   *)
LEMMA SendInvStep == SendInv /\ [ClientNext]_vars => SendInv'
<1> SUFFICES ASSUME SendInv, [ClientNext]_vars PROVE SendInv'
  OBVIOUS
<1> USE DEF SendInv, SendStates
<1>1. CASE UNCHANGED <<tracked, send, notified>>
  BY <1>1, Zenon
<1>2. CASE FailAllStreamSends /\ UNCHANGED send
  BY <1>2 DEF FailAllStreamSends
<1>3. ASSUME NEW s \in Sends, RunStreamResult(s) PROVE SendInv'
  BY <1>3 DEF RunStreamResult
<1>4. ASSUME NEW s \in Sends, SendRegister(s) PROVE SendInv'
  BY <1>4, Zenon DEF SendRegister
<1>5. ASSUME NEW s \in Sends, SendStep(s) PROVE SendInv'
  BY <1>5, Zenon DEF SendStep, SendCapture, SendLock, SendWrite, SendTake
<1>6. CASE ConnectCall \/ CloseLoad \/ CloseStep
  BY <1>1, <1>2, <1>6, Zenon DEF ConnectCall, CloseLoad, CloseStep, CloseSet, CloseCancel,
     CloseFailSends, CloseReturn, sendVars
<1>7. ASSUME NEW r \in Rpcs, RpcRegister(r) \/ RpcExpire(r) \/ RpcStep(r)
      PROVE  UNCHANGED <<tracked, send, notified>>
  BY <1>7, Zenon DEF RpcRegister, RpcExpire, RpcStep, RpcCapture, RpcLock, RpcWrite, RpcReturn,
     sendVars
<1>8. CASE RunStep
  BY <1>1, <1>2, <1>3, <1>8, Zenon DEF RunStep, RunStart, RunLogin, RunInstall, RunReadEnds, RunClear,
     RunFailPending, RunFailSends, RunDecide, RunBackoff, RunAck, RunShow, RunAnswer,
     RunAnswerMessage, RunPush, sendVars
<1> QED
  BY <1>1, <1>4, <1>5, <1>6, <1>7, <1>8, Zenon DEF ClientNext, vars, sendVars

(* A tracked send is reported at most once: a result of the server, a         *)
(* disconnect and Close take the entry and report it in one step              *)
(* (completeStreamSend, failAllStreamSends).                                  *)
THEOREM ReportedOnce == ClientSpec => []NotifiedOnce
<1>1. SendInv => NotifiedOnce
  BY Zenon DEF SendInv, NotifiedOnce
<1> QED
  BY SendInvInit, SendInvStep, <1>1, PTL DEF ClientSpec
-----------------------------------------------------------------------------
(* A new client has no connection, no calls and no run goroutine.              *)
LEMMA QuietInvInit == ClientInit => QuietInv
<1> SUFFICES ASSUME ClientInit PROVE QuietInv
  OBVIOUS
<1>1. /\ started = FALSE /\ waitDone = FALSE /\ closed = FALSE /\ run = "off" /\ closer = "idle"
      /\ pending = {} /\ conn = 0 /\ gen = 0
  BY Zenon DEF ClientInit
<1>2. rpc \in [Rpcs -> RpcStates] /\ result \in [Rpcs -> {None, "failed", "answer"}]
  BY Zenon DEF ClientInit, RpcStates
<1>3. closer \notin {"wait", "done"} /\ closer \in {"idle", "loaded"} /\ run \in RunStates /\ conn \in Nat
  BY <1>1, Zenon DEF RunStates
<1> QED
  BY <1>1, <1>2, <1>3, Zenon DEF QuietInv

(* Every step of the run goroutine, of Close and of the calls keeps QuietInv.  *)
LEMMA QuietInvStep == QuietInv /\ [ClientNext]_vars => QuietInv'
<1> SUFFICES ASSUME QuietInv, [ClientNext]_vars PROVE QuietInv'
  OBVIOUS
<1> USE DEF QuietInv, RunStates, RpcStates, None
<1>1. CASE UNCHANGED <<stateVars, runVars, userVars, rpcVars, sendVars>>
  BY <1>1, Zenon DEF stateVars, runVars, userVars, rpcVars, sendVars
<1>2. CASE ConnectCall
  BY <1>2, Zenon DEF ConnectCall, stateVars, rpcVars, sendVars
<1>3. CASE CloseLoad
  BY <1>3, Zenon DEF CloseLoad, stateVars, runVars, rpcVars, sendVars
<1>4. CASE CloseSet
  BY <1>4, Zenon DEF CloseSet, runVars, rpcVars, sendVars
<1>5. CASE CloseCancel
  BY <1>5, Zenon DEF CloseCancel, runVars, rpcVars, sendVars
<1>6. CASE CloseFailSends
  BY <1>6, Zenon DEF CloseFailSends, FailAllStreamSends, stateVars, runVars, rpcVars
<1>7. CASE CloseReturn
  BY <1>7, Zenon DEF CloseReturn, stateVars, runVars, rpcVars, sendVars
<1>8. CASE RunStart \/ RunLogin \/ RunInstall \/ RunReadEnds \/ RunClear
  <2>1. CASE RunStart
    BY <2>1, Zenon DEF RunStart, stateVars, userVars, rpcVars, sendVars
  <2>2. CASE RunLogin
    BY <2>2, SMTT(30) DEF RunLogin, ExpectLogin, userVars, rpcVars, sendVars
  <2>3. CASE RunInstall
    BY <2>3, Zenon DEF RunInstall, userVars, rpcVars, sendVars
  <2>4. CASE RunReadEnds
    BY <2>4, Zenon DEF RunReadEnds, stateVars, userVars, rpcVars, sendVars
  <2>5. CASE RunClear
    BY <2>5, Zenon DEF RunClear, userVars, rpcVars, sendVars
  <2> QED
    BY <1>8, <2>1, <2>2, <2>3, <2>4, <2>5, Zenon
<1>9. CASE RunFailPending \/ RunFailSends \/ RunDecide \/ RunBackoff
  <2>1. CASE RunFailPending
    BY <2>1, Zenon DEF RunFailPending, FailAllPending, stateVars, userVars, sendVars
  <2>2. CASE RunFailSends
    BY <2>2, Zenon DEF RunFailSends, FailAllStreamSends, stateVars, userVars, rpcVars
  <2>3. CASE RunDecide
    BY <2>3, Zenon DEF RunDecide, FailAllPending, stateVars, userVars, sendVars
  <2>4. CASE RunBackoff
    BY <2>4, Zenon DEF RunBackoff, FailAllPending, stateVars, userVars, sendVars
  <2> QED
    BY <1>9, <2>1, <2>2, <2>3, <2>4, Zenon
<1>10. CASE RunAck
  BY <1>10, SMTT(30) DEF RunAck, WriteFails, Invalidate, userVars, rpcVars, sendVars
<1>11. CASE RunShow \/ \E m \in Msgs : RunPush(m)
  BY <1>1, <1>11, Zenon DEF RunShow, RunPush
<1>12. ASSUME NEW s \in Sends, RunStreamResult(s) PROVE QuietInv'
  BY <1>12, Zenon DEF RunStreamResult, stateVars, runVars, userVars, rpcVars
<1>13. ASSUME NEW r \in Rpcs, RunAnswer(r) \/ \E m \in Msgs : RunAnswerMessage(r, m) PROVE QuietInv'
  BY <1>13, SMTT(30) DEF RunAnswer, RunAnswerMessage, Resolve, stateVars, runVars, userVars, sendVars
<1>14. ASSUME NEW r \in Rpcs, RpcRegister(r) \/ RpcExpire(r) PROVE QuietInv'
  BY <1>14, SMTT(30) DEF RpcRegister, RpcExpire, stateVars, runVars, userVars, sendVars
<1>15. ASSUME NEW r \in Rpcs, RpcStep(r) PROVE QuietInv'
  <2>1. CASE RpcCapture(r)
    BY <2>1, Zenon DEF RpcCapture, RpcDone, stateVars, runVars, userVars, sendVars
  <2>2. CASE RpcLock(r)
    BY <2>2, SMTT(30) DEF RpcLock, RpcDone, Expired, Invalidate, userVars, sendVars
  <2>3. CASE RpcWrite(r)
    BY <2>3, SMTT(30) DEF RpcWrite, RpcDone, Written, WriteFails, Invalidate, userVars, sendVars
  <2>4. CASE RpcReturn(r)
    BY <2>4, SMTT(30) DEF RpcReturn, RpcDone, Expired, Invalidate, userVars, sendVars
  <2> QED
    BY <1>15, <2>1, <2>2, <2>3, <2>4, Zenon DEF RpcStep
<1>16. ASSUME NEW s \in Sends, SendRegister(s) \/ SendStep(s) PROVE QuietInv'
  <2>1. CASE SendRegister(s)
    BY <2>1, Zenon DEF SendRegister, stateVars, runVars, userVars, rpcVars
  <2>2. CASE SendCapture(s) \/ SendLock(s)
    BY <2>2, SMTT(30) DEF SendCapture, SendLock, stateVars, runVars, userVars, rpcVars
  <2>3. CASE SendWrite(s)
    BY <2>3, SMTT(30) DEF SendWrite, Written, WriteFails, Invalidate, userVars, rpcVars
  <2>4. CASE SendTake(s)
    BY <2>4, Zenon DEF SendTake, stateVars, runVars, userVars, rpcVars
  <2> QED
    BY <1>16, <2>1, <2>2, <2>3, <2>4, Zenon DEF SendStep
<1> QED
  BY <1>1, <1>2, <1>3, <1>4, <1>5, <1>6, <1>7, <1>8, <1>9, <1>10, <1>11, ZenonT(30),
     <1>12, <1>13, <1>14, <1>15, <1>16
  DEF ClientNext, RunStep, CloseStep, vars

(* When a Close that found the client started has returned, run is gone, no   *)
(* connection is published, no send is tracked and no call waits without a    *)
(* result: a registration after closed is refused, and the last teardown of   *)
(* run failed whoever had captured its connection.                            *)
THEOREM ClosedIsQuiet == ClientSpec => []CloseQuiesces
<1>1. QuietInv => CloseQuiesces
  BY Zenon DEF QuietInv, CloseQuiesces
<1> QED
  BY QuietInvInit, QuietInvStep, <1>1, PTL DEF ClientSpec
-----------------------------------------------------------------------------
(* A new client has stored no cursor and shown no message.                     *)
LEMMA MessageInvInit == ClientInit => MessageInv
  BY SMTT(30) DEF ClientInit, MessageInv, NoMsg, None

\* Every step of the run goroutine, of Close and of the calls keeps MessageInv.
LEMMA MessageInvStep == MessageInv /\ [ClientNext]_vars => MessageInv'
<1> SUFFICES ASSUME MessageInv, [ClientNext]_vars PROVE MessageInv'
  OBVIOUS
<1> USE DEF MessageInv, NoMsg, None
<1>0. \A x : Created(x) => Created(x)'
  <2>1. own \subseteq own'
    <3>1. CASE \E r \in Rpcs, m \in Msgs : RunAnswerMessage(r, m)
      BY <3>1, Zenon DEF RunAnswerMessage
    <3>2. CASE ~\E r \in Rpcs, m \in Msgs : RunAnswerMessage(r, m)
      BY <3>2, ZenonT(30) DEF ClientNext, ConnectCall, RunStep, RunStart, RunLogin, RunInstall, RunReadEnds,
         RunClear, RunFailPending, RunFailSends, RunDecide, RunBackoff, RunAck, RunShow, RunAnswer,
         RunStreamResult, RunPush, CloseLoad, CloseStep, CloseSet, CloseCancel, CloseFailSends, CloseReturn,
         RpcRegister, RpcExpire, RpcStep, RpcCapture, RpcLock, RpcWrite, RpcReturn, SendRegister, SendStep,
         SendCapture, SendLock, SendWrite, SendTake, msgVars, vars
    <3> QED
      BY <3>1, <3>2, Zenon
  <2> QED
    BY <2>1, Zenon DEF Created
<1>1. CASE UNCHANGED <<started, run, gen, msgVars>>
  BY <1>0, <1>1, Zenon DEF msgVars
<1>2. CASE RunStart
  BY <1>0, <1>2, Zenon DEF RunStart
<1>3. CASE RunLogin \/ RunInstall \/ RunReadEnds
  <2>1. CASE RunLogin
    BY <1>0, <2>1, SMTT(30) DEF RunLogin, ExpectLogin, msgVars
  <2>2. CASE RunInstall
    BY <1>0, <2>2, Zenon DEF RunInstall, msgVars
  <2>3. CASE RunReadEnds
    BY <1>0, <2>3, Zenon DEF RunReadEnds, msgVars
  <2> QED
    BY <1>3, <2>1, <2>2, <2>3, Zenon
<1>4. CASE ConnectCall \/ RunClear \/ RunFailPending \/ RunFailSends \/ RunDecide \/ RunBackoff
  BY <1>0, <1>4, ZenonT(30) DEF ConnectCall, RunClear, RunFailPending, RunFailSends, RunDecide, RunBackoff, msgVars
<1>5. ASSUME NEW m \in Msgs, RunPush(m) PROVE MessageInv'
  BY <1>0, <1>5, SMTT(30) DEF RunPush, Reading, Persisted, PersistFails, runVars
<1>6. ASSUME NEW r \in Rpcs, NEW m \in Msgs, RunAnswerMessage(r, m) PROVE MessageInv'
  <2>1. Fate(r) \in {"taken", "dropped"}
    BY Zenon DEF Fate
  <2>2. cursors' = cursors \/ (Created(m)' /\ cursors' = cursors \cup {m})
    BY <1>6, <2>1, Zenon DEF RunAnswerMessage, Persisted, PersistFails, Created
  <2>3. UNCHANGED <<runVars, seen, msg, shown>> /\ Reading /\ pushed' = pushed \cup {<<m, gen>>}
    BY <1>6, Zenon DEF RunAnswerMessage
  <2> QED
    BY <1>0, <2>2, <2>3, Zenon DEF Reading, runVars
<1>7. CASE RunAck
  BY <1>0, <1>7, SMTT(30) DEF RunAck
<1>8. CASE RunShow
  BY <1>0, <1>8, SMTT(30) DEF RunShow, runVars
<1>9. ASSUME \/ CloseLoad \/ CloseStep
             \/ \E r \in Rpcs : RpcRegister(r) \/ RpcExpire(r) \/ RpcStep(r) \/ RunAnswer(r)
             \/ \E s \in Sends : SendRegister(s) \/ SendStep(s) \/ RunStreamResult(s)
      PROVE  UNCHANGED <<started, run, gen, msgVars>>
  BY <1>9, Zenon DEF CloseLoad, CloseStep, CloseSet, CloseCancel, CloseFailSends, CloseReturn, RunAnswer,
     RpcRegister, RpcExpire, RpcStep, RpcCapture, RpcLock, RpcWrite, RpcReturn, SendRegister,
     SendStep, SendCapture, SendLock, SendWrite, SendTake, RunStreamResult, runVars
<1> QED
  BY <1>1, <1>2, <1>3, <1>4, <1>5, <1>6, <1>7, <1>8, <1>9, ZenonT(30) DEF ClientNext, RunStep, vars, runVars

(* What the store and OnMessage have seen of a message agrees in every state.  *)
LEMMA MessageInvAlways == ClientSpec => []MessageInv
  BY MessageInvInit, MessageInvStep, PTL DEF ClientSpec

(* No message reaches OnMessage twice, over store errors, lost answers and    *)
(* reconnects: what was shown has its cursor, and the server either was told  *)
(* so by the login or has pushed it on this connection already.               *)
THEOREM NeverShownTwice == ClientSpec => []ShownOnce
<1>1. MessageInv => ShownOnce
  BY Zenon DEF MessageInv, ShownOnce
<1> QED
  BY MessageInvAlways, <1>1, PTL

(* No call has an answer when NewClient returns.                               *)
LEMMA DroppedInvInit == ClientInit => DroppedInv
  BY Zenon DEF ClientInit, DroppedInv, None

(* What keeps DroppedInv in a step that neither begins nor answers a call.     *)
LEMMA DroppedKept ==
    ASSUME DroppedInv, UNCHANGED own, pending' \subseteq pending,
           \A r \in Rpcs : rpc[r] \in {"waiting", "done"} => rpc'[r] \in {"waiting", "done"},
           \A r \in Rpcs : r \in onServer' => r \in onServer \/ (rpc'[r] = "waiting" /\ result'[r] # "answer"),
           \A r \in Rpcs : \/ result'[r] = result[r]
                           \/ result'[r] = None /\ r \notin pending'
                           \/ result[r] = None /\ result'[r] = "failed"
    PROVE  DroppedInv'
<1>1. None # "answer" /\ None # "failed"
  BY Zenon DEF None
<1>2. ASSUME NEW r \in Rpcs, Ended(r) PROVE Ended(r)'
  BY <1>1, <1>2, Zenon DEF Ended
<1>3. ASSUME NEW r \in Rpcs, result'[r] = "answer" PROVE result[r] = "answer"
  BY <1>1, <1>3, Zenon
<1> QED
  BY <1>2, <1>3, Zenon DEF DroppedInv

(* Every step of the run goroutine, of Close and of the calls keeps DroppedInv. *)
LEMMA DroppedInvStep == QuietInv /\ DroppedInv /\ [ClientNext]_vars => DroppedInv'
<1> SUFFICES ASSUME QuietInv, DroppedInv, [ClientNext]_vars PROVE DroppedInv'
  OBVIOUS
<1>1. /\ rpc \in [Rpcs -> RpcStates] /\ result \in [Rpcs -> {None, "failed", "answer"}]
      /\ None # "answer" /\ None # "failed"
  BY Zenon DEF QuietInv, None
<1>2. CASE UNCHANGED <<rpcVars, own>> /\ onServer' \cap Rpcs \subseteq onServer
  BY <1>2, DroppedKept, Zenon DEF rpcVars
<1>3. ASSUME NEW r \in Rpcs, RpcRegister(r) PROVE DroppedInv'
  <2>1. /\ rpc[r] = "idle" /\ rpc' = [rpc EXCEPT ![r] = "registered"] /\ pending' = pending \cup {r}
        /\ UNCHANGED <<result, own, onServer>>
    BY <1>3, Zenon DEF RpcRegister, msgVars
  <2>2. \A x \in Rpcs : rpc[x] \in {"waiting", "done"} => x # r /\ rpc'[x] \in {"waiting", "done"}
    BY <1>1, <2>1, Zenon
  <2> QED
    BY <2>1, <2>2, Zenon DEF DroppedInv, Ended
<1>4. ASSUME NEW r \in Rpcs, RpcExpire(r) \/ RpcCapture(r) \/ RpcLock(r) \/ RpcReturn(r) PROVE DroppedInv'
  <2>1. UNCHANGED <<own, onServer>> /\ pending' \subseteq pending
    BY <1>4, Zenon DEF RpcExpire, RpcCapture, RpcLock, RpcReturn, RpcDone, Expired, msgVars
  <2>2. \/ rpc' = rpc \/ rpc' = [rpc EXCEPT ![r] = "done"]
        \/ rpc[r] \in {"registered", "captured"} /\ \E pc \in RpcStates : rpc' = [rpc EXCEPT ![r] = pc]
    BY <1>4, Zenon DEF RpcExpire, RpcCapture, RpcLock, RpcReturn, RpcDone, Expired, RpcStates
  <2>3. result' = result \/ (r \notin pending' /\ result' = [result EXCEPT ![r] = None])
    BY <1>4, Zenon DEF RpcExpire, RpcCapture, RpcLock, RpcReturn, RpcDone, Expired
  <2>4. \A x \in Rpcs : rpc[x] \in {"waiting", "done"} => rpc'[x] \in {"waiting", "done"}
    BY <1>1, <2>2, Zenon
  <2>5. \A x \in Rpcs : result'[x] = result[x] \/ (result'[x] = None /\ x \notin pending')
    BY <1>1, <2>3, Zenon
  <2> QED
    BY <2>1, <2>4, <2>5, DroppedKept, Zenon
<1>5. ASSUME NEW r \in Rpcs, RpcWrite(r) PROVE DroppedInv'
  <2>1. rpc[r] = "writing" /\ UNCHANGED own /\ pending' \subseteq pending
    BY <1>5, Zenon DEF RpcWrite, RpcDone, msgVars
  <2>2. result[r] # "answer"
    BY <2>1, Zenon DEF DroppedInv
  <2>3. \/ /\ rpc' = [rpc EXCEPT ![r] = "waiting"] /\ result' = result
           /\ onServer' \subseteq onServer \cup {r}
        \/ /\ rpc' = [rpc EXCEPT ![r] = "done"] /\ result' = [result EXCEPT ![r] = None]
           /\ r \notin pending' /\ onServer' = onServer
    BY <1>5, Zenon DEF RpcWrite, RpcDone, Written, WriteFails
  <2>4. \A x \in Rpcs : rpc[x] \in {"waiting", "done"} => rpc'[x] \in {"waiting", "done"}
    BY <1>1, <2>3, Zenon
  <2>5. \A x \in Rpcs : x \in onServer' => x \in onServer \/ (rpc'[x] = "waiting" /\ result'[x] # "answer")
    BY <1>1, <2>2, <2>3, Zenon
  <2>6. \A x \in Rpcs : result'[x] = result[x] \/ (result'[x] = None /\ x \notin pending')
    BY <1>1, <2>3, Zenon
  <2> QED
    BY <2>1, <2>4, <2>5, <2>6, DroppedKept, Zenon
<1>6. ASSUME NEW r \in Rpcs,
             RunAnswer(r) \/ \E m \in Msgs : RunAnswerMessage(r, m)
      PROVE  DroppedInv'
  <2>1. /\ r \in onServer /\ onServer' = onServer \ {r} /\ UNCHANGED <<pending, rpc>>
        /\ \/ UNCHANGED own
           \/ \E m \in Msgs : own' = own \cup {<<m, r, Fate(r)>>}
    BY <1>6, Zenon DEF RunAnswer, RunAnswerMessage, msgVars
  <2>2. \A x \in Rpcs : result'[x] = result[x] \/ (x = r /\ x \in pending /\ result[x] = None)
    BY <1>1, <1>6, Zenon DEF RunAnswer, RunAnswerMessage, Resolve
  <2>3. rpc[r] \in {"waiting", "done"} /\ result[r] \in {None, "failed"}
    BY <1>1, <2>1, Zenon DEF DroppedInv
  <2>4. ASSUME NEW x \in Rpcs, Ended(x) PROVE Ended(x)'
    BY <1>1, <2>1, <2>2, <2>4, Zenon DEF Ended
  <2>5. Fate(r) = "dropped" => Ended(r)
    BY <2>3, Zenon DEF Fate, Ended
  <2>6. ASSUME NEW m \in Msgs, NEW x \in Rpcs, <<m, x, "dropped">> \in own'
        PROVE  <<m, x, "dropped">> \in own \/ (x = r /\ Fate(r) = "dropped")
    BY <2>1, <2>6
  <2> QED
    BY <2>1, <2>2, <2>3, <2>4, <2>5, <2>6, Zenon DEF DroppedInv
<1>7. CASE RunFailPending \/ RunDecide \/ RunBackoff
  <2>1. \A x \in Rpcs : result'[x] = result[x] \/ (result[x] = None /\ result'[x] = "failed")
    BY <1>1, <1>7, Zenon DEF RunFailPending, RunDecide, RunBackoff, FailAllPending
  <2> QED
    BY <1>7, <2>1, DroppedKept, Zenon DEF RunFailPending, RunDecide, RunBackoff, msgVars
<1>8. ASSUME NEW s \in Sends, RunStreamResult(s) \/ SendRegister(s) \/ SendStep(s)
      PROVE  UNCHANGED <<rpcVars, own>> /\ onServer' \cap Rpcs \subseteq onServer
  BY <1>8, ClientConstants, Zenon DEF RunStreamResult, SendRegister, SendStep, SendCapture, SendLock, SendWrite,
     SendTake, Written, WriteFails, msgVars
<1>9. ASSUME \/ ConnectCall \/ CloseLoad \/ CloseStep \/ RunStart \/ RunLogin \/ RunInstall \/ RunReadEnds
             \/ RunClear \/ RunFailSends \/ RunAck \/ RunShow \/ \E m \in Msgs : RunPush(m)
      PROVE  UNCHANGED <<rpcVars, own>> /\ onServer' \cap Rpcs \subseteq onServer
  BY <1>9, ZenonT(30) DEF ConnectCall, CloseLoad, CloseStep, CloseSet, CloseCancel, CloseFailSends, CloseReturn,
     RunStart, RunLogin, RunInstall, RunReadEnds, RunClear, RunFailSends, RunAck, WriteFails, RunShow, RunPush,
     msgVars
<1> QED
  BY <1>2, <1>3, <1>4, <1>5, <1>6, <1>7, <1>8, <1>9, ZenonT(30) DEF ClientNext, RunStep, RpcStep, vars, msgVars

(* What a login lists as seen, and the server so keeps back, was handed to    *)
(* OnMessage or answered a SendMessage, and no caller is left waiting for it: *)
(* a cursor is stored before the message is shown, but run does not log in    *)
(* again in between, and an answer no slot took belonged to a call that had   *)
(* ended.                                                                     *)
THEOREM SeenWasDelivered == ClientSpec => []NeverSkipped
<1>1. ASSUME MessageInv, DroppedInv PROVE NeverSkipped
  <2>1. ASSUME NEW m \in seen, ~(shown[m] > 0)
        PROVE  \E r \in Rpcs : <<m, r, "taken">> \in own \/ (<<m, r, "dropped">> \in own /\ Ended(r))
    <3>1. PICK r \in Rpcs : <<m, r, "taken">> \in own \/ <<m, r, "dropped">> \in own
      BY <1>1, <2>1, Zenon DEF MessageInv, Created
    <3> QED
      BY <1>1, <2>1, <3>1, Zenon DEF MessageInv, DroppedInv
  <2> QED
    BY <2>1, Zenon DEF NeverSkipped
<1> QED
  BY MessageInvAlways, QuietInvInit, QuietInvStep, DroppedInvInit, DroppedInvStep, <1>1, PTL DEF ClientSpec
=============================================================================
