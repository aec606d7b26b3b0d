--------------------------- MODULE RelayManager ---------------------------
(* The Relay manager (relay.go): Connect, the incoming OPEN, the dispatch of  *)
(* other envelopes, the end of a connection and closeAll, over a client that  *)
(* logs in, loses its connection and logs in again.  What a connection does   *)
(* once it is open is RelayLink's part.                                       *)
(*                                                                            *)
(* Every section under r.mu or c.mu is one step, and so is every RPC.  The    *)
(* reader is one goroutine: it handles one packet at a time, and runs the     *)
(* teardown itself after the last.  A connection is its number of creation, a *)
(* session the number of the login.  The server passes a packet only to the   *)
(* session it names, and the peer answers an OPEN any number of times.        *)
EXTENDS Naturals, FiniteSets

CONSTANTS RelayIds,      \* relay IDs the peer opens
          Connects,      \* calls of Connect; each makes an ID of its own
          MaxRelays,     \* bound: connections made
          MaxLogins      \* bound: logins of the client

ASSUME ManagerConstants ==
    /\ MaxRelays \in Nat /\ MaxLogins \in Nat \ {0} /\ RelayIds \cap Connects = {}

VARIABLES conns,         \* Relay.conns, 0 for no entry
          relaysMade,    \* number of connections made
          relay,         \* id, session and state of a connection
          ending,        \* closeWithSource has set Closed and not yet called removeConnection
          login, up,     \* number of the login; whether its reader runs
          inbox,         \* envelopes with the dispatchers of their connections
          teardown, downTodo,   \* the reader's closeAll
          closing, closeTodo,   \* Client.Close and its closeAll
          connect, mine, \* calls of Connect and their connections
          openSent       \* connections whose OPEN reached the server

registryVars == <<conns, relaysMade, relay, ending>>
loginVars == <<login, up, teardown, downTodo>>
closeVars == <<closing, closeTodo>>
callVars == <<connect, mine, openSent>>
managerVars == <<registryVars, loginVars, closeVars, callVars, inbox>>

Ids == RelayIds \cup Connects
Relays == 1..MaxRelays
NoRelay == [id |-> CHOOSE i \in Ids : TRUE, session |-> 0, state |-> "none"]
Alive(c) == relay[c].state \in {"Opening", "Open"}

ManagerInit ==
    /\ conns = [i \in Ids |-> 0] /\ relaysMade = 0 /\ relay = [c \in Relays |-> NoRelay] /\ ending = {}
    /\ login = 1 /\ up = TRUE /\ inbox = {} /\ teardown = "none" /\ downTodo = {}
    /\ closing = "idle" /\ closeTodo = {}
    /\ connect = [k \in Connects |-> "idle"]
    /\ mine = [k \in Connects |-> 0] /\ openSent = {}

(* A new connection and its entry.                                            *)
Enter(i, s, state) ==
    /\ relaysMade' = relaysMade + 1 /\ conns' = [conns EXCEPT ![i] = relaysMade + 1]
    /\ relay' = [relay EXCEPT ![relaysMade + 1] = [id |-> i, session |-> s, state |-> state]]

(* closeWithSource: the first call sets Closed, cancels and later removes.    *)
CloseConnection(c) ==
    /\ relay' = [relay EXCEPT ![c].state = "Closed"]
    /\ ending' = IF Alive(c) THEN ending \cup {c} ELSE ending

RemoveConnection(c) ==
    /\ c \in ending /\ ending' = ending \ {c}
    /\ conns' = [i \in Ids |-> IF conns[i] = c THEN 0 ELSE conns[i]]
    /\ UNCHANGED <<loginVars, closeVars, callVars, relaysMade, relay, inbox>>

-----------------------------------------------------------------------------
(* Connect (70-146).                                                          *)

(* relayID is fresh.  The connection's own record of its session goes into    *)
(* envelope headers that no receiver reads, and is left out.                  *)
ConnectRegister(k) ==
    /\ connect[k] = "idle" /\ relaysMade < MaxRelays
    /\ Enter(k, 0, "Opening")
    /\ connect' = [connect EXCEPT ![k] = "open"] /\ mine' = [mine EXCEPT ![k] = relaysMade + 1]
    /\ UNCHANGED <<loginVars, closeVars, ending, inbox, openSent>>

(* The OPEN names the session of loginInfo, which is read without stateMu: 0  *)
(* stands for the value between two logins and for a torn one.                *)
ConnectOpen(k) ==
    /\ connect[k] = "open" /\ connect' = [connect EXCEPT ![k] = "send"]
    /\ \E s \in {0, login} : relay' = [relay EXCEPT ![mine[k]].session = s]
    /\ UNCHANGED <<loginVars, closeVars, conns, relaysMade, ending, inbox, mine, openSent>>

\* Variant: a failed OPEN leaves the connection registered.
ConnectSendKeeps(k) ==
    /\ connect[k] = "send"
    /\ \/ /\ up /\ Alive(mine[k]) /\ closing = "idle"
          /\ openSent' = openSent \cup {mine[k]} /\ connect' = [connect EXCEPT ![k] = "wait"]
       \/ connect' = [connect EXCEPT ![k] = "failed"] /\ UNCHANGED openSent
    /\ UNCHANGED <<registryVars, loginVars, closeVars, inbox, mine>>

(* OPEN is sent on whatever connection the client has, or fails: no client    *)
(* connection, or the connection is already cancelled.                        *)
ConnectSend(k) ==
    /\ connect[k] = "send"
    /\ \/ /\ up /\ Alive(mine[k]) /\ closing = "idle"
          /\ openSent' = openSent \cup {mine[k]} /\ connect' = [connect EXCEPT ![k] = "wait"]
          /\ UNCHANGED <<relay, ending>>
       \/ /\ CloseConnection(mine[k]) /\ connect' = [connect EXCEPT ![k] = "failed"]
          /\ UNCHANGED openSent
    /\ UNCHANGED <<loginVars, closeVars, conns, relaysMade, inbox, mine>>

(* openCh, closeCh, the OPEN timeout or the end of ctx.                       *)
ConnectReturn(k) ==
    /\ connect[k] = "wait"
    /\ \/ /\ relay[mine[k]].state = "Open" /\ connect' = [connect EXCEPT ![k] = "ok"]
          /\ UNCHANGED <<relay, ending>>
       \/ /\ relay[mine[k]].state # "Open" /\ CloseConnection(mine[k])
          /\ connect' = [connect EXCEPT ![k] = "failed"]
    /\ UNCHANGED <<loginVars, closeVars, conns, relaysMade, inbox, mine, openSent>>

-----------------------------------------------------------------------------
(* handlePacket (233-269), on the reader.                                     *)

\* Variant: a repeated OPEN replaces the connection.
HandleOpenReplaces(i) ==
    /\ up /\ relaysMade < MaxRelays /\ Enter(i, login, "Open")
    /\ UNCHANGED <<loginVars, closeVars, callVars, ending, inbox>>

(* acceptIncoming: a registered ID is answered again and never replaced.      *)
HandleOpen(i) ==
    /\ up /\ conns[i] = 0 /\ relaysMade < MaxRelays
    /\ Enter(i, login, "Open")
    /\ UNCHANGED <<loginVars, closeVars, callVars, ending, inbox>>

(* OPEN_ACK, CLOSE and ERROR go to the dispatcher of the registered           *)
(* connection.  The peer answers the session that the OPEN named.             *)
HandlePacket(i, kind) ==
    /\ up /\ conns[i] # 0
    /\ kind = "OpenAck" => conns[i] \in openSent /\ relay[conns[i]].session = login
    /\ inbox' = inbox \cup {<<conns[i], kind>>}
    /\ UNCHANGED <<registryVars, loginVars, closeVars, callVars>>

(* handleEnvelope, unless the connection has been cancelled.                  *)
Dispatch(c, kind) ==
    /\ <<c, kind>> \in inbox /\ inbox' = inbox \ {<<c, kind>>}
    /\ IF ~Alive(c) THEN UNCHANGED <<relay, ending>>
       ELSE IF kind = "Close" THEN CloseConnection(c)
       ELSE relay' = [relay EXCEPT ![c].state = "Open"] /\ UNCHANGED ending
    /\ UNCHANGED <<loginVars, closeVars, callVars, conns, relaysMade>>

(* Close or Abort of a connection by its user, an exhausted budget, overflow. *)
RelayEnds(c) ==
    /\ relay[c].state = "Open" /\ CloseConnection(c)
    /\ UNCHANGED <<loginVars, closeVars, callVars, conns, relaysMade, inbox>>

-----------------------------------------------------------------------------
(* closeAll (281-292): a snapshot of the map, whose members are then closed   *)
(* one by one.  The reader calls it when its connection ends, and so does     *)
(* Client.Close.                                                              *)
Registered == {conns[i] : i \in Ids} \ {0}

ReaderEnds ==
    /\ up
    /\ up' = FALSE /\ teardown' = "closeAll"
    /\ UNCHANGED <<registryVars, closeVars, callVars, login, inbox, downTodo>>

\* Variant: the end of a connection does not close the Relay connections.
TeardownSnapshotNone == teardown = "closeAll" /\ teardown' = "end"
    /\ UNCHANGED <<registryVars, closeVars, callVars, login, up, inbox, downTodo>>

TeardownSnapshot ==
    /\ teardown = "closeAll"
    /\ downTodo' = Registered /\ teardown' = "end"
    /\ UNCHANGED <<registryVars, closeVars, callVars, login, up, inbox>>

TeardownEnd ==
    /\ teardown = "end"
    /\ \/ \E c \in downTodo : CloseConnection(c) /\ downTodo' = downTodo \ {c} /\ UNCHANGED teardown
       \/ downTodo = {} /\ teardown' = "down" /\ UNCHANGED <<downTodo, relay, ending>>
    /\ UNCHANGED <<closeVars, callVars, conns, relaysMade, login, up, inbox>>

(* run logs in again, also when Close has overtaken the login, or gives up.   *)
LoginAgain ==
    /\ teardown = "down" /\ login < MaxLogins
    /\ login' = login + 1 /\ up' = TRUE /\ teardown' = "none"
    /\ UNCHANGED <<registryVars, closeVars, callVars, inbox, downTodo>>

RunExit ==
    /\ teardown = "down" /\ teardown' = "exit"
    /\ UNCHANGED <<registryVars, closeVars, callVars, login, up, inbox, downTodo>>

ClientClose ==
    /\ closing = "idle"
    /\ closing' = "closed"
    /\ UNCHANGED <<registryVars, loginVars, callVars, inbox, closeTodo>>

ClientCloseSnapshot ==
    /\ closing = "closed"
    /\ closing' = "end" /\ closeTodo' = Registered
    /\ UNCHANGED <<registryVars, loginVars, callVars, inbox>>

ClientCloseEnd ==
    /\ closing = "end"
    /\ \/ /\ \E c \in closeTodo : CloseConnection(c) /\ closeTodo' = closeTodo \ {c}
          /\ UNCHANGED closing
       \/ /\ closeTodo = {} /\ teardown = "exit" /\ closing' = "done"
          /\ UNCHANGED <<closeTodo, relay, ending>>
    /\ UNCHANGED <<loginVars, callVars, conns, relaysMade, inbox>>

-----------------------------------------------------------------------------
ManagerNext ==
    \/ \E k \in Connects : ConnectRegister(k) \/ ConnectOpen(k) \/ ConnectSend(k) \/ ConnectReturn(k)
    \/ \E i \in RelayIds : HandleOpen(i)
    \/ \E i \in Ids, kind \in {"OpenAck", "Close"} : HandlePacket(i, kind)
    \/ \E c \in Relays : RelayEnds(c) \/ RemoveConnection(c) \/ Dispatch(c, "OpenAck") \/ Dispatch(c, "Close")
    \/ ReaderEnds \/ TeardownSnapshot \/ TeardownEnd \/ LoginAgain \/ RunExit
    \/ ClientClose \/ ClientCloseSnapshot \/ ClientCloseEnd

ManagerSpec == ManagerInit /\ [][ManagerNext]_managerVars

(* Goroutines that can go on do; a closed client's reader ends, and the OPEN  *)
(* timeout of a Connect that waits expires.                                   *)
ManagerFairness ==
    /\ \A k \in Connects :
        WF_managerVars(ConnectOpen(k)) /\ WF_managerVars(ConnectSend(k)) /\ WF_managerVars(ConnectReturn(k))
    /\ WF_managerVars(TeardownSnapshot) /\ WF_managerVars(TeardownEnd) /\ WF_managerVars(closing # "idle" /\ RunExit)
    /\ WF_managerVars(closing # "idle" /\ ReaderEnds)
    /\ WF_managerVars(ClientCloseSnapshot) /\ WF_managerVars(ClientCloseEnd)

-----------------------------------------------------------------------------

(* A connection that has not closed owns its relay ID, so its envelopes reach *)
(* it: a repeated OPEN does not replace it and a late removal does not evict  *)
(* a successor (acceptIncoming, removeConnection).                            *)
AliveIsOwner == \A c \in Relays : Alive(c) => conns[relay[c].id] = c

(* No open connection outlives the login that carried it: once the client has *)
(* logged in again, every open connection belongs to the new session          *)
(* (closeAll in connectAndServe, against Connect calls in any state).         *)
SessionBound == \A c \in Relays : up /\ relay[c].state = "Open" => relay[c].session = login

(* After Client.Close every connection ends, also one that a Connect          *)
(* registered behind the snapshot of both closeAll calls.                     *)
CloseEndsRelays == closing = "done" ~> \A c \in Relays : ~Alive(c)
=============================================================================
