------------------------------ MODULE Client ------------------------------
(* The WebSocket Client (client.go): the run goroutine that connects, logs    *)
(* in, reads and tears down; RPC calls (the periodic Ping is one of them);    *)
(* tracked stream sends; Connect and Close; and the persistence of messages.  *)
(*                                                                            *)
(* Every section under stateMu, pendingMu or streamSendMu is one step, and so *)
(* is every write to the socket.  A connection is the number of its login, a  *)
(* request is the call that made it.  authenticated and loginInfo are set and *)
(* cleared together with conn, so conn stands for the three.                  *)
EXTENDS Integers, FiniteSets

CONSTANTS Rpcs,          \* RPC calls (SendMessage, SendPacket, Ping, ...)
          Sends,         \* calls of SendStreamFrameTracked
          Msgs,          \* messages the server holds for the user
          SendLimit,     \* Config.StreamSendPendingLimit
          MaxConn,       \* bound: logins
          MaxCalls,      \* bound: calls made and messages pushed
          ClientFaults,  \* which failures happen
          MaxStoreErr    \* bound: errors of the CursorStore

ASSUME ClientConstants ==
    /\ SendLimit \in Nat \ {0} /\ MaxConn \in Nat /\ MaxCalls \in Nat /\ MaxStoreErr \in Nat
    /\ ClientFaults \subseteq {"lost", "normal", "refused", "write", "expire"}
    /\ Rpcs \cap Sends = {}   \* nextRequestID: no two requests share an ID

VARIABLES closed, ctx, conn,                 \* Client.closed, ctx, conn
          pending,                           \* Client.pending: calls with a slot
          tracked,                           \* Client.streamSendPending
          started, first,                    \* startOnce, firstConnect
          stopReconnect,
          run, runErr, gen, sock,            \* the run goroutine and its socket
          closer, waitDone,                  \* a call of Close
          writer,                            \* the holder of writeMu
          rpc, rpcConn, result,              \* RPC calls
          send, sendConn, notified,          \* tracked sends and their results
          onServer,                          \* requests of this socket to be answered
          saved, cursors, seen, pushed, msg, own, shown, storeErrs   \* messages; own: answers

stateVars == <<closed, ctx, conn, stopReconnect>>
runVars == <<started, first, run, runErr, gen, sock>>
userVars == <<closer, waitDone>>
rpcVars == <<pending, rpc, rpcConn, result>>
sendVars == <<tracked, send, sendConn, notified>>
msgVars == <<saved, cursors, seen, pushed, msg, own, shown, storeErrs>>
vars == <<stateVars, runVars, userVars, rpcVars, sendVars, msgVars, writer, onServer>>

None == "none"
NoMsg == <<None>>

ClientInit ==
    /\ closed = FALSE /\ ctx = "live" /\ conn = 0 /\ stopReconnect = FALSE
    /\ started = FALSE /\ first = None
    /\ run = "off" /\ runErr = None /\ gen = 0 /\ sock = None
    /\ closer = "idle" /\ waitDone = FALSE
    /\ writer = None
    /\ pending = {} /\ rpc = [r \in Rpcs |-> "idle"] /\ rpcConn = [r \in Rpcs |-> 0]
    /\ result = [r \in Rpcs |-> None]
    /\ tracked = {} /\ send = [s \in Sends |-> "idle"] /\ sendConn = [s \in Sends |-> 0]
    /\ notified = [s \in Sends |-> 0]
    /\ onServer = {}
    /\ saved = {} /\ cursors = {} /\ seen = {} /\ pushed = {}
    /\ msg = NoMsg /\ own = {} /\ shown = [m \in Msgs |-> 0] /\ storeErrs = 0

(* The bound on what users and server begin.                                  *)
MayBegin ==
    Cardinality({r \in Rpcs : rpc[r] # "idle"}) + Cardinality({s \in Sends : send[s] # "idle"})
        + Cardinality({p[1] : p \in pushed}) < MaxCalls

-----------------------------------------------------------------------------
(* Connect (362-374).                                                         *)

(* The first Connect starts run and waits until first is set.                 *)
ConnectCall ==
    /\ ~started
    /\ started' = TRUE /\ run' = "start"
    /\ UNCHANGED <<stateVars, first, runErr, gen, sock, closer, waitDone, rpcVars, sendVars,
                   msgVars, writer, onServer>>

(* signalFirstConnect: only the first signal counts.                          *)
Signal(outcome) == first' = IF first = None THEN outcome ELSE first

-----------------------------------------------------------------------------
(* run and connectAndServe (1211-1327).                                       *)

(* failAllPending: a slot that has no result yet gets the error.              *)
FailAllPending ==
    result' = [r \in Rpcs |-> IF r \in pending /\ result[r] = None THEN "failed" ELSE result[r]]

(* failAllStreamSends: every tracked send is reported and forgotten.          *)
FailAllStreamSends ==
    /\ tracked' = {}
    /\ notified' = [s \in Sends |-> IF s \in tracked THEN notified[s] + 1 ELSE notified[s]]

(* isClosed, and LoadSeenMessages, which may fail.                            *)
RunStart ==
    /\ run = "start"
    /\ \/ /\ ~closed /\ run' = "login" /\ seen' = cursors /\ UNCHANGED <<runErr, storeErrs>>
       \/ /\ closed /\ run' = "decide" /\ runErr' = "closed" /\ UNCHANGED <<seen, storeErrs>>
       \/ /\ ~closed /\ storeErrs < MaxStoreErr /\ storeErrs' = storeErrs + 1
          /\ run' = "decide" /\ runErr' = "error" /\ UNCHANGED seen
    /\ UNCHANGED <<stateVars, started, first, gen, sock, userVars, rpcVars, sendVars, saved,
                   cursors, pushed, msg, own, shown, writer, onServer>>

(* The answer to the login request: accepted, or refused for good             *)
(* (unauthorized or another protocol version).                                *)
ExpectLogin ==
    \/ /\ gen < MaxConn
       /\ run' = "install" /\ gen' = gen + 1 /\ sock' = "open"
       /\ UNCHANGED <<runErr, stopReconnect>>
    \/ /\ "refused" \in ClientFaults
       /\ run' = "decide" /\ runErr' = "error" /\ stopReconnect' = TRUE
       /\ UNCHANGED <<gen, sock>>

(* dial, the login request and its answer; a cancelled ctx fails all of them. *)
RunLogin ==
    /\ run = "login"
    /\ \/ ctx = "live" /\ ExpectLogin
       \/ /\ ctx = "cancelled" \/ gen = MaxConn \/ "lost" \in ClientFaults
          /\ run' = "decide" /\ runErr' = "error"
          /\ UNCHANGED <<gen, sock, stopReconnect>>
    /\ UNCHANGED <<closed, ctx, conn, started, first, userVars, rpcVars, sendVars, msgVars,
                   writer, onServer>>

(* The connection is published, without looking at closed again; OnLogin,     *)
(* the signal to Connect.  A ping of pingLoop is one of the calls in Rpcs.    *)
RunInstall ==
    /\ run = "install"
    /\ conn' = gen /\ Signal("ok") /\ run' = "serve"
    /\ UNCHANGED <<closed, ctx, stopReconnect, started, runErr, gen, sock, userVars, rpcVars,
                   sendVars, msgVars, writer, onServer>>

(* readLoop ends: a normal closure by the server and a cancelled ctx count as *)
(* ErrClosed, anything else as an error to recover from.                      *)
RunReadEnds ==
    /\ run = "serve" /\ msg = NoMsg
    /\ \/ ctx = "cancelled" /\ runErr' = "closed"
       \/ sock = "broken" /\ runErr' = "error"
       \/ "lost" \in ClientFaults /\ runErr' = "error"
       \/ "normal" \in ClientFaults /\ runErr' = "closed"
    /\ run' = "clear" /\ sock' = "broken" /\ onServer' = {}
    /\ UNCHANGED <<stateVars, started, first, gen, userVars, rpcVars, sendVars, msgVars,
                   writer>>

(* The connection is withdrawn, then the calls that wait on it are failed.    *)
RunClear ==
    /\ run = "clear"
    /\ conn' = (IF conn = gen THEN 0 ELSE conn) /\ run' = "failPending"
    /\ UNCHANGED <<closed, ctx, stopReconnect, started, first, runErr, gen, sock, userVars,
                   rpcVars, sendVars, msgVars, writer, onServer>>

\* Variant: a disconnect does not fail the calls that wait.
RunFailPendingNone == run = "failPending" /\ run' = "failSends"
    /\ UNCHANGED <<stateVars, started, first, runErr, gen, sock, userVars, rpcVars, sendVars,
                   msgVars, writer, onServer>>

RunFailPending ==
    /\ run = "failPending"
    /\ FailAllPending /\ run' = "failSends"
    /\ UNCHANGED <<stateVars, started, first, runErr, gen, sock, userVars, pending, rpc,
                   rpcConn, sendVars, msgVars, writer, onServer>>

\* Variant: a disconnect does not settle the tracked sends.
RunFailSendsNone == run = "failSends" /\ run' = "decide"
    /\ UNCHANGED <<stateVars, started, first, runErr, gen, sock, userVars, rpcVars, sendVars,
                   msgVars, writer, onServer>>

RunFailSends ==
    /\ run = "failSends"
    /\ FailAllStreamSends /\ run' = "decide"
    /\ UNCHANGED <<stateVars, started, first, runErr, gen, sock, userVars, rpcVars, send,
                   sendConn, msgVars, writer, onServer>>

(* Reconnect is set.                                                          *)
ShouldRetry == ~closed /\ ~stopReconnect /\ runErr # "closed"

(* Give up, or report the error and wait.                                     *)
RunDecide ==
    /\ run = "decide" /\ runErr' = None
    /\ IF ShouldRetry
       THEN run' = "backoff" /\ UNCHANGED <<first, result>>
       ELSE Signal("err") /\ FailAllPending /\ run' = "exit"
    /\ UNCHANGED <<stateVars, started, gen, sock, userVars, pending, rpc, rpcConn, sendVars,
                   msgVars, writer, onServer>>

(* The reconnect delay, cut short by Close.                                   *)
RunBackoff ==
    /\ run = "backoff"
    /\ \/ ctx = "cancelled" /\ FailAllPending /\ run' = "exit"
       \/ run' = "start" /\ UNCHANGED result
    /\ UNCHANGED <<stateVars, started, first, runErr, gen, sock, userVars, pending, rpc,
                   rpcConn, sendVars, msgVars, writer, onServer>>

-----------------------------------------------------------------------------
(* handleServerEnvelope (1397-1526), in readLoop.                             *)

Reading == run = "serve" /\ msg = NoMsg /\ sock = "open"

(* resolvePending: the answer reaches the slot if the caller still has one.   *)
Resolve(r, answer) ==
    result' = [result EXCEPT ![r] = IF r \in pending /\ @ = None THEN answer ELSE @]

RunAnswer(r) ==
    /\ Reading /\ r \in onServer
    /\ Resolve(r, "answer") /\ onServer' = onServer \ {r}
    /\ UNCHANGED <<stateVars, runVars, userVars, pending, rpc, rpcConn, sendVars, msgVars,
                   writer>>

(* persistMessage: SaveMessage, then SaveCursor; either may fail.             *)
Persisted(m) == saved' = saved \cup {m} /\ cursors' = cursors \cup {m} /\ UNCHANGED storeErrs
PersistFails(m) ==
    /\ storeErrs < MaxStoreErr /\ storeErrs' = storeErrs + 1
    /\ saved' \in {saved, saved \cup {m}} /\ UNCHANGED cursors

(* What becomes of the answer in resolvePending: a slot that is gone, or that *)
(* holds the failure of an earlier disconnect, does not take it.              *)
Fate(r) == IF r \in pending /\ result[r] = None THEN "taken" ELSE "dropped"

(* send_message_response with the new message: it is persisted first, whether *)
(* or not a caller is left, and the server counts it as seen on this          *)
(* connection.                                                                *)
RunAnswerMessage(r, m) ==
    /\ Reading /\ r \in onServer /\ MayBegin
    /\ \A g \in 1..MaxConn : <<m, g>> \notin pushed
    /\ onServer' = onServer \ {r} /\ pushed' = pushed \cup {<<m, gen>>}
    /\ \/ Persisted(m) /\ own' = own \cup {<<m, r, Fate(r)>>} /\ Resolve(r, "answer")
       \/ PersistFails(m) /\ Resolve(r, "failed") /\ UNCHANGED own
    /\ UNCHANGED <<stateVars, runVars, userVars, pending, rpc, rpcConn, sendVars, seen, msg,
                   shown, writer>>

\* Variant: a result is reported without taking the entry.
RunStreamResultKept(s) ==
    /\ Reading /\ s \in onServer /\ onServer' = onServer \ {s}
    /\ notified' = [notified EXCEPT ![s] = IF s \in tracked THEN @ + 1 ELSE @]
    /\ UNCHANGED <<stateVars, runVars, userVars, rpcVars, tracked, send, sendConn, msgVars,
                   writer>>

(* completeStreamSend, on a result or an error for the request.               *)
RunStreamResult(s) ==
    /\ Reading /\ s \in onServer
    /\ onServer' = onServer \ {s} /\ tracked' = tracked \ {s}
    /\ notified' = [notified EXCEPT ![s] = IF s \in tracked THEN @ + 1 ELSE @]
    /\ UNCHANGED <<stateVars, runVars, userVars, rpcVars, send, sendConn, msgVars, writer>>

\* Variant: a message that could not be stored is shown all the same.
RunPushUnsaved(m) ==
    /\ Reading /\ m \notin seen /\ <<m, gen>> \notin pushed
    /\ pushed' = pushed \cup {<<m, gen>>}
    /\ Persisted(m) \/ PersistFails(m)
    /\ msg' = <<"ack", m>>
    /\ UNCHANGED <<stateVars, runVars, userVars, rpcVars, sendVars, seen, own, shown, writer,
                   onServer>>

(* message_pushed: persist, acknowledge, OnMessage.  The server pushes once   *)
(* per connection what the login did not list as seen.                        *)
RunPush(m) ==
    /\ Reading /\ m \notin seen /\ <<m, gen>> \notin pushed
    /\ MayBegin \/ \E g \in 1..MaxConn : <<m, g>> \in pushed
    /\ pushed' = pushed \cup {<<m, gen>>}
    /\ \/ Persisted(m) /\ msg' = <<"ack", m>>
       \/ PersistFails(m) /\ UNCHANGED msg
    /\ UNCHANGED <<stateVars, runVars, userVars, rpcVars, sendVars, seen, own, shown, writer,
                   onServer>>

-----------------------------------------------------------------------------
(* Writing one frame (1528-1627).                                             *)

(* invalidateTransport: only the connection that failed is withdrawn.         *)
Invalidate(c) ==
    /\ conn' = (IF conn = c THEN 0 ELSE conn)
    /\ sock' = IF conn = c THEN "broken" ELSE sock

(* writeProtoOnTransport under writeMu: the transport may have been replaced  *)
(* while this frame waited for the lock.                                      *)
Current(c) == ~closed /\ conn = c

(* conn.Write: the frame reaches the server, or a peer that is gone, or fails.*)
Written(call, c) ==
    /\ onServer' = IF sock = "open" /\ c = gen THEN onServer \cup {call} ELSE onServer
    /\ UNCHANGED <<conn, sock>>
WriteFails(c) ==
    /\ "write" \in ClientFaults \/ sock = "broken" \/ c # gen \/ ctx = "cancelled"
    /\ Invalidate(c) /\ UNCHANGED onServer

\* Variant: the handler returns when the acknowledgement cannot be sent.
RunAckReturns ==
    /\ msg[1] = "ack"
    /\ \/ conn = 0 /\ msg' = NoMsg
       \/ conn # 0 /\ writer = None /\ msg' = <<"show", msg[2]>>
    /\ UNCHANGED <<stateVars, runVars, userVars, rpcVars, sendVars, saved, cursors, seen,
                   pushed, own, shown, storeErrs, writer, onServer>>

(* The acknowledgement of a pushed message; its failure is only reported.     *)
RunAck ==
    /\ msg[1] = "ack"
    /\ \/ conn = 0 /\ UNCHANGED <<conn, sock>>
       \/ conn # 0 /\ writer = None /\ UNCHANGED <<conn, sock>>
       \/ conn # 0 /\ writer = None /\ WriteFails(conn)
    /\ msg' = <<"show", msg[2]>>
    /\ UNCHANGED <<closed, ctx, stopReconnect, started, first, run, runErr, gen, userVars,
                   rpcVars, sendVars, saved, cursors, seen, pushed, own, shown, storeErrs,
                   writer, onServer>>

RunShow ==
    /\ msg[1] = "show"
    /\ shown' = [shown EXCEPT ![msg[2]] = @ + 1] /\ msg' = NoMsg
    /\ UNCHANGED <<stateVars, runVars, userVars, rpcVars, sendVars, saved, cursors, seen,
                   pushed, own, storeErrs, writer, onServer>>

-----------------------------------------------------------------------------
(* rpcOnTransport (1670-1710).                                                *)

(* registerPending looks at closed, then takes pendingMu: the slot may be     *)
(* made after closed was set.                                                 *)
RpcRegister(r) ==
    /\ rpc[r] = "idle" /\ MayBegin
    /\ rpc' = [rpc EXCEPT ![r] = "registered"] /\ pending' = pending \cup {r}
    /\ UNCHANGED <<stateVars, runVars, userVars, rpcConn, result, sendVars, msgVars, writer,
                   onServer>>

(* The call returns and its slot goes (unregisterPending).                    *)
RpcDone(r) ==
    /\ rpc' = [rpc EXCEPT ![r] = "done"] /\ pending' = pending \ {r}
    /\ rpcConn' = [rpcConn EXCEPT ![r] = 0] /\ result' = [result EXCEPT ![r] = None]

(* sendEnvelopeOnTransport reads the connection, and gives up without one.    *)
RpcCapture(r) ==
    /\ rpc[r] = "registered"
    /\ IF closed \/ conn = 0 THEN RpcDone(r)
       ELSE /\ rpcConn' = [rpcConn EXCEPT ![r] = conn]
            /\ rpc' = [rpc EXCEPT ![r] = "captured"] /\ UNCHANGED <<pending, result>>
    /\ UNCHANGED <<stateVars, runVars, userVars, sendVars, msgVars, writer, onServer>>

(* The caller's ctx ends: the AfterFunc gives the slot back at any point, so  *)
(* a call without a slot is one whose ctx has ended.                          *)
RpcExpire(r) ==
    /\ "expire" \in ClientFaults /\ r \in pending
    /\ pending' = pending \ {r}
    /\ UNCHANGED <<stateVars, runVars, userVars, rpc, rpcConn, result, sendVars, msgVars,
                   writer, onServer>>

(* invalidatePingTransport: an unanswered Ping gives its connection up; any   *)
(* other call does not.                                                       *)
Expired(r) ==
    /\ r \notin pending /\ RpcDone(r)
    /\ Invalidate(rpcConn[r]) \/ UNCHANGED <<conn, sock>>

RpcLock(r) ==
    /\ rpc[r] = "captured" /\ writer = None
    /\ \/ ~Current(rpcConn[r]) /\ RpcDone(r) /\ UNCHANGED <<writer, conn, sock>>
       \/ Current(rpcConn[r]) /\ Expired(r) /\ UNCHANGED writer
       \/ /\ Current(rpcConn[r]) /\ r \in pending
          /\ rpc' = [rpc EXCEPT ![r] = "writing"] /\ writer' = r
          /\ UNCHANGED <<pending, rpcConn, result, conn, sock>>
    /\ UNCHANGED <<closed, ctx, stopReconnect, started, first, run, runErr, gen, userVars,
                   sendVars, msgVars, onServer>>

RpcWrite(r) ==
    /\ rpc[r] = "writing"
    /\ writer' = None
    /\ \/ /\ Written(r, rpcConn[r])
          /\ rpc' = [rpc EXCEPT ![r] = "waiting"] /\ UNCHANGED <<pending, rpcConn, result>>
       \/ WriteFails(rpcConn[r]) /\ RpcDone(r)
    /\ UNCHANGED <<closed, ctx, stopReconnect, started, first, run, runErr, gen, userVars,
                   sendVars, msgVars>>

(* waitRequest: a result or the end of ctx.                                   *)
RpcReturn(r) ==
    /\ rpc[r] = "waiting"
    /\ (result[r] # None /\ RpcDone(r) /\ UNCHANGED <<conn, sock>>) \/ Expired(r)
    /\ UNCHANGED <<closed, ctx, stopReconnect, started, first, run, runErr, gen, userVars,
                   sendVars, msgVars, writer, onServer>>

-----------------------------------------------------------------------------
(* SendStreamFrameTracked (534-569).                                          *)

\* Variant: closed is not looked at under the lock.
SendRegisterClosed(s) ==
    /\ send[s] = "idle" /\ MayBegin /\ Cardinality(tracked) < SendLimit
    /\ send' = [send EXCEPT ![s] = "registered"] /\ tracked' = tracked \cup {s}
    /\ UNCHANGED <<stateVars, runVars, userVars, rpcVars, sendConn, notified, msgVars, writer,
                   onServer>>

(* registerStreamSend: closed, the limit and the entry under the two locks.   *)
SendRegister(s) ==
    /\ send[s] = "idle" /\ MayBegin
    /\ IF closed \/ Cardinality(tracked) >= SendLimit
       THEN send' = [send EXCEPT ![s] = "failed"] /\ UNCHANGED tracked
       ELSE send' = [send EXCEPT ![s] = "registered"] /\ tracked' = tracked \cup {s}
    /\ UNCHANGED <<stateVars, runVars, userVars, rpcVars, sendConn, notified, msgVars, writer,
                   onServer>>

SendCapture(s) ==
    /\ send[s] = "registered"
    /\ IF closed \/ conn = 0
       THEN send' = [send EXCEPT ![s] = "failing"] /\ UNCHANGED sendConn
       ELSE send' = [send EXCEPT ![s] = "captured"] /\ sendConn' = [sendConn EXCEPT ![s] = conn]
    /\ UNCHANGED <<stateVars, runVars, userVars, rpcVars, tracked, notified, msgVars, writer,
                   onServer>>

SendLock(s) ==
    /\ send[s] = "captured" /\ writer = None
    /\ IF Current(sendConn[s])
       THEN send' = [send EXCEPT ![s] = "writing"] /\ writer' = s
       ELSE send' = [send EXCEPT ![s] = "failing"] /\ UNCHANGED writer
    /\ UNCHANGED <<stateVars, runVars, userVars, rpcVars, tracked, sendConn, notified,
                   msgVars, onServer>>

SendWrite(s) ==
    /\ send[s] = "writing"
    /\ writer' = None
    /\ \/ Written(s, sendConn[s]) /\ send' = [send EXCEPT ![s] = "sent"]
       \/ WriteFails(sendConn[s]) /\ send' = [send EXCEPT ![s] = "failing"]
    /\ UNCHANGED <<closed, ctx, stopReconnect, started, first, run, runErr, gen, userVars,
                   rpcVars, tracked, sendConn, notified, msgVars>>

(* The error path: takeStreamSend, so no result is reported for this send.    *)
SendTake(s) ==
    /\ send[s] = "failing"
    /\ send' = [send EXCEPT ![s] = "failed"] /\ tracked' = tracked \ {s}
    /\ sendConn' = [sendConn EXCEPT ![s] = 0]
    /\ UNCHANGED <<stateVars, runVars, userVars, rpcVars, notified, msgVars, writer,
                   onServer>>

-----------------------------------------------------------------------------
(* Close (378-405).                                                           *)

CloseLoad ==
    /\ closer = "idle"
    /\ closer' = "loaded" /\ waitDone' = started
    /\ UNCHANGED <<stateVars, runVars, rpcVars, sendVars, msgVars, writer, onServer>>

CloseSet ==
    /\ closer = "loaded"
    /\ closer' = "set" /\ closed' = TRUE /\ conn' = 0
    /\ UNCHANGED <<ctx, stopReconnect, runVars, waitDone, rpcVars, sendVars, msgVars, writer,
                   onServer>>

\* Variant: Close does not cancel the context.
CloseCancelNone == closer = "set" /\ closer' = "cancelled"
    /\ UNCHANGED <<stateVars, runVars, waitDone, rpcVars, sendVars, msgVars, writer,
                   onServer>>

(* The cancelled ctx ends every read and write on the socket.                 *)
CloseCancel ==
    /\ closer = "set"
    /\ closer' = "cancelled" /\ ctx' = "cancelled"
    /\ UNCHANGED <<closed, conn, stopReconnect, runVars, waitDone, rpcVars, sendVars, msgVars,
                   writer, onServer>>

CloseFailSends ==
    /\ closer = "cancelled"
    /\ closer' = "wait" /\ FailAllStreamSends
    /\ UNCHANGED <<stateVars, runVars, waitDone, rpcVars, send, sendConn, msgVars, writer,
                   onServer>>

CloseReturn ==
    /\ closer = "wait" /\ (waitDone => run = "exit")
    /\ closer' = "done"
    /\ UNCHANGED <<stateVars, runVars, waitDone, rpcVars, sendVars, msgVars, writer,
                   onServer>>
-----------------------------------------------------------------------------
RunStep ==
    \/ RunStart \/ RunLogin \/ RunInstall \/ RunReadEnds \/ RunClear \/ RunFailPending
    \/ RunFailSends \/ RunDecide \/ RunBackoff \/ RunAck \/ RunShow
    \/ \E r \in Rpcs : RunAnswer(r) \/ \E m \in Msgs : RunAnswerMessage(r, m)
    \/ \E s \in Sends : RunStreamResult(s)
    \/ \E m \in Msgs : RunPush(m)
RpcStep(r) == RpcCapture(r) \/ RpcLock(r) \/ RpcWrite(r) \/ RpcReturn(r)
SendStep(s) == SendCapture(s) \/ SendLock(s) \/ SendWrite(s) \/ SendTake(s)
CloseStep == CloseSet \/ CloseCancel \/ CloseFailSends \/ CloseReturn

ClientNext ==
    \/ ConnectCall \/ RunStep \/ CloseLoad \/ CloseStep
    \/ \E r \in Rpcs : RpcRegister(r) \/ RpcExpire(r) \/ RpcStep(r)
    \/ \E s \in Sends : SendRegister(s) \/ SendStep(s)

ClientSpec == ClientInit /\ [][ClientNext]_vars

(* A goroutine that can go on does.  Nobody has to call an operation, the     *)
(* server owes no answer and no ctx has to end; readLoop ends of itself only  *)
(* on a socket that is broken or under a cancelled ctx.                       *)
ReadMustEnd == RunReadEnds /\ (sock = "broken" \/ ctx = "cancelled")
RunMust ==
    \/ RunStart \/ RunLogin \/ RunInstall \/ ReadMustEnd \/ RunClear \/ RunFailPending
    \/ RunFailSends \/ RunDecide \/ RunBackoff \/ RunAck \/ RunShow
ClientFairness ==
    /\ WF_vars(RunMust) /\ WF_vars(CloseStep)
    /\ \A r \in Rpcs : WF_vars(RpcStep(r))
    /\ \A s \in Sends : WF_vars(SendStep(s))
ClientFairSpec == ClientSpec /\ ClientFairness

-----------------------------------------------------------------------------
Calls == Rpcs \cup Sends

(* A tracked send is reported at most once, although a result, a disconnect   *)
(* and Close may all settle it (completeStreamSend, failAllStreamSends).      *)
NotifiedOnce == \A s \in Sends : notified[s] <= 1

(* Once a Close that found the client started has returned, the run goroutine *)
(* is gone, no connection is published, no send is tracked, and no call waits *)
(* without a result: nothing is left for anyone to answer.                    *)
CloseQuiesces ==
    closer = "done" /\ waitDone =>
        /\ run = "exit" /\ conn = 0 /\ tracked = {}
        /\ \A r \in Rpcs : rpc[r] = "waiting" => result[r] # None \/ r \notin pending

(* No message is given to OnMessage twice, over store errors and reconnects:  *)
(* what was shown has its cursor stored, so the next login lists it as seen.  *)
ShownOnce == \A m \in Msgs : shown[m] <= 1

(* The call is over for its caller, or will be as soon as it looks: its slot  *)
(* has gone with its ctx or its return, or holds a failure.                   *)
Ended(r) == r \notin pending \/ result[r] = "failed"

(* A message a login reports as seen, which the server will not push again,   *)
(* was handed to OnMessage or answered a SendMessage of this client: it was   *)
(* put in the slot of that call, or the call had ended without it.  A message *)
(* of the last kind is stored and reported as seen, and reaches nobody.       *)
NeverSkipped ==
    run # "start" => \A m \in seen :
        \/ shown[m] > 0
        \/ \E r \in Rpcs : <<m, r, "taken">> \in own \/ (<<m, r, "dropped">> \in own /\ Ended(r))

(* A call that waits on a connection which is no longer published returns,    *)
(* although no answer comes and its ctx never ends (failAllPending after the  *)
(* connection is withdrawn).                                                  *)
RpcReturns ==
    \A r \in Rpcs : rpc[r] = "waiting" /\ rpcConn[r] # conn ~> rpc[r] # "waiting"

(* A send that returned success on a connection since withdrawn is reported.  *)
SendSettles ==
    \A s \in Sends : send[s] = "sent" /\ sendConn[s] # conn ~> notified[s] > 0

(* Close returns, whatever the other goroutines are doing when it is called.  *)
CloseReturns == closer = "loaded" ~> closer = "done"

(* "A successful return means the frame was written and tracked."             *)
(* (client.go:533): while its connection lasts, a frame the server has not    *)
(* answered is in streamSendPending.                                          *)
SentIsTracked ==
    \A s \in Sends : send[s] = "sent" /\ sendConn[s] = conn /\ s \in onServer => s \in tracked

(* Connect waits "for the first connection to succeed or fail"                *)
(* (client.go:360): it returns once the client has been closed.               *)
ConnectReturns == started /\ closer = "done" ~> first # None
=============================================================================
