----------------------------- MODULE DemoRunner -----------------------------
(***************************************************************************)
(* The demo runner: a scenario is checked, then its steps run, those of a  *)
(* parallel step in a goroutine per branch.  Branches meet at barriers,    *)
(* share the sessions under their mutex, and the first that fails cancels  *)
(* the others.                                                             *)
(*                                                                         *)
(* A script is named by the task that runs it: Root, or a branch.  The     *)
(* client of a session is the number of its NewClient; what the server     *)
(* answers, pushes or refuses is free.  What nested values come to is      *)
(* given by the constant operators, for which DemoMatch has the code's.    *)
(***************************************************************************)
EXTENDS DemoValues, FiniteSets

CONSTANTS
    Scenarios,  \* the scenarios that may be loaded
    Root,       \* the task that runs the script of the scenario
    Pushes,     \* what the server may push: [kind, payload], and how often
    MaxPush,
    PayloadOf(_, _),    \* what an action makes of the answer
    Resolve(_, _),      \* a value with the variables replaced
    Lookup(_, _),       \* what a path leads to: [ok, x]
    Matches(_, _)       \* the answer is as expected

IsSequence(q) == q \in Seq({q[i] : i \in DOMAIN q})

\* every branch of a scenario is one branch of one parallel step
IsTree(s) ==
    /\ {"script", "sessions"} \subseteq DOMAIN s /\ Root \in DOMAIN s.script
    /\ \A t \in DOMAIN s.script : IsSequence(s.script[t])
    /\ \A t \in DOMAIN s.script : \A i \in DOMAIN s.script[t] :
          LET b == s.script[t][i].branches
          IN /\ IsSequence(b)
             /\ \A j \in DOMAIN b : b[j].task \in DOMAIN s.script \ {Root}
             /\ \A u \in DOMAIN s.script : \A k \in DOMAIN s.script[u] :
                   \A j \in DOMAIN b, l \in DOMAIN s.script[u][k].branches :
                       b[j].task = s.script[u][k].branches[l].task => t = u /\ i = k /\ j = l

ASSUME ScenarioTree == \A s \in Scenarios : IsTree(s)

Version == "v1alpha1"
Blank == {"", " "}
validEvents == {"message_pushed", "packet_pushed", "error", "disconnect"}

VARIABLES
    scenario,   \* the scenario, defaults applied
    phase,      \* of RunScenario: "load", "run", "closing", "done", "panic"
    result,     \* what it returns: "none" while it runs
    ctxDone,    \* the caller's context has ended
    task,       \* each task: pc, the step it is at, its error, its owner, the parallel steps around it, its watcher, its call
    group,      \* the running parallel step of a task: errCh, cancel, the barrier hits
    session,    \* each session: mutex holder, connected, closed, client, locals
    clients,    \* every client ever made: session, open, whether it logged in, made after a close, left behind, events
    matched,    \* the last expectation that was met, with what met it
    pushed      \* how many events the server has pushed

vars == <<scenario, phase, result, ctxDone, task, group, session, clients, matched, pushed>>

(***************************************************************************)
(* Validate.                                                               *)
(***************************************************************************)
validVarName(name) == name \notin {"", " ", "1x"}

requireSession(s, name) == name \notin Blank /\ name \in DOMAIN s.sessions

validSelector(user) ==
    LET ids == user.node_id # "0" \/ user.user_id # "0"
    IN /\ ids # (user.login_name \notin Blank)
       /\ ids => user.node_id # "0" /\ user.user_id # "0"

validSessions(s) ==
    /\ DOMAIN s.sessions # {}
    /\ \A name \in DOMAIN s.sessions :
          LET spec == s.sessions[name]
          IN /\ name \notin Blank /\ spec.node \in DOMAIN s.nodes
             /\ validSelector(spec.user)
             /\ spec.password.source \in {"plain", "hashed"} /\ spec.password.text # ""
             /\ \A i \in DOMAIN spec.seen : spec.seen[i].node # "0" /\ spec.seen[i].seq # "0"

\* where the script of t meets the barrier
BarrierAt(s, t, name) == {i \in DOMAIN s.script[t] : s.script[t][i].step = "barrier" /\ s.script[t][i].name = name}
BarrierNames(s) == UNION {{s.script[t][i].name : i \in DOMAIN s.script[t]} : t \in DOMAIN s.script}
BranchTasks(step) == {step.branches[i].task : i \in DOMAIN step.branches}

\* Variant: a barrier that only some branches meet passes.
validateParallelBarriersSome(s, step) ==
    \A name \in BarrierNames(s) : \A t \in BranchTasks(step) : Cardinality(BarrierAt(s, t, name)) <= 1

\* a branch meets a barrier once, and every branch meets it
validateParallelBarriers(s, step) ==
    \A name \in BarrierNames(s) :
        \/ \A t \in BranchTasks(step) : BarrierAt(s, t, name) = {}
        \/ \A t \in BranchTasks(step) : Cardinality(BarrierAt(s, t, name)) = 1

validateStep(s, step, inParallel) ==
    /\ CASE step.step = "connect" ->
              requireSession(s, step.session) /\ step.expect # Nil /\ DOMAIN step.expect.login # {}
         [] step.step = "request" ->
              /\ requireSession(s, step.session) /\ step.action \in validActions /\ step.request # Nil
              /\ step.expect # Nil /\ (DOMAIN step.expect.ok # {}) # (step.expect.error # Nil)
         [] step.step = "expect_event" ->
              requireSession(s, step.session) /\ step.event \in validEvents /\ DOMAIN step.match # {}
         [] step.step = "sleep" -> step.duration # "0"
         [] step.step = "close" -> requireSession(s, step.session)
         [] step.step = "parallel" ->
              /\ Len(step.branches) >= 2
              /\ \A i, j \in DOMAIN step.branches : i # j => step.branches[i].name # step.branches[j].name
              /\ \A i \in DOMAIN step.branches :
                    step.branches[i].name \notin Blank /\ s.script[step.branches[i].task] # <<>>
              /\ validateParallelBarriers(s, step)
         [] step.step = "barrier" -> inParallel /\ step.name \notin Blank
         [] OTHER -> FALSE
    /\ \A name \in DOMAIN step.save : validVarName(name) /\ step.save[name] # <<>>

\* the steps of every script: each is the scenario's own or a branch's
Validate(s) ==
    /\ s.version = Version /\ s.name \notin Blank
    /\ DOMAIN s.nodes # {} /\ \A node \in DOMAIN s.nodes : node \notin Blank /\ s.nodes[node] \notin Blank
    /\ validSessions(s)
    /\ s.script[Root] # <<>>
    /\ \A t \in DOMAIN s.script : \A i \in DOMAIN s.script[t] : validateStep(s, s.script[t][i], t # Root)

applyDefaults(s) ==
    [s EXCEPT !.timeout = IF s.timeout = "0" THEN "5s" ELSE s.timeout, !.vars = IF s.vars = Nil THEN <<>> ELSE s.vars]

(***************************************************************************)
(* Tasks.                                                                  *)
(***************************************************************************)
Tasks == DOMAIN task
StepOf(t) == scenario.script[t][task[t].at]
AtStep(t, pc) == phase = "run" /\ task[t].pc = pc
At(t, kind) == AtStep(t, "step") /\ task[t].at <= Len(scenario.script[t]) /\ StepOf(t).step = kind
Holds(t, kind) == AtStep(t, "held") /\ StepOf(t).step = kind
Branches(t) == BranchTasks(StepOf(t))

\* the context of a branch ends with the parallel step or with a context around it
CtxDone(t) == ctxDone \/ \E u \in task[t].within : group[u].cancelled

NoGroup == [total |-> 0, errs |-> <<>>, cancelled |-> FALSE, hits |-> <<>>]
Idle == [pc |-> "idle", at |-> 1, err |-> "nil", owner |-> Root, within |-> {},
         watch |-> FALSE, late |-> FALSE, args |-> Nil]

\* what a step returns ends the step or the script
Returned(t, err) ==
    [task EXCEPT ![t] = [task[t] EXCEPT !.pc = IF err = "nil" THEN "step" ELSE "fail", !.at = IF err = "nil" THEN @ + 1 ELSE @,
                                        !.err = err, !.watch = FALSE, !.late = FALSE, !.args = Nil]]

Init ==
    /\ scenario \in Scenarios
    /\ phase = "load" /\ result = "none" /\ ctxDone = FALSE
    /\ task = [t \in DOMAIN scenario.script |-> Idle]
    /\ group = [t \in DOMAIN scenario.script |-> NoGroup]
    /\ session = [name \in DOMAIN scenario.sessions |->
                    [holder |-> Nil, connected |-> FALSE, closed |-> FALSE, client |-> 0, locals |-> <<>>]]
    /\ clients = <<>> /\ matched = Nil /\ pushed = 0

\* LoadFile and the checks RunScenario makes before the first step
RunScenario ==
    /\ phase = "load"
    /\ LET s == applyDefaults(scenario)
       IN IF Validate(s)
          THEN /\ scenario' = s /\ phase' = "run" /\ task' = [task EXCEPT ![Root].pc = "step"] /\ UNCHANGED result
          ELSE phase' = "done" /\ result' = "invalid" /\ UNCHANGED <<scenario, task>>
    /\ UNCHANGED <<ctxDone, group, session, clients, matched, pushed>>

(***************************************************************************)
(* executeParallel.                                                        *)
(***************************************************************************)
Branch(t) == [Idle EXCEPT !.pc = "step", !.owner = t, !.within = task[t].within \cup {t}]

ParallelStart(t) ==
    /\ At(t, "parallel")
    /\ task' = [u \in Tasks |-> IF u = t THEN [task[t] EXCEPT !.pc = "join"]
                                ELSE IF u \in Branches(t) THEN Branch(t) ELSE task[u]]
    /\ group' = [group EXCEPT ![t] = [NoGroup EXCEPT !.total = Len(StepOf(t).branches)]]
    /\ UNCHANGED <<scenario, phase, result, ctxDone, session, clients, matched, pushed>>

\* a branch is through with its script
BranchEnd(t) ==
    /\ AtStep(t, "step") /\ t # Root /\ task[t].at > Len(scenario.script[t])
    /\ task' = [task EXCEPT ![t].pc = "done"]
    /\ UNCHANGED <<scenario, phase, result, ctxDone, group, session, clients, matched, pushed>>

\* errCh <- err
BranchFail(t) ==
    /\ AtStep(t, "fail") /\ t # Root
    /\ group' = [group EXCEPT ![task[t].owner].errs = Append(@, task[t].err)]
    /\ task' = [task EXCEPT ![t].pc = "cancel"]
    /\ UNCHANGED <<scenario, phase, result, ctxDone, session, clients, matched, pushed>>

\* cancel()
BranchCancel(t) ==
    /\ AtStep(t, "cancel")
    /\ group' = [group EXCEPT ![task[t].owner].cancelled = TRUE]
    /\ task' = [task EXCEPT ![t].pc = "done"]
    /\ UNCHANGED <<scenario, phase, result, ctxDone, session, clients, matched, pushed>>

\* Variant: the error that came last is returned.
ParallelJoinLast(t) ==
    /\ AtStep(t, "join") /\ \A u \in Branches(t) : task[u].pc = "done"
    /\ task' = Returned(t, IF group[t].errs = <<>> THEN "nil" ELSE group[t].errs[Len(group[t].errs)])
    /\ group' = [group EXCEPT ![t].cancelled = TRUE]
    /\ UNCHANGED <<scenario, phase, result, ctxDone, session, clients, matched, pushed>>

\* wg.Wait, and the first error of the channel
ParallelJoin(t) ==
    /\ AtStep(t, "join") /\ \A u \in Branches(t) : task[u].pc = "done"
    /\ task' = Returned(t, IF group[t].errs = <<>> THEN "nil" ELSE group[t].errs[1])
    /\ group' = [group EXCEPT ![t].cancelled = TRUE]
    /\ UNCHANGED <<scenario, phase, result, ctxDone, session, clients, matched, pushed>>

(***************************************************************************)
(* barrierSet.Wait.  b.mu is held by the branch that tests or is about to  *)
(* park; cond.Wait joins the list of the waiting before it unlocks.        *)
(***************************************************************************)
\* the branches of the parallel step that t is one of
Siblings(t) ==
    LET script == scenario.script[task[t].owner]
    IN UNION {BranchTasks(script[i]) : i \in {i \in DOMAIN script : t \in BranchTasks(script[i])}}
BarrierFree(t) == \A u \in Siblings(t) : task[u].pc \notin {"btest", "bpark"}
Hits(t) == LET hits == group[task[t].owner].hits IN IF StepOf(t).name \in DOMAIN hits THEN hits[StepOf(t).name] ELSE 0

\* cond.Broadcast of the barrier set t belongs to
BarrierBroadcast(t, tasks) ==
    [u \in Tasks |-> IF u \in Siblings(t) /\ tasks[u].pc = "bparked" THEN [tasks[u] EXCEPT !.pc = "block"] ELSE tasks[u]]

BarrierHit(t) ==
    /\ At(t, "barrier") /\ BarrierFree(t)
    /\ group' = [group EXCEPT ![task[t].owner].hits =
                    [name \in DOMAIN @ \cup {StepOf(t).name} |-> IF name = StepOf(t).name THEN Hits(t) + 1 ELSE @[name]]]
    /\ task' = BarrierBroadcast(t, [task EXCEPT ![t].pc = "btest", ![t].watch = TRUE])
    /\ UNCHANGED <<scenario, phase, result, ctxDone, session, clients, matched, pushed>>

\* Variant: the barrier opens for the last but one.
BarrierTestEarly(t) ==
    /\ AtStep(t, "btest")
    /\ task' = IF Hits(t) >= group[task[t].owner].total - 1 THEN Returned(t, "nil")
               ELSE IF CtxDone(t) THEN Returned(t, "canceled")
               ELSE [task EXCEPT ![t].pc = "bpark"]
    /\ UNCHANGED <<scenario, phase, result, ctxDone, group, session, clients, matched, pushed>>

\* the loop's condition, and ctx.Err()
BarrierTest(t) ==
    /\ AtStep(t, "btest")
    /\ task' = IF Hits(t) >= group[task[t].owner].total THEN Returned(t, "nil")
               ELSE IF CtxDone(t) THEN Returned(t, "canceled")
               ELSE [task EXCEPT ![t].pc = "bpark"]
    /\ UNCHANGED <<scenario, phase, result, ctxDone, group, session, clients, matched, pushed>>

BarrierPark(t) ==
    /\ AtStep(t, "bpark")
    /\ task' = [task EXCEPT ![t].pc = "bparked"]
    /\ UNCHANGED <<scenario, phase, result, ctxDone, group, session, clients, matched, pushed>>

BarrierRelock(t) ==
    /\ AtStep(t, "block") /\ BarrierFree(t)
    /\ task' = [task EXCEPT ![t].pc = "btest"]
    /\ UNCHANGED <<scenario, phase, result, ctxDone, group, session, clients, matched, pushed>>

BarrierPcs == {"btest", "bpark", "bparked", "block"}

\* Variant: the goroutine broadcasts without the lock.
BarrierWatchUnlocked(t) ==
    /\ phase = "run" /\ task[t].pc \in BarrierPcs /\ task[t].watch /\ CtxDone(t)
    /\ task' = BarrierBroadcast(t, [task EXCEPT ![t].watch = FALSE])
    /\ UNCHANGED <<scenario, phase, result, ctxDone, group, session, clients, matched, pushed>>

\* the goroutine that wakes the waiting when the context ends
BarrierWatch(t) ==
    /\ phase = "run" /\ task[t].pc \in BarrierPcs /\ task[t].watch /\ CtxDone(t) /\ BarrierFree(t)
    /\ task' = BarrierBroadcast(t, [task EXCEPT ![t].watch = FALSE])
    /\ UNCHANGED <<scenario, phase, result, ctxDone, group, session, clients, matched, pushed>>

(***************************************************************************)
(* The steps of a session run under its mutex.                             *)
(***************************************************************************)
SessionSteps == {"connect", "request", "expect_event", "sleep", "close"}

\* a sleep may name no session: the nil one is locked
LockSession(t) ==
    /\ AtStep(t, "step") /\ task[t].at <= Len(scenario.script[t]) /\ StepOf(t).step \in SessionSteps
    /\ LET name == StepOf(t).session
       IN IF name \in DOMAIN session
          THEN /\ session[name].holder = Nil
               /\ session' = [session EXCEPT ![name].holder = t]
               /\ task' = [task EXCEPT ![t].pc = "held"]
               /\ UNCHANGED phase
          ELSE phase' = "panic" /\ UNCHANGED <<session, task>>
    /\ UNCHANGED <<scenario, result, ctxDone, group, clients, matched, pushed>>

scopeVars(s) == s.locals @@ scenario.vars

\* the bindings are saved in no particular order, up to one whose path leads nowhere
saveVars(s, save, root) ==
    LET found == {name \in DOMAIN save : Lookup(root, save[name]).ok}
        saved(names) == [s EXCEPT !.locals = [name \in names |-> Lookup(root, save[name]).x] @@ @]
    IN IF found = DOMAIN save THEN {[err |-> "nil", s |-> saved(found)]}
       ELSE {[err |-> "save", s |-> saved(names)] : names \in SUBSET found}

\* the step returns err and the session is as in s, its mutex free
Leave(t, err, s) ==
    /\ task' = Returned(t, err)
    /\ session' = [session EXCEPT ![StepOf(t).session] = [s EXCEPT !.holder = Nil]]

\* what was expected came: it is saved, and the step ends
Met(t, s, expected, actual, root) ==
    /\ matched' = [expected |-> expected, actual |-> actual]
    /\ \E saved \in saveVars(s, StepOf(t).save, root) : Leave(t, saved.err, saved.s)

Session(t) == session[StepOf(t).session]
Resolved(t, value) == Resolve(value, scopeVars(Session(t)))

(***************************************************************************)
(* executeConnect.  A client whose login is not the expected one is        *)
(* closed.  One whose Connect returned the error of its context is left    *)
(* behind: its run goroutine goes on, and may log in at any time later.    *)
(* With any other error run has ended (Reconnect is false).                *)
(***************************************************************************)
\* external: what the server tells of the login
Login(user) ==
    Map("user" :> Map("node_id" :> Scalar("int64", "1") @@ "user_id" :> Scalar("int64", user))
        @@ "protocol_version" :> Str("v5")
        @@ "session_ref" :> Map("serving_node_id" :> Scalar("int64", "1") @@ "session_id" :> Str("s")))

NewClient(t, open, ok) ==
    [session |-> StepOf(t).session, open |-> open, ok |-> ok, again |-> Session(t).closed, left |-> open /\ ~ok,
     events |-> <<>>]

ConnectTwice(t) ==
    /\ Holds(t, "connect") /\ Session(t).connected
    /\ Leave(t, "state", Session(t))
    /\ UNCHANGED <<scenario, phase, result, ctxDone, group, clients, matched, pushed>>

ConnectFail(t) ==
    /\ Holds(t, "connect") /\ ~Session(t).connected
    /\ \/ Leave(t, "connect", Session(t)) /\ clients' = Append(clients, NewClient(t, FALSE, FALSE))
       \/ CtxDone(t) /\ Leave(t, "canceled", Session(t)) /\ clients' = Append(clients, NewClient(t, TRUE, FALSE))
    /\ UNCHANGED <<scenario, phase, result, ctxDone, group, matched, pushed>>

\* the run goroutine of a client that was left behind logs in, or ends, RunScenario returned or not
LateLogin(c) ==
    /\ phase # "panic" /\ clients[c].left /\ clients[c].open /\ ~clients[c].ok
    /\ \/ clients' = [clients EXCEPT ![c].ok = TRUE]
       \/ clients' = [clients EXCEPT ![c].open = FALSE]
    /\ UNCHANGED <<scenario, phase, result, ctxDone, task, group, session, matched, pushed>>

\* Variant: the client of the wrong login is left behind too.
ConnectDoneKept(t) ==
    /\ Holds(t, "connect") /\ ~Session(t).connected
    /\ \E user \in {"1", "2"} :
          LET expected == Resolved(t, Map(StepOf(t).expect.login))
              opened == [Session(t) EXCEPT !.client = Len(clients) + 1, !.connected = TRUE]
          IN IF Matches(expected, Login(user))
             THEN /\ clients' = Append(clients, NewClient(t, TRUE, TRUE))
                  /\ Met(t, opened, expected, Login(user), Map("login" :> Login(user)))
             ELSE /\ clients' = Append(clients, NewClient(t, TRUE, TRUE))
                  /\ Leave(t, "assert", Session(t)) /\ UNCHANGED matched
    /\ UNCHANGED <<scenario, phase, result, ctxDone, group, pushed>>

\* OnLogin comes before Connect returns nil
ConnectDone(t) ==
    /\ Holds(t, "connect") /\ ~Session(t).connected
    /\ \E user \in {"1", "2"} :
          LET expected == Resolved(t, Map(StepOf(t).expect.login))
              opened == [Session(t) EXCEPT !.client = Len(clients) + 1, !.connected = TRUE]
          IN IF Matches(expected, Login(user))
             THEN /\ clients' = Append(clients, NewClient(t, TRUE, TRUE))
                  /\ Met(t, opened, expected, Login(user), Map("login" :> Login(user)))
             ELSE /\ clients' = Append(clients, NewClient(t, FALSE, TRUE))
                  /\ Leave(t, "assert", Session(t)) /\ UNCHANGED matched
    /\ UNCHANGED <<scenario, phase, result, ctxDone, group, pushed>>

(***************************************************************************)
(* executeRequest.                                                         *)
(***************************************************************************)
\* external: the error the server may answer with
ServerError == [code |-> "not_found", message |-> "m"]

Calls(t) == AtStep(t, "call")

\* the request is read; the call is made with its arguments
RequestBegin(t) ==
    /\ Holds(t, "request")
    /\ \E args \in {Arguments(StepOf(t).action, m) : m \in {Resolved(t, StepOf(t).request).m}} :
          \/ ~Session(t).connected /\ Leave(t, "state", Session(t))
          \/ Session(t).connected /\ ~args.ok /\ Leave(t, "parse", Session(t))
          \/ /\ Session(t).connected /\ args.ok
             /\ task' = [task EXCEPT ![t].pc = "call", ![t].args = args.x]
             /\ UNCHANGED session
    /\ UNCHANGED <<scenario, phase, result, ctxDone, group, clients, matched, pushed>>

RequestAnswered(t) ==
    /\ Calls(t)
    /\ \E payload \in {PayloadOf(StepOf(t).action, Answer(StepOf(t).action, task[t].args))},
          expected \in {Resolved(t, Map(StepOf(t).expect.ok))} :
          IF DOMAIN StepOf(t).expect.ok = {} THEN Leave(t, "unexpected", Session(t)) /\ UNCHANGED matched
          ELSE IF Matches(expected, payload) THEN Met(t, Session(t), expected, payload, Map("ok" :> payload))
          ELSE Leave(t, "assert", Session(t)) /\ UNCHANGED matched
    /\ UNCHANGED <<scenario, phase, result, ctxDone, group, clients, pushed>>

\* an error of the server, of which the code and the text are compared if one is expected
RequestRefused(t) ==
    /\ Calls(t)
    /\ LET actual == Map("code" :> Str(ServerError.code) @@ "message" :> Str(ServerError.message))
           error == StepOf(t).expect.error
       IN IF error = Nil THEN Leave(t, "server", Session(t)) /\ UNCHANGED matched
          ELSE LET expected == Resolved(t, Map("code" :> Str(error.code) @@ "message" :> Str(error.message)))
               IN IF Matches(expected, actual) THEN Met(t, Session(t), expected, actual, Map("error" :> actual))
                  ELSE Leave(t, "assert", Session(t)) /\ UNCHANGED matched
    /\ UNCHANGED <<scenario, phase, result, ctxDone, group, clients, pushed>>

\* no answer: the request times out, the connection is gone, or the context ends
RequestLost(t) ==
    /\ Calls(t)
    /\ \E err \in {"rpc"} \cup (IF CtxDone(t) THEN {"canceled"} ELSE {}) : Leave(t, err, Session(t))
    /\ UNCHANGED <<scenario, phase, result, ctxDone, group, clients, matched, pushed>>

(***************************************************************************)
(* sleep, executeClose.                                                    *)
(***************************************************************************)
Sleep(t) ==
    /\ Holds(t, "sleep")
    /\ \E err \in {"nil"} \cup (IF CtxDone(t) THEN {"canceled"} ELSE {}) : Leave(t, err, Session(t))
    /\ UNCHANGED <<scenario, phase, result, ctxDone, group, clients, matched, pushed>>

executeClose(t) ==
    /\ Holds(t, "close")
    /\ IF ~Session(t).connected \/ Session(t).closed
       THEN Leave(t, "state", Session(t)) /\ UNCHANGED clients
       ELSE /\ clients' = [clients EXCEPT ![Session(t).client].open = FALSE]
            /\ Leave(t, "nil", [Session(t) EXCEPT !.closed = TRUE, !.connected = FALSE])
    /\ UNCHANGED <<scenario, phase, result, ctxDone, group, matched, pushed>>

(***************************************************************************)
(* executeExpectEvent and waitForEvent.  h.mu is held while the events are *)
(* scanned and until the waiting is on the list of cond.Wait.              *)
(***************************************************************************)
Handler(t) == Session(t).client
Waiter(c) == {t \in Tasks : task[t].pc \in {"escan", "epark", "eparked", "elock"} /\ Handler(t) = c}
HandlerFree(c) == \A t \in Waiter(c) : task[t].pc \notin {"escan", "epark"}
Limit(step) == IF step.timeout = "0" THEN scenario.timeout ELSE step.timeout

EventBegin(t) ==
    /\ Holds(t, "expect_event")
    /\ IF Session(t).connected
       THEN /\ task' = [task EXCEPT ![t].pc = "escan", ![t].watch = TRUE, ![t].late = (Limit(StepOf(t)) = "0")]
            /\ UNCHANGED session
       ELSE Leave(t, "state", Session(t))
    /\ UNCHANGED <<scenario, phase, result, ctxDone, group, clients, matched, pushed>>

\* the first event of the kind that matches
Matching(t, events) ==
    {i \in DOMAIN events : /\ events[i].kind = StepOf(t).event
                           /\ Matches(Resolved(t, Map(StepOf(t).match)), events[i].payload)}
RemoveAt(s, i) == SubSeq(s, 1, i - 1) \o SubSeq(s, i + 1, Len(s))

TakeEvent(t, i) ==
    LET event == clients[Handler(t)].events[i]
    IN /\ Met(t, Session(t), Resolved(t, Map(StepOf(t).match)), event.payload, event.payload)
       /\ clients' = [clients EXCEPT ![Handler(t)].events = RemoveAt(@, i)]

EventScan(t) ==
    /\ AtStep(t, "escan")
    /\ LET hits == Matching(t, clients[Handler(t)].events)
       IN IF hits # {} THEN TakeEvent(t, CHOOSE i \in hits : \A j \in hits : i <= j)
          ELSE /\ IF CtxDone(t) \/ task[t].late
                  THEN \E err \in (IF CtxDone(t) THEN {"canceled"} ELSE {}) \cup (IF task[t].late THEN {"timeout"} ELSE {}) :
                          Leave(t, err, Session(t))
                  ELSE task' = [task EXCEPT ![t].pc = "epark"] /\ UNCHANGED session
               /\ UNCHANGED <<clients, matched>>
    /\ UNCHANGED <<scenario, phase, result, ctxDone, group, pushed>>

EventPark(t) ==
    /\ AtStep(t, "epark")
    /\ task' = [task EXCEPT ![t].pc = "eparked"]
    /\ UNCHANGED <<scenario, phase, result, ctxDone, group, session, clients, matched, pushed>>

EventRelock(t) ==
    /\ AtStep(t, "elock")
    /\ task' = [task EXCEPT ![t].pc = "escan"]
    /\ UNCHANGED <<scenario, phase, result, ctxDone, group, session, clients, matched, pushed>>

\* the timeout of the step
EventTimeout(t) ==
    /\ phase = "run" /\ task[t].pc \in {"escan", "epark", "eparked", "elock"} /\ ~task[t].late
    /\ task' = [task EXCEPT ![t].late = TRUE]
    /\ UNCHANGED <<scenario, phase, result, ctxDone, group, session, clients, matched, pushed>>

EventBroadcast(c, tasks) ==
    [t \in Tasks |-> IF t \in Waiter(c) /\ tasks[t].pc = "eparked" THEN [tasks[t] EXCEPT !.pc = "elock"] ELSE tasks[t]]

\* the goroutine that wakes the waiting when the step's context ends
EventWatch(t) ==
    /\ phase = "run" /\ task[t].pc \in {"eparked", "elock"} /\ task[t].watch /\ (CtxDone(t) \/ task[t].late)
    /\ task' = EventBroadcast(Handler(t), [task EXCEPT ![t].watch = FALSE])
    /\ UNCHANGED <<scenario, phase, result, ctxDone, group, session, clients, matched, pushed>>

\* push, from OnMessage, OnPacket, OnError and OnDisconnect
push(c, event) ==
    /\ phase = "run" /\ clients[c].open /\ clients[c].ok /\ HandlerFree(c)
    /\ pushed < MaxPush /\ pushed' = pushed + 1
    /\ clients' = [clients EXCEPT ![c].events = Append(@, event)]
    /\ task' = EventBroadcast(c, task)
    /\ UNCHANGED <<scenario, phase, result, ctxDone, group, session, matched>>

(***************************************************************************)
(* The end: the deferred closeAll, in RunScenario.                         *)
(***************************************************************************)
ScriptEnd ==
    /\ \/ AtStep(Root, "step") /\ task[Root].at > Len(scenario.script[Root])
       \/ AtStep(Root, "fail")
    /\ phase' = "closing" /\ result' = task[Root].err
    /\ UNCHANGED <<scenario, ctxDone, task, group, session, clients, matched, pushed>>

\* a session that was closed once is passed over
closeAll ==
    /\ phase = "closing"
    /\ phase' = "done"
    /\ clients' = [c \in DOMAIN clients |->
                      [clients[c] EXCEPT !.open = @ /\ ~\E s \in DOMAIN session : session[s].client = c /\ ~session[s].closed]]
    /\ session' = [s \in DOMAIN session |-> [session[s] EXCEPT !.closed = TRUE, !.connected = FALSE]]
    /\ UNCHANGED <<scenario, result, ctxDone, task, group, matched, pushed>>

\* external: -timeout of the command, or the caller's cancel
CallerCancel ==
    /\ phase = "run" /\ ~ctxDone
    /\ ctxDone' = TRUE
    /\ UNCHANGED <<scenario, phase, result, task, group, session, clients, matched, pushed>>

ParallelStep(t) == ParallelStart(t) \/ BranchEnd(t) \/ BranchFail(t) \/ BranchCancel(t) \/ ParallelJoin(t)
BarrierStep(t) == BarrierHit(t) \/ BarrierTest(t) \/ BarrierPark(t) \/ BarrierRelock(t)
ConnectStep(t) == ConnectTwice(t) \/ ConnectFail(t) \/ ConnectDone(t)
RequestStep(t) == RequestBegin(t) \/ RequestAnswered(t) \/ RequestRefused(t) \/ RequestLost(t)
EventStep(t) == EventBegin(t) \/ EventScan(t) \/ EventPark(t) \/ EventRelock(t)

TaskStep(t) ==
    \/ ParallelStep(t) \/ BarrierStep(t) \/ LockSession(t)
    \/ ConnectStep(t) \/ RequestStep(t) \/ Sleep(t) \/ executeClose(t) \/ EventStep(t)

Watchers(t) == BarrierWatch(t) \/ EventWatch(t) \/ EventTimeout(t)

Next ==
    \/ RunScenario \/ ScriptEnd \/ closeAll \/ CallerCancel
    \/ \E t \in Tasks : TaskStep(t) \/ Watchers(t)
    \/ \E c \in DOMAIN clients : LateLogin(c) \/ \E event \in Pushes : push(c, event)

(***************************************************************************)
(* Go runs every goroutine that can run, timers fire, and a request ends   *)
(* with its timeout.  Connect has no timeout of its own: it is only sure   *)
(* to return once its context has ended.                                   *)
(***************************************************************************)
Certain(t) ==
    \/ ParallelStep(t) \/ BarrierStep(t) \/ LockSession(t)
    \/ CtxDone(t) /\ ConnectStep(t)
    \/ RequestStep(t) \/ Sleep(t) \/ executeClose(t) \/ EventStep(t)

AllTasks == UNION {DOMAIN s.script : s \in Scenarios}

Fairness ==
    /\ WF_vars(RunScenario \/ ScriptEnd \/ closeAll)
    /\ \A t \in AllTasks : /\ WF_vars(t \in Tasks /\ Certain(t))
                           /\ WF_vars(t \in Tasks /\ BarrierWatch(t))
                           /\ WF_vars(t \in Tasks /\ EventWatch(t))
                           /\ WF_vars(t \in Tasks /\ EventTimeout(t))

Spec == Init /\ [][Next]_vars /\ Fairness

(***************************************************************************)
(* Properties.                                                             *)
(***************************************************************************)
\* t has counted itself in at the barrier that is step j of its script
HasReached(t, j) == task[t].at > j \/ (task[t].at = j /\ task[t].pc # "step")

\* A branch is past a barrier only when every branch of its parallel step has
\* come to it: Wait returns nil only when hits[name] has reached the total.
BarrierTogether ==
    \A t \in Tasks \ {Root} : \A i \in 1..(task[t].at - 1) :
        scenario.script[t][i].step = "barrier" =>
            \A u \in Siblings(t) : \E j \in DOMAIN scenario.script[u] :
                /\ scenario.script[u][j].step = "barrier" /\ scenario.script[u][j].name = scenario.script[t][i].name
                /\ HasReached(u, j)

\* RunScenario returns the error that stopped the scenario, and not the
\* cancellation it caused in the other branches: errCh holds the cause first.
ErrorIsCause == result = "canceled" => ctxDone

\* Once RunScenario has returned, no client that has logged in is open: close,
\* a failed login assertion or closeAll has closed it.  There are two
\* exceptions, clients that nobody can close any more: the one of a session
\* that is connected again after close (closeAll still finds it closed), and
\* the one that logs in after its Connect returned the error of its context
\* (executeConnect neither keeps nor closes it).
ClosedAtEnd ==
    phase = "done" =>
        \A c \in DOMAIN clients : clients[c].ok /\ clients[c].open => clients[c].again \/ clients[c].left

\* every sleep names a session: Validate accepts one that does not, and the
\* goroutine that comes to it dereferences nil and ends the process
SleepsInSession(s) ==
    \A t \in DOMAIN s.script : \A i \in DOMAIN s.script[t] :
        s.script[t][i].step = "sleep" => s.script[t][i].session \in DOMAIN s.sessions

\* Once the caller's context has ended, or a branch has failed, RunScenario
\* returns, wherever the other branches wait: at a barrier, for an event, for
\* a session another branch holds, or in Connect.  Excepted are scenarios
\* with a sleep that names no session: those may panic instead.
StopReturns ==
    (/\ phase = "run" /\ SleepsInSession(scenario)
     /\ ctxDone \/ \E t \in Tasks : group[t].errs # <<>>) ~> phase = "done"

\* two branches meet two barriers in opposite order
Crossed(s) ==
    \E t, u \in DOMAIN s.script : \E p, q \in BarrierNames(s) :
        \E i \in BarrierAt(s, t, p), j \in BarrierAt(s, t, q), k \in BarrierAt(s, u, p), l \in BarrierAt(s, u, q) :
            i < j /\ l < k

\* A scenario that Validate accepts returns by itself, on three conditions
\* that Validate does not check: no two branches meet barriers crosswise, no
\* sleep lacks its session, and no Connect hangs.  Then no branch waits for
\* one that never comes, for an event without end or for a session that is
\* never released.
OrderlyReturns ==
    ([]<>~\E t \in Tasks : Holds(t, "connect")) =>
        ((phase = "run" /\ ~Crossed(scenario) /\ SleepsInSession(scenario)) ~> phase = "done")
=============================================================================
