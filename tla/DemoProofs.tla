----------------------------- MODULE DemoProofs -----------------------------
(***************************************************************************)
(* Proofs about the demo runner, for every tree of scenarios, every way to *)
(* match and resolve values, and any number of branches, barriers, clients *)
(* and pushes: what each step does to the tasks and to the clients of the  *)
(* sessions, that a full barrier has them all, and the theorems.           *)
(***************************************************************************)
EXTENDS DemoTreeProofs, FiniteSetTheorems

(***************************************************************************)
(* What a step does to the tasks.                                          *)
(***************************************************************************)
\* A task that moves from one place in Wait or waitForEvent to the next.
LEMMA MoveFields ==
    ASSUME TaskTypes, scenario' = scenario, NEW t \in Scripts, NEW new, task' = [task EXCEPT ![t] = new],
           DOMAIN new = TaskFields, new.at = task[t].at, new.err = task[t].err, new.owner = task[t].owner,
           new.within = task[t].within, new.pc \in Working, Frame,
           \/ task[t].pc \in BarrierPcs /\ new.pc \in BarrierPcs
           \/ task[t].pc \in SessionPcs /\ new.pc \in SessionPcs
    PROVE  Works
<1>1. /\ DOMAIN task' = Scripts /\ task'[t] = new
      /\ \A u \in Scripts : u # t => task'[u] = task[u]
    BY Zenon DEF TaskTypes
<1>2. TaskTypes'
    BY <1>1, Zenon DEF TaskTypes, Scripts, Active
<1>3. \A u \in Scripts : Same(u) \/ Stays(u)
    BY <1>1, Zenon DEF Same, Stays, Kept
<1>4. QED
    BY <1>2, <1>3, Zenon DEF Works

\* The same when the tasks that wait for what it did are woken.
LEMMA WakeFields ==
    ASSUME TaskTypes, scenario' = scenario, NEW tasks, DOMAIN task' = Scripts, Frame,
           \A u \in Scripts : Like(tasks[u], task[u]),
           \A u \in Scripts : MaybeWoken(tasks[u], task'[u])
    PROVE  Works
<1>1. ASSUME NEW u \in Scripts
      PROVE  DOMAIN task'[u] = TaskFields /\ Kept(u) /\ (Same(u) \/ Stays(u)) /\ task'[u].pc \in Active \cup {"idle", "done"}
    <2>1. CASE task'[u] = tasks[u]
        BY <2>1 DEF Kept, Same, TaskTypes, Like
    <2>2. CASE tasks[u].pc = "bparked" /\ task'[u] = [tasks[u] EXCEPT !.pc = "block"]
        BY <2>2 DEF Kept, Like, Stays, TaskFields, BarrierPcs, Active, Working
    <2>3. CASE tasks[u].pc = "eparked" /\ task'[u] = [tasks[u] EXCEPT !.pc = "elock"]
        BY <2>3 DEF Kept, Like, Stays, TaskFields, SessionPcs, Active, Working
    <2>4. QED
        BY <2>1, <2>2, <2>3, Zenon DEF MaybeWoken
<1>2. TaskTypes'
    BY <1>1, Zenon DEF TaskTypes, Scripts, Kept
<1>3. QED
    BY <1>1, <1>2, Zenon DEF Works

\* Broadcast wakes the branches that wait at a barrier.
LEMMA BarrierWakes ==
    ASSUME TaskTypes, NEW t \in Scripts, NEW tasks, Frame, task' = BarrierBroadcast(t, tasks), Tasks = Scripts,
           \A u \in Scripts : Like(tasks[u], task[u])
    PROVE  Works
<1>1. DOMAIN task' = Scripts
    BY Zenon DEF BarrierBroadcast
<1>2. ASSUME NEW u \in Scripts
      PROVE  MaybeWoken(tasks[u], task'[u])
    <2>1. task'[u] = IF u \in Siblings(t) /\ tasks[u].pc = "bparked" THEN [tasks[u] EXCEPT !.pc = "block"] ELSE tasks[u]
        BY Zenon DEF BarrierBroadcast
    <2>2. QED
        BY <2>1, Zenon DEF MaybeWoken
<1>3. scenario' = scenario
    BY Zenon DEF Frame
<1>4. QED
    BY <1>1, <1>2, <1>3, WakeFields, Zenon

\* Wait goes on, returns nil when all have come, and the context's error only when that has ended.
LEMMA BarrierShape ==
    ASSUME TaskTypes, NEW t \in Scripts, BarrierTest(t) \/ BarrierPark(t) \/ BarrierRelock(t) \/ BarrierWatch(t)
    PROVE  Works \/ Returns
<1>1. Frame
    BY Zenon DEF Frame, BarrierTest, BarrierPark, BarrierRelock, BarrierWatch, AtStep
<1>2. ASSUME NEW pc \in BarrierPcs, task' = [task EXCEPT ![t].pc = pc], task[t].pc \in BarrierPcs
      PROVE  Works
    <2> DEFINE new == [task[t] EXCEPT !.pc = pc]
    <2>1. task' = [task EXCEPT ![t] = new]
        BY <1>2
    <2>2. /\ DOMAIN new = TaskFields /\ new.at = task[t].at /\ new.err = task[t].err /\ new.owner = task[t].owner
          /\ new.within = task[t].within /\ new.pc = pc
        BY DEF TaskTypes, TaskFields
    <2> HIDE DEF new
    <2>3. new.pc \in Working /\ scenario' = scenario
        BY <2>2, <1>1, Zenon DEF Working, Frame
    <2>4. QED
        BY <1>1, <1>2, <2>1, <2>2, <2>3, MoveFields, Zenon
<1>3. CASE BarrierTest(t)
    <2>1. task[t].pc = "btest" /\ task[t].pc \in BarrierPcs /\ task[t].pc \in Working
        BY <1>3, Zenon DEF BarrierTest, AtStep, BarrierPcs, Working
    <2>2. CASE Hits(t) >= group[task[t].owner].total
        <3>1. task' = Returned(t, "nil")
            BY <1>3, <2>2, Zenon DEF BarrierTest
        <3>2. QED
            BY <1>1, <2>1, <2>2, <3>1, Zenon DEF Returns, Errors
    <2>3. CASE ~(Hits(t) >= group[task[t].owner].total) /\ CtxDone(t)
        <3>1. task' = Returned(t, "canceled")
            BY <1>3, <2>3, Zenon DEF BarrierTest
        <3>2. QED
            BY <1>1, <2>1, <2>3, <3>1, Zenon DEF Returns, Errors
    <2>4. CASE ~(Hits(t) >= group[task[t].owner].total) /\ ~CtxDone(t)
        BY <1>2, <1>3, <2>1, <2>4, Zenon DEF BarrierTest, BarrierPcs
    <2>5. QED
        BY <2>2, <2>3, <2>4, Zenon
<1>4. CASE BarrierPark(t)
    BY <1>2, <1>4, Zenon DEF BarrierPark, AtStep, BarrierPcs
<1>5. CASE BarrierRelock(t)
    BY <1>2, <1>5, Zenon DEF BarrierRelock, AtStep, BarrierPcs
<1>6. CASE BarrierWatch(t)
    <2> DEFINE tasks == [task EXCEPT ![t].watch = FALSE]
    <2>1. /\ DOMAIN tasks = Scripts
          /\ \A u \in Scripts : Like(tasks[u], task[u])
        BY DEF TaskTypes, TaskFields, Like
    <2> HIDE DEF tasks
    <2>2. task' = BarrierBroadcast(t, tasks) /\ Tasks = Scripts
        BY <1>6, Zenon DEF BarrierWatch, Tasks, TaskTypes, tasks
    <2>3. QED
        BY <1>1, <2>1, <2>2, BarrierWakes, Zenon
<1>7. QED
    BY <1>3, <1>4, <1>5, <1>6, Zenon

\* A step that returns frees the session.
LEMMA LeaveShape ==
    ASSUME NEW t \in Scripts, NEW err \in Errors, NEW s, Leave(t, err, s), phase = "run",
           UNCHANGED <<scenario, phase, result, ctxDone, group>>, task[t].pc \in SessionPcs, err = "canceled" => CtxDone(t)
    PROVE  Returns
<1>1. DOMAIN session' = DOMAIN session /\ task' = Returned(t, err)
    BY Zenon DEF Leave
<1>2. task[t].pc \in Working /\ task[t].pc \notin BarrierPcs
    BY DEF Working, SessionPcs, BarrierPcs
<1>3. QED
    BY <1>1, <1>2, Zenon DEF Returns, Frame

\* So does one whose expectation was met: it returns nil or the error of saveVars.
LEMMA MetShape ==
    ASSUME NEW t \in Scripts, NEW s, NEW expected, NEW actual, NEW root, Met(t, s, expected, actual, root), phase = "run",
           UNCHANGED <<scenario, phase, result, ctxDone, group>>, task[t].pc \in SessionPcs
    PROVE  Returns
<1>1. PICK saved \in saveVars(s, StepOf(t).save, root) : Leave(t, saved.err, saved.s)
    BY Zenon DEF Met
<1>2. saved.err = "nil" \/ saved.err = "save"
    <2> DEFINE save == StepOf(t).save
               found == {name \in DOMAIN save : Lookup(root, save[name]).ok}
               kept(names) == [s EXCEPT !.locals = [name \in names |-> Lookup(root, save[name]).x] @@ @]
    <2>1. saved \in IF found = DOMAIN save THEN {[err |-> "nil", s |-> kept(found)]}
                     ELSE {[err |-> "save", s |-> kept(names)] : names \in SUBSET found}
        BY <1>1, Zenon DEF saveVars
    <2> HIDE DEF kept, found
    <2>2. QED
        BY <2>1
<1>3. saved.err \in Errors /\ saved.err # "canceled"
    BY <1>2 DEF Errors
<1>4. QED
    BY <1>1, <1>3, LeaveShape, Zenon

\* Connect, a sleep, a close and the answers to a request each return.
LEMMA ReturnShape ==
    ASSUME NEW t \in Scripts,
           \/ ConnectTwice(t) \/ ConnectFail(t) \/ ConnectDone(t) \/ RequestAnswered(t) \/ RequestRefused(t) \/ RequestLost(t)
           \/ Sleep(t) \/ executeClose(t)
    PROVE  Returns
<1> DEFINE F == phase = "run" /\ UNCHANGED <<scenario, phase, result, ctxDone, group>> /\ task[t].pc \in SessionPcs
<1>1. ASSUME F, NEW err, NEW s, Leave(t, err, s), err \in Errors \ {"canceled"} \/ (err = "canceled" /\ CtxDone(t))
      PROVE  Returns
    <2>1. err \in Errors /\ (err = "canceled" => CtxDone(t))
        BY <1>1, Zenon DEF Errors
    <2>2. QED
        BY <1>1, <2>1, LeaveShape, Zenon
<1>2. ASSUME F, NEW s, NEW expected, NEW actual, NEW root, Met(t, s, expected, actual, root)
      PROVE  Returns
    BY <1>2, MetShape, Zenon
<1>3. /\ "state" \in Errors \ {"canceled"} /\ "connect" \in Errors \ {"canceled"} /\ "assert" \in Errors \ {"canceled"}
      /\ "unexpected" \in Errors \ {"canceled"} /\ "server" \in Errors \ {"canceled"} /\ "rpc" \in Errors \ {"canceled"}
      /\ "nil" \in Errors \ {"canceled"}
    BY DEF Errors
<1>4. ASSUME NEW ok \in Errors \ {"canceled"}, F,
             \E err \in {ok} \cup (IF CtxDone(t) THEN {"canceled"} ELSE {}) : Leave(t, err, Session(t))
      PROVE  Returns
    <2>1. PICK err \in {ok} \cup (IF CtxDone(t) THEN {"canceled"} ELSE {}) : Leave(t, err, Session(t))
        BY <1>4, Zenon
    <2>2. err = ok \/ (err = "canceled" /\ CtxDone(t))
        BY <2>1, Zenon
    <2>3. QED
        BY <1>1, <1>4, <2>1, <2>2, Zenon
<1>5. CASE ConnectTwice(t)
    <2>1. F /\ Leave(t, "state", Session(t))
        BY <1>5, Zenon DEF ConnectTwice, Holds, AtStep, SessionPcs
    <2>2. QED
        BY <1>1, <1>3, <2>1, Zenon
<1>6. CASE ConnectFail(t)
    <2>1. F /\ (Leave(t, "connect", Session(t)) \/ (CtxDone(t) /\ Leave(t, "canceled", Session(t))))
        BY <1>6, Zenon DEF ConnectFail, Holds, AtStep, SessionPcs
    <2>2. QED
        BY <1>1, <1>3, <2>1, Zenon
<1>7. CASE ConnectDone(t)
    <2>1. F
        BY <1>7, Zenon DEF ConnectDone, Holds, AtStep, SessionPcs
    <2>2. \/ \E s, expected, actual, root : Met(t, s, expected, actual, root)
          \/ Leave(t, "assert", Session(t))
        BY <1>7, Zenon DEF ConnectDone
    <2>3. QED
        BY <1>1, <1>2, <1>3, <2>1, <2>2, Zenon
<1>8. CASE RequestAnswered(t)
    <2>1. F
        BY <1>8, Zenon DEF RequestAnswered, Calls, AtStep, SessionPcs
    <2>2. \/ \E s, expected, actual, root : Met(t, s, expected, actual, root)
          \/ Leave(t, "assert", Session(t))
          \/ Leave(t, "unexpected", Session(t))
        BY <1>8, Zenon DEF RequestAnswered
    <2>3. QED
        BY <1>1, <1>2, <1>3, <2>1, <2>2, Zenon
<1>9. CASE RequestRefused(t)
    <2>1. F
        BY <1>9, Zenon DEF RequestRefused, Calls, AtStep, SessionPcs
    <2>2. \/ \E s, expected, actual, root : Met(t, s, expected, actual, root)
          \/ Leave(t, "assert", Session(t))
          \/ Leave(t, "server", Session(t))
        BY <1>9, Zenon DEF RequestRefused
    <2>3. QED
        BY <1>1, <1>2, <1>3, <2>1, <2>2, Zenon
<1>10. CASE RequestLost(t)
    <2>1. F /\ \E err \in {"rpc"} \cup (IF CtxDone(t) THEN {"canceled"} ELSE {}) : Leave(t, err, Session(t))
        BY <1>10, Zenon DEF RequestLost, Calls, AtStep, SessionPcs
    <2>2. QED
        BY <1>4, <1>3, <2>1, Zenon
<1>11. CASE Sleep(t)
    <2>1. F /\ \E err \in {"nil"} \cup (IF CtxDone(t) THEN {"canceled"} ELSE {}) : Leave(t, err, Session(t))
        BY <1>11, Zenon DEF Sleep, Holds, AtStep, SessionPcs
    <2>2. QED
        BY <1>4, <1>3, <2>1, Zenon
<1>12. CASE executeClose(t)
    <2>1. F
        BY <1>12, Zenon DEF executeClose, Holds, AtStep, SessionPcs
    <2>2. \/ Leave(t, "state", Session(t))
          \/ \E s : Leave(t, "nil", s)
        BY <1>12, Zenon DEF executeClose
    <2>3. QED
        BY <1>1, <1>3, <2>1, <2>2, Zenon
<1>13. QED
    BY <1>5, <1>6, <1>7, <1>8, <1>9, <1>10, <1>11, <1>12, Zenon

\* A push, the timeout and the end of the context wake the branch that waits for an event.
LEMMA EventWakes ==
    ASSUME TaskTypes, NEW c, NEW tasks, Frame, task' = EventBroadcast(c, tasks), Tasks = Scripts,
           \A u \in Scripts : Like(tasks[u], task[u])
    PROVE  Works
<1>1. DOMAIN task' = Scripts
    BY Zenon DEF EventBroadcast
<1>2. ASSUME NEW u \in Scripts
      PROVE  MaybeWoken(tasks[u], task'[u])
    <2>1. task'[u] = IF u \in Waiter(c) /\ tasks[u].pc = "eparked" THEN [tasks[u] EXCEPT !.pc = "elock"] ELSE tasks[u]
        BY Zenon DEF EventBroadcast
    <2>2. QED
        BY <2>1, Zenon DEF MaybeWoken
<1>3. scenario' = scenario
    BY Zenon DEF Frame
<1>4. QED
    BY <1>1, <1>2, <1>3, WakeFields, Zenon

\* A request that is sent and a wait for an event go on, or return.
LEMMA EventShape ==
    ASSUME TaskTypes, NEW t \in Scripts,
           \/ RequestBegin(t) \/ EventBegin(t) \/ EventScan(t) \/ EventPark(t) \/ EventRelock(t) \/ EventTimeout(t)
           \/ EventWatch(t)
    PROVE  Works \/ Returns
<1> DEFINE F == phase = "run" /\ UNCHANGED <<scenario, phase, result, ctxDone, group>> /\ task[t].pc \in SessionPcs
<1>1. F
    BY Zenon DEF RequestBegin, EventBegin, EventScan, EventPark, EventRelock, EventTimeout, EventWatch, Holds, AtStep, SessionPcs
<1>2. ASSUME NEW err, NEW s, Leave(t, err, s), err \in Errors \ {"canceled"} \/ (err = "canceled" /\ CtxDone(t))
      PROVE  Returns
    <2>1. err \in Errors /\ (err = "canceled" => CtxDone(t))
        BY <1>2, Zenon DEF Errors
    <2>2. QED
        BY <1>1, <1>2, <2>1, LeaveShape, Zenon
<1>3. /\ "state" \in Errors \ {"canceled"} /\ "parse" \in Errors \ {"canceled"} /\ "timeout" \in Errors \ {"canceled"}
    BY DEF Errors
<1>4. ASSUME NEW new, task' = [task EXCEPT ![t] = new], UNCHANGED session, Like([new EXCEPT !.pc = task[t].pc], task[t]),
             DOMAIN new = TaskFields, new.pc \in SessionPcs
      PROVE  Works
    <2>1. /\ new.at = task[t].at /\ new.err = task[t].err /\ new.owner = task[t].owner
          /\ new.within = task[t].within
        BY <1>4 DEF Like, TaskFields
    <2>2. Frame /\ scenario' = scenario /\ new.pc \in Working
        BY <1>1, <1>4, Zenon DEF Frame, Working
    <2>3. QED
        BY <1>1, <1>4, <2>1, <2>2, MoveFields, Zenon
<1>5. ASSUME NEW pc \in SessionPcs, task' = [task EXCEPT ![t].pc = pc], UNCHANGED session
      PROVE  Works
    <2> DEFINE new == [task[t] EXCEPT !.pc = pc]
    <2>1. task' = [task EXCEPT ![t] = new]
        BY <1>5
    <2>2. DOMAIN new = TaskFields /\ new.pc = pc /\ Like([new EXCEPT !.pc = task[t].pc], task[t])
        BY DEF TaskTypes, TaskFields, Like
    <2> HIDE DEF new
    <2>3. QED
        BY <1>4, <1>5, <2>1, <2>2, Zenon
<1>6. CASE RequestBegin(t)
    <2>1. \/ Leave(t, "state", Session(t)) \/ Leave(t, "parse", Session(t))
          \/ \E args : task' = [task EXCEPT ![t].pc = "call", ![t].args = args.x] /\ UNCHANGED session
        BY <1>6, Zenon DEF RequestBegin
    <2>2. ASSUME NEW args, task' = [task EXCEPT ![t].pc = "call", ![t].args = args.x], UNCHANGED session
          PROVE  Works
        <3> DEFINE new == [task[t] EXCEPT !.pc = "call", !.args = args.x]
        <3>1. task' = [task EXCEPT ![t] = new]
            BY <2>2 DEF TaskTypes
        <3>2. DOMAIN new = TaskFields /\ new.pc = "call" /\ Like([new EXCEPT !.pc = task[t].pc], task[t])
            BY DEF TaskTypes, TaskFields, Like
        <3> HIDE DEF new
        <3>3. new.pc \in SessionPcs
            BY <3>2 DEF SessionPcs
        <3>4. QED
            BY <1>4, <2>2, <3>1, <3>2, <3>3, Zenon
    <2>3. QED
        BY <1>2, <1>3, <2>1, <2>2, Zenon
<1>7. CASE EventBegin(t)
    <2>1. CASE ~Session(t).connected
        <3>1. Leave(t, "state", Session(t))
            BY <1>7, <2>1, Zenon DEF EventBegin
        <3>2. QED
            BY <1>2, <1>3, <3>1, Zenon
    <2>2. CASE Session(t).connected
        <3> DEFINE new == [task[t] EXCEPT !.pc = "escan", !.watch = TRUE, !.late = (Limit(StepOf(t)) = "0")]
        <3>1. task' = [task EXCEPT ![t] = new] /\ UNCHANGED session
            BY <1>7, <2>2 DEF EventBegin, TaskTypes
        <3>2. DOMAIN new = TaskFields /\ new.pc = "escan" /\ Like([new EXCEPT !.pc = task[t].pc], task[t])
            BY DEF TaskTypes, TaskFields, Like
        <3> HIDE DEF new
        <3>3. new.pc \in SessionPcs
            BY <3>2 DEF SessionPcs
        <3>4. QED
            BY <1>4, <3>1, <3>2, <3>3, Zenon
    <2>3. QED
        BY <2>1, <2>2
<1>8. CASE EventScan(t)
    <2>1. \/ \E s, expected, actual, root : Met(t, s, expected, actual, root)
          \/ \E err \in (IF CtxDone(t) THEN {"canceled"} ELSE {}) \cup (IF task[t].late THEN {"timeout"} ELSE {}) :
                Leave(t, err, Session(t))
          \/ task' = [task EXCEPT ![t].pc = "epark"] /\ UNCHANGED session
        BY <1>8, Zenon DEF EventScan, TakeEvent
    <2>2. ASSUME NEW err \in (IF CtxDone(t) THEN {"canceled"} ELSE {}) \cup (IF task[t].late THEN {"timeout"} ELSE {})
          PROVE  err = "timeout" \/ (err = "canceled" /\ CtxDone(t))
        BY <2>2, Zenon
    <2>3. "epark" \in SessionPcs
        BY DEF SessionPcs
    <2>4. CASE \E s, expected, actual, root : Met(t, s, expected, actual, root)
        BY <1>1, <2>4, MetShape, Zenon
    <2>5. QED
        BY <1>2, <1>3, <1>5, <2>1, <2>2, <2>3, <2>4, Zenon
<1>9. CASE EventPark(t)
    BY <1>5, <1>9, Zenon DEF EventPark, SessionPcs
<1>10. CASE EventRelock(t)
    BY <1>5, <1>10, Zenon DEF EventRelock, SessionPcs
<1>11. CASE EventTimeout(t)
    <2> DEFINE new == [task[t] EXCEPT !.late = TRUE]
    <2>1. task' = [task EXCEPT ![t] = new] /\ UNCHANGED session
        BY <1>11 DEF EventTimeout
    <2>2. DOMAIN new = TaskFields /\ new.pc = task[t].pc /\ Like([new EXCEPT !.pc = task[t].pc], task[t])
        BY DEF TaskTypes, TaskFields, Like
    <2> HIDE DEF new
    <2>3. QED
        BY <1>1, <1>4, <2>1, <2>2, Zenon
<1>12. CASE EventWatch(t)
    <2> DEFINE tasks == [task EXCEPT ![t].watch = FALSE]
    <2>1. \A u \in Scripts : Like(tasks[u], task[u])
        BY DEF TaskTypes, TaskFields, Like
    <2> HIDE DEF tasks
    <2>2. task' = EventBroadcast(Handler(t), tasks) /\ Tasks = Scripts /\ Frame
        BY <1>1, <1>12, Zenon DEF EventWatch, Tasks, TaskTypes, tasks, Frame
    <2>3. QED
        BY <2>1, <2>2, EventWakes, Zenon
<1>13. QED
    BY <1>6, <1>7, <1>8, <1>9, <1>10, <1>11, <1>12, Zenon

\* A push wakes who waits for it.
LEMMA PushShape ==
    ASSUME TaskTypes, NEW c, NEW event, push(c, event)
    PROVE  Works
<1>1. \A u \in Scripts : Like(task[u], task[u])
    BY Zenon DEF TaskTypes, Like
<1>2. task' = EventBroadcast(c, task) /\ Tasks = Scripts /\ Frame
    BY Zenon DEF push, Tasks, TaskTypes, Frame
<1>3. QED
    BY <1>1, <1>2, EventWakes, Zenon

\* A task that has the mutex of its session is at a step of that session.
LEMMA LockShape ==
    ASSUME TaskTypes, NEW t \in Scripts, LockSession(t)
    PROVE  Works \/ Panics
<1>1. CASE StepOf(t).session \notin DOMAIN session
    BY <1>1, Zenon DEF LockSession, Panics
<1>2. CASE StepOf(t).session \in DOMAIN session
    <2> DEFINE new == [task[t] EXCEPT !.pc = "held"]
    <2>1. task' = [task EXCEPT ![t] = new] /\ DOMAIN session' = DOMAIN session /\ phase' = phase
        BY <1>2 DEF LockSession
    <2>2. DOMAIN new = TaskFields /\ new.pc = "held" /\ Like([new EXCEPT !.pc = task[t].pc], task[t])
        BY DEF TaskTypes, TaskFields, Like
    <2>3. /\ new.at = task[t].at /\ new.err = task[t].err /\ new.owner = task[t].owner /\ new.within = task[t].within
        BY DEF TaskTypes, TaskFields
    <2> HIDE DEF new
    <2>4. /\ DOMAIN task' = Scripts /\ task'[t] = new
          /\ \A u \in Scripts : u # t => task'[u] = task[u]
        BY <2>1, Zenon DEF TaskTypes
    <2>5. Frame
        BY <2>1, Zenon DEF LockSession, Frame, AtStep
    <2>6. TaskTypes'
        <3>1. new.pc \in Active
            BY <2>2 DEF Active, Working, SessionPcs
        <3>2. Scripts' = Scripts /\ DOMAIN new = TaskFields
            BY <2>2, <2>5, Zenon DEF Scripts, Frame
        <3>3. /\ new.at \in Nat \ {0} /\ new.err \in Errors /\ new.owner \in Scripts /\ new.within \subseteq Scripts
            BY <2>3, Zenon DEF TaskTypes
        <3>4. QED
            BY <2>4, <3>1, <3>2, <3>3, Zenon DEF TaskTypes
    <2>7. Locks(t)
        BY <1>2, <2>2, <2>3, <2>4, Zenon DEF Locks, Kept, LockSession, AtStep
    <2>8. \A u \in Scripts : u # t => Same(u)
        BY <2>4, Zenon DEF Same, Kept
    <2>9. QED
        BY <2>5, <2>6, <2>7, <2>8, Zenon DEF Works
<1>3. QED
    BY <1>1, <1>2

\* What a step of RunScenario and its goroutines is, for the proofs.
LEMMA StepShape ==
    ASSUME TaskTypes, [Next]_vars
    PROVE  \/ RunScenario \/ ScriptEnd \/ closeAll \/ CallerCancel \/ Panics \/ Works \/ Returns
           \/ \E t \in Scripts : Forks(t)
           \/ Idles
<1>1. Tasks = Scripts
    BY Zenon DEF Tasks, TaskTypes
<1>2. CASE RunScenario \/ ScriptEnd \/ closeAll \/ CallerCancel \/ UNCHANGED vars
    BY <1>2, Zenon DEF Idles, vars
<1>3. ASSUME NEW t \in Scripts, TaskStep(t)
      PROVE  Forks(t) \/ Works \/ Returns \/ Panics
    <2>1. CASE ParallelStep(t)
        BY <2>1, Zenon DEF ParallelStep, Forks
    <2>2. CASE BarrierStep(t)
        BY <2>2, BarrierShape, Zenon DEF BarrierStep, Forks
    <2>3. CASE LockSession(t)
        BY <2>3, LockShape, Zenon
    <2>4. CASE ConnectStep(t) \/ Sleep(t) \/ executeClose(t)
        BY <2>4, ReturnShape, Zenon DEF ConnectStep
    <2>5. CASE RequestStep(t)
        BY <2>5, ReturnShape, EventShape, Zenon DEF RequestStep
    <2>6. CASE EventStep(t)
        BY <2>6, EventShape, Zenon DEF EventStep
    <2>7. QED
        BY <1>3, <2>1, <2>2, <2>3, <2>4, <2>5, <2>6, Zenon DEF TaskStep
<1>4. ASSUME NEW t \in Scripts, Watchers(t)
      PROVE  Works \/ Returns
    BY <1>4, BarrierShape, EventShape, Zenon DEF Watchers
<1>5. ASSUME NEW c \in DOMAIN clients, NEW event \in Pushes, push(c, event)
      PROVE  Works
    BY <1>5, PushShape, Zenon
<1>6. ASSUME NEW c, LateLogin(c)
      PROVE  Idles
    BY <1>6, Zenon DEF LateLogin, Idles
<1>7. QED
    BY <1>1, <1>2, <1>3, <1>4, <1>5, <1>6, Zenon DEF Next

\* applyDefaults leaves the scripts and the sessions alone.
LEMMA DefaultsKeep ==
    ASSUME NEW s, IsTree(s)
    PROVE  LET d == applyDefaults(s) IN d.script = s.script /\ d.sessions = s.sessions /\ IsTree(d)
<1> DEFINE d == applyDefaults(s)
<1>1. {"script", "sessions"} \subseteq DOMAIN s
    BY Zenon DEF IsTree
<1>2. d.script = s.script /\ d.sessions = s.sessions /\ DOMAIN d = DOMAIN s
    BY <1>1 DEF applyDefaults
<1> HIDE DEF d
<1>3. IsTree(d)
    BY <1>1, <1>2 DEF IsTree
<1>4. QED
    BY <1>2, <1>3, Zenon DEF d

(***************************************************************************)
(* Clients.                                                                *)
(***************************************************************************)
\* What Append and EXCEPT do to the list of the clients.
LEMMA Lists ==
    ASSUME NEW q, IsSequence(q), NEW x
    PROVE  /\ Len(q) \in Nat /\ DOMAIN q = 1..Len(q)
           /\ IsSequence(Append(q, x)) /\ DOMAIN Append(q, x) = DOMAIN q \cup {Len(q) + 1} /\ Append(q, x)[Len(q) + 1] = x
           /\ \A i \in DOMAIN q : Append(q, x)[i] = q[i] /\ i # Len(q) + 1
           /\ \A c : /\ IsSequence([q EXCEPT ![c] = x]) /\ DOMAIN [q EXCEPT ![c] = x] = DOMAIN q
                     /\ \A i \in DOMAIN q : [q EXCEPT ![c] = x][i] = IF i = c THEN x ELSE q[i]
<1> DEFINE T == {q[i] : i \in DOMAIN q}
           a == Append(q, x)
<1>1. q \in Seq(T)
    BY DEF IsSequence
<1>2. Len(q) \in Nat /\ DOMAIN q = 1..Len(q)
    BY <1>1
<1>3. /\ a \in Seq(T \cup {x}) /\ Len(a) = Len(q) + 1 /\ a[Len(q) + 1] = x
      /\ \A i \in DOMAIN q : a[i] = q[i]
    BY <1>1
<1> HIDE DEF a
<1>4. DOMAIN a = DOMAIN q \cup {Len(q) + 1} /\ \A i \in DOMAIN q : i # Len(q) + 1
    BY <1>2, <1>3
<1>5. ASSUME NEW r, NEW n \in Nat, DOMAIN r = 1..n, NEW U, r \in Seq(U)
      PROVE  IsSequence(r)
    <2>1. r = [i \in 1..n |-> r[i]]
        BY <1>5
    <2>2. r \in [1..n -> {r[i] : i \in DOMAIN r}]
        BY <1>5, <2>1
    <2>3. QED
        BY <2>2 DEF IsSequence
<1>6. IsSequence(a)
    <2>1. Len(a) \in Nat /\ DOMAIN a = 1..Len(a)
        BY <1>3
    <2>2. QED
        BY <1>3, <1>5, <2>1, Zenon
<1>7. ASSUME NEW c
      PROVE  /\ IsSequence([q EXCEPT ![c] = x]) /\ DOMAIN [q EXCEPT ![c] = x] = DOMAIN q
             /\ \A i \in DOMAIN q : [q EXCEPT ![c] = x][i] = IF i = c THEN x ELSE q[i]
    <2> DEFINE e == [q EXCEPT ![c] = x]
    <2>1. DOMAIN e = DOMAIN q /\ \A i \in DOMAIN q : e[i] = IF i = c THEN x ELSE q[i]
        BY <1>1
    <2>2. e = [i \in 1..Len(q) |-> IF i = c THEN x ELSE q[i]]
        BY <1>2, Zenon
    <2>3. IsSequence(e)
        <3>1. e \in [1..Len(q) -> T \cup {x}]
            BY <1>2, <2>2, Zenon
        <3>2. e \in Seq(T \cup {x})
            BY <1>2, <3>1
        <3>3. QED
            BY <1>2, <1>5, <2>1, <3>2, Zenon
    <2>4. QED
        BY <2>1, <2>3, Zenon
<1>8. QED
    BY <1>2, <1>3, <1>4, <1>6, <1>7, Zenon DEF a

SessionKept(n) ==
    /\ DOMAIN session'[n] = SessionFields /\ session'[n].client = session[n].client
    /\ session'[n].connected = session[n].connected /\ session'[n].closed = session[n].closed
ClientKept(c) ==
    /\ DOMAIN clients'[c] = ClientFields /\ clients'[c].session = clients[c].session /\ clients'[c].ok = clients[c].ok
    /\ clients'[c].open = clients[c].open /\ clients'[c].again = clients[c].again /\ clients'[c].left = clients[c].left
SessionsKept == DOMAIN session' = Sessions /\ \A n \in Sessions : SessionKept(n)
ClientsKept == IsSequence(clients') /\ DOMAIN clients' = DOMAIN clients /\ \A c \in DOMAIN clients : ClientKept(c)

\* sessions and clients are as they were, but for the mutex, the variables and the events
Calm == SessionsKept /\ ClientsKept

\* Then what is known of the clients stays.
LEMMA CalmInv ==
    ASSUME SessionTypes, ClientInv, Calm, phase # "done", phase' # "done", scenario'.sessions = scenario.sessions
    PROVE  SessionTypes' /\ ClientInv'
<1>1. Sessions' = Sessions
    BY Zenon DEF Sessions
<1>2. DOMAIN session' = Sessions /\ IsSequence(clients') /\ DOMAIN clients' = DOMAIN clients
    BY Zenon DEF Calm, SessionsKept, ClientsKept
<1>3. \A n \in Sessions : SessionKept(n)
    BY Zenon DEF Calm, SessionsKept
<1>4. \A c \in DOMAIN clients : ClientKept(c)
    BY Zenon DEF Calm, ClientsKept
<1>5. SessionTypes'
    BY <1>1, <1>2, <1>3, <1>4, Zenon DEF SessionTypes, SessionKept, ClientKept
<1>6. ASSUME NEW n \in Sessions, session'[n].client # 0, ~session'[n].closed
      PROVE  session'[n].connected
    BY <1>3, <1>6, Zenon DEF SessionKept, ClientInv
<1>7. ASSUME NEW c \in DOMAIN clients, clients'[c].ok, clients'[c].open, ~clients'[c].again, ~clients'[c].left
      PROVE  (session[clients[c].session].client = c /\ ~session[clients[c].session].closed)'
    <2>1. ClientKept(c) /\ clients[c].session \in Sessions
        BY <1>4, Zenon DEF SessionTypes
    <2>2. session[clients[c].session].client = c /\ ~session[clients[c].session].closed
        BY <1>7, <2>1, Zenon DEF ClientKept, ClientInv
    <2>3. SessionKept(clients[c].session)
        BY <1>3, <2>1, Zenon
    <2>4. QED
        BY <2>1, <2>2, <2>3, Zenon DEF ClientKept, SessionKept
<1>8. QED
    BY <1>1, <1>2, <1>5, <1>6, <1>7, Zenon DEF ClientInv

\* the session of a step is left with the client, the connection and the state of s
Left(n, s) ==
    /\ DOMAIN session' = Sessions /\ \A m \in Sessions : m # n => SessionKept(m)
    /\ DOMAIN session'[n] = SessionFields /\ session'[n].client = s.client
    /\ session'[n].connected = s.connected /\ session'[n].closed = s.closed

\* Leave frees the mutex and changes no other session.
LEMMA LeaveSession ==
    ASSUME SessionTypes, NEW t, StepOf(t).session \in Sessions, NEW err, NEW s, DOMAIN s = SessionFields, Leave(t, err, s)
    PROVE  Left(StepOf(t).session, s)
<1> DEFINE n == StepOf(t).session
           new == [s EXCEPT !.holder = Nil]
<1>1. session' = [session EXCEPT ![n] = new]
    BY Zenon DEF Leave
<1>2. DOMAIN new = SessionFields /\ new.client = s.client /\ new.connected = s.connected /\ new.closed = s.closed
    BY DEF SessionFields
<1> HIDE DEF new
<1>3. DOMAIN session' = Sessions /\ session'[n] = new /\ \A m \in Sessions : m # n => session'[m] = session[m]
    BY <1>1, Zenon DEF SessionTypes
<1>4. QED
    BY <1>2, <1>3, Zenon DEF Left, SessionKept, SessionTypes

\* saveVars changes the variables only.
LEMMA MetSession ==
    ASSUME SessionTypes, NEW t, StepOf(t).session \in Sessions, NEW s, DOMAIN s = SessionFields,
           NEW expected, NEW actual, NEW root, Met(t, s, expected, actual, root)
    PROVE  Left(StepOf(t).session, s)
<1>1. PICK saved \in saveVars(s, StepOf(t).save, root) : Leave(t, saved.err, saved.s)
    BY Zenon DEF Met
<1>2. DOMAIN saved.s = SessionFields /\ saved.s.client = s.client /\ saved.s.connected = s.connected /\ saved.s.closed = s.closed
    <2> DEFINE save == StepOf(t).save
               found == {name \in DOMAIN save : Lookup(root, save[name]).ok}
               kept(names) == [s EXCEPT !.locals = [name \in names |-> Lookup(root, save[name]).x] @@ @]
    <2>1. saved \in IF found = DOMAIN save THEN {[err |-> "nil", s |-> kept(found)]}
                     ELSE {[err |-> "save", s |-> kept(names)] : names \in SUBSET found}
        BY <1>1, Zenon DEF saveVars
    <2>2. \A names : /\ DOMAIN kept(names) = SessionFields /\ kept(names).client = s.client
                     /\ kept(names).connected = s.connected /\ kept(names).closed = s.closed
        BY DEF SessionFields
    <2> HIDE DEF kept, found
    <2>3. \E names : saved.s = kept(names)
        BY <2>1
    <2>4. QED
        BY <2>2, <2>3, Zenon
<1>3. Left(StepOf(t).session, saved.s)
    BY <1>1, <1>2, LeaveSession, Zenon
<1>4. QED
    BY <1>2, <1>3, Zenon DEF Left

\* Nothing is calmer than a step that touches neither.
LEMMA UntouchedCalm ==
    ASSUME SessionTypes
    PROVE  /\ session' = session => SessionsKept
           /\ clients' = clients => ClientsKept
BY Zenon DEF SessionTypes, SessionsKept, ClientsKept, SessionKept, ClientKept

\* Nor is one that leaves the session as it found it.
LEMMA LeftCalm ==
    ASSUME SessionTypes, NEW t, StepOf(t).session \in Sessions,
           \/ \E err : Leave(t, err, Session(t))
           \/ \E expected, actual, root : Met(t, Session(t), expected, actual, root)
    PROVE  SessionsKept
<1> DEFINE n == StepOf(t).session
<1>1. Session(t) = session[n] /\ DOMAIN Session(t) = SessionFields
    BY Zenon DEF Session, SessionTypes
<1>2. Left(n, Session(t))
    BY <1>1, LeaveSession, MetSession, Zenon
<1>3. SessionKept(n)
    BY <1>1, <1>2, Zenon DEF Left, SessionKept
<1>4. QED
    BY <1>2, <1>3, Zenon DEF Left, SessionsKept

\* Events that come and go leave a client what it was.
LEMMA EventsCalm ==
    ASSUME SessionTypes, NEW c, NEW events, c \in DOMAIN clients => clients' = [clients EXCEPT ![c] = [clients[c] EXCEPT !.events = events]],
           c \notin DOMAIN clients => clients' = clients
    PROVE  ClientsKept
<1>1. CASE c \notin DOMAIN clients
    BY <1>1, UntouchedCalm, Zenon
<1>2. CASE c \in DOMAIN clients
    <2> DEFINE r == [clients[c] EXCEPT !.events = events]
    <2>1. DOMAIN clients[c] = ClientFields
        BY <1>2, Zenon DEF SessionTypes
    <2>2. /\ DOMAIN r = ClientFields /\ r.session = clients[c].session /\ r.ok = clients[c].ok /\ r.open = clients[c].open
          /\ r.again = clients[c].again /\ r.left = clients[c].left
        BY <2>1 DEF ClientFields
    <2> HIDE DEF r
    <2>3. clients' = [clients EXCEPT ![c] = r] /\ IsSequence(clients)
        BY <1>2, Zenon DEF r, SessionTypes
    <2>4. IsSequence(clients') /\ DOMAIN clients' = DOMAIN clients /\ \A i \in DOMAIN clients : clients'[i] = IF i = c THEN r ELSE clients[i]
        BY <2>3, Lists, Zenon
    <2>5. ASSUME NEW i \in DOMAIN clients
          PROVE  ClientKept(i)
        <3>1. CASE i = c
            BY <2>2, <2>4, <3>1, Zenon DEF ClientKept
        <3>2. CASE i # c
            BY <2>4, <3>2, Zenon DEF ClientKept, SessionTypes
        <3>3. QED
            BY <3>1, <3>2
    <2>6. QED
        BY <2>4, <2>5, Zenon DEF ClientsKept
<1>3. QED
    BY <1>1, <1>2

\* The clients after NewClient: the others are what they were.
LEMMA NewClientFields ==
    ASSUME SessionTypes, NEW t, StepOf(t).session \in Sessions, NEW open, NEW ok, clients' = Append(clients, NewClient(t, open, ok))
    PROVE  LET c == Len(clients) + 1 IN
           /\ IsSequence(clients') /\ DOMAIN clients' = DOMAIN clients \cup {c} /\ c # 0
           /\ \A i \in DOMAIN clients : i # c /\ ClientKept(i) /\ i # 0
           /\ DOMAIN clients'[c] = ClientFields /\ clients'[c].session = StepOf(t).session /\ clients'[c].open = open
           /\ clients'[c].ok = ok /\ clients'[c].again = Session(t).closed /\ clients'[c].left = (open /\ ~ok)
<1> DEFINE r == NewClient(t, open, ok)
           c == Len(clients) + 1
<1>1. /\ DOMAIN r = ClientFields /\ r.session = StepOf(t).session /\ r.open = open /\ r.ok = ok /\ r.again = Session(t).closed
      /\ r.left = (open /\ ~ok)
    BY DEF NewClient, ClientFields
<1> HIDE DEF r
<1>2. clients' = Append(clients, r) /\ IsSequence(clients)
    BY Zenon DEF SessionTypes, r
<1>3. /\ Len(clients) \in Nat /\ DOMAIN clients = 1..Len(clients)
      /\ IsSequence(clients') /\ DOMAIN clients' = DOMAIN clients \cup {c} /\ clients'[c] = r
      /\ \A i \in DOMAIN clients : clients'[i] = clients[i] /\ i # c
    <2> DEFINE q == Append(clients, r)
    <2>1. Len(clients) \in Nat /\ DOMAIN clients = 1..Len(clients)
        BY <1>2, Lists, Zenon
    <2>2. IsSequence(q) /\ DOMAIN q = DOMAIN clients \cup {c} /\ q[c] = r
        BY <1>2, Lists, Zenon
    <2>3. \A i \in DOMAIN clients : q[i] = clients[i] /\ i # c
        BY <1>2, Lists, Zenon
    <2>4. q = clients'
        BY <1>2, Zenon
    <2> HIDE DEF q
    <2>5. QED
        BY <2>1, <2>2, <2>3, <2>4, Zenon
<1>4. c # 0 /\ \A i \in DOMAIN clients : i # 0
    BY <1>3
<1>5. ASSUME NEW i \in DOMAIN clients
      PROVE  ClientKept(i)
    BY <1>3, Zenon DEF ClientKept, SessionTypes
<1>6. QED
    BY <1>1, <1>3, <1>4, <1>5, Zenon

\* A client that did not log in, or was closed at once, is nobody's.
LEMMA StrayClient ==
    ASSUME SessionTypes, ClientInv, SessionsKept, scenario' = scenario, NEW t, StepOf(t).session \in Sessions, NEW open, NEW ok,
           clients' = Append(clients, NewClient(t, open, ok)), ~open \/ ~ok
    PROVE  SessionTypes' /\ ClientInv'
<1> DEFINE c == Len(clients) + 1
<1>1. /\ IsSequence(clients') /\ DOMAIN clients' = DOMAIN clients \cup {c} /\ c # 0
      /\ \A i \in DOMAIN clients : i # c /\ ClientKept(i) /\ i # 0
      /\ DOMAIN clients'[c] = ClientFields /\ clients'[c].session = StepOf(t).session /\ clients'[c].open = open
      /\ clients'[c].ok = ok
    BY NewClientFields, Zenon
<1> HIDE DEF c
<1>2. Sessions' = Sessions /\ DOMAIN session' = Sessions /\ \A n \in Sessions : SessionKept(n)
    BY Zenon DEF Sessions, SessionsKept
<1>3. SessionTypes'
    BY <1>1, <1>2, Zenon DEF SessionTypes, SessionKept, ClientKept
<1>4. ASSUME NEW n \in Sessions, session'[n].client # 0, ~session'[n].closed
      PROVE  session'[n].connected
    BY <1>2, <1>4, Zenon DEF SessionKept, ClientInv
<1>5. ASSUME NEW i \in DOMAIN clients', clients'[i].ok, clients'[i].open, ~clients'[i].again, ~clients'[i].left
      PROVE  (session[clients[i].session].client = i /\ ~session[clients[i].session].closed)'
    <2>1. i \in DOMAIN clients
        BY <1>1, <1>5, Zenon
    <2>2. ClientKept(i) /\ clients[i].session \in Sessions
        BY <1>1, <2>1, Zenon DEF SessionTypes
    <2>3. session[clients[i].session].client = i /\ ~session[clients[i].session].closed
        BY <1>5, <2>1, <2>2, Zenon DEF ClientKept, ClientInv
    <2>4. SessionKept(clients[i].session)
        BY <1>2, <2>2, Zenon
    <2>5. QED
        BY <2>2, <2>3, <2>4, Zenon DEF ClientKept, SessionKept
<1>6. QED
    BY <1>2, <1>3, <1>4, <1>5, Zenon DEF ClientInv

\* A session that has no connection has no open client but one it was given
\* after close: the client of a new login is its only one.
LEMMA LoggedIn ==
    ASSUME SessionTypes, ClientInv, scenario' = scenario, NEW t, StepOf(t).session \in Sessions, ~Session(t).connected,
           clients' = Append(clients, NewClient(t, TRUE, TRUE)),
           Left(StepOf(t).session, [Session(t) EXCEPT !.client = Len(clients) + 1, !.connected = TRUE])
    PROVE  SessionTypes' /\ ClientInv'
<1> DEFINE c == Len(clients) + 1
           n == StepOf(t).session
           s == [Session(t) EXCEPT !.client = c, !.connected = TRUE]
<1>1. /\ IsSequence(clients') /\ DOMAIN clients' = DOMAIN clients \cup {c} /\ c # 0
      /\ \A i \in DOMAIN clients : i # c /\ ClientKept(i) /\ i # 0
      /\ DOMAIN clients'[c] = ClientFields /\ clients'[c].session = n /\ clients'[c].again = Session(t).closed
    BY NewClientFields, Zenon
<1>2. Session(t) = session[n] /\ DOMAIN session[n] = SessionFields
    BY Zenon DEF Session, SessionTypes
<1>3. s.client = c /\ s.connected = TRUE /\ s.closed = session[n].closed
    BY <1>2 DEF SessionFields
<1>4. /\ Sessions' = Sessions /\ DOMAIN session' = Sessions /\ \A m \in Sessions : m # n => SessionKept(m)
      /\ DOMAIN session'[n] = SessionFields /\ session'[n].client = c /\ session'[n].connected = TRUE
      /\ session'[n].closed = session[n].closed
    BY <1>3, Zenon DEF Left, Sessions
<1> HIDE DEF c, s
<1>5. SessionTypes'
    BY <1>1, <1>4, Zenon DEF SessionTypes, SessionKept, ClientKept
<1>6. ASSUME NEW m \in Sessions, session'[m].client # 0, ~session'[m].closed
      PROVE  session'[m].connected
    <2>1. CASE m = n
        BY <1>4, <2>1, Zenon
    <2>2. CASE m # n
        BY <1>4, <1>6, <2>2, Zenon DEF SessionKept, ClientInv
    <2>3. QED
        BY <2>1, <2>2
<1>7. ASSUME NEW i \in DOMAIN clients', clients'[i].ok, clients'[i].open, ~clients'[i].again, ~clients'[i].left
      PROVE  (session[clients[i].session].client = i /\ ~session[clients[i].session].closed)'
    <2>1. CASE i = c
        BY <1>1, <1>2, <1>4, <1>7, <2>1, Zenon
    <2>2. CASE i # c
        <3>1. i \in DOMAIN clients /\ ClientKept(i) /\ clients[i].session \in Sessions /\ i # 0
            BY <1>1, <2>2, Zenon DEF SessionTypes
        <3>2. session[clients[i].session].client = i /\ ~session[clients[i].session].closed
            BY <1>7, <3>1, Zenon DEF ClientKept, ClientInv
        <3>3. clients[i].session # n
            BY <1>2, <3>1, <3>2, Zenon DEF ClientInv
        <3>4. SessionKept(clients[i].session)
            BY <1>4, <3>1, <3>3, Zenon
        <3>5. QED
            BY <3>1, <3>2, <3>4, Zenon DEF ClientKept, SessionKept
    <2>3. QED
        BY <2>1, <2>2
<1>8. QED
    BY <1>4, <1>5, <1>6, <1>7, Zenon DEF ClientInv

\* close closes the client its session has.
LEMMA ClosedOne ==
    ASSUME SessionTypes, ClientInv, scenario' = scenario, NEW t, StepOf(t).session \in Sessions,
           clients' = [clients EXCEPT ![Session(t).client].open = FALSE],
           Left(StepOf(t).session, [Session(t) EXCEPT !.closed = TRUE, !.connected = FALSE])
    PROVE  SessionTypes' /\ ClientInv'
<1> DEFINE n == StepOf(t).session
           s == [Session(t) EXCEPT !.closed = TRUE, !.connected = FALSE]
           k == Session(t).client
           r == [clients[k] EXCEPT !.open = FALSE]
<1>1. Session(t) = session[n] /\ DOMAIN session[n] = SessionFields
    BY Zenon DEF Session, SessionTypes
<1>2. s.client = k /\ s.closed = TRUE
    BY <1>1 DEF SessionFields
<1>3. /\ Sessions' = Sessions /\ DOMAIN session' = Sessions /\ \A m \in Sessions : m # n => SessionKept(m)
      /\ DOMAIN session'[n] = SessionFields /\ session'[n].client = k /\ session'[n].closed = TRUE
    BY <1>2, Zenon DEF Left, Sessions
<1>4. clients' = [clients EXCEPT ![k] = r] /\ IsSequence(clients)
    BY DEF SessionTypes
<1>5. k \in DOMAIN clients => /\ DOMAIN r = ClientFields /\ r.session = clients[k].session /\ r.ok = clients[k].ok
                              /\ r.open = FALSE /\ r.again = clients[k].again /\ r.left = clients[k].left
    BY DEF SessionTypes, ClientFields
<1> HIDE DEF r, s, k
<1>6. /\ IsSequence(clients') /\ DOMAIN clients' = DOMAIN clients
      /\ \A i \in DOMAIN clients : clients'[i] = IF i = k THEN r ELSE clients[i]
    <2> DEFINE q == [clients EXCEPT ![k] = r]
    <2>1. IsSequence(q) /\ DOMAIN q = DOMAIN clients
        BY <1>4, Lists, Zenon
    <2>2. \A i \in DOMAIN clients : q[i] = IF i = k THEN r ELSE clients[i]
        BY <1>4, Lists, Zenon
    <2>3. q = clients'
        BY <1>4, Zenon
    <2> HIDE DEF q
    <2>4. QED
        BY <2>1, <2>2, <2>3, Zenon
<1>7. ASSUME NEW i \in DOMAIN clients
      PROVE  /\ DOMAIN clients'[i] = ClientFields /\ clients'[i].session = clients[i].session /\ clients[i].session \in Sessions
             /\ clients'[i].open => i # k /\ ClientKept(i)
    <2>1. CASE i = k
        BY <1>5, <1>6, <2>1, Zenon DEF SessionTypes
    <2>2. CASE i # k
        BY <1>6, <2>2, Zenon DEF ClientKept, SessionTypes
    <2>3. QED
        BY <2>1, <2>2
<1>8. SessionTypes'
    <2>1. ASSUME NEW m \in Sessions
          PROVE  DOMAIN session'[m] = SessionFields
        BY <1>3, Zenon DEF SessionKept
    <2>2. ASSUME NEW i \in DOMAIN clients
          PROVE  DOMAIN clients'[i] = ClientFields /\ clients'[i].session \in Sessions
        <3>1. DOMAIN clients'[i] = ClientFields /\ clients'[i].session = clients[i].session /\ clients[i].session \in Sessions
            BY <1>7, Zenon
        <3>2. QED
            BY <3>1, Zenon
    <2>3. Sessions' = Sessions /\ DOMAIN session' = Sessions /\ IsSequence(clients') /\ DOMAIN clients' = DOMAIN clients
        BY <1>3, <1>6, Zenon
    <2>4. QED
        BY <2>1, <2>2, <2>3, Zenon DEF SessionTypes
<1>9. ASSUME NEW m \in Sessions, session'[m].client # 0, ~session'[m].closed
      PROVE  session'[m].connected
    <2>1. m # n
        BY <1>3, <1>9, Zenon
    <2>2. QED
        BY <1>3, <1>9, <2>1, Zenon DEF SessionKept, ClientInv
<1>10. ASSUME NEW i \in DOMAIN clients, clients'[i].ok, clients'[i].open, ~clients'[i].again, ~clients'[i].left
      PROVE  (session[clients[i].session].client = i /\ ~session[clients[i].session].closed)'
    <2>1. i # k /\ ClientKept(i) /\ clients[i].session \in Sessions
        BY <1>7, <1>10, Zenon
    <2>2. session[clients[i].session].client = i /\ ~session[clients[i].session].closed
        BY <1>10, <2>1, Zenon DEF ClientKept, ClientInv
    <2>3. clients[i].session # n
        BY <1>1, <2>1, <2>2, Zenon DEF k
    <2>4. SessionKept(clients[i].session)
        BY <1>3, <2>1, <2>3, Zenon
    <2>5. QED
        BY <2>1, <2>2, <2>4, Zenon DEF ClientKept, SessionKept
<1>11. QED
    BY <1>3, <1>6, <1>8, <1>9, <1>10, Zenon DEF ClientInv

\* A task that holds a session has a step of that session.
LEMMA AtSession ==
    ASSUME SessionTypes, PcInv, NEW t \in Scripts, task[t].pc \in SessionPcs
    PROVE  StepOf(t).session \in Sessions
BY Zenon DEF PcInv, Pc, SessionTypes

\* What is known of the clients after a step that is calm.
LEMMA CalmStep ==
    ASSUME SessionTypes, ClientInv, SessionsKept, ClientsKept, phase = "run", phase' = phase, scenario' = scenario
    PROVE  SessionTypes' /\ ClientInv'
<1>1. phase # "done" /\ phase' # "done"
    OBVIOUS
<1>2. QED
    BY <1>1, CalmInv, Zenon DEF Calm

\* LockSession takes the mutex, and that is all it does to the session.
LEMMA LockClients ==
    ASSUME SessionTypes, ClientInv, NEW t, LockSession(t), phase' # "panic"
    PROVE  SessionTypes' /\ ClientInv'
<1> DEFINE n == StepOf(t).session
           new == [session[n] EXCEPT !.holder = t]
<1>1. n \in Sessions /\ clients' = clients /\ phase = "run" /\ phase' = phase /\ scenario' = scenario
    BY Zenon DEF LockSession, AtStep, SessionTypes
<1>2. session' = [session EXCEPT ![n] = new]
    BY <1>1 DEF LockSession, SessionTypes
<1>3. DOMAIN session = Sessions /\ DOMAIN session[n] = SessionFields
    BY <1>1, Zenon DEF SessionTypes
<1>4. /\ DOMAIN new = SessionFields /\ new.connected = session[n].connected /\ new.closed = session[n].closed
      /\ new.client = session[n].client
    BY <1>3 DEF SessionFields
<1> HIDE DEF new
<1>5. DOMAIN session' = Sessions /\ session'[n] = new /\ \A m \in Sessions : m # n => session'[m] = session[m]
    BY <1>1, <1>2, <1>3, Zenon
<1>6. ASSUME NEW m \in Sessions
      PROVE  SessionKept(m)
    <2>1. CASE m = n
        BY <1>4, <1>5, <2>1, Zenon DEF SessionKept
    <2>2. CASE m # n
        BY <1>5, <2>2, Zenon DEF SessionKept, SessionTypes
    <2>3. QED
        BY <2>1, <2>2
<1>7. SessionsKept
    BY <1>5, <1>6, Zenon DEF SessionsKept
<1>8. QED
    BY <1>1, <1>7, UntouchedCalm, CalmStep, Zenon

\* executeConnect gives the session at most one client that is open.
LEMMA ConnectClients ==
    ASSUME SessionTypes, ClientInv, PcInv, NEW t \in Scripts, ConnectStep(t)
    PROVE  SessionTypes' /\ ClientInv'
<1>1. StepOf(t).session \in Sessions /\ phase = "run" /\ phase' = phase /\ scenario' = scenario
    <2>1. task[t].pc = "held" /\ phase = "run" /\ phase' = phase /\ scenario' = scenario
        BY Zenon DEF ConnectStep, ConnectTwice, ConnectFail, ConnectDone, Holds, AtStep
    <2>2. task[t].pc \in SessionPcs
        BY <2>1 DEF SessionPcs
    <2>3. QED
        BY <2>1, <2>2, AtSession, Zenon
<1>2. CASE ConnectTwice(t)
    <2>1. SessionsKept /\ clients' = clients
        BY <1>1, <1>2, LeftCalm, Zenon DEF ConnectTwice
    <2>2. QED
        BY <1>1, <2>1, UntouchedCalm, CalmStep, Zenon
<1>3. CASE ConnectFail(t)
    <2>1. SessionsKept /\ \E open \in BOOLEAN : clients' = Append(clients, NewClient(t, open, FALSE))
        BY <1>1, <1>3, LeftCalm, Zenon DEF ConnectFail
    <2>2. QED
        BY <1>1, <2>1, StrayClient, Zenon
<1>4. CASE ConnectDone(t)
    <2> DEFINE opened == [Session(t) EXCEPT !.client = Len(clients) + 1, !.connected = TRUE]
               expected == Resolved(t, Map(StepOf(t).expect.login))
    <2>1. DOMAIN opened = SessionFields
        BY <1>1 DEF SessionTypes, Session
    <2>2. PICK user \in {"1", "2"} :
             IF Matches(expected, Login(user))
             THEN /\ clients' = Append(clients, NewClient(t, TRUE, TRUE))
                  /\ Met(t, opened, expected, Login(user), Map("login" :> Login(user)))
             ELSE /\ clients' = Append(clients, NewClient(t, FALSE, TRUE))
                  /\ Leave(t, "assert", Session(t))
        BY <1>4, Zenon DEF ConnectDone
    <2>3. ~Session(t).connected
        BY <1>4, Zenon DEF ConnectDone
    <2> HIDE DEF expected
    <2>4. CASE Matches(expected, Login(user))
        <3>1. Left(StepOf(t).session, opened)
            <4> HIDE DEF opened
            <4>1. Met(t, opened, expected, Login(user), Map("login" :> Login(user)))
                BY <2>2, <2>4, Zenon
            <4>2. QED
                BY <1>1, <2>1, <4>1, MetSession, Zenon
        <3>2. QED
            BY <1>1, <2>2, <2>3, <2>4, <3>1, LoggedIn, Zenon
    <2>5. CASE ~Matches(expected, Login(user))
        <3>1. SessionsKept
            BY <1>1, <2>2, <2>5, LeftCalm, Zenon
        <3>2. clients' = Append(clients, NewClient(t, FALSE, TRUE))
            BY <2>2, <2>5, Zenon
        <3>3. QED
            BY <1>1, <3>1, <3>2, StrayClient, Zenon
    <2>6. QED
        BY <2>4, <2>5
<1>5. QED
    BY <1>2, <1>3, <1>4, Zenon DEF ConnectStep

\* A request leaves the clients alone, and so does a sleep.
LEMMA RequestClients ==
    ASSUME SessionTypes, ClientInv, PcInv, NEW t \in Scripts, RequestStep(t) \/ Sleep(t)
    PROVE  SessionTypes' /\ ClientInv'
<1>1. StepOf(t).session \in Sessions /\ phase = "run" /\ phase' = phase /\ scenario' = scenario /\ clients' = clients
    <2>1. /\ task[t].pc \in {"held", "call"} /\ phase = "run" /\ phase' = phase /\ scenario' = scenario
          /\ clients' = clients
        BY Zenon DEF RequestStep, RequestBegin, RequestAnswered, RequestRefused, RequestLost, Sleep, Calls, Holds, AtStep
    <2>2. task[t].pc \in SessionPcs
        BY <2>1 DEF SessionPcs
    <2>3. QED
        BY <2>1, <2>2, AtSession, Zenon
<1>2. \/ session' = session
      \/ \E err : Leave(t, err, Session(t))
      \/ \E expected, actual, root : Met(t, Session(t), expected, actual, root)
    <2>1. CASE RequestBegin(t)
        BY <2>1, Zenon DEF RequestBegin
    <2>2. CASE RequestAnswered(t)
        BY <2>2, Zenon DEF RequestAnswered
    <2>3. CASE RequestRefused(t)
        BY <2>3, Zenon DEF RequestRefused
    <2>4. CASE RequestLost(t)
        BY <2>4, Zenon DEF RequestLost
    <2>5. CASE Sleep(t)
        BY <2>5, Zenon DEF Sleep
    <2>6. QED
        BY <2>1, <2>2, <2>3, <2>4, <2>5, Zenon DEF RequestStep
<1>3. SessionsKept
    BY <1>1, <1>2, LeftCalm, UntouchedCalm, Zenon
<1>4. QED
    BY <1>1, <1>3, UntouchedCalm, CalmStep, Zenon

\* executeClose closes the client of its session, or nothing.
LEMMA CloseClients ==
    ASSUME SessionTypes, ClientInv, PcInv, NEW t \in Scripts, executeClose(t)
    PROVE  SessionTypes' /\ ClientInv'
<1> DEFINE s == [Session(t) EXCEPT !.closed = TRUE, !.connected = FALSE]
<1>1. StepOf(t).session \in Sessions /\ phase = "run" /\ phase' = phase /\ scenario' = scenario
    <2>1. task[t].pc = "held" /\ phase = "run" /\ phase' = phase /\ scenario' = scenario
        BY Zenon DEF executeClose, Holds, AtStep
    <2>2. task[t].pc \in SessionPcs
        BY <2>1 DEF SessionPcs
    <2>3. QED
        BY <2>1, <2>2, AtSession, Zenon
<1>2. CASE Leave(t, "state", Session(t)) /\ UNCHANGED clients
    <2>1. SessionsKept
        BY <1>1, <1>2, LeftCalm, Zenon
    <2>2. QED
        BY <1>1, <1>2, <2>1, UntouchedCalm, CalmStep, Zenon
<1>3. CASE clients' = [clients EXCEPT ![Session(t).client].open = FALSE] /\ Leave(t, "nil", s)
    <2>1. DOMAIN s = SessionFields
        BY <1>1 DEF SessionTypes, Session
    <2>2. Left(StepOf(t).session, s)
        <3> HIDE DEF s
        <3>1. QED
            BY <1>1, <1>3, <2>1, LeaveSession, Zenon
    <2>3. QED
        BY <1>1, <1>3, <2>2, ClosedOne, Zenon
<1>4. QED
    BY <1>2, <1>3, Zenon DEF executeClose

\* Waiting for an event takes at most an event away.
LEMMA EventClients ==
    ASSUME SessionTypes, ClientInv, PcInv, NEW t \in Scripts, EventStep(t)
    PROVE  SessionTypes' /\ ClientInv'
<1>1. StepOf(t).session \in Sessions /\ phase = "run" /\ phase' = phase /\ scenario' = scenario
    <2>1. task[t].pc \in {"held", "escan", "epark", "elock"} /\ phase = "run" /\ phase' = phase /\ scenario' = scenario
        BY Zenon DEF EventStep, EventBegin, EventScan, EventPark, EventRelock, Holds, AtStep
    <2>2. task[t].pc \in SessionPcs
        BY <2>1 DEF SessionPcs
    <2>3. QED
        BY <2>1, <2>2, AtSession, Zenon
<1>2. CASE EventPark(t) \/ EventRelock(t)
    <2>1. session' = session /\ clients' = clients
        BY <1>2, Zenon DEF EventPark, EventRelock
    <2>2. QED
        BY <1>1, <2>1, UntouchedCalm, CalmStep, Zenon
<1>3. CASE EventBegin(t)
    <2>1. clients' = clients /\ (session' = session \/ Leave(t, "state", Session(t)))
        BY <1>3, Zenon DEF EventBegin
    <2>2. SessionsKept
        BY <1>1, <2>1, LeftCalm, UntouchedCalm, Zenon
    <2>3. QED
        BY <1>1, <2>1, <2>2, UntouchedCalm, CalmStep, Zenon
<1>4. CASE EventScan(t)
    <2>1. \/ \E i : TakeEvent(t, i)
          \/ (\E err : Leave(t, err, Session(t))) /\ clients' = clients
          \/ session' = session /\ clients' = clients
        BY <1>4, Zenon DEF EventScan
    <2>2. CASE session' = session /\ clients' = clients
        BY <1>1, <2>2, UntouchedCalm, CalmStep, Zenon
    <2>3. CASE (\E err : Leave(t, err, Session(t))) /\ clients' = clients
        <3>1. SessionsKept
            BY <1>1, <2>3, LeftCalm, Zenon
        <3>2. QED
            BY <1>1, <2>3, <3>1, UntouchedCalm, CalmStep, Zenon
    <2>4. ASSUME NEW i, TakeEvent(t, i)
          PROVE  SessionTypes' /\ ClientInv'
        <3> DEFINE c == Handler(t)
                   events == RemoveAt(clients[c].events, i)
        <3>1. SessionsKept
            BY <1>1, <2>4, LeftCalm, Zenon DEF TakeEvent
        <3>2. clients' = [clients EXCEPT ![c].events = RemoveAt(@, i)]
            BY <2>4, Zenon DEF TakeEvent
        <3>3. /\ c \in DOMAIN clients => clients' = [clients EXCEPT ![c] = [clients[c] EXCEPT !.events = events]]
              /\ c \notin DOMAIN clients => clients' = clients
            <4> HIDE DEF c
            <4>1. IsSequence(clients) /\ (c \in DOMAIN clients => DOMAIN clients[c] = ClientFields)
                BY Zenon DEF SessionTypes
            <4>2. QED
                BY <3>2, <4>1 DEF IsSequence, ClientFields
        <3> HIDE DEF c, events
        <3>4. ClientsKept
            BY <3>3, EventsCalm, Zenon
        <3>5. QED
            BY <1>1, <3>1, <3>4, CalmStep, Zenon
    <2>5. QED
        BY <2>1, <2>2, <2>3, <2>4, Zenon
<1>5. QED
    BY <1>2, <1>3, <1>4, Zenon DEF EventStep

\* push adds an event.
LEMMA PushClients ==
    ASSUME SessionTypes, ClientInv, NEW c \in DOMAIN clients, NEW event, push(c, event)
    PROVE  SessionTypes' /\ ClientInv'
<1> DEFINE events == Append(clients[c].events, event)
<1>1. phase = "run" /\ phase' = phase /\ scenario' = scenario /\ session' = session
    BY Zenon DEF push
<1>2. clients' = [clients EXCEPT ![c] = [clients[c] EXCEPT !.events = events]]
    BY DEF push, SessionTypes
<1> HIDE DEF events
<1>3. ClientsKept
    BY <1>2, EventsCalm, Zenon
<1>4. QED
    BY <1>1, <1>3, UntouchedCalm, CalmStep, Zenon

\* A late login, or its end, changes one client, and that is one that was left behind.
LEMMA LateFields ==
    ASSUME \A i \in DOMAIN clients : DOMAIN clients[i] = ClientFields, NEW c \in DOMAIN clients, LateLogin(c)
    PROVE  /\ DOMAIN clients' = DOMAIN clients /\ (IsSequence(clients) => IsSequence(clients'))
           /\ \A i \in DOMAIN clients :
                 /\ DOMAIN clients'[i] = ClientFields /\ clients'[i].session = clients[i].session
                 /\ clients'[i].left \/ clients'[i] = clients[i]
<1>1. PICK r \in {[clients[c] EXCEPT !.ok = TRUE], [clients[c] EXCEPT !.open = FALSE]} : clients' = [clients EXCEPT ![c] = r]
    BY DEF LateLogin
<1>2. DOMAIN clients[c] = ClientFields /\ clients[c].left
    BY Zenon DEF LateLogin
<1>3. DOMAIN r = ClientFields /\ r.session = clients[c].session /\ r.left = clients[c].left
    BY <1>1, <1>2 DEF ClientFields
<1>4. DOMAIN clients' = DOMAIN clients /\ clients'[c] = r /\ \A i \in DOMAIN clients : i # c => clients'[i] = clients[i]
    BY <1>1, Zenon
<1>5. IsSequence(clients) => IsSequence(clients')
    BY <1>1, Lists, Zenon
<1>6. QED
    BY <1>2, <1>3, <1>4, <1>5, Zenon

\* The clients of the sessions are what they were.
LEMMA LateClients ==
    ASSUME SessionTypes, ClientInv, NEW c \in DOMAIN clients, LateLogin(c)
    PROVE  SessionTypes' /\ ClientInv'
<1>1. scenario' = scenario /\ session' = session /\ Sessions' = Sessions
    BY Zenon DEF LateLogin, Sessions
<1>2. /\ DOMAIN clients' = DOMAIN clients /\ IsSequence(clients')
      /\ \A i \in DOMAIN clients :
            /\ DOMAIN clients'[i] = ClientFields /\ clients'[i].session = clients[i].session
            /\ clients'[i].left \/ clients'[i] = clients[i]
    BY LateFields, Zenon DEF SessionTypes
<1>3. SessionTypes'
    BY <1>1, <1>2, Zenon DEF SessionTypes
<1>4. ASSUME NEW i \in DOMAIN clients, clients'[i].ok, clients'[i].open, ~clients'[i].again, ~clients'[i].left
      PROVE  (session[clients[i].session].client = i /\ ~session[clients[i].session].closed)'
    <2>1. clients'[i] = clients[i]
        BY <1>2, <1>4, Zenon
    <2>2. session[clients[i].session].client = i /\ ~session[clients[i].session].closed
        BY <1>4, <2>1, Zenon DEF ClientInv
    <2>3. QED
        BY <1>1, <2>1, <2>2, Zenon
<1>5. \A n \in Sessions : session'[n].client # 0 /\ ~session'[n].closed => session'[n].connected
    BY <1>1, Zenon DEF ClientInv
<1>6. QED
    BY <1>1, <1>2, <1>3, <1>4, <1>5, Zenon DEF ClientInv

\* No step of a task, and none of the goroutines that wake one, changes a
\* client in a way that is not accounted for.
LEMMA TaskClients ==
    ASSUME SessionTypes, ClientInv, PcInv, NEW t \in Scripts, TaskStep(t) \/ Watchers(t)
    PROVE  SessionTypes' /\ ClientInv' /\ phase' \in {"run", "panic"}
<1>1. CASE ParallelStep(t) \/ BarrierStep(t) \/ Watchers(t)
    <2>1. CASE ParallelStep(t)
        <3>1. phase = "run" /\ phase' = phase /\ scenario' = scenario /\ session' = session /\ clients' = clients
            BY <2>1, Zenon DEF ParallelStep, ParallelStart, BranchEnd, BranchFail, BranchCancel, ParallelJoin, At, AtStep
        <3>2. QED
            BY <3>1, UntouchedCalm, CalmStep, Zenon
    <2>2. CASE BarrierStep(t)
        <3>1. phase = "run" /\ phase' = phase /\ scenario' = scenario /\ session' = session /\ clients' = clients
            BY <2>2, Zenon DEF BarrierStep, BarrierHit, BarrierTest, BarrierPark, BarrierRelock, At, AtStep
        <3>2. QED
            BY <3>1, UntouchedCalm, CalmStep, Zenon
    <2>3. CASE Watchers(t)
        <3>1. phase = "run" /\ phase' = phase /\ scenario' = scenario /\ session' = session /\ clients' = clients
            BY <2>3, Zenon DEF Watchers, BarrierWatch, EventWatch, EventTimeout
        <3>2. QED
            BY <3>1, UntouchedCalm, CalmStep, Zenon
    <2>4. QED
        BY <1>1, <2>1, <2>2, <2>3
<1>2. CASE LockSession(t)
    <2>1. phase' = "run" \/ (phase' = "panic" /\ session' = session /\ clients' = clients /\ scenario' = scenario)
        BY <1>2, Zenon DEF LockSession, AtStep
    <2>2. CASE phase' = "run"
        BY <1>2, <2>2, LockClients, Zenon
    <2>3. CASE phase' = "panic" /\ session' = session /\ clients' = clients /\ scenario' = scenario
        <3>1. phase # "done" /\ phase' # "done"
            BY <1>2, <2>3 DEF LockSession, AtStep
        <3>2. QED
            BY <2>3, <3>1, UntouchedCalm, CalmInv, Zenon DEF Calm
    <2>4. QED
        BY <2>1, <2>2, <2>3
<1>3. CASE ConnectStep(t)
    <2>1. phase' = "run"
        BY <1>3, Zenon DEF ConnectStep, ConnectTwice, ConnectFail, ConnectDone, Holds, AtStep
    <2>2. QED
        BY <1>3, <2>1, ConnectClients, Zenon
<1>4. CASE RequestStep(t) \/ Sleep(t)
    <2>1. phase' = "run"
        BY <1>4, Zenon DEF RequestStep, RequestBegin, RequestAnswered, RequestRefused, RequestLost, Sleep, Calls, Holds, AtStep
    <2>2. QED
        BY <1>4, <2>1, RequestClients, Zenon
<1>5. CASE executeClose(t)
    <2>1. phase' = "run"
        BY <1>5, Zenon DEF executeClose, Holds, AtStep
    <2>2. QED
        BY <1>5, <2>1, CloseClients, Zenon
<1>6. CASE EventStep(t)
    <2>1. phase' = "run"
        BY <1>6, Zenon DEF EventStep, EventBegin, EventScan, EventPark, EventRelock, Holds, AtStep
    <2>2. QED
        BY <1>6, <2>1, EventClients, Zenon
<1>7. QED
    BY <1>1, <1>2, <1>3, <1>4, <1>5, <1>6, Zenon DEF TaskStep

\* closeAll closes the client of every session that was not closed before.
LEMMA CloseAllClients ==
    ASSUME SessionTypes, ClientInv, closeAll
    PROVE  ClosedAtEnd' /\ \A c \in DOMAIN clients' : DOMAIN clients'[c] = ClientFields
<1>1. /\ DOMAIN clients' = DOMAIN clients
      /\ \A c \in DOMAIN clients : clients'[c] =
            [clients[c] EXCEPT !.open = @ /\ ~\E s \in DOMAIN session : session[s].client = c /\ ~session[s].closed]
    BY Zenon DEF closeAll
<1>2. ASSUME NEW c \in DOMAIN clients, clients'[c].ok, clients'[c].open
      PROVE  clients'[c].again \/ clients'[c].left
    <2> DEFINE owned == \E s \in DOMAIN session : session[s].client = c /\ ~session[s].closed
               mine == clients[c].open /\ ~owned
    <2>1. DOMAIN clients[c] = ClientFields /\ clients[c].session \in Sessions /\ DOMAIN session = Sessions
        BY Zenon DEF SessionTypes
    <2>2. clients'[c] = [clients[c] EXCEPT !.open = mine]
        BY <1>1
    <2> HIDE DEF mine
    <2>3. /\ clients'[c].ok = clients[c].ok /\ clients'[c].open = mine /\ clients'[c].again = clients[c].again
          /\ clients'[c].left = clients[c].left
        BY <2>1, <2>2 DEF ClientFields
    <2>4. clients[c].ok /\ clients[c].open /\ ~owned
        BY <1>2, <2>3, Zenon DEF mine
    <2>5. CASE ~clients[c].again /\ ~clients[c].left
        <3>1. session[clients[c].session].client = c /\ ~session[clients[c].session].closed
            BY <2>4, <2>5, Zenon DEF ClientInv
        <3>2. QED
            BY <2>1, <2>4, <3>1, Zenon
    <2>6. QED
        BY <2>3, <2>5, Zenon
<1>3. ASSUME NEW c \in DOMAIN clients
      PROVE  DOMAIN clients'[c] = ClientFields
    BY <1>1, Zenon DEF SessionTypes
<1>4. QED
    BY <1>1, <1>2, <1>3, Zenon DEF ClosedAtEnd

\* Every step keeps what is known of the clients.
LEMMA SessStep ==
    ASSUME DemoInv, SessInv, [Next]_vars
    PROVE  SessInv'
<1>1. TaskTypes /\ PcInv /\ IsTree(scenario)
    BY Zenon DEF DemoInv, ScenarioInv
<1>2. CASE UNCHANGED vars
    BY <1>2, Zenon DEF vars, SessInv, SessionTypes, ClientInv, ClosedAtEnd, Sessions
<1>3. ASSUME phase' \notin {"done", "load"}, SessionTypes', ClientInv'
      PROVE  SessInv'
    BY <1>3, Zenon DEF SessInv, ClosedAtEnd, SessionTypes
<1>4. CASE RunScenario
    <2> DEFINE s == applyDefaults(scenario)
    <2>1. phase = "load" /\ session' = session /\ clients' = clients /\ clients = <<>>
        BY <1>4, Zenon DEF RunScenario, SessInv
    <2>2. SessionTypes /\ ClientInv
        BY <2>1 DEF SessInv
    <2>3. CASE Validate(s)
        <3>1. scenario' = s /\ phase' = "run"
            BY <1>4, <2>3, Zenon DEF RunScenario
        <3>2. scenario'.sessions = scenario.sessions
            BY <1>1, <3>1, DefaultsKeep, Zenon
        <3>3. phase # "done" /\ phase' \notin {"done", "load"}
            BY <2>1, <3>1
        <3>4. SessionTypes' /\ ClientInv'
            BY <2>1, <2>2, <3>2, <3>3, UntouchedCalm, CalmInv DEF Calm
        <3>5. QED
            BY <1>3, <3>3, <3>4, Zenon
    <2>4. CASE ~Validate(s)
        <3>1. phase' = "done"
            BY <1>4, <2>4, Zenon DEF RunScenario
        <3>2. DOMAIN clients' = {}
            BY <2>1
        <3>3. QED
            BY <3>1, <3>2 DEF SessInv, ClosedAtEnd
    <2>5. QED
        BY <2>3, <2>4
<1>5. CASE ScriptEnd
    <2>1. phase = "run" /\ phase' = "closing" /\ session' = session /\ clients' = clients /\ scenario' = scenario
        BY <1>5, Zenon DEF ScriptEnd, AtStep
    <2>2. phase # "done" /\ phase' \notin {"done", "load"}
        BY <2>1
    <2>3. SessionTypes /\ ClientInv
        BY <2>2, Zenon DEF SessInv
    <2>4. SessionTypes' /\ ClientInv'
        BY <2>1, <2>2, <2>3, UntouchedCalm, CalmInv DEF Calm
    <2>5. QED
        BY <1>3, <2>2, <2>4, Zenon
<1>6. CASE closeAll
    <2>1. phase = "closing" /\ phase' = "done"
        BY <1>6, Zenon DEF closeAll
    <2>2. phase # "done" /\ phase' # "load"
        BY <2>1
    <2>3. ClosedAtEnd' /\ \A c \in DOMAIN clients' : DOMAIN clients'[c] = ClientFields
        BY <1>6, <2>2, CloseAllClients, Zenon DEF SessInv
    <2>4. QED
        BY <2>1, <2>2, <2>3, Zenon DEF SessInv
<1>7. ASSUME phase = "run"
      PROVE  SessionTypes /\ ClientInv /\ phase # "done"
    BY <1>7 DEF SessInv
<1>8. CASE CallerCancel
    <2>1. phase = "run" /\ phase' = phase /\ session' = session /\ clients' = clients /\ scenario' = scenario
        BY <1>8, Zenon DEF CallerCancel
    <2>2. SessionTypes' /\ ClientInv'
        BY <1>7, <2>1, UntouchedCalm, CalmStep, Zenon
    <2>3. phase' \notin {"done", "load"}
        BY <2>1
    <2>4. QED
        BY <1>3, <2>2, <2>3, Zenon
<1>9. ASSUME NEW t \in Scripts, TaskStep(t) \/ Watchers(t)
      PROVE  SessInv'
    <2>1. phase = "run"
        <3>1. CASE TaskStep(t)
            BY <3>1, Zenon DEF TaskStep, ParallelStep, ParallelStart, BranchEnd, BranchFail, BranchCancel, ParallelJoin,
                  BarrierStep, BarrierHit, BarrierTest, BarrierPark, BarrierRelock, LockSession,
                  ConnectStep, ConnectTwice, ConnectFail, ConnectDone,
                  RequestStep, RequestBegin, RequestAnswered, RequestRefused, RequestLost, Sleep, Calls, executeClose,
                  EventStep, EventBegin, EventScan, EventPark, EventRelock, At, Holds, AtStep
        <3>2. CASE Watchers(t)
            BY <3>2, Zenon DEF Watchers, BarrierWatch, EventWatch, EventTimeout
        <3>3. QED
            BY <1>9, <3>1, <3>2
    <2>2. SessionTypes' /\ ClientInv' /\ phase' \in {"run", "panic"}
        BY <1>1, <1>7, <1>9, <2>1, TaskClients, Zenon
    <2>3. phase' \notin {"done", "load"}
        BY <2>2
    <2>4. QED
        BY <1>3, <2>2, <2>3, Zenon
<1>10. ASSUME NEW c \in DOMAIN clients, NEW event, push(c, event)
      PROVE  SessInv'
    <2>1. phase = "run" /\ phase' = "run"
        BY <1>10, Zenon DEF push
    <2>2. SessionTypes' /\ ClientInv'
        BY <1>7, <1>10, <2>1, PushClients, Zenon
    <2>3. phase' \notin {"done", "load"}
        BY <2>1
    <2>4. QED
        BY <1>3, <2>2, <2>3, Zenon
<1>11. ASSUME NEW c \in DOMAIN clients, LateLogin(c)
      PROVE  SessInv'
    <2>1. phase' = phase /\ phase # "load"
        BY <1>11 DEF LateLogin, SessInv
    <2>2. /\ DOMAIN clients' = DOMAIN clients
          /\ \A i \in DOMAIN clients : DOMAIN clients'[i] = ClientFields /\ (clients'[i].left \/ clients'[i] = clients[i])
        BY <1>11, LateFields, Zenon DEF SessInv
    <2>3. CASE phase = "done"
        <3>1. ASSUME NEW i \in DOMAIN clients', clients'[i].ok, clients'[i].open
              PROVE  clients'[i].again \/ clients'[i].left
            BY <2>2, <2>3, <3>1, Zenon DEF SessInv, ClosedAtEnd
        <3>2. ClosedAtEnd'
            BY <3>1, Zenon DEF ClosedAtEnd
        <3>3. QED
            BY <2>1, <2>2, <2>3, <3>2, Zenon DEF SessInv
    <2>4. CASE phase # "done"
        <3>1. SessionTypes' /\ ClientInv'
            BY <1>11, <2>4, LateClients, Zenon DEF SessInv
        <3>2. phase' \notin {"done", "load"}
            BY <2>1, <2>4
        <3>3. QED
            BY <1>3, <3>1, <3>2, Zenon
    <2>5. QED
        BY <2>3, <2>4
<1>12. Tasks = Scripts
    BY <1>1, Zenon DEF Tasks, TaskTypes
<1>13. QED
    BY <1>2, <1>4, <1>5, <1>6, <1>8, <1>9, <1>10, <1>11, <1>12, Zenon DEF Next

(***************************************************************************)
(* Barriers, whole runs and the theorems.                                  *)
(***************************************************************************)
\* The branches of a step are no more than its list of branches.
LEMMA BranchCount ==
    ASSUME IsTree(scenario), NEW o \in Scripts, NEW i \in DOMAIN scenario.script[o]
    PROVE  LET step == scenario.script[o][i] IN
           /\ IsFiniteSet(BranchTasks(step))
           /\ Cardinality(BranchTasks(step)) <= Len(step.branches)
<1> DEFINE b == scenario.script[o][i].branches
           S == 1..Len(b)
           f == [j \in S |-> b[j].task]
           T == BranchTasks(scenario.script[o][i])
<1>1. Len(b) \in Nat /\ DOMAIN b = S
    BY ScriptPlaces, Zenon
<1>2. IsFiniteSet(S) /\ Cardinality(S) = Len(b)
    BY <1>1, FS_Interval
<1>3. T = {b[j].task : j \in S}
    <2>1. T = {b[j].task : j \in DOMAIN b}
        BY ZenonT(30) DEF BranchTasks
    <2>2. QED
        BY <1>1, <2>1
<1>4. f \in Surjection(S, T)
    BY <1>3 DEF Surjection
<1> HIDE DEF f, S, T
<1>5. IsFiniteSet(T) /\ Cardinality(T) <= Cardinality(S)
    BY <1>2, <1>4, FS_Surjection, Zenon
<1>6. QED
    BY <1>2, <1>5, Zenon DEF T

\* Wait returns nil when every branch has come to the barrier.
LEMMA BarrierOpens ==
    ASSUME DemoInv, phase = "run", NEW t \in Scripts, Pc(t) \in BarrierPcs, Hits(t) >= group[task[t].owner].total
    PROVE  t # Root /\ \A u \in Siblings(t) : Came(u, StepOf(t).name)
<1> DEFINE o == task[t].owner
           name == StepOf(t).name
<1>1. /\ TaskTypes /\ IsTree(scenario) /\ PcInv /\ OwnerInv /\ HitsInv /\ ScenarioInv
    BY Zenon DEF DemoInv, ScenarioInv, TreeInv
<1>2. task[t].at <= Len(scenario.script[t]) /\ StepOf(t).step = "barrier"
    BY <1>1, PcClasses, Zenon DEF PcInv
<1>3. task[t].at \in DOMAIN scenario.script[t]
    BY <1>1, <1>2, OwnBranches, Zenon
<1>4. t # Root
    BY <1>1, <1>2, <1>3, Zenon DEF ScenarioInv, StepOf
<1>5. o \in Scripts /\ Pc(o) = "join" /\ t \in Branches(o) /\ Pc(t) \in Active
    BY <1>1, <1>4, PcClasses, Zenon DEF OwnerInv, TaskTypes
<1>6. Siblings(t) = Branches(o)
    BY <1>1, <1>4, <1>5, SiblingsAre, Zenon
<1>7. name \in BarrierNames(scenario)
    <2>1. name \in {scenario.script[t][i].name : i \in DOMAIN scenario.script[t]}
        BY <1>3, Zenon DEF StepOf
    <2>2. QED
        BY <2>1, Zenon DEF BarrierNames, Scripts
<1>8. group[o].total = Len(StepOf(o).branches) /\ HitsOf(o, name) = Cardinality(ReachedBy(o, name))
    BY <1>1, <1>5, <1>7, Zenon DEF HitsInv
<1>9. Hits(t) = HitsOf(o, name)
    BY Zenon DEF Hits, HitsOf
<1>10. task[o].at \in DOMAIN scenario.script[o]
    <2>1. task[o].at <= Len(scenario.script[o])
        BY <1>1, <1>5, Zenon DEF PcInv
    <2>2. QED
        BY <1>1, <1>5, <2>1, OwnBranches, Zenon
<1>11. IsFiniteSet(Branches(o)) /\ Cardinality(Branches(o)) <= Len(StepOf(o).branches)
    BY <1>1, <1>5, <1>10, BranchCount, Zenon DEF Branches, StepOf
<1>12. /\ ReachedBy(o, name) \subseteq Branches(o) /\ IsFiniteSet(ReachedBy(o, name))
       /\ Cardinality(ReachedBy(o, name)) <= Cardinality(Branches(o))
       /\ Cardinality(ReachedBy(o, name)) = Cardinality(Branches(o)) => ReachedBy(o, name) = Branches(o)
    <2>1. ReachedBy(o, name) \subseteq Branches(o)
        BY Zenon DEF ReachedBy
    <2>2. QED
        BY <1>11, <2>1, FS_Subset, Zenon
<1>13. Cardinality(ReachedBy(o, name)) = Cardinality(Branches(o))
    <2>1. Cardinality(ReachedBy(o, name)) \in Nat /\ Cardinality(Branches(o)) \in Nat
        BY <1>11, <1>12, FS_CardinalityType, Zenon
    <2>2. Len(StepOf(o).branches) \in Nat
        BY <1>1, <1>5, <1>10, ScriptPlaces, Zenon DEF StepOf
    <2>3. Cardinality(ReachedBy(o, name)) >= Len(StepOf(o).branches)
        BY <1>8, <1>9, Zenon
    <2>4. QED
        BY <1>11, <1>12, <2>1, <2>2, <2>3
<1>14. QED
    BY <1>4, <1>6, <1>12, <1>13, Zenon DEF ReachedBy

\* Returning keeps the invariant: the error is the context's only when that
\* has ended, and a barrier lets a branch through only when all have come.
LEMMA ReturnsInv ==
    ASSUME DemoInv, Returns
    PROVE  DemoInv'
<1>1. /\ scenario' = scenario /\ phase' = phase /\ result' = result /\ ctxDone' = ctxDone /\ group' = group
      /\ DOMAIN session' = DOMAIN session /\ phase = "run" /\ Scripts' = Scripts
      /\ TaskTypes /\ IsTree(scenario) /\ PcInv
    BY Zenon DEF Returns, Frame, Scripts, DemoInv, ScenarioInv
<1>2. PICK t \in Scripts, err \in Errors :
          /\ task[t].pc \in Working /\ task' = Returned(t, err)
          /\ err = "canceled" => CtxDone(t)
          /\ task[t].pc \in BarrierPcs /\ err = "nil" => Hits(t) >= group[task[t].owner].total
    BY Zenon DEF Returns
<1>3. /\ TaskTypes'
      /\ \A u \in Scripts : u # t => task'[u] = task[u]
      /\ task'[t].pc = IF err = "nil" THEN "step" ELSE "fail"
      /\ task'[t].at = IF err = "nil" THEN task[t].at + 1 ELSE task[t].at
      /\ task'[t].err = err /\ task'[t].owner = task[t].owner /\ task'[t].within = task[t].within
    BY <1>1, <1>2, ReturnedFields, Zenon
<1>4. /\ task[t].pc \in Active /\ task[t].pc \notin {"step", "join", "fail", "cancel", "idle", "done"}
      /\ task'[t].pc \in Active /\ task'[t].pc \in {"step", "fail"}
    BY <1>2, <1>3, PcClasses
<1>5. /\ task[t].at <= Len(scenario.script[t])
    BY <1>1, <1>2, Zenon DEF PcInv, Pc
<1>6. Steady
    <2>1. ASSUME NEW u \in Scripts
          PROVE  /\ task'[u].owner = task[u].owner /\ task'[u].within = task[u].within
                 /\ (task'[u].pc = "join") = (task[u].pc = "join")
                 /\ (task'[u].pc = "idle") = (task[u].pc = "idle")
                 /\ (task'[u].pc \in Active) = (task[u].pc \in Active)
                 /\ task[u].pc = "join" => task'[u].at = task[u].at
        <3>1. CASE u = t
            BY <1>3, <1>4, <3>1
        <3>2. CASE u # t
            BY <1>3, <3>2, Zenon
        <3>3. QED
            BY <3>1, <3>2
    <2>2. QED
        BY <1>1, <2>1, Zenon DEF Steady
<1>7. GroupTypes' /\ ScenarioInv'
    BY <1>1, Zenon DEF DemoInv, GroupTypes, ScenarioInv
<1>8. PcInv'
    BY <1>1, <1>2, <1>5, ReturnedPc, Zenon
<1>9. TreeInv'
    BY <1>1, <1>6, SteadyTree, Zenon DEF DemoInv
<1>10. ErrorInv'
    <2>1. ASSUME NEW u \in Scripts
          PROVE  CtxDone(u)' = CtxDone(u)
        BY <1>1, <1>6, CtxSame, Zenon DEF Steady
    <2>2. ErrorInv
        BY Zenon DEF DemoInv
    <2>3. ASSUME NEW u \in Scripts
          PROVE  (/\ Pc(u) = "step" => task[u].err = "nil"
                  /\ Pc(u) = "fail" /\ task[u].err = "canceled" => CtxDone(u)
                  /\ Pc(u) = "cancel" => u # Root /\ group[task[u].owner].errs # <<>>)'
        <3>1. CASE u = t
            <4>1. Pc(u)' = "step" => task'[u].err = "nil"
                BY <1>3, <3>1 DEF Pc
            <4>2. Pc(u)' # "cancel"
                BY <1>4, <3>1 DEF Pc
            <4>3. QED
                BY <1>2, <1>3, <2>1, <3>1, <4>1, <4>2, Zenon
        <3>2. CASE u # t
            BY <1>1, <1>3, <2>1, <2>2, <3>2, Zenon DEF ErrorInv, Pc
        <3>3. QED
            BY <3>1, <3>2
    <2>4. ASSUME NEW o \in Scripts, Pc(o)' = "join"
          PROVE  (/\ group[o].cancelled => group[o].errs # <<>>
                  /\ group[o].errs # <<>> /\ group[o].errs[1] = "canceled" => CtxDone(o))'
        BY <1>1, <1>6, <2>1, <2>2, <2>4, Zenon DEF ErrorInv, Pc, Steady
    <2>5. ErrorIsCause'
        BY <1>1, <2>2, Zenon DEF ErrorInv, ErrorIsCause
    <2>6. QED
        BY <1>1, <2>3, <2>4, <2>5, Zenon DEF ErrorInv
<1>11. ReachSame
    BY <1>1, <1>2, <1>4, ReturnedReach, Zenon
<1>12. HitsInv'
    BY <1>1, <1>6, <1>11, SteadyHits, Zenon DEF DemoInv, Pc, Steady
<1>13. BarrierTogether'
    <2>1. ASSUME NEW u \in Scripts, NEW i \in 1..(task'[u].at - 1), IsBarrier(u, i)
          PROVE  i \in 1..(task[u].at - 1) \/ \A v \in Siblings(u) : Came(v, scenario.script[u][i].name)
        <3>1. CASE task'[u].at = task[u].at
            BY <2>1, <3>1, Zenon
        <3>2. CASE task'[u].at # task[u].at /\ i # task[t].at
            <4>1. u = t /\ task'[t].at = task[t].at + 1 /\ task[t].at \in Nat
                BY <1>1, <1>3, <3>2 DEF TaskTypes
            <4>2. QED
                BY <2>1, <3>2, <4>1
        <3>3. CASE task'[u].at # task[u].at /\ i = task[t].at
            <4>1. u = t /\ err = "nil"
                BY <1>1, <1>3, <3>3 DEF TaskTypes
            <4>2. StepOf(t).step = "barrier"
                BY <2>1, <3>3, <4>1, Zenon DEF IsBarrier, StepOf
            <4>3. task[t].pc \in BarrierPcs
                <5>1. Pc(t) \in SessionPcs => StepOf(t).step # "barrier"
                    BY <1>1 DEF PcInv, SessionSteps
                <5>2. QED
                    BY <1>2, <4>2, <5>1, ZenonT(30) DEF Working, Pc
            <4>4. \A v \in Siblings(t) : Came(v, StepOf(t).name)
                BY <1>1, <1>2, <4>1, <4>3, BarrierOpens, Zenon DEF Pc
            <4>5. QED
                BY <3>3, <4>1, <4>4, Zenon DEF StepOf
        <3>4. QED
            BY <3>1, <3>2, <3>3
    <2>2. \A u \in Scripts : task'[u].owner = task[u].owner
        BY <1>6, Zenon DEF Steady
    <2>3. QED
        BY <1>1, <1>3, <1>8, <1>11, <2>1, <2>2, SteadyTogether, Zenon DEF DemoInv
<1>14. QED
    BY <1>1, <1>3, <1>7, <1>8, <1>9, <1>10, <1>12, <1>13, Zenon DEF DemoInv

\* A branch has a barrier once, and its parallel step has finitely many branches.
LEMMA BarrierCounts ==
    ASSUME DemoInv, NEW t \in Scripts, BarrierHit(t)
    PROVE  /\ BarrierAt(scenario, t, StepOf(t).name) = {task[t].at}
           /\ \A S \in SUBSET Branches(task[t].owner) : t \notin S => Cardinality(S \cup {t}) = Cardinality(S) + 1
<1> DEFINE o == task[t].owner
           name == StepOf(t).name
           B == BarrierAt(scenario, t, name)
<1>1. TaskTypes /\ IsTree(scenario) /\ PcInv /\ TreeInv /\ ScenarioInv /\ phase = "run"
    BY Zenon DEF DemoInv, ScenarioInv, BarrierHit, At, AtStep
<1>2. Pc(t) = "step" /\ task[t].at <= Len(scenario.script[t]) /\ StepOf(t).step = "barrier"
    BY Zenon DEF BarrierHit, At, AtStep, Pc
<1>3. task[t].at \in DOMAIN scenario.script[t]
    BY <1>1, <1>2, OwnBranches, Zenon
<1>4. t # Root /\ o \in Scripts /\ Pc(t) \in Active
    <2>1. t # Root
        BY <1>1, <1>2, <1>3, Zenon DEF ScenarioInv, StepOf
    <2>2. QED
        BY <1>1, <1>2, <2>1, PcClasses, Zenon DEF TaskTypes
<1>5. Pc(o) = "join" /\ t \in Branches(o)
    BY <1>1, <1>4, Zenon DEF TreeInv, OwnerInv
<1>6. /\ task[o].at <= Len(scenario.script[o]) /\ StepOf(o).step = "parallel"
      /\ task[o].at \in DOMAIN scenario.script[o]
    <2>1. task[o].at <= Len(scenario.script[o]) /\ StepOf(o).step = "parallel"
        BY <1>1, <1>4, <1>5, Zenon DEF PcInv
    <2>2. QED
        BY <1>1, <1>4, <2>1, OwnBranches, Zenon
<1>7. B = {task[t].at}
    <2>1. task[t].at \in B
        BY <1>2, <1>3, Zenon DEF BarrierAt, StepOf
    <2>2. name \in BarrierNames(scenario)
        <3>1. name \in {scenario.script[t][i].name : i \in DOMAIN scenario.script[t]}
            BY <1>3, Zenon DEF StepOf
        <3>2. QED
            BY <3>1, Zenon DEF BarrierNames, Scripts
    <2>3. validateParallelBarriers(scenario, StepOf(o))
        BY <1>1, <1>4, <1>6, Zenon DEF ScenarioInv, StepOf
    <2>4. t \in BranchTasks(StepOf(o))
        BY <1>5, Zenon DEF Branches
    <2>5. B = {} \/ Cardinality(B) = 1
        BY <2>2, <2>3, <2>4, ZenonT(30) DEF validateParallelBarriers
    <2>6. IsFiniteSet(B)
        <3>1. DOMAIN scenario.script[t] = 1..Len(scenario.script[t]) /\ Len(scenario.script[t]) \in Nat
            BY <1>1, ScriptPlaces, Zenon
        <3>2. IsFiniteSet(1..Len(scenario.script[t]))
            BY <3>1, FS_Interval
        <3>3. B \subseteq 1..Len(scenario.script[t])
            BY <3>1, Zenon DEF BarrierAt
        <3>4. QED
            BY <3>2, <3>3, FS_Subset, Zenon
    <2> HIDE DEF B
    <2>7. Cardinality(B) = 1
        BY <2>1, <2>5, Zenon
    <2>8. \E x : B = {x}
        BY <2>6, <2>7, FS_Singleton
    <2>9. QED
        BY <2>1, <2>8, Zenon
<1>8. ASSUME NEW S \in SUBSET Branches(o), t \notin S
      PROVE  Cardinality(S \cup {t}) = Cardinality(S) + 1
    <2>1. IsFiniteSet(Branches(o))
        BY <1>1, <1>4, <1>6, BranchCount, Zenon DEF Branches, StepOf
    <2>2. IsFiniteSet(S)
        BY <2>1, FS_Subset, Zenon
    <2>3. QED
        BY <1>8, <2>2, FS_AddElement, Zenon
<1>9. QED
    BY <1>7, <1>8, ZenonT(30)

\* RunScenario starts a scenario that Validate accepts.
LEMMA RunInv ==
    ASSUME DemoInv, LoadInv, RunScenario
    PROVE  DemoInv'
<1> DEFINE s == applyDefaults(scenario)
<1>1. IsTree(scenario) /\ TaskTypes /\ GroupTypes /\ phase = "load"
    BY Zenon DEF DemoInv, ScenarioInv, RunScenario
<1>2. CASE ~Validate(s)
    <2>1. phase' = "done" /\ result' = "invalid" /\ UNCHANGED <<scenario, task, ctxDone, group, session>>
        BY <1>2, Zenon DEF RunScenario
    <2>2. (phase' = "run" => phase = "run") /\ (result' = "canceled" => ctxDone')
        BY <2>1
    <2>3. QED
        BY <2>1, <2>2, QuietInv, Zenon
<1>3. CASE Validate(s)
    <2>1. /\ scenario' = s /\ phase' = "run" /\ task' = [task EXCEPT ![Root].pc = "step"] /\ UNCHANGED <<result, group>>
        BY <1>3, Zenon DEF RunScenario
    <2>2. s.script = scenario.script /\ IsTree(s)
        BY <1>1, DefaultsKeep, Zenon
    <2>3. Scripts' = Scripts /\ IsTree(scenario)' /\ Root \in Scripts
        <3>1. Root \in Scripts
            BY <1>1, Zenon DEF IsTree, Scripts
        <3>2. QED
            BY <2>1, <2>2, <3>1, Zenon DEF Scripts
    <2>4. DOMAIN task = Scripts /\ \A t \in Scripts : task[t] = Idle
        BY <1>1, Zenon DEF LoadInv
    <2> DEFINE first == [Idle EXCEPT !.pc = "step"]
    <2>5. task' = [task EXCEPT ![Root] = first]
        BY <2>1, <2>3, <2>4
    <2>6. DOMAIN task' = Scripts /\ task'[Root] = first /\ \A t \in Scripts : t # Root => task'[t] = Idle
        BY <2>3, <2>4, <2>5, Zenon
    <2>7. DOMAIN first = TaskFields /\ Like([first EXCEPT !.pc = "idle"], Idle) /\ first.pc \in {"idle", "step"}
        BY DEF Idle, Like, TaskFields
    <2> HIDE DEF first
    <2>8. GroupTypes'
        BY <1>1, <2>1, <2>3, Zenon DEF GroupTypes
    <2>9. ScenarioInv'
        <3>1. ASSUME NEW t \in Scripts, NEW i \in DOMAIN s.script[t]
              PROVE  /\ s.script[t][i].step = "barrier" => t # Root
                     /\ s.script[t][i].step = "parallel" => validateParallelBarriers(s, s.script[t][i])
            <4>1. validateStep(s, s.script[t][i], t # Root)
                BY <1>3, <2>2, Zenon DEF Validate, Scripts
            <4>2. QED
                BY <4>1, StepChecked, Zenon
        <3>2. QED
            BY <2>1, <2>3, <3>1, Zenon DEF ScenarioInv
    <2>10. result' # "canceled"
        BY <1>1, <2>1 DEF LoadInv
    <2>11. Begins'
        BY <2>3, <2>6, <2>7, <2>8, <2>9, <2>10, IdleTask, Zenon DEF Begins
    <2>12. Begins' => DemoInv'
        BY BeginInv, PTL
    <2>13. QED
        BY <2>11, <2>12, Zenon
<1>4. QED
    BY <1>2, <1>3, Zenon

\* The tasks of a scenario that has not been checked do not move.
LEMMA LoadStep ==
    ASSUME TaskTypes, LoadInv, [Next]_vars
    PROVE  LoadInv'
<1>1. CASE UNCHANGED <<scenario, phase, task, result>>
    BY <1>1, Zenon DEF LoadInv, Scripts
<1>2. CASE phase' # "load"
    BY <1>2, Zenon DEF LoadInv
<1>3. CASE RunScenario \/ ScriptEnd \/ closeAll \/ CallerCancel \/ Panics
    <2>1. phase' \in {"run", "done", "closing", "panic"} \/ (CallerCancel /\ phase = "run" /\ phase' = phase)
        BY <1>3, Zenon DEF RunScenario, ScriptEnd, closeAll, CallerCancel, Panics
    <2>2. phase' # "load"
        BY <2>1
    <2>3. QED
        BY <1>2, <2>2, Zenon
<1>4. CASE Works \/ Returns
    <2>1. phase' = "run"
        BY <1>4, Zenon DEF Works, Returns, Frame
    <2>2. QED
        BY <1>2, <2>1
<1>5. ASSUME NEW t \in Scripts, Forks(t)
      PROVE  LoadInv'
    <2>1. phase' = "run"
        BY <1>5, Zenon DEF Forks, ParallelStart, BranchEnd, BranchFail, BranchCancel, ParallelJoin, BarrierHit, At, AtStep
    <2>2. QED
        BY <1>2, <2>1
<1>6. CASE Idles
    BY <1>1, <1>6, Zenon DEF Idles
<1>7. QED
    BY <1>3, <1>4, <1>5, <1>6, StepShape, Zenon

\* Every step keeps the invariant.
LEMMA StepInv ==
    ASSUME DemoInv, LoadInv, [Next]_vars
    PROVE  DemoInv' /\ LoadInv'
<1>1. TaskTypes
    BY Zenon DEF DemoInv
<1>2. ASSUME NEW t \in Scripts, Forks(t)
      PROVE  DemoInv'
    <2>1. phase = "run"
        BY <1>2, Zenon DEF Forks, ParallelStart, BranchEnd, BranchFail, BranchCancel, ParallelJoin, BarrierHit, At, AtStep
    <2>2. CASE ParallelStart(t)
        <3>1. Cardinality({}) = 0
            BY FS_EmptySet, Zenon
        <3>2. QED
            BY <2>2, <3>1, ParallelStartInv, Zenon
    <2>3. CASE BarrierHit(t)
        BY <2>1, <2>3, BarrierCounts, BarrierHitInv, Zenon
    <2>4. QED
        BY <1>2, <2>1, <2>2, <2>3, BranchEndInv, BranchFailInv, BranchCancelInv, ParallelJoinInv, Zenon DEF Forks
<1>3. DemoInv'
    BY <1>1, <1>2, StepShape, RunInv, EndInv, WorksInv, ReturnsInv, Zenon
<1>4. QED
    BY <1>1, <1>3, LoadStep, Zenon

\* The invariant of the tasks holds in every run of every scenario.
THEOREM RunnerInvariant == Spec => [](DemoInv /\ LoadInv)
<1>1. Init => DemoInv /\ LoadInv
    BY InitInv, Zenon
<1>2. DemoInv /\ LoadInv /\ [Next]_vars => (DemoInv /\ LoadInv)'
    BY StepInv, Zenon
<1>3. QED
    BY <1>1, <1>2, PTL DEF Spec

\* No branch is past a barrier that another branch of its parallel step has not come to.
THEOREM BarrierTogetherCorrect == Spec => []BarrierTogether
<1>1. DemoInv => BarrierTogether
    BY Zenon DEF DemoInv
<1>2. QED
    BY <1>1, RunnerInvariant, PTL

\* RunScenario returns a cancellation only when its caller's context has
\* ended: that of a branch the first error cancelled is never returned.
THEOREM ErrorIsCauseCorrect == Spec => []ErrorIsCause
<1>1. DemoInv => ErrorIsCause
    BY Zenon DEF DemoInv, ErrorInv
<1>2. QED
    BY <1>1, RunnerInvariant, PTL

\* When RunScenario has returned, every client that logged in is closed,
\* but for those nobody can close any more: the ones a closed session was
\* given by another connect, which closeAll passes over, and the ones whose
\* Connect had returned the error of its context before they logged in.
THEOREM ClosedAtEndCorrect == Spec => []ClosedAtEnd
<1>1. ASSUME Init
      PROVE  SessInv
    <2>1. session = [name \in Sessions |-> [holder |-> Nil, connected |-> FALSE, closed |-> FALSE, client |-> 0, locals |-> <<>>]]
        BY <1>1, Zenon DEF Init, Sessions
    <2>2. clients = <<>> /\ phase = "load"
        BY <1>1, Zenon DEF Init
    <2>3. IsSequence(clients) /\ DOMAIN clients = {} /\ phase # "done"
        BY <2>2 DEF IsSequence
    <2>4. DOMAIN session = Sessions /\ \A n \in Sessions : DOMAIN session[n] = SessionFields /\ session[n].client = 0
        BY <2>1 DEF SessionFields
    <2>5. SessionTypes /\ ClientInv
        BY <2>3, <2>4, Zenon DEF SessionTypes, ClientInv
    <2>6. QED
        BY <2>2, <2>3, <2>5, ZenonT(30) DEF SessInv, ClosedAtEnd
<1>2. DemoInv /\ SessInv /\ [Next]_vars => SessInv'
    BY SessStep, Zenon
<1>3. SessInv => ClosedAtEnd
    BY Zenon DEF SessInv
<1>4. QED
    BY <1>1, <1>2, <1>3, RunnerInvariant, PTL DEF Spec
=============================================================================
