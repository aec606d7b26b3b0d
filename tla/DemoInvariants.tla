--------------------------- MODULE DemoInvariants ---------------------------
(***************************************************************************)
(* What the proofs about the demo runner say of it: where its tasks are,   *)
(* the tree they form, the hits of their barriers, the clients of the      *)
(* sessions, and what a step may do to the tasks.                          *)
(***************************************************************************)
EXTENDS Integers, DemoRunner

Scripts == DOMAIN scenario.script
Pc(t) == task[t].pc

SessionPcs == {"held", "call", "escan", "epark", "eparked", "elock"}
Working == BarrierPcs \cup SessionPcs
Active == Working \cup {"step", "join", "fail", "cancel"}

(***************************************************************************)
(* Types.                                                                  *)
(***************************************************************************)
\* what a step may return
Errors == {"nil", "save", "state", "connect", "assert", "parse", "unexpected", "server", "rpc", "timeout", "canceled"}

TaskFields == {"pc", "at", "err", "owner", "within", "watch", "late", "args"}

TaskTypes ==
    /\ DOMAIN task = Scripts
    /\ \A t \in Scripts : /\ DOMAIN task[t] = TaskFields
                          /\ task[t].pc \in Active \cup {"idle", "done"} /\ task[t].at \in Nat \ {0} /\ task[t].err \in Errors
                          /\ task[t].owner \in Scripts /\ task[t].within \subseteq Scripts

GroupFields == {"total", "errs", "cancelled", "hits"}

GroupTypes ==
    /\ DOMAIN group = Scripts
    /\ \A t \in Scripts : /\ DOMAIN group[t] = GroupFields
                          /\ group[t].total \in Nat /\ group[t].errs \in Seq(Errors) /\ group[t].cancelled \in BOOLEAN
                          /\ \A name \in DOMAIN group[t].hits : group[t].hits[name] \in Nat

\* the scenario is a tree, and was found valid if it runs
ScenarioInv ==
    /\ IsTree(scenario)
    /\ phase = "run" => \A t \in Scripts : \A i \in DOMAIN scenario.script[t] :
          LET step == scenario.script[t][i]
          IN /\ step.step = "barrier" => t # Root
             /\ step.step = "parallel" => validateParallelBarriers(scenario, step)

(***************************************************************************)
(* Where a task is in its script.                                          *)
(***************************************************************************)
PcInv ==
    \A t \in Scripts :
        /\ task[t].at <= Len(scenario.script[t]) + 1
        /\ Pc(t) \in Working \cup {"join"} => task[t].at <= Len(scenario.script[t])
        /\ Pc(t) \in BarrierPcs => StepOf(t).step = "barrier"
        /\ Pc(t) \in SessionPcs => StepOf(t).step \in SessionSteps /\ StepOf(t).session \in DOMAIN session
        /\ Pc(t) = "join" => StepOf(t).step = "parallel"

(***************************************************************************)
(* The tree of the tasks that run.                                         *)
(***************************************************************************)
\* the branches of a task that waits were started by it
JoinInv ==
    \A o \in Scripts : Pc(o) = "join" =>
        \A u \in Branches(o) : Pc(u) # "idle" /\ task[u].owner = o /\ task[u].within = task[o].within \cup {o}

\* the owner of a branch that runs waits for it
OwnerInv ==
    \A t \in Scripts \ {Root} : Pc(t) \in Active => Pc(task[t].owner) = "join" /\ t \in Branches(task[t].owner)

\* so does every task around it, each for a branch that still runs
WithinInv ==
    /\ task[Root].within = {}
    /\ \A t \in Scripts : Pc(t) \in Active => \A o \in task[t].within :
          /\ Pc(o) = "join"
          /\ \E b \in Branches(o) : Pc(b) \in Active /\ b \in task[t].within \cup {t}

TreeInv == JoinInv /\ OwnerInv /\ WithinInv

(***************************************************************************)
(* Errors.                                                                 *)
(***************************************************************************)
ErrorInv ==
    /\ \A t \in Scripts : /\ Pc(t) = "step" => task[t].err = "nil"
                          /\ Pc(t) = "fail" /\ task[t].err = "canceled" => CtxDone(t)
                          /\ Pc(t) = "cancel" => t # Root /\ group[task[t].owner].errs # <<>>
    /\ \A o \in Scripts : Pc(o) = "join" =>
          /\ group[o].cancelled => group[o].errs # <<>>
          /\ group[o].errs # <<>> /\ group[o].errs[1] = "canceled" => CtxDone(o)
    /\ ErrorIsCause

(***************************************************************************)
(* Barriers.                                                               *)
(***************************************************************************)
Came(u, name) == \E j \in BarrierAt(scenario, u, name) : HasReached(u, j)
ReachedBy(o, name) == {u \in Branches(o) : Came(u, name)}
HitsOf(o, name) == IF name \in DOMAIN group[o].hits THEN group[o].hits[name] ELSE 0

HitsInv ==
    \A o \in Scripts : Pc(o) = "join" =>
        /\ group[o].total = Len(StepOf(o).branches)
        /\ \A name \in BarrierNames(scenario) : HitsOf(o, name) = Cardinality(ReachedBy(o, name))

(***************************************************************************)
(* Sessions and clients.                                                   *)
(***************************************************************************)
Sessions == DOMAIN scenario.sessions

SessionFields == {"holder", "connected", "closed", "client", "locals"}
ClientFields == {"session", "open", "ok", "again", "left", "events"}

SessionTypes ==
    /\ DOMAIN session = Sessions /\ \A n \in Sessions : DOMAIN session[n] = SessionFields
    /\ IsSequence(clients)
    /\ \A c \in DOMAIN clients : DOMAIN clients[c] = ClientFields /\ clients[c].session \in Sessions

\* the client that was logged in last is the one its session has
ClientInv ==
    /\ \A n \in Sessions : session[n].client # 0 /\ ~session[n].closed => session[n].connected
    /\ \A c \in DOMAIN clients : clients[c].ok /\ clients[c].open /\ ~clients[c].again /\ ~clients[c].left =>
          session[clients[c].session].client = c /\ ~session[clients[c].session].closed

DemoInv ==
    /\ TaskTypes /\ GroupTypes /\ ScenarioInv /\ PcInv /\ TreeInv
    /\ ErrorInv /\ HitsInv /\ BarrierTogether

\* the tasks are as Init leaves them until the scenario has been checked
LoadInv == phase = "load" => task = [t \in Scripts |-> Idle] /\ result = "none"

\* a scenario has no client before it runs, and one that is left open by a
\* run that ended was made after its session was closed or left behind by
\* its connect
SessInv ==
    /\ \A c \in DOMAIN clients : DOMAIN clients[c] = ClientFields
    /\ phase # "done" => SessionTypes /\ ClientInv
    /\ phase = "load" => clients = <<>>
    /\ ClosedAtEnd

(***************************************************************************)
(* What a step does to the tasks.                                          *)
(***************************************************************************)
Kept(u) ==
    task'[u].at = task[u].at /\ task'[u].err = task[u].err /\ task'[u].owner = task[u].owner /\ task'[u].within = task[u].within
Same(u) == Kept(u) /\ task'[u].pc = task[u].pc
Stays(u) ==
    /\ Kept(u)
    /\ \/ task[u].pc \in BarrierPcs /\ task'[u].pc \in BarrierPcs
       \/ task[u].pc \in SessionPcs /\ task'[u].pc \in SessionPcs
Locks(u) ==
    /\ Kept(u) /\ task[u].pc = "step" /\ task'[u].pc = "held"
    /\ task[u].at <= Len(scenario.script[u]) /\ StepOf(u).step \in SessionSteps /\ StepOf(u).session \in DOMAIN session

Frame == phase = "run" /\ UNCHANGED <<scenario, phase, result, ctxDone, group>> /\ DOMAIN session' = DOMAIN session

\* a task goes on within its step, and may wake others
Works == Frame /\ TaskTypes' /\ \A u \in Scripts : Same(u) \/ Stays(u) \/ Locks(u)

\* the step of a task returns
Returns ==
    /\ Frame
    /\ \E t \in Scripts, err \in Errors :
          /\ task[t].pc \in Working /\ task' = Returned(t, err)
          /\ err = "canceled" => CtxDone(t)
          /\ task[t].pc \in BarrierPcs /\ err = "nil" => Hits(t) >= group[task[t].owner].total

Like(new, old) ==
    /\ DOMAIN new = TaskFields /\ new.pc = old.pc /\ new.at = old.at
    /\ new.err = old.err /\ new.owner = old.owner /\ new.within = old.within
MaybeWoken(old, new) ==
    \/ new = old
    \/ old.pc = "bparked" /\ new = [old EXCEPT !.pc = "block"]
    \/ old.pc = "eparked" /\ new = [old EXCEPT !.pc = "elock"]

\* a login of a client nobody has any more, or no step at all
Idles == UNCHANGED <<scenario, phase, result, ctxDone, task, group, session>>

Panics == phase' = "panic" /\ UNCHANGED <<scenario, result, ctxDone, task, group, session, clients>>

Forks(t) ==
    ParallelStart(t) \/ BranchEnd(t) \/ BranchFail(t) \/ BranchCancel(t) \/ ParallelJoin(t) \/ BarrierHit(t)
=============================================================================
