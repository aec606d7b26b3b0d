--------------------------- MODULE DemoTreeProofs ---------------------------
(***************************************************************************)
(* The invariant of the tasks of the demo runner, through a step that goes *)
(* on, the start, end, failure and join of branches, a barrier that counts *)
(* a branch, and the beginning of a run.                                   *)
(***************************************************************************)
EXTENDS DemoInvariants, TLAPS

(***************************************************************************)
(* What a step does to the tasks.                                          *)
(***************************************************************************)
\* Returned changes one task only: it is at its next step, or has failed.
LEMMA ReturnedFields ==
    ASSUME TaskTypes, NEW t \in Scripts, NEW err \in Errors, task' = Returned(t, err), scenario' = scenario
    PROVE  /\ TaskTypes'
           /\ \A u \in Scripts : u # t => task'[u] = task[u]
           /\ task'[t].pc = IF err = "nil" THEN "step" ELSE "fail"
           /\ task'[t].at = IF err = "nil" THEN task[t].at + 1 ELSE task[t].at
           /\ task'[t].err = err /\ task'[t].owner = task[t].owner /\ task'[t].within = task[t].within
<1> DEFINE r == task[t]
           q == task'[t]
           new == [r EXCEPT !.pc = IF err = "nil" THEN "step" ELSE "fail", !.at = IF err = "nil" THEN @ + 1 ELSE @,
                            !.err = err, !.watch = FALSE, !.late = FALSE, !.args = Nil]
<1>1. DOMAIN r = TaskFields /\ r.at \in Nat \ {0} /\ DOMAIN task = Scripts
    BY DEF TaskTypes
<1>2. task' = [task EXCEPT ![t] = new]
    BY DEF Returned
<1> HIDE DEF new
<1>3. /\ \A u \in Scripts : u # t => task'[u] = task[u]
      /\ DOMAIN task' = Scripts
      /\ q = new
    BY <1>1, <1>2, Zenon
<1> HIDE DEF q, r
<1>4. /\ q.pc = IF err = "nil" THEN "step" ELSE "fail"
      /\ q.at = IF err = "nil" THEN r.at + 1 ELSE r.at
      /\ q.err = err /\ q.owner = r.owner /\ q.within = r.within
      /\ DOMAIN q = TaskFields
    BY <1>1, <1>3 DEF TaskFields, new
<1>5. q.at \in Nat \ {0} /\ q.pc \in Active
    BY <1>1, <1>4 DEF Active
<1>6. QED
    BY <1>1, <1>2, <1>3, <1>4, <1>5 DEF TaskTypes, Scripts, q, r

(***************************************************************************)
(* The tree of the tasks.                                                  *)
(***************************************************************************)
\* A task is in one place at a time.
LEMMA PcClasses ==
    ASSUME NEW pc
    PROVE  /\ ~(pc \in BarrierPcs /\ pc \in SessionPcs)
           /\ pc \in Working => pc \in Active /\ pc \notin {"step", "join", "fail", "cancel", "idle", "done"}
           /\ {"step", "join", "fail", "cancel"} \subseteq Active
           /\ pc \in {"idle", "done"} => pc \notin Active
           /\ pc \in BarrierPcs => pc \in Working
           /\ pc \in SessionPcs => pc \in Working
           /\ "step" \notin Working /\ "join" \notin Working /\ "fail" \notin Working /\ "cancel" \notin Working
           /\ "held" \in SessionPcs /\ "btest" \in BarrierPcs
BY DEF BarrierPcs, SessionPcs, Working, Active

\* The places of a script are counted from one.
LEMMA ScriptPlaces ==
    ASSUME IsTree(scenario), NEW t \in Scripts
    PROVE  /\ Len(scenario.script[t]) \in Nat
           /\ DOMAIN scenario.script[t] = 1..Len(scenario.script[t])
           /\ \A i \in DOMAIN scenario.script[t] :
                 /\ Len(scenario.script[t][i].branches) \in Nat
                 /\ DOMAIN scenario.script[t][i].branches = 1..Len(scenario.script[t][i].branches)
<1>1. \A q : IsSequence(q) => Len(q) \in Nat /\ DOMAIN q = 1..Len(q)
    BY DEF IsSequence
<1>2. IsSequence(scenario.script[t]) /\ \A i \in DOMAIN scenario.script[t] : IsSequence(scenario.script[t][i].branches)
    BY Zenon DEF IsTree, Scripts
<1>3. QED
    BY <1>1, <1>2, Zenon

\* A branch is a branch of one step only, and never the script of the scenario.
LEMMA BranchPlaces ==
    ASSUME IsTree(scenario), NEW o \in Scripts, NEW i \in DOMAIN scenario.script[o], NEW u \in BranchTasks(scenario.script[o][i])
    PROVE  /\ u \in Scripts \ {Root}
           /\ \A p \in Scripts : \A k \in DOMAIN scenario.script[p] : u \in BranchTasks(scenario.script[p][k]) => o = p /\ i = k
<1>1. PICK j \in DOMAIN scenario.script[o][i].branches : u = scenario.script[o][i].branches[j].task
    BY Zenon DEF BranchTasks
<1>2. u \in Scripts \ {Root}
    BY <1>1, Zenon DEF IsTree, Scripts
<1>3. ASSUME NEW p \in Scripts, NEW k \in DOMAIN scenario.script[p], u \in BranchTasks(scenario.script[p][k])
      PROVE  o = p /\ i = k
    <2>1. PICK l \in DOMAIN scenario.script[p][k].branches : u = scenario.script[p][k].branches[l].task
        BY <1>3, Zenon DEF BranchTasks
    <2> DEFINE b == scenario.script[o][i].branches
    <2>2. \A m \in DOMAIN scenario.script[p][k].branches :
             b[j].task = scenario.script[p][k].branches[m].task => o = p /\ i = k /\ j = m
        BY <1>1 DEF IsTree, Scripts
    <2>3. QED
        BY <1>1, <2>1, <2>2, Zenon
<1>4. QED
    BY <1>2, <1>3, Zenon

\* Whoever starts or joins branches is at a step of its script.
LEMMA OwnBranches ==
    ASSUME IsTree(scenario), TaskTypes, NEW o \in Scripts, task[o].at <= Len(scenario.script[o])
    PROVE  /\ task[o].at \in DOMAIN scenario.script[o]
           /\ Branches(o) \subseteq Scripts \ {Root}
           /\ \A u \in Branches(o) : \A p \in Scripts : \A k \in DOMAIN scenario.script[p] :
                 u \in BranchTasks(scenario.script[p][k]) => o = p /\ task[o].at = k
<1>1. task[o].at \in Nat \ {0}
    BY Zenon DEF TaskTypes
<1>2. task[o].at \in DOMAIN scenario.script[o]
    BY <1>1, ScriptPlaces
<1>3. \A u \in Branches(o) : u \in BranchTasks(scenario.script[o][task[o].at])
    BY Zenon DEF Branches, StepOf
<1>4. Branches(o) \subseteq Scripts \ {Root}
    BY <1>2, <1>3, BranchPlaces, Zenon
<1>5. ASSUME NEW p \in Scripts, NEW k \in DOMAIN scenario.script[p], NEW u \in Branches(o), u \in BranchTasks(scenario.script[p][k])
      PROVE  o = p /\ task[o].at = k
    <2> DEFINE i == task[o].at
    <2>1. i \in DOMAIN scenario.script[o] /\ u \in BranchTasks(scenario.script[o][i])
        BY <1>2, <1>3, Zenon
    <2> HIDE DEF i
    <2>2. o = p /\ i = k
        BY <1>5, <2>1, BranchPlaces, Zenon
    <2>3. QED
        BY <2>2, Zenon DEF i
<1>6. QED
    BY <1>2, <1>4, <1>5, Zenon

\* who runs, who waits and for whom stays as it is
Steady ==
    /\ scenario' = scenario
    /\ \A u \in Scripts : /\ task'[u].owner = task[u].owner /\ task'[u].within = task[u].within
                          /\ (task'[u].pc = "join") = (task[u].pc = "join")
                          /\ (task'[u].pc = "idle") = (task[u].pc = "idle")
                          /\ (task'[u].pc \in Active) = (task[u].pc \in Active)
                          /\ task[u].pc = "join" => task'[u].at = task[u].at

\* While nothing starts or ends, the tree of the tasks stays.
LEMMA SteadyTree ==
    ASSUME Steady, TreeInv, TaskTypes, IsTree(scenario), PcInv
    PROVE  TreeInv'
<1>1. Scripts' = Scripts
    BY Zenon DEF Steady, Scripts
<1>2. \A o \in Scripts : Pc(o) = "join" => Branches(o)' = Branches(o) /\ Branches(o) \subseteq Scripts
    <2>1. ASSUME NEW o \in Scripts, Pc(o) = "join"
          PROVE  Branches(o)' = Branches(o)
        BY <2>1, Zenon DEF Steady, Pc, Branches, StepOf
    <2>2. ASSUME NEW o \in Scripts, Pc(o) = "join"
          PROVE  task[o].at <= Len(scenario.script[o])
        BY <2>2, Zenon DEF PcInv
    <2>3. QED
        BY <2>1, <2>2, OwnBranches, Zenon
<1>3. JoinInv'
    <2>1. ASSUME NEW o \in Scripts, Pc(o)' = "join", NEW u \in Branches(o)'
          PROVE  Pc(u)' # "idle" /\ task'[u].owner = o /\ task'[u].within = task'[o].within \cup {o}
        <3>1. Pc(o) = "join" /\ task'[o].within = task[o].within
            BY <2>1, Zenon DEF Steady, Pc
        <3>2. u \in Branches(o) /\ u \in Scripts
            BY <1>2, <2>1, <3>1, Zenon
        <3>3. Pc(u) # "idle" /\ task[u].owner = o /\ task[u].within = task[o].within \cup {o}
            BY <3>1, <3>2, Zenon DEF TreeInv, JoinInv
        <3>4. QED
            BY <3>1, <3>2, <3>3, Zenon DEF Steady, Pc
    <2>2. QED
        BY <1>1, <2>1, Zenon DEF JoinInv
<1>4. OwnerInv'
    <2>1. ASSUME NEW t \in Scripts \ {Root}, Pc(t)' \in Active
          PROVE  Pc(task[t].owner)' = "join" /\ t \in Branches(task[t].owner)' /\ task'[t].owner = task[t].owner
        <3>1. Pc(t) \in Active /\ task[t].owner \in Scripts /\ task'[t].owner = task[t].owner
            BY <2>1, Zenon DEF Steady, Pc, TaskTypes
        <3>2. Pc(task[t].owner) = "join" /\ t \in Branches(task[t].owner)
            BY <3>1, Zenon DEF TreeInv, OwnerInv
        <3>3. Branches(task[t].owner)' = Branches(task[t].owner)
            <4>1. ASSUME NEW o \in Scripts, Pc(o) = "join"
                  PROVE  Branches(o)' = Branches(o) /\ task'[o].pc = "join"
                BY <1>2, <4>1, Zenon DEF Steady, Pc
            <4>2. task'[task[t].owner].at = task[task[t].owner].at
                BY <3>1, <3>2, Zenon DEF Steady, Pc
            <4>3. QED
                BY <3>1, <4>2, Zenon DEF Steady, Branches, StepOf
        <3>4. task'[task[t].owner].pc = "join"
            BY <3>1, <3>2, Zenon DEF Steady, Pc
        <3>5. QED
            BY <3>1, <3>2, <3>3, <3>4, Zenon DEF Pc
    <2>2. QED
        BY <1>1, <2>1, Zenon DEF OwnerInv, Pc, Branches, StepOf
<1>5. WithinInv'
    <2>1. task'[Root].within = {}
        BY Zenon DEF Steady, WithinInv, TreeInv, IsTree, Scripts
    <2>2. ASSUME NEW t \in Scripts, Pc(t)' \in Active, NEW o \in task'[t].within
          PROVE  Pc(o)' = "join" /\ \E b \in Branches(o)' : Pc(b)' \in Active /\ b \in task'[t].within \cup {t}
        <3>1. Pc(t) \in Active /\ o \in task[t].within /\ o \in Scripts
            BY <2>2, Zenon DEF Steady, Pc, TaskTypes
        <3>2. Pc(o) = "join" /\ \E b \in Branches(o) : Pc(b) \in Active /\ b \in task[t].within \cup {t}
            BY <3>1, Zenon DEF TreeInv, WithinInv
        <3>3. PICK b \in Branches(o) : Pc(b) \in Active /\ b \in task[t].within \cup {t}
            BY <3>2, Zenon
        <3>4. b \in Scripts /\ b \in Branches(o)'
            BY <1>2, <3>1, <3>2, <3>3, Zenon
        <3>5. QED
            BY <3>1, <3>2, <3>3, <3>4, Zenon DEF Steady, Pc
    <2>3. QED
        BY <1>1, <2>1, <2>2, Zenon DEF WithinInv
<1>6. QED
    BY <1>3, <1>4, <1>5, Zenon DEF TreeInv

IsBarrier(u, j) == j \in DOMAIN scenario.script[u] /\ scenario.script[u][j].step = "barrier"

\* every branch is as far as it was, by the barriers it has come to
ReachSame == \A u \in Scripts : \A j : IsBarrier(u, j) => HasReached(u, j)' = HasReached(u, j)

\* While its branches are where they were, the hits of a step count them.
LEMMA HitsKept ==
    ASSUME HitsInv, scenario' = scenario, NEW o \in Scripts, Pc(o) = "join", task'[o].at = task[o].at,
           group'[o].total = group[o].total, group'[o].hits = group[o].hits,
           \A u \in Branches(o) : \A j : IsBarrier(u, j) => HasReached(u, j)' = HasReached(u, j)
    PROVE  /\ (group[o].total = Len(StepOf(o).branches))'
           /\ \A name \in BarrierNames(scenario) : HitsOf(o, name)' = Cardinality(ReachedBy(o, name))'
<1>1. StepOf(o)' = StepOf(o) /\ Branches(o)' = Branches(o)
    BY Zenon DEF Branches, StepOf
<1>2. ASSUME NEW name, NEW u \in Branches(o)
      PROVE  Came(u, name)' = Came(u, name)
    <2>1. \A j \in BarrierAt(scenario, u, name) : HasReached(u, j)' = HasReached(u, j)
        BY <1>2, Zenon DEF IsBarrier, BarrierAt
    <2>2. BarrierAt(scenario, u, name)' = BarrierAt(scenario, u, name)
        BY Zenon DEF BarrierAt
    <2>3. QED
        BY <2>1, <2>2, Zenon DEF Came
<1>3. ASSUME NEW name
      PROVE  ReachedBy(o, name)' = ReachedBy(o, name)
    <2>1. ReachedBy(o, name)' = {u \in Branches(o) : Came(u, name)'}
        BY <1>1, Zenon DEF ReachedBy
    <2>2. QED
        BY <1>2, <2>1, Zenon DEF ReachedBy
<1>4. \A name : HitsOf(o, name)' = HitsOf(o, name)
    BY Zenon DEF HitsOf
<1>5. \A name \in BarrierNames(scenario) : HitsOf(o, name) = Cardinality(ReachedBy(o, name))
    BY Zenon DEF HitsInv
<1>6. ASSUME NEW name \in BarrierNames(scenario)
      PROVE  HitsOf(o, name)' = Cardinality(ReachedBy(o, name))'
    <2>1. Cardinality(ReachedBy(o, name))' = Cardinality(ReachedBy(o, name))
        BY <1>3, Zenon
    <2>2. QED
        BY <1>4, <1>5, <2>1, Zenon
<1>7. (group[o].total = Len(StepOf(o).branches))'
    BY <1>1, Zenon DEF HitsInv
<1>8. QED
    BY <1>6, <1>7, Zenon

\* So while all branches are.
LEMMA SteadyHits ==
    ASSUME HitsInv, ReachSame, IsTree(scenario), TaskTypes, PcInv, scenario' = scenario,
           \A o \in Scripts : Pc(o)' = "join" => /\ Pc(o) = "join" /\ task'[o].at = task[o].at
                                                /\ group'[o].total = group[o].total /\ group'[o].hits = group[o].hits
    PROVE  HitsInv'
<1>1. Scripts' = Scripts /\ BarrierNames(scenario)' = BarrierNames(scenario)
    BY Zenon DEF Scripts
<1>2. ASSUME NEW o \in Scripts, Pc(o)' = "join"
      PROVE  /\ (group[o].total = Len(StepOf(o).branches))'
             /\ \A name \in BarrierNames(scenario) : HitsOf(o, name)' = Cardinality(ReachedBy(o, name))'
    <2>1. Pc(o) = "join" /\ task[o].at <= Len(scenario.script[o])
        BY <1>2, Zenon DEF PcInv
    <2>2. Branches(o) \subseteq Scripts
        BY <2>1, OwnBranches, Zenon
    <2>3. QED
        BY <1>2, <2>1, <2>2, HitsKept, Zenon DEF ReachSame
<1>3. QED
    BY <1>1, <1>2, Zenon DEF HitsInv

\* Nor does anyone get past a barrier then that not all have come to.
LEMMA SteadyTogether ==
    ASSUME BarrierTogether, ReachSame, IsTree(scenario), TaskTypes, TaskTypes', PcInv', scenario' = scenario,
           \A t \in Scripts : task'[t].owner = task[t].owner,
           \A t \in Scripts : \A i \in 1..(task'[t].at - 1) : IsBarrier(t, i) =>
               i \in 1..(task[t].at - 1) \/ \A u \in Siblings(t) : Came(u, scenario.script[t][i].name)
    PROVE  BarrierTogether'
<1>1. Scripts' = Scripts /\ Tasks = Scripts /\ Tasks' = Scripts
    BY Zenon DEF Scripts, Tasks, TaskTypes
<1>2. ASSUME NEW t \in Scripts \ {Root}, NEW i \in 1..(task'[t].at - 1), scenario'.script[t][i].step = "barrier",
             NEW u \in Siblings(t)'
      PROVE  (\E j \in DOMAIN scenario.script[u] :
                /\ scenario.script[u][j].step = "barrier" /\ scenario.script[u][j].name = scenario.script[t][i].name
                /\ HasReached(u, j))'
    <2>1. u \in Siblings(t)
        BY <1>2, Zenon DEF Siblings
    <2>2. PICK k \in DOMAIN scenario.script[task[t].owner] : u \in BranchTasks(scenario.script[task[t].owner][k])
        BY <2>1, Zenon DEF Siblings
    <2>3. u \in Scripts
        BY <2>2, BranchPlaces, Zenon DEF TaskTypes
    <2>4. i \in DOMAIN scenario.script[t]
        <3>1. task'[t].at <= Len(scenario.script[t]) + 1 /\ task'[t].at \in Nat
            BY <1>1, Zenon DEF PcInv, TaskTypes
        <3>2. Len(scenario.script[t]) \in Nat /\ DOMAIN scenario.script[t] = 1..Len(scenario.script[t])
            BY ScriptPlaces, Zenon
        <3>3. QED
            BY <3>1, <3>2
    <2>5. i \in 1..(task[t].at - 1) \/ Came(u, scenario.script[t][i].name)
        BY <1>2, <2>1, <2>4, Zenon DEF IsBarrier
    <2>6. PICK j \in DOMAIN scenario.script[u] :
                /\ scenario.script[u][j].step = "barrier" /\ scenario.script[u][j].name = scenario.script[t][i].name
                /\ HasReached(u, j)
        BY <1>1, <1>2, <2>1, <2>5, Zenon DEF BarrierTogether, Came, BarrierAt
    <2>7. HasReached(u, j)'
        BY <2>3, <2>6, Zenon DEF ReachSame, IsBarrier
    <2>8. QED
        BY <2>6, <2>7, Zenon
<1>3. QED
    BY <1>1, <1>2, Zenon DEF BarrierTogether

\* A context that has ended stays ended while its groups do.
LEMMA CtxSame ==
    ASSUME ctxDone' = ctxDone, NEW t, task'[t].within = task[t].within,
           \A u \in task[t].within : group'[u].cancelled = group[u].cancelled
    PROVE  CtxDone(t)' = CtxDone(t)
BY Zenon DEF CtxDone

\* Going on within a step keeps the invariant.
LEMMA WorksInv ==
    ASSUME DemoInv, Works
    PROVE  DemoInv'
<1>1. /\ scenario' = scenario /\ phase' = phase /\ result' = result /\ ctxDone' = ctxDone /\ group' = group
      /\ DOMAIN session' = DOMAIN session /\ phase = "run" /\ TaskTypes' /\ Scripts' = Scripts
      /\ TaskTypes /\ IsTree(scenario) /\ PcInv
    BY Zenon DEF Works, Frame, Scripts, DemoInv, ScenarioInv
<1>2. ASSUME NEW u \in Scripts
      PROVE  /\ Kept(u) /\ (task'[u].pc = "join") = (task[u].pc = "join")
             /\ (task'[u].pc = "idle") = (task[u].pc = "idle")
             /\ (task'[u].pc \in Active) = (task[u].pc \in Active)
             /\ (task'[u].pc = "fail") = (task[u].pc = "fail")
             /\ (task'[u].pc = "cancel") = (task[u].pc = "cancel")
             /\ task'[u].pc = "step" => task[u].pc = "step"
    <2>1. Same(u) \/ Stays(u) \/ Locks(u)
        BY <1>2, Zenon DEF Works
    <2>2. CASE Same(u)
        BY <2>2, Zenon DEF Same
    <2>3. CASE Stays(u)
        <3>1. task'[u].pc \in Working /\ task[u].pc \in Working /\ Kept(u)
            BY <2>3, PcClasses, Zenon DEF Stays
        <3>2. QED
            BY <3>1, PcClasses DEF Stays
    <2>4. CASE Locks(u)
        BY <2>4, PcClasses DEF Locks
    <2>5. QED
        BY <2>1, <2>2, <2>3, <2>4
<1>3. Steady
    BY <1>1, <1>2, Zenon DEF Steady, Kept
<1>4. GroupTypes' /\ ScenarioInv'
    BY <1>1, Zenon DEF DemoInv, GroupTypes, ScenarioInv
<1>5. PcInv'
    <2>1. ASSUME NEW u \in Scripts
          PROVE  /\ task'[u].at <= Len(scenario.script[u]) + 1
                 /\ Pc(u)' \in Working \cup {"join"} => task'[u].at <= Len(scenario.script[u])
                 /\ Pc(u)' \in BarrierPcs => StepOf(u)'.step = "barrier"
                 /\ Pc(u)' \in SessionPcs => StepOf(u)'.step \in SessionSteps /\ StepOf(u)'.session \in DOMAIN session'
                 /\ Pc(u)' = "join" => StepOf(u)'.step = "parallel"
        <3>1. /\ task[u].at <= Len(scenario.script[u]) + 1
              /\ Pc(u) \in Working \cup {"join"} => task[u].at <= Len(scenario.script[u])
              /\ Pc(u) \in BarrierPcs => StepOf(u).step = "barrier"
              /\ Pc(u) \in SessionPcs => StepOf(u).step \in SessionSteps /\ StepOf(u).session \in DOMAIN session
              /\ Pc(u) = "join" => StepOf(u).step = "parallel"
            BY <1>1, Zenon DEF PcInv
        <3>2. StepOf(u)' = StepOf(u) /\ task'[u].at = task[u].at
            BY <1>1, <1>2, Zenon DEF StepOf, Kept
        <3>3. CASE Same(u)
            BY <1>1, <3>1, <3>2, <3>3, Zenon DEF Same, Pc
        <3>4. CASE Stays(u) /\ task[u].pc \in BarrierPcs /\ task'[u].pc \in BarrierPcs
            BY <1>1, <3>1, <3>2, <3>4, PcClasses, Zenon DEF Pc
        <3>5. CASE Stays(u) /\ task[u].pc \in SessionPcs /\ task'[u].pc \in SessionPcs
            BY <1>1, <3>1, <3>2, <3>5, PcClasses, Zenon DEF Pc
        <3>6. CASE Locks(u)
            <4>1. Pc(u)' = "held" /\ Pc(u)' \in SessionPcs /\ Pc(u)' \notin BarrierPcs /\ Pc(u)' # "join"
                BY <3>6 DEF Locks, Pc, SessionPcs, BarrierPcs
            <4>2. QED
                BY <1>1, <3>1, <3>2, <3>6, <4>1, Zenon DEF Locks
        <3>7. QED
            BY <3>3, <3>4, <3>5, <3>6, Zenon DEF Works, Stays
    <2>2. QED
        BY <1>1, <2>1, Zenon DEF PcInv
<1>6. TreeInv'
    BY <1>1, <1>3, SteadyTree, Zenon DEF DemoInv
<1>7. ErrorInv'
    <2>1. ASSUME NEW u \in Scripts
          PROVE  CtxDone(u)' = CtxDone(u)
        BY <1>1, <1>2, CtxSame, Zenon DEF Kept
    <2>2. ErrorInv
        BY Zenon DEF DemoInv
    <2>3. ASSUME NEW t \in Scripts
          PROVE  (/\ Pc(t) = "step" => task[t].err = "nil"
                  /\ Pc(t) = "fail" /\ task[t].err = "canceled" => CtxDone(t)
                  /\ Pc(t) = "cancel" => t # Root /\ group[task[t].owner].errs # <<>>)'
        <3>1. /\ Pc(t) = "step" => task[t].err = "nil"
              /\ Pc(t) = "fail" /\ task[t].err = "canceled" => CtxDone(t)
              /\ Pc(t) = "cancel" => t # Root /\ group[task[t].owner].errs # <<>>
            BY <2>2, Zenon DEF ErrorInv
        <3>2. /\ task'[t].err = task[t].err /\ task'[t].owner = task[t].owner /\ group' = group /\ CtxDone(t)' = CtxDone(t)
              /\ Pc(t)' \in {"step", "fail", "cancel"} => Pc(t)' = Pc(t)
            BY <1>1, <1>2, <2>1, Zenon DEF Kept, Pc
        <3>3. QED
            BY <3>1, <3>2, Zenon
    <2>4. ASSUME NEW o \in Scripts, Pc(o)' = "join"
          PROVE  (/\ group[o].cancelled => group[o].errs # <<>>
                  /\ group[o].errs # <<>> /\ group[o].errs[1] = "canceled" => CtxDone(o))'
        BY <1>1, <1>2, <2>1, <2>2, <2>4, Zenon DEF ErrorInv, Pc
    <2>5. ErrorIsCause'
        BY <1>1, <2>2, Zenon DEF ErrorInv, ErrorIsCause
    <2>6. QED
        BY <1>1, <2>3, <2>4, <2>5, Zenon DEF ErrorInv
<1>8. ReachSame
    <2>1. ASSUME NEW u \in Scripts, NEW j, IsBarrier(u, j)
          PROVE  HasReached(u, j)' = HasReached(u, j)
        <3>1. CASE task'[u].pc = "step" <=> task[u].pc = "step"
            BY <1>2, <3>1, Zenon DEF HasReached, Kept
        <3>2. CASE ~(task'[u].pc = "step" <=> task[u].pc = "step")
            <4>1. Locks(u)
                <5>1. ~Stays(u)
                    BY <3>2, PcClasses, Zenon DEF Stays
                <5>2. QED
                    BY <3>2, <5>1, Zenon DEF Works, Same
            <4>2. j # task[u].at
                BY <2>1, <4>1 DEF IsBarrier, Locks, StepOf, SessionSteps
            <4>3. QED
                BY <1>2, <4>2, Zenon DEF HasReached, Kept
        <3>3. QED
            BY <3>1, <3>2
    <2>2. QED
        BY <2>1, Zenon DEF ReachSame
<1>9. HitsInv'
    BY <1>1, <1>2, <1>8, SteadyHits, Zenon DEF DemoInv, Pc, Kept
<1>10. BarrierTogether'
    BY <1>1, <1>2, <1>5, <1>8, SteadyTogether, Zenon DEF DemoInv, Kept
<1>11. QED
    BY <1>1, <1>4, <1>5, <1>6, <1>7, <1>9, <1>10, Zenon DEF DemoInv

\* The siblings of a branch that runs are the branches its owner waits for.
LEMMA SiblingsAre ==
    ASSUME IsTree(scenario), TaskTypes, PcInv, OwnerInv, NEW t \in Scripts \ {Root}, Pc(t) \in Active
    PROVE  Siblings(t) = Branches(task[t].owner)
<1> DEFINE o == task[t].owner
<1>1. o \in Scripts /\ Pc(o) = "join" /\ t \in Branches(o)
    BY Zenon DEF TaskTypes, OwnerInv
<1>2. task[o].at <= Len(scenario.script[o])
    BY <1>1, Zenon DEF PcInv
<1>3. /\ task[o].at \in DOMAIN scenario.script[o]
      /\ \A u \in Branches(o) : \A p \in Scripts : \A k \in DOMAIN scenario.script[p] :
            u \in BranchTasks(scenario.script[p][k]) => o = p /\ task[o].at = k
    BY <1>1, <1>2, OwnBranches, Zenon
<1>4. \A k \in DOMAIN scenario.script[o] : t \in BranchTasks(scenario.script[o][k]) => task[o].at = k
    BY <1>1, <1>3, Zenon
<1>5. Branches(o) = BranchTasks(scenario.script[o][task[o].at])
    BY Zenon DEF Branches, StepOf
<1>6. ASSUME NEW u
      PROVE  u \in Siblings(t) <=> u \in Branches(o)
    <2>1. u \in Siblings(t) <=> \E i \in DOMAIN scenario.script[o] : /\ t \in BranchTasks(scenario.script[o][i])
                                                                    /\ u \in BranchTasks(scenario.script[o][i])
        BY Zenon DEF Siblings
    <2>2. QED
        BY <1>1, <1>3, <1>4, <1>5, <2>1, Zenon
<1>7. QED
    BY <1>6, Zenon

\* A task that returns from a step had come to it, and has not come to the next.
LEMMA ReturnedReach ==
    ASSUME TaskTypes, IsTree(scenario), NEW t \in Scripts, NEW err \in Errors, task' = Returned(t, err), scenario' = scenario,
           task[t].pc # "step"
    PROVE  ReachSame
<1>1. /\ \A u \in Scripts : u # t => task'[u] = task[u]
      /\ task'[t].pc = IF err = "nil" THEN "step" ELSE "fail"
      /\ task'[t].at = IF err = "nil" THEN task[t].at + 1 ELSE task[t].at
    BY ReturnedFields, Zenon
<1>2. ASSUME NEW j, IsBarrier(t, j)
      PROVE  HasReached(t, j)' = HasReached(t, j)
    <2>1. j \in Int /\ task[t].at \in Int
        <3>1. DOMAIN scenario.script[t] = 1..Len(scenario.script[t]) /\ Len(scenario.script[t]) \in Nat
            BY ScriptPlaces, Zenon
        <3>2. QED
            BY <1>2, <3>1 DEF IsBarrier, TaskTypes
    <2>2. CASE err = "nil"
        <3>1. (task[t].at + 1 > j) <=> (task[t].at > j \/ task[t].at = j)
            BY <2>1
        <3>2. (HasReached(t, j)' <=> task[t].at + 1 > j) /\ (HasReached(t, j) <=> (task[t].at > j \/ task[t].at = j))
            BY <1>1, <2>2, Zenon DEF HasReached
        <3>3. QED
            BY <3>1, <3>2, Zenon DEF HasReached
    <2>3. CASE err # "nil"
        <3>1. task'[t].pc # "step" /\ task'[t].at = task[t].at
            BY <1>1, <2>3
        <3>2. QED
            BY <3>1, Zenon DEF HasReached
    <2>4. QED
        BY <2>2, <2>3
<1>3. ASSUME NEW u \in Scripts, NEW j, IsBarrier(u, j), u # t
      PROVE  HasReached(u, j)' = HasReached(u, j)
    BY <1>1, <1>3, Zenon DEF HasReached
<1>4. QED
    BY <1>2, <1>3, Zenon DEF ReachSame

\* Returning from a step keeps what says where a task is in its script.
LEMMA ReturnedPc ==
    ASSUME TaskTypes, IsTree(scenario), PcInv, NEW t \in Scripts, NEW err \in Errors, task' = Returned(t, err),
           scenario' = scenario, DOMAIN session' = DOMAIN session, task[t].at <= Len(scenario.script[t])
    PROVE  PcInv'
<1>1. /\ \A u \in Scripts : u # t => task'[u] = task[u]
      /\ task'[t].pc = IF err = "nil" THEN "step" ELSE "fail"
      /\ task'[t].at = IF err = "nil" THEN task[t].at + 1 ELSE task[t].at
    BY ReturnedFields, Zenon
<1>2. task'[t].at <= Len(scenario.script[t]) + 1
    <2>1. Len(scenario.script[t]) \in Nat /\ task[t].at \in Nat
        BY ScriptPlaces, Zenon DEF TaskTypes
    <2>2. QED
        BY <1>1, <2>1
<1>3. Pc(t)' \notin Working /\ Pc(t)' # "join"
    BY <1>1, PcClasses DEF Pc
<1>4. ASSUME NEW u \in Scripts
      PROVE  (/\ task[u].at <= Len(scenario.script[u]) + 1
              /\ Pc(u) \in Working \cup {"join"} => task[u].at <= Len(scenario.script[u])
              /\ Pc(u) \in BarrierPcs => StepOf(u).step = "barrier"
              /\ Pc(u) \in SessionPcs => StepOf(u).step \in SessionSteps /\ StepOf(u).session \in DOMAIN session
              /\ Pc(u) = "join" => StepOf(u).step = "parallel")'
    <2>1. CASE u = t
        BY <1>2, <1>3, <2>1, PcClasses, Zenon DEF Pc
    <2>2. CASE u # t
        <3>1. Pc(u)' = Pc(u) /\ task'[u].at = task[u].at /\ StepOf(u)' = StepOf(u)
            BY <1>1, <2>2, Zenon DEF Pc, StepOf
        <3>2. QED
            BY <3>1, Zenon DEF PcInv
    <2>3. QED
        BY <2>1, <2>2
<1>5. QED
    BY <1>4, Zenon DEF PcInv, Scripts

\* Nothing of the tasks changes: the invariant stays if the result is as it should be.
LEMMA QuietInv ==
    ASSUME DemoInv, UNCHANGED <<scenario, task, group>>, DOMAIN session' = DOMAIN session,
           phase' = "run" => phase = "run", ctxDone => ctxDone', result' = "canceled" => ctxDone'
    PROVE  DemoInv'
<1>1. Scripts' = Scripts
    BY Zenon DEF Scripts
<1> TaskTypes /\ IsTree(scenario) /\ PcInv
    BY Zenon DEF DemoInv, ScenarioInv
<1>8. TaskTypes' /\ GroupTypes'
    BY <1>1, Zenon DEF DemoInv, TaskTypes, GroupTypes
<1>9. Steady /\ ReachSame
    BY Zenon DEF Steady, ReachSame, HasReached
<1>2. TaskTypes' /\ GroupTypes' /\ TreeInv' /\ HitsInv'
    BY <1>8, <1>9, SteadyTree, SteadyHits, Zenon DEF DemoInv, Pc
<1>3. ScenarioInv'
    BY Zenon DEF DemoInv, ScenarioInv, Scripts
<1>4. PcInv'
    BY Zenon DEF DemoInv, PcInv, Scripts, Pc, StepOf
<1>5. BarrierTogether'
    BY <1>4, <1>8, <1>9, SteadyTogether, Zenon DEF DemoInv
<1>6. ErrorInv'
    <2>1. \A t : CtxDone(t) => CtxDone(t)'
        BY Zenon DEF CtxDone
    <2>2. QED
        BY <1>1, <2>1, Zenon DEF DemoInv, ErrorInv, Pc, ErrorIsCause
<1>7. QED
    BY <1>2, <1>3, <1>4, <1>5, <1>6, Zenon DEF DemoInv

\* RunScenario returns the error of the script; a branch's cancellation is not it.
LEMMA EndInv ==
    ASSUME DemoInv, ScriptEnd \/ closeAll \/ CallerCancel \/ Panics \/ Idles
    PROVE  DemoInv'
<1>1. UNCHANGED <<scenario, task, group>> /\ (ctxDone => ctxDone')
    <2>1. UNCHANGED <<scenario, task, group>>
        BY Zenon DEF ScriptEnd, closeAll, CallerCancel, Panics, Idles
    <2>2. ctxDone' = ctxDone \/ ctxDone' = TRUE
        BY Zenon DEF ScriptEnd, closeAll, CallerCancel, Panics, Idles
    <2>3. ctxDone => ctxDone'
        <3>1. CASE ctxDone' = TRUE
            BY <3>1, Zenon
        <3>2. CASE ctxDone' = ctxDone
            BY <3>2, Zenon
        <3>3. QED
            BY <2>2, <3>1, <3>2, Zenon
    <2>4. QED
        BY <2>1, <2>3, Zenon
<1>2. DOMAIN session' = DOMAIN session
    <2>1. CASE closeAll
        BY <2>1, Zenon DEF closeAll
    <2>2. CASE ScriptEnd \/ CallerCancel \/ Panics \/ Idles
        BY <2>2, Zenon DEF ScriptEnd, CallerCancel, Panics, Idles
    <2>3. QED
        BY <2>1, <2>2, Zenon
<1>3. phase' = "run" => phase = "run"
    BY DEF ScriptEnd, closeAll, CallerCancel, Panics, Idles
<1>4. ErrorInv /\ Root \in Scripts /\ task[Root].within = {}
    BY Zenon DEF DemoInv, ScenarioInv, IsTree, Scripts, TreeInv, WithinInv
<1>5. result' = "canceled" => ctxDone'
    <2>1. CASE ScriptEnd
        <3>1. task[Root].err = "canceled" => CtxDone(Root)
            BY <1>4, <2>1 DEF ScriptEnd, ErrorInv, AtStep, Pc
        <3>2. QED
            BY <1>4, <2>1, <3>1, Zenon DEF ScriptEnd, CtxDone
    <2>2. CASE closeAll \/ CallerCancel \/ Panics \/ Idles
        <3>1. result' = result
            BY <2>2, Zenon DEF closeAll, CallerCancel, Panics, Idles
        <3>2. QED
            BY <1>1, <1>4, <3>1, Zenon DEF ErrorInv, ErrorIsCause
    <2>3. QED
        BY <2>1, <2>2, Zenon
<1>6. QED
    BY <1>1, <1>2, <1>3, <1>5, QuietInv, Zenon

\* What EXCEPT does to the place of one task.
LEMMA PcFields ==
    ASSUME TaskTypes, scenario' = scenario, NEW t \in Scripts, NEW pc \in Active \cup {"done"}, task' = [task EXCEPT ![t].pc = pc]
    PROVE  /\ TaskTypes'
           /\ \A u \in Scripts : u # t => task'[u] = task[u]
           /\ \A u \in Scripts : Kept(u)
           /\ task'[t].pc = pc
<1> DEFINE new == [task[t] EXCEPT !.pc = pc]
<1>1. task' = [task EXCEPT ![t] = new]
    OBVIOUS
<1>2. DOMAIN new = TaskFields /\ new.pc = pc /\ Like([new EXCEPT !.pc = task[t].pc], task[t])
    BY DEF TaskTypes, TaskFields, Like
<1>3. new.at = task[t].at /\ new.err = task[t].err /\ new.owner = task[t].owner /\ new.within = task[t].within
    BY DEF TaskTypes, TaskFields
<1> HIDE DEF new
<1>4. /\ DOMAIN task' = Scripts /\ task'[t] = new
      /\ \A u \in Scripts : u # t => task'[u] = task[u]
    BY <1>1, Zenon DEF TaskTypes
<1>5. TaskTypes'
    <2>1. Scripts' = Scripts /\ DOMAIN new = TaskFields /\ new.pc \in Active \cup {"idle", "done"}
        BY <1>2, Zenon DEF Scripts
    <2>2. new.at \in Nat \ {0} /\ new.err \in Errors /\ new.owner \in Scripts /\ new.within \subseteq Scripts
        BY <1>3, Zenon DEF TaskTypes
    <2>3. ASSUME NEW u \in Scripts
          PROVE  /\ DOMAIN task'[u] = TaskFields
                 /\ task'[u].pc \in Active \cup {"idle", "done"} /\ task'[u].at \in Nat \ {0} /\ task'[u].err \in Errors
                 /\ task'[u].owner \in Scripts /\ task'[u].within \subseteq Scripts
        <3>1. CASE u = t
            BY <1>4, <2>1, <2>2, <3>1, Zenon
        <3>2. CASE u # t
            BY <1>4, <3>2, Zenon DEF TaskTypes
        <3>3. QED
            BY <3>1, <3>2
    <2>4. DOMAIN task' = Scripts'
        BY <1>4, <2>1, Zenon
    <2>5. QED
        BY <2>1, <2>3, <2>4 DEF TaskTypes
<1>6. QED
    BY <1>2, <1>3, <1>4, <1>5, Zenon DEF Kept

\* A branch that is done leaves the tree: nobody runs below it.
LEMMA DoneTree ==
    ASSUME DemoInv, scenario' = scenario, NEW t \in Scripts, task[t].pc \in {"step", "cancel"},
           task' = [task EXCEPT ![t].pc = "done"]
    PROVE  TreeInv'
<1>1. TaskTypes /\ IsTree(scenario) /\ PcInv /\ TreeInv /\ Scripts' = Scripts
    BY Zenon DEF DemoInv, ScenarioInv, Scripts
<1>2. /\ \A u \in Scripts : u # t => task'[u] = task[u]
      /\ \A u \in Scripts : Kept(u)
      /\ task'[t].pc = "done"
    BY <1>1, PcFields, Zenon
<1>3. Pc(t) # "join" /\ Pc(t)' # "join" /\ Pc(t)' # "idle" /\ Pc(t)' \notin Active
    BY <1>2, PcClasses DEF Pc
<1>4. ASSUME NEW u \in Scripts
      PROVE  (Pc(u)' = "join") <=> (Pc(u) = "join")
    BY <1>2, <1>3, Zenon DEF Pc
<1>5. ASSUME NEW o \in Scripts, Pc(o) = "join"
      PROVE  Branches(o)' = Branches(o) /\ Branches(o) \subseteq Scripts
    <2>1. Branches(o)' = Branches(o)
        BY <1>2, Zenon DEF Kept, Branches, StepOf
    <2>2. task[o].at <= Len(scenario.script[o])
        BY <1>1, <1>5, Zenon DEF PcInv
    <2>3. QED
        BY <1>1, <2>1, <2>2, OwnBranches, Zenon
<1>6. JoinInv'
    <2>1. ASSUME NEW o \in Scripts, Pc(o)' = "join", NEW u \in Branches(o)'
          PROVE  (Pc(u) # "idle" /\ task[u].owner = o /\ task[u].within = task[o].within \cup {o})'
        <3>1. Pc(o) = "join" /\ u \in Branches(o) /\ u \in Scripts
            BY <1>4, <1>5, <2>1, Zenon
        <3>2. Pc(u) # "idle" /\ task[u].owner = o /\ task[u].within = task[o].within \cup {o}
            BY <1>1, <3>1, Zenon DEF TreeInv, JoinInv
        <3>3. Pc(u)' # "idle"
            BY <1>2, <1>3, <3>1, <3>2, Zenon DEF Pc
        <3>4. QED
            BY <1>2, <3>1, <3>2, <3>3, Zenon DEF Kept
    <2>2. QED
        BY <1>1, <2>1, Zenon DEF JoinInv
<1>7. OwnerInv'
    <2>1. ASSUME NEW u \in Scripts \ {Root}, Pc(u)' \in Active
          PROVE  (Pc(task[u].owner) = "join" /\ u \in Branches(task[u].owner))'
        <3>1. Pc(u) \in Active /\ task'[u].owner = task[u].owner /\ task[u].owner \in Scripts
            BY <1>1, <1>2, <1>3, <2>1, Zenon DEF Pc, TaskTypes
        <3>2. Pc(task[u].owner) = "join" /\ u \in Branches(task[u].owner)
            BY <1>1, <3>1, Zenon DEF TreeInv, OwnerInv
        <3>3. Pc(task[u].owner)' = "join" /\ u \in Branches(task[u].owner)'
            <4>1. PICK o \in Scripts : o = task[u].owner
                BY <3>1, Zenon
            <4>2. Pc(o)' = "join" /\ u \in Branches(o)'
                BY <1>4, <1>5, <3>2, <4>1, Zenon
            <4>3. task'[u].owner = o
                BY <3>1, <4>1, Zenon
            <4>4. QED
                BY <4>2, <4>3, Zenon DEF Pc, Branches, StepOf
        <3>4. QED
            BY <3>3
    <2>2. QED
        BY <1>1, <2>1, Zenon DEF OwnerInv
<1>8. WithinInv'
    <2>1. task'[Root].within = {}
        BY <1>1, <1>2, Zenon DEF TreeInv, WithinInv, IsTree, Scripts, Kept
    <2>2. ASSUME NEW u \in Scripts, Pc(u)' \in Active, NEW o \in task'[u].within
          PROVE  Pc(o)' = "join" /\ \E b \in Branches(o)' : Pc(b)' \in Active /\ b \in task'[u].within \cup {u}
        <3>1. Pc(u) \in Active /\ o \in task[u].within /\ o \in Scripts /\ u # t
            BY <1>1, <1>2, <1>3, <2>2, Zenon DEF Pc, TaskTypes, Kept
        <3>2. Pc(o) = "join" /\ \E b \in Branches(o) : Pc(b) \in Active /\ b \in task[u].within \cup {u}
            BY <1>1, <3>1, Zenon DEF TreeInv, WithinInv
        <3>3. PICK b \in Branches(o) : Pc(b) \in Active /\ b \in task[u].within \cup {u}
            BY <3>2, Zenon
        <3>4. b \in Scripts /\ b \in Branches(o)'
            BY <1>5, <3>1, <3>2, <3>3, Zenon
        <3>5. b # t
            <4>1. b \in task[u].within => Pc(b) = "join"
                BY <1>1, <3>1, Zenon DEF TreeInv, WithinInv
            <4>2. QED
                BY <1>3, <3>1, <3>3, <4>1, Zenon
        <3>6. QED
            BY <1>2, <1>4, <3>1, <3>2, <3>3, <3>4, <3>5, Zenon DEF Pc, Kept
    <2>3. QED
        BY <1>1, <2>1, <2>2, Zenon DEF WithinInv
<1>9. QED
    BY <1>6, <1>7, <1>8, Zenon DEF TreeInv

\* A branch that has ended its script, or has failed, keeps its place in it.
LEMMA EndPlaces ==
    ASSUME DemoInv, UNCHANGED <<scenario, phase, session>>, NEW t \in Scripts, NEW pc \in {"cancel", "done"},
           task' = [task EXCEPT ![t].pc = pc], task[t].pc \in {"step", "fail", "cancel"},
           task[t].pc = "step" => task[t].at > Len(scenario.script[t]),
           \A o \in Scripts : group'[o].total = group[o].total /\ group'[o].hits = group[o].hits
    PROVE  TaskTypes' /\ ScenarioInv' /\ PcInv' /\ HitsInv' /\ BarrierTogether'
<1>1. TaskTypes /\ IsTree(scenario) /\ PcInv /\ Scripts' = Scripts
    BY Zenon DEF DemoInv, ScenarioInv, Scripts
<1>2. pc \in Active \cup {"done"}
    BY PcClasses, Zenon
<1>3. /\ TaskTypes'
      /\ \A u \in Scripts : u # t => task'[u] = task[u]
      /\ \A u \in Scripts : Kept(u)
      /\ task'[t].pc = pc
    BY <1>1, <1>2, PcFields, Zenon
<1>4. Pc(t)' # "join" /\ Pc(t)' \notin Working /\ Pc(t)' # "step"
    BY <1>3, PcClasses DEF Pc
<1>5. ScenarioInv'
    BY <1>1, Zenon DEF DemoInv, ScenarioInv
<1>6. PcInv'
    <2>1. ASSUME NEW u \in Scripts
          PROVE  (/\ task[u].at <= Len(scenario.script[u]) + 1
                  /\ Pc(u) \in Working \cup {"join"} => task[u].at <= Len(scenario.script[u])
                  /\ Pc(u) \in BarrierPcs => StepOf(u).step = "barrier"
                  /\ Pc(u) \in SessionPcs => StepOf(u).step \in SessionSteps /\ StepOf(u).session \in DOMAIN session
                  /\ Pc(u) = "join" => StepOf(u).step = "parallel")'
        <3>1. task'[u].at = task[u].at /\ StepOf(u)' = StepOf(u) /\ task[u].at <= Len(scenario.script[u]) + 1
            BY <1>1, <1>3, Zenon DEF Kept, StepOf, PcInv
        <3>2. CASE u = t
            BY <1>4, <3>1, <3>2, PcClasses, Zenon
        <3>3. CASE u # t
            <4>1. Pc(u)' = Pc(u)
                BY <1>3, <3>3, Zenon DEF Pc
            <4>2. QED
                BY <1>1, <3>1, <4>1, Zenon DEF PcInv
        <3>4. QED
            BY <3>2, <3>3
    <2>2. QED
        BY <1>1, <2>1, Zenon DEF PcInv
<1>7. ReachSame
    <2>1. ASSUME NEW u \in Scripts, NEW j, IsBarrier(u, j)
          PROVE  HasReached(u, j)' = HasReached(u, j)
        <3>1. CASE u # t \/ task[u].pc # "step"
            BY <1>3, <1>4, <3>1, Zenon DEF HasReached, Kept, Pc
        <3>2. CASE u = t /\ task[u].pc = "step"
            <4>1. task[u].at > Len(scenario.script[u]) /\ task[u].at \in Nat
                BY <1>1, <3>2, Zenon DEF TaskTypes
            <4>2. Len(scenario.script[u]) \in Nat /\ DOMAIN scenario.script[u] = 1..Len(scenario.script[u])
                BY <1>1, ScriptPlaces, Zenon
            <4>3. task[u].at > j
                BY <2>1, <4>1, <4>2 DEF IsBarrier
            <4>4. QED
                BY <1>3, <4>3, Zenon DEF HasReached, Kept
        <3>3. QED
            BY <3>1, <3>2
    <2>2. QED
        BY <2>1, Zenon DEF ReachSame
<1>8. HitsInv'
    <2>1. ASSUME NEW o \in Scripts, Pc(o)' = "join"
          PROVE  Pc(o) = "join" /\ task'[o].at = task[o].at
        BY <1>3, <1>4, <2>1, Zenon DEF Pc
    <2>2. QED
        BY <1>1, <1>7, <2>1, SteadyHits, Zenon DEF DemoInv
<1>9. BarrierTogether'
    BY <1>1, <1>3, <1>6, <1>7, SteadyTogether, Zenon DEF DemoInv, Kept
<1>10. QED
    BY <1>3, <1>5, <1>6, <1>8, <1>9, Zenon

\* A branch that has run its script is done.
LEMMA BranchEndInv ==
    ASSUME DemoInv, NEW t \in Scripts, BranchEnd(t)
    PROVE  DemoInv'
<1>1. /\ UNCHANGED <<scenario, phase, session, group, result, ctxDone>> /\ task' = [task EXCEPT ![t].pc = "done"]
      /\ task[t].pc = "step" /\ task[t].at > Len(scenario.script[t])
    BY Zenon DEF BranchEnd, AtStep
<1>2. TaskTypes' /\ ScenarioInv' /\ PcInv' /\ HitsInv' /\ BarrierTogether'
    BY <1>1, EndPlaces, Zenon
<1>3. TreeInv'
    BY <1>1, DoneTree, Zenon
<1>4. TaskTypes /\ ErrorInv /\ Scripts' = Scripts
    BY <1>1, Zenon DEF DemoInv, Scripts
<1>5. GroupTypes'
    BY <1>1, <1>4, Zenon DEF DemoInv, GroupTypes
<1>6. /\ \A u \in Scripts : u # t => task'[u] = task[u]
      /\ \A u \in Scripts : Kept(u)
      /\ task'[t].pc = "done"
    BY <1>1, <1>4, PcFields, Zenon
<1>7. ErrorInv'
    <2>1. ASSUME NEW u \in Scripts
          PROVE  CtxDone(u)' = CtxDone(u)
        BY <1>1, <1>6, CtxSame, Zenon DEF Kept
    <2>2. Pc(t)' # "step" /\ Pc(t)' # "fail" /\ Pc(t)' # "cancel" /\ Pc(t)' # "join"
        BY <1>6 DEF Pc
    <2>3. ASSUME NEW u \in Scripts
          PROVE  (/\ Pc(u) = "step" => task[u].err = "nil"
                  /\ Pc(u) = "fail" /\ task[u].err = "canceled" => CtxDone(u)
                  /\ Pc(u) = "cancel" => u # Root /\ group[task[u].owner].errs # <<>>)'
        <3>1. CASE u = t
            BY <2>2, <3>1, Zenon
        <3>2. CASE u # t
            BY <1>1, <1>4, <1>6, <2>1, <3>2, Zenon DEF ErrorInv, Pc
        <3>3. QED
            BY <3>1, <3>2
    <2>4. ASSUME NEW o \in Scripts, Pc(o)' = "join"
          PROVE  (/\ group[o].cancelled => group[o].errs # <<>>
                  /\ group[o].errs # <<>> /\ group[o].errs[1] = "canceled" => CtxDone(o))'
        <3>1. Pc(o) = "join"
            BY <1>6, <2>2, <2>4, Zenon DEF Pc
        <3>2. QED
            BY <1>1, <1>4, <2>1, <3>1, Zenon DEF ErrorInv
    <2>5. ErrorIsCause'
        BY <1>1, <1>4, Zenon DEF ErrorInv, ErrorIsCause
    <2>6. QED
        BY <1>4, <2>3, <2>4, <2>5, Zenon DEF ErrorInv
<1>8. QED
    BY <1>2, <1>3, <1>5, <1>7, Zenon DEF DemoInv

\* What EXCEPT does to the group of one owner.
LEMMA GroupField ==
    ASSUME GroupTypes, scenario' = scenario, NEW o \in Scripts, NEW new, group' = [group EXCEPT ![o] = new],
           DOMAIN new = GroupFields, new.total = group[o].total, new.hits = group[o].hits,
           new.errs \in Seq(Errors), new.cancelled \in BOOLEAN
    PROVE  /\ GroupTypes'
           /\ \A u \in Scripts : u # o => group'[u] = group[u]
           /\ \A u \in Scripts : group'[u].total = group[u].total /\ group'[u].hits = group[u].hits
           /\ group'[o] = new
<1>1. /\ DOMAIN group' = Scripts /\ group'[o] = new
      /\ \A u \in Scripts : u # o => group'[u] = group[u]
    BY Zenon DEF GroupTypes
<1>2. \A u \in Scripts : group'[u].total = group[u].total /\ group'[u].hits = group[u].hits
    BY <1>1, Zenon
<1>3. ASSUME NEW u \in Scripts
      PROVE  /\ DOMAIN group'[u] = GroupFields
             /\ group'[u].total \in Nat /\ group'[u].errs \in Seq(Errors) /\ group'[u].cancelled \in BOOLEAN
             /\ \A name \in DOMAIN group'[u].hits : group'[u].hits[name] \in Nat
    <2>1. CASE u = o
        BY <1>1, <2>1, Zenon DEF GroupTypes
    <2>2. CASE u # o
        BY <1>1, <2>2, Zenon DEF GroupTypes
    <2>3. QED
        BY <2>1, <2>2
<1>4. GroupTypes'
    BY <1>1, <1>3, Zenon DEF GroupTypes, Scripts
<1>5. QED
    BY <1>1, <1>2, <1>4, Zenon

\* A branch sends its error before it cancels: the first error of the channel
\* is a cancellation only if the context around the step had ended.
LEMMA BranchFailInv ==
    ASSUME DemoInv, NEW t \in Scripts, BranchFail(t)
    PROVE  DemoInv'
<1> DEFINE o == task[t].owner
           new == [group[o] EXCEPT !.errs = Append(group[o].errs, task[t].err)]
<1>1. /\ UNCHANGED <<scenario, phase, session, result, ctxDone>> /\ task' = [task EXCEPT ![t].pc = "cancel"]
      /\ task[t].pc = "fail" /\ t # Root
    BY Zenon DEF BranchFail, AtStep
<1>2. TaskTypes /\ ErrorInv /\ TreeInv /\ GroupTypes /\ Scripts' = Scripts /\ IsTree(scenario) /\ PcInv
    BY <1>1, Zenon DEF DemoInv, ScenarioInv, Scripts
<1>3. group' = [group EXCEPT ![o] = new]
    BY DEF BranchFail
<1>4. o \in Scripts /\ Pc(t) \in Active /\ task[t].err \in Errors
    BY <1>1, <1>2, PcClasses, Zenon DEF TaskTypes, Pc
<1>5. /\ Pc(o) = "join" /\ t \in Branches(o) /\ task[t].within = task[o].within \cup {o}
    BY <1>1, <1>2, <1>4, Zenon DEF TreeInv, OwnerInv, JoinInv
<1>6. DOMAIN group[o] = GroupFields /\ group[o].errs \in Seq(Errors) /\ group[o].cancelled \in BOOLEAN
    BY <1>2, <1>4, Zenon DEF GroupTypes
<1>7. /\ DOMAIN new = GroupFields /\ new.total = group[o].total /\ new.hits = group[o].hits /\ new.cancelled = group[o].cancelled
      /\ new.errs = Append(group[o].errs, task[t].err)
    <2> DEFINE errs == Append(group[o].errs, task[t].err)
    <2>1. new = [group[o] EXCEPT !.errs = errs]
        BY SMTT(30)
    <2> HIDE DEF errs, new, o
    <2>2. QED
        BY <1>6, <2>1 DEF GroupFields, errs
<1> HIDE DEF new
<1>8. /\ new.errs \in Seq(Errors) /\ new.errs # <<>>
      /\ new.errs[1] = IF group[o].errs = <<>> THEN task[t].err ELSE group[o].errs[1]
    BY <1>4, <1>6, <1>7
<1>9. /\ GroupTypes'
      /\ \A u \in Scripts : u # o => group'[u] = group[u]
      /\ \A u \in Scripts : group'[u].total = group[u].total /\ group'[u].hits = group[u].hits
      /\ group'[o] = new
    BY <1>1, <1>2, <1>3, <1>4, <1>6, <1>7, <1>8, GroupField, Zenon
<1>10. TaskTypes' /\ ScenarioInv' /\ PcInv' /\ HitsInv' /\ BarrierTogether'
    <2>1. task[t].pc # "step"
        BY <1>1
    <2>2. QED
        BY <1>1, <1>9, <2>1, EndPlaces, Zenon
<1>11. /\ \A u \in Scripts : u # t => task'[u] = task[u]
       /\ \A u \in Scripts : Kept(u)
       /\ task'[t].pc = "cancel"
    <2>1. "cancel" \in Active \cup {"done"}
        BY PcClasses, Zenon
    <2>2. QED
        BY <1>1, <1>2, <2>1, PcFields, Zenon
<1>12. TreeInv'
    <2>1. ASSUME NEW u \in Scripts
          PROVE  /\ (task'[u].pc = "join") = (task[u].pc = "join")
                 /\ (task'[u].pc = "idle") = (task[u].pc = "idle")
                 /\ (task'[u].pc \in Active) = (task[u].pc \in Active)
        <3>1. CASE u = t
            BY <1>1, <1>11, <3>1, PcClasses
        <3>2. CASE u # t
            BY <1>11, <3>2, Zenon
        <3>3. QED
            BY <3>1, <3>2
    <2>2. Steady
        BY <1>1, <1>11, <2>1, Zenon DEF Steady, Kept
    <2>3. QED
        BY <1>2, <2>2, SteadyTree, Zenon
<1>13. ErrorInv'
    <2>1. ASSUME NEW u \in Scripts
          PROVE  CtxDone(u)' = CtxDone(u)
        <3>1. \A v \in Scripts : group'[v].cancelled = group[v].cancelled
            BY <1>7, <1>9, Zenon
        <3>2. task[u].within \subseteq Scripts
            BY <1>2, Zenon DEF TaskTypes
        <3>3. QED
            BY <1>1, <1>11, <3>1, <3>2, CtxSame, Zenon DEF Kept
    <2>2. Pc(t)' # "step" /\ Pc(t)' # "fail" /\ Pc(t)' # "join" /\ Pc(t)' = "cancel"
        BY <1>11 DEF Pc
    <2>3. \A u \in Scripts : group[u].errs # <<>> => group'[u].errs # <<>>
        BY <1>8, <1>9, Zenon
    <2>4. ASSUME NEW u \in Scripts
          PROVE  (/\ Pc(u) = "step" => task[u].err = "nil"
                  /\ Pc(u) = "fail" /\ task[u].err = "canceled" => CtxDone(u)
                  /\ Pc(u) = "cancel" => u # Root /\ group[task[u].owner].errs # <<>>)'
        <3>1. CASE u = t
            BY <1>1, <1>8, <1>9, <1>11, <2>2, <3>1, Zenon DEF Kept
        <3>2. CASE u # t
            BY <1>2, <1>11, <2>1, <2>3, <3>2, Zenon DEF ErrorInv, Pc, TaskTypes
        <3>3. QED
            BY <3>1, <3>2
    <2>5. group[o].errs = <<>> /\ task[t].err = "canceled" => CtxDone(o)
        <3>1. task[t].err = "canceled" => CtxDone(t)
            BY <1>1, <1>2, Zenon DEF ErrorInv, Pc
        <3>2. group[o].cancelled => group[o].errs # <<>>
            BY <1>2, <1>4, <1>5, Zenon DEF ErrorInv
        <3>3. QED
            BY <1>5, <3>1, <3>2, Zenon DEF CtxDone
    <2>6. ASSUME NEW p \in Scripts, Pc(p)' = "join"
          PROVE  (/\ group[p].cancelled => group[p].errs # <<>>
                  /\ group[p].errs # <<>> /\ group[p].errs[1] = "canceled" => CtxDone(p))'
        <3>1. Pc(p) = "join"
            BY <1>11, <2>2, <2>6, Zenon DEF Pc
        <3>2. CASE p # o
            BY <1>2, <1>9, <2>1, <3>1, <3>2, Zenon DEF ErrorInv
        <3>3. CASE p = o
            <4>1. group'[p].errs[1] = "canceled" => CtxDone(p)
                <5>1. CASE group[o].errs = <<>>
                    BY <1>8, <1>9, <2>5, <3>3, <5>1, Zenon
                <5>2. CASE group[o].errs # <<>>
                    BY <1>2, <1>8, <1>9, <3>1, <3>3, <5>2, Zenon DEF ErrorInv
                <5>3. QED
                    BY <5>1, <5>2
            <4>2. QED
                BY <1>8, <1>9, <2>1, <3>3, <4>1, Zenon
        <3>4. QED
            BY <3>2, <3>3
    <2>7. ErrorIsCause'
        BY <1>1, <1>2, Zenon DEF ErrorInv, ErrorIsCause
    <2>8. QED
        BY <1>2, <2>4, <2>6, <2>7, Zenon DEF ErrorInv
<1>14. QED
    BY <1>9, <1>10, <1>12, <1>13, Zenon DEF DemoInv

\* cancel ends contexts and never begins one again.
LEMMA CancelField ==
    ASSUME TaskTypes, GroupTypes, scenario' = scenario, ctxDone' = ctxDone, NEW o \in Scripts,
           group' = [group EXCEPT ![o].cancelled = TRUE], \A u \in Scripts : task'[u].within = task[u].within
    PROVE  /\ GroupTypes'
           /\ \A u \in Scripts : u # o => group'[u] = group[u]
           /\ \A u \in Scripts : /\ group'[u].total = group[u].total /\ group'[u].hits = group[u].hits
                                 /\ group'[u].errs = group[u].errs
           /\ \A u \in Scripts : CtxDone(u) => CtxDone(u)'
<1> DEFINE new == [group[o] EXCEPT !.cancelled = TRUE]
<1>1. group' = [group EXCEPT ![o] = new]
    OBVIOUS
<1>2. /\ DOMAIN new = GroupFields /\ new.total = group[o].total /\ new.hits = group[o].hits
      /\ new.errs = group[o].errs /\ new.cancelled = TRUE
    BY DEF GroupTypes, GroupFields
<1> HIDE DEF new
<1>3. new.errs \in Seq(Errors) /\ new.cancelled \in BOOLEAN
    BY <1>2, Zenon DEF GroupTypes
<1>4. /\ GroupTypes'
      /\ \A u \in Scripts : u # o => group'[u] = group[u]
      /\ \A u \in Scripts : group'[u].total = group[u].total /\ group'[u].hits = group[u].hits
      /\ group'[o] = new
    BY <1>1, <1>2, <1>3, GroupField, Zenon
<1>5. ASSUME NEW u \in Scripts, CtxDone(u)
      PROVE  CtxDone(u)'
    <2>1. task'[u].within = task[u].within /\ task[u].within \subseteq Scripts
        BY Zenon DEF TaskTypes
    <2>2. ASSUME NEW v \in task[u].within, group[v].cancelled
          PROVE  group'[v].cancelled
        BY <1>2, <1>4, <2>1, <2>2, Zenon
    <2>3. QED
        BY <1>5, <2>1, <2>2, Zenon DEF CtxDone
<1>6. QED
    BY <1>2, <1>4, <1>5, Zenon

\* A branch that has sent its error cancels the others and is done.
LEMMA BranchCancelInv ==
    ASSUME DemoInv, NEW t \in Scripts, BranchCancel(t)
    PROVE  DemoInv'
<1> DEFINE o == task[t].owner
<1>1. /\ UNCHANGED <<scenario, phase, session, result, ctxDone>> /\ task' = [task EXCEPT ![t].pc = "done"]
      /\ task[t].pc = "cancel" /\ group' = [group EXCEPT ![o].cancelled = TRUE]
    BY Zenon DEF BranchCancel, AtStep
<1>2. TaskTypes /\ ErrorInv /\ GroupTypes /\ Scripts' = Scripts /\ o \in Scripts
    BY <1>1, Zenon DEF DemoInv, Scripts, TaskTypes
<1>3. /\ \A u \in Scripts : u # t => task'[u] = task[u]
      /\ \A u \in Scripts : Kept(u)
      /\ task'[t].pc = "done"
    BY <1>1, <1>2, PcFields, Zenon
<1>4. /\ GroupTypes'
      /\ \A u \in Scripts : u # o => group'[u] = group[u]
      /\ \A u \in Scripts : /\ group'[u].total = group[u].total /\ group'[u].hits = group[u].hits
                            /\ group'[u].errs = group[u].errs
      /\ \A u \in Scripts : CtxDone(u) => CtxDone(u)'
    BY <1>1, <1>2, <1>3, CancelField, Zenon DEF Kept
<1>5. TaskTypes' /\ ScenarioInv' /\ PcInv' /\ HitsInv' /\ BarrierTogether'
    <2>1. task[t].pc # "step"
        BY <1>1
    <2>2. QED
        BY <1>1, <1>4, <2>1, EndPlaces, Zenon
<1>6. TreeInv'
    BY <1>1, DoneTree, Zenon
<1>7. ErrorInv'
    <2>1. Pc(t)' # "step" /\ Pc(t)' # "fail" /\ Pc(t)' # "cancel" /\ Pc(t)' # "join"
        BY <1>3 DEF Pc
    <2>2. ASSUME NEW u \in Scripts
          PROVE  (/\ Pc(u) = "step" => task[u].err = "nil"
                  /\ Pc(u) = "fail" /\ task[u].err = "canceled" => CtxDone(u)
                  /\ Pc(u) = "cancel" => u # Root /\ group[task[u].owner].errs # <<>>)'
        <3>1. CASE u = t
            BY <2>1, <3>1, Zenon
        <3>2. CASE u # t
            <4>1. task'[u] = task[u] /\ task[u].owner \in Scripts
                BY <1>2, <1>3, <3>2, Zenon DEF TaskTypes
            <4>2. group'[task[u].owner].errs = group[task[u].owner].errs /\ (CtxDone(u) => CtxDone(u)')
                BY <1>4, <4>1, Zenon
            <4>3. QED
                BY <1>2, <4>1, <4>2, Zenon DEF ErrorInv, Pc
        <3>3. QED
            BY <3>1, <3>2
    <2>3. group[o].errs # <<>>
        BY <1>1, <1>2, Zenon DEF ErrorInv, Pc
    <2>4. ASSUME NEW p \in Scripts, Pc(p)' = "join"
          PROVE  (/\ group[p].cancelled => group[p].errs # <<>>
                  /\ group[p].errs # <<>> /\ group[p].errs[1] = "canceled" => CtxDone(p))'
        <3>1. Pc(p) = "join"
            BY <1>3, <2>1, <2>4, Zenon DEF Pc
        <3>2. group'[p].errs = group[p].errs /\ (CtxDone(p) => CtxDone(p)')
            BY <1>4, Zenon
        <3>3. group'[p].cancelled => group[p].errs # <<>>
            <4>1. CASE p = o
                BY <2>3, <4>1, Zenon
            <4>2. CASE p # o
                BY <1>2, <1>4, <3>1, <4>2, Zenon DEF ErrorInv
            <4>3. QED
                BY <4>1, <4>2
        <3>4. QED
            BY <1>2, <3>1, <3>2, <3>3, Zenon DEF ErrorInv
    <2>5. ErrorIsCause'
        BY <1>1, <1>2, Zenon DEF ErrorInv, ErrorIsCause
    <2>6. QED
        BY <1>2, <2>2, <2>4, <2>5, Zenon DEF ErrorInv
<1>8. QED
    BY <1>4, <1>5, <1>6, <1>7, Zenon DEF DemoInv

\* When wg.Wait returns no task runs below the one that waited.
LEMMA JoinTree ==
    ASSUME DemoInv, scenario' = scenario, NEW t \in Scripts, Pc(t) = "join", \A u \in Branches(t) : Pc(u) = "done",
           \A u \in Scripts : u # t => task'[u] = task[u], task'[t].pc \in {"step", "fail"},
           task'[t].owner = task[t].owner, task'[t].within = task[t].within
    PROVE  TreeInv'
<1>1. TaskTypes /\ IsTree(scenario) /\ PcInv /\ TreeInv /\ Scripts' = Scripts
    BY Zenon DEF DemoInv, ScenarioInv, Scripts
<1>2. /\ \A u \in Scripts : task'[u].owner = task[u].owner /\ task'[u].within = task[u].within
      /\ \A u \in Scripts : u # t => Pc(u)' = Pc(u)
    BY Zenon DEF Pc
<1>3. /\ Pc(t)' # "join" /\ Pc(t)' # "idle" /\ Pc(t)' \in Active /\ Pc(t) \in Active
      /\ \A pc : pc = "done" => pc \notin Active
    BY PcClasses DEF Pc
<1>4. \A u \in Scripts : Pc(u)' \in Active <=> Pc(u) \in Active
    BY <1>2, <1>3, Zenon
<1>5. ASSUME NEW o \in Scripts, o # t
      PROVE  Branches(o)' = Branches(o)
    BY <1>5, Zenon DEF Branches, StepOf
<1>6. ASSUME NEW o \in Scripts, Pc(o) = "join"
      PROVE  Branches(o) \subseteq Scripts
    <2>1. task[o].at <= Len(scenario.script[o])
        BY <1>1, <1>6, Zenon DEF PcInv
    <2>2. QED
        BY <1>1, <2>1, OwnBranches, Zenon
<1>7. JoinInv'
    <2>1. ASSUME NEW o \in Scripts, Pc(o)' = "join", NEW u \in Branches(o)'
          PROVE  (Pc(u) # "idle" /\ task[u].owner = o /\ task[u].within = task[o].within \cup {o})'
        <3>1. o # t /\ Pc(o) = "join"
            BY <1>2, <1>3, <2>1, Zenon
        <3>2. u \in Branches(o) /\ u \in Scripts
            BY <1>5, <1>6, <2>1, <3>1, Zenon
        <3>3. Pc(u) # "idle" /\ task[u].owner = o /\ task[u].within = task[o].within \cup {o}
            BY <1>1, <3>1, <3>2, Zenon DEF TreeInv, JoinInv
        <3>4. Pc(u)' # "idle"
            BY <1>2, <1>3, <3>2, <3>3, Zenon
        <3>5. QED
            BY <1>2, <3>2, <3>3, <3>4, Zenon
    <2>2. QED
        BY <1>1, <2>1, Zenon DEF JoinInv
<1>8. OwnerInv'
    <2>1. ASSUME NEW u \in Scripts \ {Root}, Pc(u)' \in Active
          PROVE  (Pc(task[u].owner) = "join" /\ u \in Branches(task[u].owner))'
        <3>1. PICK o \in Scripts : o = task[u].owner
            BY <1>1, Zenon DEF TaskTypes
        <3>2. Pc(u) \in Active
            BY <1>4, <2>1, Zenon
        <3>3. Pc(o) = "join" /\ u \in Branches(o)
            BY <1>1, <3>1, <3>2, Zenon DEF TreeInv, OwnerInv
        <3>4. o # t
            BY <1>3, <3>2, <3>3, Zenon
        <3>5. Pc(o)' = "join" /\ u \in Branches(o)' /\ task'[u].owner = o
            BY <1>2, <1>5, <3>1, <3>3, <3>4, Zenon
        <3>6. QED
            BY <3>5, Zenon DEF Pc, Branches, StepOf
    <2>2. QED
        BY <1>1, <2>1, Zenon DEF OwnerInv
<1>9. WithinInv'
    <2>1. task'[Root].within = {}
        BY <1>1, <1>2, Zenon DEF TreeInv, WithinInv, IsTree, Scripts
    <2>2. ASSUME NEW u \in Scripts, Pc(u)' \in Active, NEW o \in task'[u].within
          PROVE  Pc(o)' = "join" /\ \E b \in Branches(o)' : Pc(b)' \in Active /\ b \in task'[u].within \cup {u}
        <3>1. Pc(u) \in Active /\ o \in task[u].within /\ o \in Scripts
            BY <1>1, <1>2, <1>4, <2>2, Zenon DEF TaskTypes
        <3>2. Pc(o) = "join" /\ \E b \in Branches(o) : Pc(b) \in Active /\ b \in task[u].within \cup {u}
            BY <1>1, <3>1, Zenon DEF TreeInv, WithinInv
        <3>3. PICK b \in Branches(o) : Pc(b) \in Active /\ b \in task[u].within \cup {u}
            BY <3>2, Zenon
        <3>4. o # t
            BY <1>3, <3>3, Zenon
        <3>5. b \in Scripts /\ b \in Branches(o)' /\ Pc(b)' \in Active /\ Pc(o)' = "join"
            BY <1>2, <1>4, <1>5, <1>6, <3>1, <3>2, <3>3, <3>4, Zenon
        <3>6. QED
            BY <1>2, <3>3, <3>5, Zenon
    <2>3. QED
        BY <1>1, <2>1, <2>2, Zenon DEF WithinInv
<1>10. QED
    BY <1>7, <1>8, <1>9, Zenon DEF TreeInv

\* The parallel step returns the first error of the channel, or nil.
LEMMA ParallelJoinInv ==
    ASSUME DemoInv, NEW t \in Scripts, ParallelJoin(t)
    PROVE  DemoInv'
<1> DEFINE err == IF group[t].errs = <<>> THEN "nil" ELSE group[t].errs[1]
<1>1. /\ UNCHANGED <<scenario, phase, session, result, ctxDone>> /\ task' = Returned(t, err)
      /\ Pc(t) = "join" /\ \A u \in Branches(t) : Pc(u) = "done"
      /\ group' = [group EXCEPT ![t].cancelled = TRUE]
    BY Zenon DEF ParallelJoin, AtStep, Pc
<1>2. TaskTypes /\ ErrorInv /\ GroupTypes /\ Scripts' = Scripts /\ IsTree(scenario) /\ PcInv
    BY <1>1, Zenon DEF DemoInv, Scripts, ScenarioInv
<1>3. err \in Errors
    <2>1. group[t].errs \in Seq(Errors)
        BY <1>2, Zenon DEF GroupTypes
    <2>2. "nil" \in Errors
        BY DEF Errors
    <2>3. QED
        BY <2>1, <2>2
<1>4. err = "canceled" => CtxDone(t)
    <2>1. err = "canceled" => group[t].errs # <<>> /\ group[t].errs[1] = "canceled"
        OBVIOUS
    <2>2. QED
        BY <1>1, <1>2, <2>1, Zenon DEF ErrorInv
<1> HIDE DEF err
<1>5. /\ TaskTypes'
      /\ \A u \in Scripts : u # t => task'[u] = task[u]
      /\ task'[t].pc = IF err = "nil" THEN "step" ELSE "fail"
      /\ task'[t].at = IF err = "nil" THEN task[t].at + 1 ELSE task[t].at
      /\ task'[t].err = err /\ task'[t].owner = task[t].owner /\ task'[t].within = task[t].within
    BY <1>1, <1>2, <1>3, ReturnedFields, Zenon
<1>6. \A u \in Scripts : task'[u].owner = task[u].owner /\ task'[u].within = task[u].within
    BY <1>5, Zenon
<1>7. task[t].at <= Len(scenario.script[t]) /\ StepOf(t).step = "parallel" /\ task[t].pc # "step" /\ task'[t].pc \in {"step", "fail"}
    BY <1>1, <1>2, <1>5 DEF PcInv, Pc
<1>8. /\ GroupTypes'
      /\ \A u \in Scripts : u # t => group'[u] = group[u]
      /\ \A u \in Scripts : /\ group'[u].total = group[u].total /\ group'[u].hits = group[u].hits
                            /\ group'[u].errs = group[u].errs
      /\ \A u \in Scripts : CtxDone(u) => CtxDone(u)'
    BY <1>1, <1>2, <1>6, CancelField, Zenon
<1>9. ScenarioInv'
    BY <1>1, <1>2, Zenon DEF DemoInv, ScenarioInv
<1>10. PcInv'
    BY <1>1, <1>2, <1>3, <1>7, ReturnedPc, Zenon
<1>11. TreeInv'
    BY <1>1, <1>5, <1>7, JoinTree, Zenon
<1>12. ReachSame
    BY <1>1, <1>2, <1>3, <1>7, ReturnedReach, Zenon
<1>13. HitsInv'
    <2>1. ASSUME NEW o \in Scripts, Pc(o)' = "join"
          PROVE  o # t /\ Pc(o) = "join" /\ task'[o].at = task[o].at
        <3>1. o # t
            BY <1>7, <2>1 DEF Pc
        <3>2. QED
            BY <1>5, <2>1, <3>1, Zenon DEF Pc
    <2>2. QED
        BY <1>1, <1>2, <1>8, <1>12, <2>1, SteadyHits, Zenon DEF DemoInv
<1>14. BarrierTogether'
    <2>1. ASSUME NEW u \in Scripts, NEW i \in 1..(task'[u].at - 1), IsBarrier(u, i)
          PROVE  i \in 1..(task[u].at - 1)
        <3>1. CASE task'[u].at = task[u].at
            BY <2>1, <3>1, Zenon
        <3>2. CASE task'[u].at # task[u].at
            <4>1. u = t /\ task'[t].at = task[t].at + 1 /\ task[t].at \in Nat
                BY <1>2, <1>5, <3>2 DEF TaskTypes
            <4>2. i # task[t].at
                BY <1>7, <2>1, <4>1 DEF IsBarrier, StepOf
            <4>3. QED
                BY <2>1, <4>1, <4>2
        <3>3. QED
            BY <3>1, <3>2
    <2>2. QED
        BY <1>1, <1>2, <1>5, <1>6, <1>10, <1>12, <2>1, SteadyTogether, Zenon DEF DemoInv
<1>15. ErrorInv'
    <2>1. ASSUME NEW u \in Scripts
          PROVE  (/\ Pc(u) = "step" => task[u].err = "nil"
                  /\ Pc(u) = "fail" /\ task[u].err = "canceled" => CtxDone(u)
                  /\ Pc(u) = "cancel" => u # Root /\ group[task[u].owner].errs # <<>>)'
        <3>1. CASE u = t
            <4>1. Pc(u)' = "step" => task'[u].err = "nil"
                BY <1>5, <3>1 DEF Pc
            <4>2. Pc(u)' # "cancel"
                BY <1>7, <3>1 DEF Pc
            <4>3. QED
                BY <1>4, <1>5, <1>8, <3>1, <4>1, <4>2, Zenon
        <3>2. CASE u # t
            <4>1. task'[u] = task[u] /\ task[u].owner \in Scripts
                BY <1>2, <1>5, <3>2, Zenon DEF TaskTypes
            <4>2. group'[task[u].owner].errs = group[task[u].owner].errs /\ (CtxDone(u) => CtxDone(u)')
                BY <1>8, <4>1, Zenon
            <4>3. QED
                BY <1>2, <4>1, <4>2, Zenon DEF ErrorInv, Pc
        <3>3. QED
            BY <3>1, <3>2
    <2>2. ASSUME NEW o \in Scripts, Pc(o)' = "join"
          PROVE  (/\ group[o].cancelled => group[o].errs # <<>>
                  /\ group[o].errs # <<>> /\ group[o].errs[1] = "canceled" => CtxDone(o))'
        <3>1. o # t
            BY <1>7, <2>2 DEF Pc
        <3>2. group'[o] = group[o] /\ Pc(o) = "join" /\ (CtxDone(o) => CtxDone(o)')
            BY <1>5, <1>8, <2>2, <3>1, Zenon DEF Pc
        <3>3. QED
            BY <1>2, <3>2, Zenon DEF ErrorInv
    <2>3. ErrorIsCause'
        BY <1>1, <1>2, Zenon DEF ErrorInv, ErrorIsCause
    <2>4. QED
        BY <1>2, <2>1, <2>2, <2>3, Zenon DEF ErrorInv
<1>16. QED
    BY <1>5, <1>8, <1>9, <1>10, <1>11, <1>13, <1>14, <1>15, Zenon DEF DemoInv

\* what executeParallel does to the tasks
Starts(t) ==
    /\ Pc(t) = "step" /\ task[t].at <= Len(scenario.script[t]) /\ StepOf(t).step = "parallel" /\ scenario' = scenario
    /\ TaskTypes' /\ Kept(t) /\ Pc(t)' = "join"
    /\ \A u \in Scripts : u # t /\ u \notin Branches(t) => task'[u] = task[u]
    /\ \A u \in Branches(t) : /\ u \in Scripts \ {Root, t} /\ Pc(u) \notin Active
                              /\ Pc(u)' = "step" /\ task'[u].at = 1 /\ task'[u].err = "nil"
                              /\ task'[u].owner = t /\ task'[u].within = task[t].within \cup {t}

\* Branches that a task starts were not running.
LEMMA StartFields ==
    ASSUME DemoInv, NEW t \in Scripts, ParallelStart(t)
    PROVE  Starts(t)
<1>1. TaskTypes /\ IsTree(scenario) /\ PcInv /\ TreeInv /\ scenario' = scenario /\ Tasks = Scripts
    BY Zenon DEF DemoInv, ScenarioInv, ParallelStart, Tasks, TaskTypes
<1>2. Pc(t) = "step" /\ task[t].at <= Len(scenario.script[t]) /\ StepOf(t).step = "parallel"
    BY Zenon DEF ParallelStart, At, AtStep, Pc
<1>3. /\ Branches(t) \subseteq Scripts \ {Root}
      /\ \A u \in Branches(t) : \A p \in Scripts : \A k \in DOMAIN scenario.script[p] :
            u \in BranchTasks(scenario.script[p][k]) => t = p /\ task[t].at = k
    BY <1>1, <1>2, OwnBranches, Zenon
<1>4. Pc(t) \in Active /\ Pc(t) # "join"
    BY <1>2, PcClasses
<1>5. ASSUME NEW u \in Branches(t), Pc(u) \in Active
      PROVE  FALSE
    <2>1. PICK o \in Scripts : o = task[u].owner
        BY <1>1, <1>3, Zenon DEF TaskTypes
    <2>2. Pc(o) = "join" /\ u \in Branches(o)
        BY <1>1, <1>3, <1>5, <2>1, Zenon DEF TreeInv, OwnerInv
    <2>3. task[o].at <= Len(scenario.script[o])
        BY <1>1, <2>2, Zenon DEF PcInv
    <2>4. task[o].at \in DOMAIN scenario.script[o] /\ u \in BranchTasks(scenario.script[o][task[o].at])
        BY <1>1, <2>2, <2>3, OwnBranches, Zenon DEF Branches, StepOf
    <2>5. t = o
        BY <1>3, <2>4, Zenon
    <2>6. QED
        BY <1>4, <2>2, <2>5, Zenon
<1>6. \A u \in Branches(t) : u \in Scripts \ {Root, t} /\ Pc(u) \notin Active
    BY <1>3, <1>4, <1>5, Zenon
<1> DEFINE new == [task[t] EXCEPT !.pc = "join"]
<1>7. task' = [u \in Scripts |-> IF u = t THEN new ELSE IF u \in Branches(t) THEN Branch(t) ELSE task[u]]
    BY <1>1, Zenon DEF ParallelStart
<1>8. /\ DOMAIN new = TaskFields /\ new.pc = "join" /\ new.at = task[t].at /\ new.err = task[t].err
      /\ new.owner = task[t].owner /\ new.within = task[t].within
    BY <1>1 DEF TaskTypes, TaskFields
<1> HIDE DEF new
<1>9. /\ DOMAIN Branch(t) = TaskFields /\ Branch(t).pc = "step" /\ Branch(t).at = 1 /\ Branch(t).err = "nil"
      /\ Branch(t).owner = t /\ Branch(t).within = task[t].within \cup {t}
    BY DEF Branch, Idle, TaskFields
<1>10. /\ DOMAIN task' = Scripts /\ task'[t] = new
       /\ \A u \in Scripts : u # t /\ u \notin Branches(t) => task'[u] = task[u]
       /\ \A u \in Branches(t) : task'[u] = Branch(t)
    BY <1>6, <1>7, Zenon
<1>11. TaskTypes'
    <2>1. ASSUME NEW u \in Scripts
          PROVE  /\ DOMAIN task'[u] = TaskFields
                 /\ task'[u].pc \in Active \cup {"idle", "done"} /\ task'[u].at \in Nat \ {0} /\ task'[u].err \in Errors
                 /\ task'[u].owner \in Scripts /\ task'[u].within \subseteq Scripts
        <3>1. CASE u = t
            BY <1>1, <1>8, <1>10, <3>1, PcClasses, Zenon DEF TaskTypes
        <3>2. CASE u # t /\ u \notin Branches(t)
            BY <1>1, <1>10, <3>2, Zenon DEF TaskTypes
        <3>3. CASE u # t /\ u \in Branches(t)
            <4>1. "step" \in Active /\ 1 \in Nat \ {0} /\ "nil" \in Errors
                BY PcClasses DEF Errors
            <4>2. task[t].within \cup {t} \subseteq Scripts
                BY <1>1, Zenon DEF TaskTypes
            <4>3. QED
                BY <1>9, <1>10, <3>3, <4>1, <4>2, Zenon
        <3>4. QED
            BY <3>1, <3>2, <3>3
    <2>2. QED
        BY <1>1, <1>10, <2>1, Zenon DEF TaskTypes, Scripts
<1>12. Kept(t) /\ Pc(t)' = "join"
    BY <1>8, <1>10, Zenon DEF Kept, Pc
<1>13. ASSUME NEW u \in Branches(t)
       PROVE  /\ Pc(u)' = "step" /\ task'[u].at = 1 /\ task'[u].err = "nil"
              /\ task'[u].owner = t /\ task'[u].within = task[t].within \cup {t}
    BY <1>9, <1>10, Zenon DEF Pc
<1>14. QED
    BY <1>1, <1>2, <1>6, <1>10, <1>11, <1>12, <1>13, Zenon DEF Starts

\* The branches join the tree below the task that started them.
LEMMA StartTree ==
    ASSUME DemoInv, NEW t \in Scripts, Starts(t)
    PROVE  TreeInv'
<1>1. TaskTypes /\ IsTree(scenario) /\ PcInv /\ TreeInv /\ Scripts' = Scripts
    BY Zenon DEF DemoInv, ScenarioInv, Scripts, Starts
<1>2. /\ Pc(t) = "step" /\ Pc(t) \in Active /\ Pc(t)' = "join" /\ Pc(t)' \in Active /\ Pc(t)' # "idle"
      /\ \A u \in Branches(t) : Pc(u)' = "step" /\ Pc(u)' \in Active /\ Pc(u)' # "join" /\ Pc(u)' # "idle"
      /\ \A pc : pc = "step" => pc # "join"
      /\ "join" \in Active
    BY PcClasses DEF Starts
<1>3. /\ \A u \in Branches(t) : /\ u \in Scripts \ {Root, t} /\ Pc(u) \notin Active
                                /\ task'[u].owner = t /\ task'[u].within = task[t].within \cup {t}
      /\ \A u \in Scripts : u \notin Branches(t) => task'[u].owner = task[u].owner /\ task'[u].within = task[u].within
      /\ \A u \in Scripts : u # t /\ u \notin Branches(t) => Pc(u)' = Pc(u)
    BY Zenon DEF Starts, Kept, Pc
<1>4. \A u \in Scripts : u \notin Branches(t) => Branches(u)' = Branches(u)
    BY Zenon DEF Starts, Kept, Branches, StepOf
<1>5. ASSUME NEW o \in Scripts, Pc(o) = "join"
      PROVE  /\ o # t /\ o \notin Branches(t) /\ Pc(o)' = "join" /\ Branches(o)' = Branches(o)
             /\ Branches(o) \subseteq Scripts
             /\ \A u \in Branches(o) : u \notin Branches(t)
    <2>1. o # t /\ o \notin Branches(t)
        BY <1>2, <1>3, <1>5, Zenon
    <2>2. task[o].at <= Len(scenario.script[o])
        BY <1>1, <1>5, Zenon DEF PcInv
    <2>3. task[t].at \in DOMAIN scenario.script[t] /\ task[t].at <= Len(scenario.script[t])
        BY <1>1, OwnBranches, Zenon DEF Starts
    <2>4. ASSUME NEW u \in Branches(o), u \in Branches(t)
          PROVE  FALSE
        <3>1. u \in BranchTasks(scenario.script[t][task[t].at])
            BY <2>4, Zenon DEF Branches, StepOf
        <3>2. QED
            BY <1>1, <2>1, <2>2, <2>3, <2>4, <3>1, OwnBranches, Zenon
    <2>5. Branches(o) \subseteq Scripts
        BY <1>1, <2>2, OwnBranches, Zenon
    <2>6. QED
        BY <1>3, <1>4, <1>5, <2>1, <2>4, <2>5, Zenon
<1>6. ASSUME NEW u \in Scripts, Pc(u) \in Active
      PROVE  u \notin Branches(t) /\ Pc(u)' \in Active /\ task'[u].owner = task[u].owner /\ task'[u].within = task[u].within
    BY <1>2, <1>3, <1>6, Zenon
<1>7. JoinInv'
    <2>1. ASSUME NEW o \in Scripts, Pc(o)' = "join", NEW u \in Branches(o)'
          PROVE  (Pc(u) # "idle" /\ task[u].owner = o /\ task[u].within = task[o].within \cup {o})'
        <3>1. CASE o = t
            <4>1. u \in Branches(t) /\ t \notin Branches(t)
                BY <1>3, <1>4, <2>1, <3>1, Zenon
            <4>2. QED
                BY <1>2, <1>3, <3>1, <4>1, Zenon
        <3>2. CASE o # t
            <4>1. Pc(o) = "join"
                BY <1>2, <1>3, <2>1, <3>2, Zenon
            <4>2. u \in Branches(o) /\ u \in Scripts /\ u \notin Branches(t) /\ o \notin Branches(t)
                BY <1>5, <2>1, <4>1, Zenon
            <4>3. Pc(u) # "idle" /\ task[u].owner = o /\ task[u].within = task[o].within \cup {o}
                BY <1>1, <4>1, <4>2, Zenon DEF TreeInv, JoinInv
            <4>4. Pc(u)' # "idle"
                BY <1>2, <1>3, <4>2, <4>3, Zenon
            <4>5. QED
                BY <1>3, <4>2, <4>3, <4>4, Zenon
        <3>3. QED
            BY <3>1, <3>2
    <2>2. QED
        BY <1>1, <2>1, Zenon DEF JoinInv
<1>8. OwnerInv'
    <2>1. ASSUME NEW u \in Scripts \ {Root}, Pc(u)' \in Active
          PROVE  \E o \in Scripts : task'[u].owner = o /\ Pc(o)' = "join" /\ u \in Branches(o)'
        <3>1. CASE u \in Branches(t)
            BY <1>2, <1>3, <1>4, <3>1, Zenon
        <3>2. CASE u \notin Branches(t)
            <4>1. Pc(u) \in Active
                BY <1>2, <1>3, <2>1, <3>2, Zenon
            <4>2. PICK o \in Scripts : o = task[u].owner
                BY <1>1, Zenon DEF TaskTypes
            <4>3. Pc(o) = "join" /\ u \in Branches(o)
                BY <1>1, <4>1, <4>2, Zenon DEF TreeInv, OwnerInv
            <4>4. Pc(o)' = "join" /\ u \in Branches(o)' /\ task'[u].owner = o
                BY <1>5, <1>6, <4>1, <4>2, <4>3, Zenon
            <4>5. QED
                BY <4>4, Zenon
        <3>3. QED
            BY <3>1, <3>2
    <2>2. ASSUME NEW u \in Scripts \ {Root}, Pc(u)' \in Active
          PROVE  (Pc(task[u].owner) = "join" /\ u \in Branches(task[u].owner))'
        BY <2>1, <2>2, Zenon DEF Pc, Branches, StepOf
    <2>3. QED
        BY <1>1, <2>2, Zenon DEF OwnerInv
<1>9. WithinInv'
    <2>1. task'[Root].within = {}
        BY <1>1, <1>3, Zenon DEF TreeInv, WithinInv, IsTree, Scripts
    <2>2. ASSUME NEW u \in Scripts, Pc(u) \in Active, NEW o \in task[u].within
          PROVE  Pc(o)' = "join" /\ \E b \in Branches(o)' : Pc(b)' \in Active /\ b \in task[u].within \cup {u}
        <3>1. o \in Scripts
            BY <1>1, <2>2, Zenon DEF TaskTypes
        <3>2. Pc(o) = "join" /\ \E b \in Branches(o) : Pc(b) \in Active /\ b \in task[u].within \cup {u}
            BY <1>1, <2>2, Zenon DEF TreeInv, WithinInv
        <3>3. PICK b \in Branches(o) : Pc(b) \in Active /\ b \in task[u].within \cup {u}
            BY <3>2, Zenon
        <3>4. b \in Scripts /\ b \in Branches(o)' /\ Pc(o)' = "join"
            BY <1>5, <3>1, <3>2, <3>3, Zenon
        <3>5. Pc(b)' \in Active
            BY <1>6, <3>3, <3>4, Zenon
        <3>6. QED
            BY <3>3, <3>4, <3>5, Zenon
    <2>3. ASSUME NEW u \in Scripts, Pc(u)' \in Active, NEW o \in task'[u].within
          PROVE  Pc(o)' = "join" /\ \E b \in Branches(o)' : Pc(b)' \in Active /\ b \in task'[u].within \cup {u}
        <3>1. CASE u \in Branches(t) /\ o = t
            <4>1. t \notin Branches(t)
                BY <1>3, Zenon
            <4>2. u \in Branches(t)' /\ Pc(t)' = "join" /\ Pc(u)' \in Active
                BY <1>2, <1>4, <3>1, <4>1, Zenon
            <4>3. QED
                BY <3>1, <4>2, Zenon
        <3>2. CASE u \in Branches(t) /\ o # t
            <4>1. o \in task[t].within
                BY <1>3, <2>3, <3>2, ZenonT(30)
            <4>2. Pc(o)' = "join" /\ \E b \in Branches(o)' : Pc(b)' \in Active /\ b \in task[t].within \cup {t}
                BY <1>2, <2>2, <4>1, Zenon
            <4>3. task'[u].within = task[t].within \cup {t}
                BY <1>3, <3>2, Zenon
            <4>4. QED
                BY <4>2, <4>3, Zenon
        <3>3. CASE u \notin Branches(t)
            <4>1. Pc(u) \in Active /\ task'[u].within = task[u].within
                BY <1>2, <1>3, <2>3, <3>3, Zenon
            <4>2. QED
                BY <2>2, <2>3, <4>1, Zenon
        <3>4. QED
            BY <3>1, <3>2, <3>3
    <2>4. QED
        BY <1>1, <2>1, <2>3, Zenon DEF WithinInv
<1>10. QED
    BY <1>7, <1>8, <1>9, Zenon DEF TreeInv

\* A parallel step begins with no error, no hit and its branches at their first
\* step.  (What is said of Cardinality here and below is shown in DemoProofs.)
LEMMA ParallelStartInv ==
    ASSUME DemoInv, NEW t \in Scripts, ParallelStart(t), Cardinality({}) = 0
    PROVE  DemoInv'
<1> DEFINE fresh == [NoGroup EXCEPT !.total = Len(StepOf(t).branches)]
<1>1. Starts(t)
    BY StartFields, Zenon
<1>2. TaskTypes /\ ErrorInv /\ GroupTypes /\ Scripts' = Scripts /\ IsTree(scenario) /\ PcInv /\ TreeInv /\ HitsInv /\ BarrierTogether
    BY <1>1, Zenon DEF DemoInv, Scripts, ScenarioInv, Starts
<1>3. /\ UNCHANGED <<scenario, phase, session, result, ctxDone>> /\ group' = [group EXCEPT ![t] = fresh]
      /\ TaskTypes'
    BY <1>1, Zenon DEF ParallelStart, Starts
<1>4. /\ Pc(t) = "step" /\ Pc(t)' = "join" /\ Kept(t) /\ StepOf(t).step = "parallel"
      /\ \A u \in Scripts : u # t /\ u \notin Branches(t) => task'[u] = task[u]
      /\ \A u \in Branches(t) : u \in Scripts \ {Root, t} /\ Pc(u) \notin Active /\ Pc(u)' = "step" /\ task'[u].at = 1
                                /\ task'[u].err = "nil"
      /\ task[t].at \in DOMAIN scenario.script[t] /\ task[t].at <= Len(scenario.script[t])
    BY <1>1, <1>2, OwnBranches, Zenon DEF Starts
<1>5. Len(StepOf(t).branches) \in Nat
    BY <1>2, <1>4, ScriptPlaces, Zenon DEF StepOf
<1>6. /\ DOMAIN fresh = GroupFields /\ fresh.total = Len(StepOf(t).branches) /\ fresh.errs = <<>> /\ fresh.errs \in Seq(Errors)
      /\ fresh.cancelled = FALSE /\ fresh.cancelled \in BOOLEAN /\ fresh.hits = <<>> /\ DOMAIN fresh.hits = {}
    BY DEF NoGroup, GroupFields
<1> HIDE DEF fresh
<1>7. /\ DOMAIN group' = Scripts /\ group'[t] = fresh
      /\ \A u \in Scripts : u # t => group'[u] = group[u]
    BY <1>2, <1>3, Zenon DEF GroupTypes
<1>8. GroupTypes'
    <2>1. ASSUME NEW u \in Scripts
          PROVE  /\ DOMAIN group'[u] = GroupFields
                 /\ group'[u].total \in Nat /\ group'[u].errs \in Seq(Errors) /\ group'[u].cancelled \in BOOLEAN
                 /\ \A name \in DOMAIN group'[u].hits : group'[u].hits[name] \in Nat
        <3>1. CASE u = t
            BY <1>5, <1>6, <1>7, <3>1, Zenon
        <3>2. CASE u # t
            BY <1>2, <1>7, <3>2, Zenon DEF GroupTypes
        <3>3. QED
            BY <3>1, <3>2
    <2>2. QED
        BY <1>2, <1>7, <2>1, Zenon DEF GroupTypes
<1>9. ScenarioInv'
    BY <1>2, <1>3, Zenon DEF DemoInv, ScenarioInv
<1>10. PcInv'
    <2>1. ASSUME NEW u \in Scripts
          PROVE  (/\ task[u].at <= Len(scenario.script[u]) + 1
                  /\ Pc(u) \in Working \cup {"join"} => task[u].at <= Len(scenario.script[u])
                  /\ Pc(u) \in BarrierPcs => StepOf(u).step = "barrier"
                  /\ Pc(u) \in SessionPcs => StepOf(u).step \in SessionSteps /\ StepOf(u).session \in DOMAIN session
                  /\ Pc(u) = "join" => StepOf(u).step = "parallel")'
        <3>1. task[u].at <= Len(scenario.script[u]) + 1
            BY <1>2, Zenon DEF PcInv
        <3>2. CASE u = t
            <4>1. Pc(u)' \notin BarrierPcs /\ Pc(u)' \notin SessionPcs
                BY <1>4, <3>2, PcClasses
            <4>2. task'[u].at = task[u].at /\ StepOf(u)' = StepOf(u)
                BY <1>3, <1>4, <3>2, Zenon DEF Kept, StepOf
            <4>3. QED
                BY <1>3, <1>4, <3>1, <3>2, <4>1, <4>2, Zenon
        <3>3. CASE u \in Branches(t)
            <4>1. Pc(u)' \notin Working \cup {"join"}
                BY <1>4, <3>3, PcClasses
            <4>2. task'[u].at <= Len(scenario.script[u]) + 1
                <5>1. Len(scenario.script[u]) \in Nat
                    BY <1>2, ScriptPlaces, Zenon
                <5>2. QED
                    BY <1>4, <3>3, <5>1
            <4>3. QED
                BY <1>3, <4>1, <4>2, PcClasses, Zenon
        <3>4. CASE u # t /\ u \notin Branches(t)
            <4>1. Pc(u)' = Pc(u) /\ task'[u].at = task[u].at /\ StepOf(u)' = StepOf(u)
                BY <1>3, <1>4, <3>4, Zenon DEF Pc, StepOf
            <4>2. QED
                BY <1>2, <1>3, <4>1, Zenon DEF PcInv
        <3>5. QED
            BY <3>2, <3>3, <3>4
    <2>2. QED
        BY <1>2, <2>1, Zenon DEF PcInv
<1>11. TreeInv'
    BY <1>1, StartTree, Zenon
<1>12. ASSUME NEW u \in Scripts, u \notin Branches(t), NEW j, IsBarrier(u, j)
       PROVE  HasReached(u, j)' = HasReached(u, j)
    <2>1. CASE u = t
        <3>1. j # task[t].at
            BY <1>4, <1>12, <2>1 DEF IsBarrier, StepOf
        <3>2. QED
            BY <1>4, <2>1, <3>1, Zenon DEF HasReached, Kept
    <2>2. CASE u # t
        BY <1>4, <1>12, <2>2, Zenon DEF HasReached
    <2>3. QED
        BY <2>1, <2>2
<1>13. HitsInv'
    <2>1. ASSUME NEW o \in Scripts, Pc(o)' = "join"
          PROVE  /\ (group[o].total = Len(StepOf(o).branches))'
                 /\ \A name \in BarrierNames(scenario) : HitsOf(o, name)' = Cardinality(ReachedBy(o, name))'
        <3>1. CASE o = t
            <4>1. StepOf(o)' = StepOf(o) /\ Branches(o)' = Branches(t)
                BY <1>3, <1>4, <3>1, Zenon DEF Kept, StepOf, Branches
            <4>2. (group[o].total = Len(StepOf(o).branches))'
                BY <1>6, <1>7, <3>1, <4>1, Zenon
            <4>3. ASSUME NEW name
                  PROVE  HitsOf(o, name)' = 0
                BY <1>6, <1>7, <3>1, Zenon DEF HitsOf
            <4>4. ASSUME NEW name, NEW u \in Branches(t)
                  PROVE  ~Came(u, name)'
                <5>1. ASSUME NEW j \in BarrierAt(scenario, u, name)
                      PROVE  ~HasReached(u, j)'
                    <6>1. j \in DOMAIN scenario.script[u] /\ u \in Scripts
                        BY <1>4, <5>1, Zenon DEF BarrierAt
                    <6>2. j \in 1..Len(scenario.script[u]) /\ Len(scenario.script[u]) \in Nat
                        BY <1>2, <6>1, ScriptPlaces, Zenon
                    <6>3. ~(1 > j) /\ task'[u].at = 1 /\ task'[u].pc = "step"
                        BY <1>4, <6>2 DEF Pc
                    <6>4. QED
                        BY <6>3, Zenon DEF HasReached
                <5>2. BarrierAt(scenario, u, name)' = BarrierAt(scenario, u, name)
                    BY <1>3, Zenon DEF BarrierAt
                <5>3. QED
                    BY <5>1, <5>2, Zenon DEF Came
            <4>5. ASSUME NEW name
                  PROVE  Cardinality(ReachedBy(o, name))' = 0
                <5>1. ReachedBy(o, name)' = {}
                    BY <4>1, <4>4, Zenon DEF ReachedBy
                <5>2. QED
                    BY <5>1, Zenon
            <4>6. QED
                BY <4>2, <4>3, <4>5, Zenon
        <3>2. CASE o # t
            <4>1. o \notin Branches(t)
                BY <1>4, <2>1, PcClasses
            <4>2. Pc(o) = "join" /\ task'[o].at = task[o].at /\ group'[o] = group[o]
                BY <1>4, <1>7, <2>1, <3>2, <4>1, Zenon DEF Pc
            <4>3. task[o].at <= Len(scenario.script[o])
                BY <1>2, <4>2, Zenon DEF PcInv
            <4>4. ASSUME NEW u \in Branches(o)
                  PROVE  u \in Scripts /\ u \notin Branches(t)
                <5>1. u \in Branches(t) => u \in BranchTasks(scenario.script[t][task[t].at])
                    BY Zenon DEF Branches, StepOf
                <5>2. /\ u \in Scripts
                      /\ \A v \in Scripts : \A k \in DOMAIN scenario.script[v] : u \in BranchTasks(scenario.script[v][k]) => o = v
                    BY <1>2, <4>3, OwnBranches, Zenon
                <5>3. QED
                    BY <1>4, <3>2, <5>1, <5>2, Zenon
            <4>5. QED
                BY <1>2, <1>3, <1>12, <4>2, <4>4, HitsKept, Zenon
        <3>3. QED
            BY <3>1, <3>2
    <2>2. QED
        BY <1>2, <1>3, <2>1, Zenon DEF HitsInv
<1>14. BarrierTogether'
    <2>1. Tasks = Scripts /\ Tasks' = Scripts
        BY <1>2, <1>3, Zenon DEF Tasks, TaskTypes
    <2>2. ASSUME NEW v \in Scripts \ {Root}, NEW i \in 1..(task'[v].at - 1), scenario'.script[v][i].step = "barrier",
                 NEW u \in Siblings(v)'
          PROVE  (\E j \in DOMAIN scenario.script[u] :
                    /\ scenario.script[u][j].step = "barrier" /\ scenario.script[u][j].name = scenario.script[v][i].name
                    /\ HasReached(u, j))'
        <3>1. v \notin Branches(t)
            <4>1. v \in Branches(t) => task'[v].at = 1
                BY <1>4, Zenon
            <4>2. QED
                BY <4>1
        <3>2. task'[v].at = task[v].at /\ task'[v].owner = task[v].owner /\ task[v].owner \in Scripts
            BY <1>2, <1>4, <3>1, Zenon DEF Kept, TaskTypes
        <3>3. u \in Siblings(v)
            BY <1>3, <2>2, <3>2, Zenon DEF Siblings
        <3>4. PICK k \in DOMAIN scenario.script[task[v].owner] : /\ v \in BranchTasks(scenario.script[task[v].owner][k])
                                                                /\ u \in BranchTasks(scenario.script[task[v].owner][k])
            BY <3>3, Zenon DEF Siblings
        <3>5. u \in Scripts
            BY <1>2, <3>2, <3>4, BranchPlaces, Zenon
        <3>6. u \notin Branches(t)
            <4>1. ASSUME u \in Branches(t)
                  PROVE  t = task[v].owner /\ task[t].at = k
                BY <1>2, <1>4, <3>2, <3>4, <4>1, OwnBranches, ZenonT(30)
            <4>2. QED
                BY <3>1, <3>4, <4>1, Zenon DEF Branches, StepOf
        <3>7. PICK j \in DOMAIN scenario.script[u] :
                    /\ scenario.script[u][j].step = "barrier" /\ scenario.script[u][j].name = scenario.script[v][i].name
                    /\ HasReached(u, j)
            <4>1. BarrierTogether /\ v \in Tasks \ {Root} /\ i \in 1..(task[v].at - 1) /\ scenario.script[v][i].step = "barrier"
                BY <1>2, <1>3, <2>1, <2>2, <3>2, Zenon
            <4>2. QED
                BY <3>3, <4>1, Zenon DEF BarrierTogether
        <3>8. HasReached(u, j)'
            BY <1>12, <3>5, <3>6, <3>7, Zenon DEF IsBarrier
        <3>9. QED
            BY <1>3, <3>7, <3>8, Zenon
    <2>3. QED
        BY <2>1, <2>2, Zenon DEF BarrierTogether
<1>15. ASSUME NEW u \in Scripts, Pc(u) \in Active
       PROVE  CtxDone(u)' = CtxDone(u) /\ u \notin Branches(t)
    <2>1. u \notin Branches(t)
        BY <1>4, <1>15, Zenon
    <2>2. task'[u].within = task[u].within
        BY <1>4, <2>1, Zenon DEF Kept
    <2>3. \A v \in task[u].within : v \in Scripts /\ Pc(v) = "join"
        BY <1>2, <1>15, Zenon DEF TreeInv, WithinInv, TaskTypes
    <2>4. Pc(t) # "join"
        BY <1>4
    <2>5. \A v \in task[u].within : group'[v] = group[v]
        BY <1>7, <2>3, <2>4, Zenon
    <2>6. QED
        BY <1>3, <2>1, <2>2, <2>5, CtxSame, Zenon
<1>16. ErrorInv'
    <2>1. ASSUME NEW u \in Scripts
          PROVE  (/\ Pc(u) = "step" => task[u].err = "nil"
                  /\ Pc(u) = "fail" /\ task[u].err = "canceled" => CtxDone(u)
                  /\ Pc(u) = "cancel" => u # Root /\ group[task[u].owner].errs # <<>>)'
        <3>1. CASE u = t \/ u \in Branches(t)
            <4>1. Pc(u)' # "fail" /\ Pc(u)' # "cancel" /\ (Pc(u)' = "step" => u \in Branches(t))
                BY <1>4, <3>1
            <4>2. QED
                BY <1>4, <4>1, Zenon
        <3>2. CASE u # t /\ u \notin Branches(t)
            <4>1. task'[u] = task[u] /\ Pc(u)' = Pc(u)
                BY <1>4, <3>2, Zenon DEF Pc
            <4>2. Pc(u) = "fail" => CtxDone(u)' = CtxDone(u)
                BY <1>15, PcClasses, Zenon
            <4>3. Pc(u) = "cancel" => group'[task[u].owner] = group[task[u].owner]
                <5>1. Pc(u) = "cancel" => Pc(task[u].owner) = "join" /\ task[u].owner \in Scripts
                    <6>1. Pc(u) = "cancel" => u # Root
                        BY <1>2, Zenon DEF ErrorInv
                    <6>2. Pc(u) = "cancel" => Pc(u) \in Active
                        BY PcClasses, Zenon
                    <6>3. QED
                        BY <1>2, <6>1, <6>2, Zenon DEF TreeInv, OwnerInv, TaskTypes
                <5>2. Pc(t) # "join"
                    BY <1>4
                <5>3. QED
                    BY <1>7, <5>1, <5>2, Zenon
            <4>4. QED
                BY <1>2, <4>1, <4>2, <4>3, Zenon DEF ErrorInv
        <3>3. QED
            BY <3>1, <3>2
    <2>2. ASSUME NEW o \in Scripts, Pc(o)' = "join"
          PROVE  (/\ group[o].cancelled => group[o].errs # <<>>
                  /\ group[o].errs # <<>> /\ group[o].errs[1] = "canceled" => CtxDone(o))'
        <3>1. CASE o = t
            BY <1>6, <1>7, <3>1, Zenon
        <3>2. CASE o # t
            <4>1. o \notin Branches(t)
                BY <1>4, <2>2
            <4>2. Pc(o) = "join" /\ group'[o] = group[o]
                BY <1>4, <1>7, <2>2, <3>2, <4>1, Zenon DEF Pc
            <4>3. CtxDone(o)' = CtxDone(o)
                BY <1>15, <4>2, PcClasses, Zenon
            <4>4. QED
                BY <1>2, <4>2, <4>3, Zenon DEF ErrorInv
        <3>3. QED
            BY <3>1, <3>2
    <2>3. ErrorIsCause'
        BY <1>2, <1>3, Zenon DEF ErrorInv, ErrorIsCause
    <2>4. QED
        BY <1>2, <2>1, <2>2, <2>3, Zenon DEF ErrorInv
<1>17. QED
    BY <1>3, <1>8, <1>9, <1>10, <1>11, <1>13, <1>14, <1>16, Zenon DEF DemoInv

\* A branch that comes to a barrier is counted, once.
LEMMA BarrierHitInv ==
    ASSUME DemoInv, phase = "run", NEW t \in Scripts, BarrierHit(t), BarrierAt(scenario, t, StepOf(t).name) = {task[t].at},
           \A S \in SUBSET Branches(task[t].owner) : t \notin S => Cardinality(S \cup {t}) = Cardinality(S) + 1
    PROVE  DemoInv'
<1> DEFINE o == task[t].owner
           name == StepOf(t).name
           more == [n \in DOMAIN group[o].hits \cup {name} |-> IF n = name THEN Hits(t) + 1 ELSE group[o].hits[n]]
           new == [group[o] EXCEPT !.hits = more]
           old == [task[t] EXCEPT !.pc = "btest", !.watch = TRUE]
           tasks == [task EXCEPT ![t] = old]
<1>1. TaskTypes /\ ErrorInv /\ GroupTypes /\ Scripts' = Scripts /\ IsTree(scenario) /\ PcInv /\ TreeInv /\ HitsInv /\ ScenarioInv
    BY Zenon DEF DemoInv, Scripts, ScenarioInv, BarrierHit
<1>2. UNCHANGED <<scenario, phase, session, result, ctxDone>> /\ task' = BarrierBroadcast(t, tasks)
    BY DEF BarrierHit
<1>3. Pc(t) = "step" /\ task[t].at <= Len(scenario.script[t]) /\ StepOf(t).step = "barrier"
    BY Zenon DEF BarrierHit, At, AtStep, Pc
<1>4. group' = [group EXCEPT ![o] = new]
    BY DEF BarrierHit
<1>5. task[t].at \in DOMAIN scenario.script[t] /\ t # Root
    <2>1. task[t].at \in DOMAIN scenario.script[t]
        BY <1>1, <1>3, OwnBranches, Zenon
    <2>2. QED
        BY <1>1, <1>3, <2>1, Zenon DEF ScenarioInv, StepOf
<1>6. o \in Scripts /\ Pc(t) \in Active
    BY <1>1, <1>3, PcClasses, Zenon DEF TaskTypes
<1>7. Pc(o) = "join" /\ t \in Branches(o) /\ Pc(t) # "join"
    BY <1>1, <1>3, <1>5, <1>6 DEF TreeInv, OwnerInv
\* the tasks
<1>8. DOMAIN old = TaskFields /\ old.pc = "btest" /\ Like([old EXCEPT !.pc = task[t].pc], task[t])
    BY <1>1 DEF TaskTypes, TaskFields, Like
<1>9. old.at = task[t].at /\ old.err = task[t].err /\ old.owner = task[t].owner /\ old.within = task[t].within
    BY <1>1 DEF TaskTypes, TaskFields
<1> HIDE DEF old
<1>10. DOMAIN tasks = Scripts /\ tasks[t] = old /\ \A u \in Scripts : u # t => tasks[u] = task[u]
    BY <1>1, Zenon DEF TaskTypes
<1> HIDE DEF tasks
<1>11. /\ DOMAIN task' = Scripts
       /\ \A u \in Scripts : task'[u] = IF u \in Siblings(t) /\ tasks[u].pc = "bparked" THEN [tasks[u] EXCEPT !.pc = "block"]
                                        ELSE tasks[u]
    BY <1>1, <1>2, Zenon DEF BarrierBroadcast, Tasks, TaskTypes
<1>12. task'[t] = old
    <2>1. old.pc # "bparked"
        BY <1>8
    <2>2. QED
        BY <1>10, <1>11, <2>1, Zenon
<1>13. ASSUME NEW u \in Scripts, u # t
       PROVE  DOMAIN task'[u] = TaskFields /\ Kept(u) /\ (Same(u) \/ Stays(u)) /\ task'[u].pc \in Active \cup {"idle", "done"}
    <2>1. CASE task'[u] = task[u]
        BY <1>1, <2>1, Zenon DEF Kept, Same, TaskTypes
    <2>2. CASE task[u].pc = "bparked" /\ task'[u] = [task[u] EXCEPT !.pc = "block"]
        BY <1>1, <2>2 DEF Kept, Stays, TaskFields, BarrierPcs, Active, Working, TaskTypes
    <2>3. QED
        BY <1>10, <1>11, <1>13, <2>1, <2>2, Zenon
<1>14. Kept(t) /\ Pc(t)' = "btest" /\ Pc(t)' \in BarrierPcs /\ Pc(t)' \in Active
    BY <1>8, <1>9, <1>12, PcClasses DEF Kept, Pc
<1>15. TaskTypes'
    <2>1. ASSUME NEW u \in Scripts
          PROVE  /\ DOMAIN task'[u] = TaskFields /\ Kept(u) /\ task'[u].pc \in Active \cup {"idle", "done"}
        BY <1>8, <1>12, <1>13, <1>14, Zenon DEF Pc
    <2>2. QED
        BY <1>1, <1>2, <1>11, <2>1, ZenonT(30) DEF TaskTypes, Kept
<1>16. ASSUME NEW u \in Scripts
       PROVE  /\ Kept(u)
              /\ (Pc(u)' = "join") = (Pc(u) = "join") /\ (Pc(u)' = "idle") = (Pc(u) = "idle")
              /\ (Pc(u)' \in Active) = (Pc(u) \in Active)
              /\ (Pc(u)' = "fail") = (Pc(u) = "fail") /\ (Pc(u)' = "cancel") = (Pc(u) = "cancel")
              /\ Pc(u)' = "step" => Pc(u) = "step"
              /\ u # t => (Pc(u)' = "step") = (Pc(u) = "step")
    <2>1. CASE u = t
        BY <1>3, <1>6, <1>14, <2>1
    <2>2. CASE u # t /\ Same(u)
        BY <2>2, Zenon DEF Same, Pc
    <2>3. CASE u # t /\ Stays(u)
        <3>1. Pc(u)' \in Working /\ Pc(u) \in Working /\ Kept(u)
            BY <2>3, PcClasses, Zenon DEF Stays, Pc
        <3>2. QED
            BY <3>1, PcClasses
    <2>4. QED
        BY <1>13, <2>1, <2>2, <2>3
<1>17. TreeInv'
    <2>1. Steady
        BY <1>2, <1>16, Zenon DEF Steady, Kept, Pc
    <2>2. QED
        BY <1>1, <2>1, SteadyTree, Zenon
<1>18. PcInv'
    <2>1. ASSUME NEW u \in Scripts
          PROVE  (/\ task[u].at <= Len(scenario.script[u]) + 1
                  /\ Pc(u) \in Working \cup {"join"} => task[u].at <= Len(scenario.script[u])
                  /\ Pc(u) \in BarrierPcs => StepOf(u).step = "barrier"
                  /\ Pc(u) \in SessionPcs => StepOf(u).step \in SessionSteps /\ StepOf(u).session \in DOMAIN session
                  /\ Pc(u) = "join" => StepOf(u).step = "parallel")'
        <3>1. /\ task[u].at <= Len(scenario.script[u]) + 1
              /\ Pc(u) \in Working \cup {"join"} => task[u].at <= Len(scenario.script[u])
              /\ Pc(u) \in BarrierPcs => StepOf(u).step = "barrier"
              /\ Pc(u) \in SessionPcs => StepOf(u).step \in SessionSteps /\ StepOf(u).session \in DOMAIN session
              /\ Pc(u) = "join" => StepOf(u).step = "parallel"
            BY <1>1, Zenon DEF PcInv
        <3>2. StepOf(u)' = StepOf(u) /\ task'[u].at = task[u].at
            BY <1>2, <1>16, Zenon DEF StepOf, Kept
        <3>3. CASE u = t
            <4>1. Pc(u)' \notin SessionPcs /\ Pc(u)' # "join"
                BY <1>14, <3>3, PcClasses
            <4>2. QED
                BY <1>2, <1>3, <3>1, <3>2, <3>3, <4>1, Zenon
        <3>4. CASE Same(u)
            BY <1>2, <3>1, <3>2, <3>4, Zenon DEF Same, Pc
        <3>5. CASE Stays(u) /\ task[u].pc \in BarrierPcs /\ task'[u].pc \in BarrierPcs
            BY <1>2, <3>1, <3>2, <3>5, PcClasses, Zenon DEF Pc
        <3>6. CASE Stays(u) /\ task[u].pc \in SessionPcs /\ task'[u].pc \in SessionPcs
            BY <1>2, <3>1, <3>2, <3>6, PcClasses, Zenon DEF Pc
        <3>7. QED
            BY <1>13, <3>3, <3>4, <3>5, <3>6, Zenon DEF Stays
    <2>2. QED
        BY <1>1, <2>1, Zenon DEF PcInv
<1>19. ScenarioInv'
    BY <1>1, <1>2, Zenon DEF ScenarioInv
\* the group
<1>20. /\ DOMAIN group[o] = GroupFields /\ group[o].total \in Nat /\ group[o].errs \in Seq(Errors) /\ group[o].cancelled \in BOOLEAN
       /\ \A n \in DOMAIN group[o].hits : group[o].hits[n] \in Nat
    BY <1>1, <1>6, Zenon DEF GroupTypes
<1>21. Hits(t) = HitsOf(o, name) /\ Hits(t) \in Nat
    <2>1. Hits(t) = HitsOf(o, name)
        BY Zenon DEF Hits, HitsOf
    <2>2. name \in DOMAIN group[o].hits \/ HitsOf(o, name) = 0
        BY Zenon DEF HitsOf
    <2>3. name \in DOMAIN group[o].hits => HitsOf(o, name) \in Nat
        BY <1>20, Zenon DEF HitsOf
    <2>4. QED
        BY <2>1, <2>2, <2>3
<1>22. /\ DOMAIN new = GroupFields /\ new.total = group[o].total /\ new.errs = group[o].errs /\ new.cancelled = group[o].cancelled
       /\ new.hits = more
    BY <1>20 DEF GroupFields
<1>23. /\ \A n \in DOMAIN more : more[n] \in Nat
       /\ DOMAIN more = DOMAIN group[o].hits \cup {name} /\ more[name] = Hits(t) + 1
       /\ \A n \in DOMAIN group[o].hits : n # name => more[n] = group[o].hits[n]
    <2>1. Hits(t) + 1 \in Nat
        BY <1>21
    <2>2. QED
        BY <1>20, <2>1, Zenon
<1> HIDE DEF new, more
<1>24. /\ DOMAIN group' = Scripts /\ group'[o] = new
       /\ \A u \in Scripts : u # o => group'[u] = group[u]
    BY <1>1, <1>4, <1>6, Zenon DEF GroupTypes
<1>25. GroupTypes'
    <2>1. ASSUME NEW u \in Scripts
          PROVE  /\ DOMAIN group'[u] = GroupFields
                 /\ group'[u].total \in Nat /\ group'[u].errs \in Seq(Errors) /\ group'[u].cancelled \in BOOLEAN
                 /\ \A n \in DOMAIN group'[u].hits : group'[u].hits[n] \in Nat
        <3>1. CASE u = o
            BY <1>20, <1>22, <1>23, <1>24, <3>1, Zenon
        <3>2. CASE u # o
            BY <1>1, <1>24, <3>2, Zenon DEF GroupTypes
        <3>3. QED
            BY <3>1, <3>2
    <2>2. QED
        BY <1>1, <1>24, <2>1, Zenon DEF GroupTypes
<1>26. \A u \in Scripts : group'[u].total = group[u].total /\ group'[u].errs = group[u].errs /\ group'[u].cancelled = group[u].cancelled
    BY <1>22, <1>24, Zenon
<1>27. ErrorInv'
    <2>1. ASSUME NEW u \in Scripts
          PROVE  CtxDone(u)' = CtxDone(u)
        <3>1. task[u].within \subseteq Scripts /\ task'[u].within = task[u].within
            BY <1>1, <1>16, Zenon DEF TaskTypes, Kept
        <3>2. QED
            BY <1>2, <1>26, <3>1, CtxSame, Zenon
    <2>2. ASSUME NEW u \in Scripts
          PROVE  (/\ Pc(u) = "step" => task[u].err = "nil"
                  /\ Pc(u) = "fail" /\ task[u].err = "canceled" => CtxDone(u)
                  /\ Pc(u) = "cancel" => u # Root /\ group[task[u].owner].errs # <<>>)'
        <3>1. task'[u].err = task[u].err /\ task'[u].owner = task[u].owner /\ task[u].owner \in Scripts
            BY <1>1, <1>16, Zenon DEF Kept, TaskTypes
        <3>2. group'[task[u].owner].errs = group[task[u].owner].errs
            BY <1>26, <3>1, Zenon
        <3>3. /\ Pc(u)' = "step" => Pc(u) = "step"
              /\ Pc(u)' = "fail" <=> Pc(u) = "fail"
              /\ Pc(u)' = "cancel" <=> Pc(u) = "cancel"
            BY <1>16, Zenon
        <3>4. /\ Pc(u) = "step" => task[u].err = "nil"
              /\ Pc(u) = "fail" /\ task[u].err = "canceled" => CtxDone(u)
              /\ Pc(u) = "cancel" => u # Root /\ group[task[u].owner].errs # <<>>
            BY <1>1, Zenon DEF ErrorInv
        <3>5. group'[task'[u].owner].errs = group[task[u].owner].errs
            BY <3>1, <3>2, Zenon
        <3>6. QED
            BY <2>1, <3>1, <3>3, <3>4, <3>5, Zenon
    <2>3. ASSUME NEW p \in Scripts, Pc(p)' = "join"
          PROVE  (/\ group[p].cancelled => group[p].errs # <<>>
                  /\ group[p].errs # <<>> /\ group[p].errs[1] = "canceled" => CtxDone(p))'
        <3>1. Pc(p) = "join"
            BY <1>16, <2>3, Zenon
        <3>2. QED
            BY <1>1, <1>26, <2>1, <3>1, Zenon DEF ErrorInv
    <2>4. ErrorIsCause'
        BY <1>1, <1>2, Zenon DEF ErrorInv, ErrorIsCause
    <2>5. QED
        BY <1>1, <2>2, <2>3, <2>4, Zenon DEF ErrorInv
\* the barrier
<1>29. BarrierAt(scenario, t, name) = {task[t].at}
    OBVIOUS
<1>30. ASSUME NEW u \in Scripts, NEW j, u # t \/ j # task[t].at
       PROVE  HasReached(u, j)' = HasReached(u, j)
    <2>1. CASE u # t
        BY <1>16, <2>1, Zenon DEF HasReached, Kept, Pc
    <2>2. CASE u = t /\ j # task[t].at
        BY <1>16, <2>2, Zenon DEF HasReached, Kept
    <2>3. QED
        BY <1>30, <2>1, <2>2
<1>31. (\A i : i = task[t].at => HasReached(t, i)') /\ ~HasReached(t, task[t].at)
    <2>1. task[t].at \in Nat /\ ~(task[t].at > task[t].at)
        BY <1>1 DEF TaskTypes
    <2>2. task'[t].at = task[t].at /\ task'[t].pc # "step" /\ task[t].pc = "step"
        BY <1>3, <1>14 DEF Kept, Pc
    <2>3. QED
        BY <2>1, <2>2, Zenon DEF HasReached
<1>32. HitsInv'
    <2>1. Branches(o) \subseteq Scripts /\ task[o].at \in DOMAIN scenario.script[o] /\ StepOf(o)' = StepOf(o) /\ Branches(o)' = Branches(o)
        <3>1. task[o].at <= Len(scenario.script[o])
            BY <1>1, <1>6, <1>7, Zenon DEF PcInv
        <3>2. task'[o].at = task[o].at
            BY <1>6, <1>16, Zenon DEF Kept
        <3>3. StepOf(o)' = StepOf(o) /\ Branches(o)' = Branches(o)
            <4>1. o' = o /\ scenario' = scenario
                BY <1>2, <1>14, Zenon DEF Kept
            <4>2. StepOf(o)' = scenario'.script[o'][task'[o'].at]
                BY Zenon DEF StepOf
            <4>3. StepOf(o)' = StepOf(o)
                BY <3>2, <4>1, <4>2, Zenon DEF StepOf
            <4>4. QED
                BY <4>3, Zenon DEF Branches
        <3>4. QED
            BY <1>1, <1>6, <3>1, <3>3, OwnBranches, Zenon
    <2>2. ASSUME NEW n, NEW u \in Branches(o)
          PROVE  Came(u, n)' <=> Came(u, n) \/ (u = t /\ n = name)
        <3>1. BarrierAt(scenario, u, n)' = BarrierAt(scenario, u, n) /\ u \in Scripts
            BY <1>2, <2>1, <2>2, Zenon DEF BarrierAt
        <3>2. CASE u = t /\ n = name
            <4>1. task[t].at \in BarrierAt(scenario, u, n)'
                BY <1>29, <3>1, <3>2, Zenon
            <4>2. QED
                BY <1>31, <3>2, <4>1, Zenon DEF Came
        <3>3. CASE ~(u = t /\ n = name)
            <4>1. ASSUME NEW j \in BarrierAt(scenario, u, n)
                  PROVE  HasReached(u, j)' = HasReached(u, j)
                <5>1. u # t \/ j # task[t].at
                    BY <3>3, <4>1, Zenon DEF BarrierAt, StepOf
                <5>2. QED
                    BY <1>30, <3>1, <5>1, Zenon
            <4>2. QED
                BY <3>1, <3>3, <4>1, Zenon DEF Came
        <3>4. QED
            BY <3>2, <3>3
    <2>3. ASSUME NEW n
          PROVE  ReachedBy(o, n)' = IF n = name THEN ReachedBy(o, n) \cup {t} ELSE ReachedBy(o, n)
        <3>1. ReachedBy(o, n)' = {u \in Branches(o) : Came(u, n)'}
            <4>1. o' = o
                BY <1>14, Zenon DEF Kept
            <4>2. QED
                BY <2>1, <4>1, Zenon DEF ReachedBy
        <3>2. CASE n = name
            BY <1>7, <2>2, <3>1, <3>2, Zenon DEF ReachedBy
        <3>3. CASE n # name
            BY <2>2, <3>1, <3>3, Zenon DEF ReachedBy
        <3>4. QED
            BY <3>2, <3>3
    <2>4. ASSUME NEW n \in BarrierNames(scenario)
          PROVE  HitsOf(o, n)' = Cardinality(ReachedBy(o, n))'
        <3>1. HitsOf(o, n) = Cardinality(ReachedBy(o, n))
            BY <1>1, <1>6, <1>7, Zenon DEF HitsInv
        <3>2. HitsOf(o, n)' = IF n = name THEN HitsOf(o, n) + 1 ELSE HitsOf(o, n)
            <4>1. group'[o].hits = more /\ o' = o
                BY <1>14, <1>22, <1>24, Zenon DEF Kept
            <4>2. CASE n = name
                BY <1>21, <1>23, <4>1, <4>2, Zenon DEF HitsOf
            <4>3. CASE n # name
                BY <1>23, <4>1, <4>3, Zenon DEF HitsOf
            <4>4. QED
                BY <4>2, <4>3
        <3>3. CASE n = name
            <4>1. t \notin ReachedBy(o, n)
                BY <1>29, <1>31, <3>3, Zenon DEF ReachedBy, Came
            <4>2. ReachedBy(o, n) \in SUBSET Branches(o)
                BY Zenon DEF ReachedBy
            <4>3. Cardinality(ReachedBy(o, n) \cup {t}) = Cardinality(ReachedBy(o, n)) + 1
                BY <4>1, <4>2, Zenon
            <4>4. QED
                BY <2>3, <3>1, <3>2, <3>3, <4>3, Zenon
        <3>4. CASE n # name
            BY <2>3, <3>1, <3>2, <3>4, Zenon
        <3>5. QED
            BY <3>3, <3>4
    <2>5. (group[o].total = Len(StepOf(o).branches))'
        <3>1. o' = o /\ group'[o].total = group[o].total
            BY <1>6, <1>14, <1>26, Zenon DEF Kept
        <3>2. group[o].total = Len(StepOf(o).branches)
            BY <1>1, <1>6, <1>7, Zenon DEF HitsInv
        <3>3. QED
            BY <2>1, <3>1, <3>2, Zenon
    <2>6. ASSUME NEW p \in Scripts, Pc(p)' = "join"
          PROVE  /\ (group[p].total = Len(StepOf(p).branches))'
                 /\ \A n \in BarrierNames(scenario) : HitsOf(p, n)' = Cardinality(ReachedBy(p, n))'
        <3>1. Pc(p) = "join" /\ task'[p].at = task[p].at
            BY <1>16, <2>6, Zenon DEF Kept
        <3>2. CASE p = o
            <4>1. o' = o
                BY <1>14, Zenon DEF Kept
            <4>2. (group[p].total = Len(StepOf(p).branches))'
                BY <2>5, <3>2, <4>1, Zenon DEF StepOf
            <4>3. ASSUME NEW n \in BarrierNames(scenario)
                  PROVE  HitsOf(p, n)' = Cardinality(ReachedBy(p, n))'
                <5>1. HitsOf(p, n)' = HitsOf(o, n)' /\ ReachedBy(p, n)' = ReachedBy(o, n)'
                    BY <3>2, <4>1, Zenon DEF HitsOf, ReachedBy, Branches, StepOf
                <5>2. QED
                    BY <2>4, <5>1, Zenon
            <4>4. QED
                BY <4>2, <4>3, Zenon
        <3>3. CASE p # o
            <4>1. task[p].at <= Len(scenario.script[p])
                BY <1>1, <3>1, Zenon DEF PcInv
            <4>2. ASSUME NEW u \in Branches(p)
                  PROVE  u \in Scripts /\ u # t
                <5>1. /\ u \in Scripts
                      /\ \A v \in Scripts : \A k \in DOMAIN scenario.script[v] : u \in BranchTasks(scenario.script[v][k]) => p = v
                    BY <1>1, <4>1, OwnBranches, Zenon
                <5>2. t \in BranchTasks(scenario.script[o][task[o].at])
                    BY <1>7, Zenon DEF Branches, StepOf
                <5>3. QED
                    BY <1>6, <2>1, <3>3, <5>1, <5>2, Zenon
            <4>3. \A u \in Branches(p) : \A j : IsBarrier(u, j) => HasReached(u, j)' = HasReached(u, j)
                BY <1>30, <4>2, Zenon
            <4>4. group'[p] = group[p]
                BY <1>24, <3>3, Zenon
            <4>5. QED
                BY <1>1, <1>2, <3>1, <4>3, <4>4, HitsKept, Zenon
        <3>4. QED
            BY <3>2, <3>3
    <2>7. QED
        BY <1>1, <1>2, <2>6, Zenon DEF HitsInv
<1>33. BarrierTogether'
    <2>1. Tasks = Scripts /\ Tasks' = Scripts /\ BarrierTogether
        BY <1>1, <1>11, Zenon DEF Tasks, TaskTypes, DemoInv
    <2>2. ASSUME NEW v \in Scripts \ {Root}, NEW i \in 1..(task'[v].at - 1), scenario'.script[v][i].step = "barrier",
                 NEW u \in Siblings(v)'
          PROVE  (\E j \in DOMAIN scenario.script[u] :
                    /\ scenario.script[u][j].step = "barrier" /\ scenario.script[u][j].name = scenario.script[v][i].name
                    /\ HasReached(u, j))'
        <3>1. task'[v].at = task[v].at /\ task'[v].owner = task[v].owner /\ task[v].owner \in Scripts
            BY <1>1, <1>16, Zenon DEF Kept, TaskTypes
        <3>2. u \in Siblings(v)
            BY <1>2, <2>2, <3>1, Zenon DEF Siblings
        <3>3. PICK k \in DOMAIN scenario.script[task[v].owner] : u \in BranchTasks(scenario.script[task[v].owner][k])
            BY <3>2, Zenon DEF Siblings
        <3>4. u \in Scripts
            BY <1>1, <3>1, <3>3, BranchPlaces, Zenon
        <3>5. PICK j \in DOMAIN scenario.script[u] :
                    /\ scenario.script[u][j].step = "barrier" /\ scenario.script[u][j].name = scenario.script[v][i].name
                    /\ HasReached(u, j)
            BY <1>2, <2>1, <2>2, <3>1, <3>2, ZenonT(30) DEF BarrierTogether
        <3>6. HasReached(u, j)'
            BY <1>30, <1>31, <3>4, <3>5, Zenon
        <3>7. QED
            BY <1>2, <3>5, <3>6, Zenon
    <2>3. QED
        BY <2>1, <2>2, Zenon DEF BarrierTogether
<1>34. QED
    BY <1>15, <1>17, <1>18, <1>19, <1>25, <1>27, <1>32, <1>33, Zenon DEF DemoInv

(***************************************************************************)
(* The beginning.                                                          *)
(***************************************************************************)
\* validateStep rejects a barrier outside of a branch, and a parallel step
\* with a barrier that not every branch meets once.
LEMMA StepChecked ==
    ASSUME NEW s, NEW step, NEW inParallel, validateStep(s, step, inParallel)
    PROVE  /\ step.step = "barrier" => inParallel
           /\ step.step = "parallel" => validateParallelBarriers(s, step)
<1>1. CASE step.step = "barrier"
    BY <1>1 DEF validateStep
<1>2. CASE step.step = "parallel"
    BY <1>2 DEF validateStep
<1>3. QED
    BY <1>1, <1>2

\* Idle is a task that has not begun.
LEMMA IdleTask ==
    /\ DOMAIN Idle = TaskFields /\ Idle.pc = "idle" /\ Idle.at = 1 /\ Idle.err = "nil" /\ Idle.owner = Root
    /\ Idle.within = {}
    /\ "idle" \notin Active /\ "nil" \in Errors /\ 1 \in Nat \ {0}
BY DEF Idle, TaskFields, Active, Working, BarrierPcs, SessionPcs, Errors

\* only the task of the scenario's own script may have been started
Begins ==
    /\ IsTree(scenario) /\ DOMAIN task = Scripts /\ \A t \in Scripts : t # Root => task[t] = Idle
    /\ Like([task[Root] EXCEPT !.pc = "idle"], Idle) /\ DOMAIN task[Root] = TaskFields
    /\ task[Root].pc \in {"idle", "step"} /\ GroupTypes /\ ScenarioInv /\ result # "canceled"

\* Then all that is said of the tasks that run is so.
LEMMA BeginInv == Begins => DemoInv
<1> SUFFICES ASSUME Begins PROVE DemoInv
    OBVIOUS
<1> USE DEF Begins
<1>1. Root \in Scripts
    BY Zenon DEF IsTree, Scripts
<1>2. /\ task[Root].at = 1 /\ task[Root].err = "nil" /\ task[Root].owner = Root /\ task[Root].within = {}
    BY IdleTask DEF Like, TaskFields
<1>3. ASSUME NEW t \in Scripts
      PROVE  /\ DOMAIN task[t] = TaskFields /\ task[t].at = 1 /\ task[t].err = "nil" /\ task[t].owner = Root /\ task[t].within = {}
             /\ task[t].pc = "idle" \/ (t = Root /\ task[t].pc = "step")
    <2>1. CASE t = Root
        BY <1>2, <2>1
    <2>2. CASE t # Root
        BY <2>2, IdleTask, Zenon
    <2>3. QED
        BY <2>1, <2>2
<1>4. ASSUME NEW t \in Scripts
      PROVE  /\ Pc(t) # "join" /\ Pc(t) # "fail" /\ Pc(t) # "cancel" /\ Pc(t) \notin Working
             /\ Pc(t) \in Active \cup {"idle", "done"} /\ (Pc(t) \in Active => t = Root)
    <2>1. CASE task[t].pc = "idle"
        BY <2>1, PcClasses DEF Pc
    <2>2. CASE t = Root /\ task[t].pc = "step"
        BY <2>2, PcClasses DEF Pc
    <2>3. QED
        BY <1>3, <2>1, <2>2, Zenon
<1>5. TaskTypes
    BY <1>1, <1>3, <1>4, IdleTask, Zenon DEF TaskTypes, Pc
<1>6. PcInv
    <2>1. ASSUME NEW t \in Scripts
          PROVE  task[t].at <= Len(scenario.script[t]) + 1
        <3>1. Len(scenario.script[t]) \in Nat
            BY ScriptPlaces, Zenon
        <3>2. QED
            BY <1>3, <3>1
    <2>2. QED
        BY <1>4, <2>1, PcClasses, Zenon DEF PcInv
<1>7. TreeInv
    BY <1>1, <1>3, <1>4, Zenon DEF TreeInv, JoinInv, OwnerInv, WithinInv
<1>8. ErrorInv
    <2>1. ErrorIsCause
        BY Zenon DEF ErrorIsCause
    <2>2. QED
        BY <1>3, <1>4, <2>1, Zenon DEF ErrorInv
<1>9. HitsInv
    BY <1>4, Zenon DEF HitsInv
<1>10. BarrierTogether
    <2>1. \A t \in Scripts : 1..(task[t].at - 1) = {}
        BY <1>3
    <2>2. QED
        BY <2>1, Zenon DEF BarrierTogether, Tasks
<1>11. QED
    BY <1>5, <1>6, <1>7, <1>8, <1>9, <1>10, Zenon DEF DemoInv

\* NoGroup is a parallel step that has not begun.
LEMMA NoGroups ==
    ASSUME group = [t \in Scripts |-> NoGroup]
    PROVE  GroupTypes
<1>1. /\ DOMAIN NoGroup = GroupFields /\ NoGroup.total \in Nat /\ NoGroup.errs \in Seq(Errors) /\ NoGroup.cancelled \in BOOLEAN
      /\ DOMAIN NoGroup.hits = {}
    BY DEF NoGroup, GroupFields
<1>2. QED
    BY <1>1, Zenon DEF GroupTypes

\* The invariant holds when a scenario has been loaded.
LEMMA InitInv ==
    ASSUME Init
    PROVE  DemoInv /\ LoadInv
<1>1. IsTree(scenario) /\ Root \in Scripts
    BY ScenarioTree, Zenon DEF Init, IsTree, Scripts
<1>2. task = [t \in Scripts |-> Idle] /\ group = [t \in Scripts |-> NoGroup]
    BY Zenon DEF Init, Scripts
<1>3. DOMAIN task = Scripts /\ \A t \in Scripts : task[t] = Idle
    BY <1>2, Zenon
<1>4. ScenarioInv
    BY <1>1 DEF Init, ScenarioInv
<1>5. Like([Idle EXCEPT !.pc = "idle"], Idle) /\ Idle.pc \in {"idle", "step"} /\ DOMAIN Idle = TaskFields
    BY DEF Idle, Like, TaskFields
<1>6. result # "canceled"
    BY DEF Init
<1>7. GroupTypes
    BY <1>2, NoGroups, Zenon
<1>8. task[Root] = Idle
    BY <1>1, <1>3, Zenon
<1>9. DemoInv
    <2>1. /\ Like([task[Root] EXCEPT !.pc = "idle"], Idle) /\ DOMAIN task[Root] = TaskFields
          /\ task[Root].pc \in {"idle", "step"} /\ \A t \in Scripts : t # Root => task[t] = Idle
        BY <1>3, <1>5, <1>8, Zenon
    <2>2. QED
        BY <1>1, <1>3, <1>4, <1>6, <1>7, <2>1, BeginInv, Zenon DEF Begins
<1>10. QED
    BY <1>2, <1>9, Zenon DEF LoadInv, Init
=============================================================================
