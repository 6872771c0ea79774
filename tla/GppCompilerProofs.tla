--------------------------- MODULE GppCompilerProofs ---------------------------
(***************************************************************************)
(* TLAPS proofs about GppCompiler, for any number of callers, process ids, *)
(* workspaces and program objects.                                         *)
(***************************************************************************)
EXTENDS GppCompiler, TLAPS

LEMMA FailureType ==
    ASSUME TypeOK, NEW c \in Callers, verdict[c] \notin {"none", "exit0"}
    PROVE  FailureOf(verdict[c]) \in Failures
  BY DEF TypeOK, FailureOf, Failures, ExitCodes

LEMMA FailKeepsTypes ==
    ASSUME TypeOK, NEW c \in Callers, NEW failure \in Failures, Fail(c, failure)
    PROVE  /\ dirs' \subseteq Workspaces
           /\ pc' \in [Callers -> Steps]
           /\ work' \in [Callers -> Workspaces \cup {NoPath}]
           /\ status' \in [Callers -> Failures \cup {"none", "succeeded"}]
           /\ UNCHANGED <<object, child, late, verdict>>
  BY DEF TypeOK, Fail, Goto, AfterRemoveAll, Steps

LEMMA SystemKeepsTypes ==
    ASSUME TypeOK, System
    PROVE  TypeOK'
<1> USE DEF TypeOK
<1>1. Free \in Process
  BY DEF Free, Process
<1>2. ASSUME NEW p \in Pids, NEW code \in ExitCodes, Exit(p, code)
      PROVE TypeOK'
  <2>1. [proc[p] EXCEPT !.st = code] \in Process
    BY DEF Process
  <2>2. proc' \in [Pids -> Process]
    BY <1>1, <1>2, <2>1 DEF Exit
  <2>3. actual' \in [Callers -> ExitCodes \cup {"none"}]
    BY <1>2 DEF Exit
  <2>4. QED
    BY <1>2, <2>2, <2>3 DEF Exit, hostVars
<1>3. ASSUME NEW q \in Pids, NEW r \in Pids, Fork(q, r)
      PROVE TypeOK'
  <2>1. Started(proc[q].grp, proc[q].job) \in Process
    BY DEF Process, Started
  <2>2. QED
    BY <1>3, <2>1 DEF Fork, hostVars
<1>4. ASSUME NEW p \in Pids, ForeignStart(p)
      PROVE TypeOK'
  <2>1. Started(p, Foreign) \in Process
    BY DEF Process, Started
  <2>2. QED
    BY <1>4, <2>1 DEF ForeignStart, hostVars
<1>5. ASSUME NEW p \in Pids, ExternalReap(p)
      PROVE TypeOK'
  BY <1>1, <1>5 DEF ExternalReap, hostVars
<1>6. QED
  BY <1>2, <1>3, <1>4, <1>5 DEF System

LEMMA ProgramsKeepTypes ==
    ASSUME TypeOK, UsePrograms
    PROVE  TypeOK'
  BY DEF TypeOK, UsePrograms, ProgramStep, MoveConstruct, MoveAssign, Destroy,
         AfterRemoveAll, Objects, hostVars

LEMMA CompileKeepsTypes ==
    ASSUME TypeOK, OutcomeKnown, NEW c \in Callers, Compile(c)
    PROVE  TypeOK'
<1>1. CASE Reject(c)
  <2>1. PICK failure \in {"invalid_configuration", "filesystem_error"} : Fail(c, failure)
    BY <1>1 DEF Reject
  <2>2. failure \in Failures
    BY DEF Failures
  <2>3. QED
    BY <1>1, <2>1, <2>2, FailKeepsTypes DEF Reject, TypeOK
<1>2. CASE CreateWorkspace(c)
  BY <1>2 DEF CreateWorkspace, Goto, Unused, Steps, TypeOK
<1>3. CASE Prepare(c)
  <2>1. CASE Fail(c, "filesystem_error")
    BY <1>3, <2>1, FailKeepsTypes DEF Prepare, Failures, TypeOK
  <2>2. CASE ~Fail(c, "filesystem_error")
    BY <1>3, <2>2 DEF Prepare, Goto, Steps, TypeOK
  <2>3. QED
    BY <2>1, <2>2
<1>4. CASE Spawn(c)
  <2>1. PICK p \in FreePids : /\ proc' = [proc EXCEPT ![p] = Started(p, work[c])]
                              /\ child' = [child EXCEPT ![c] = p]
    BY <1>4 DEF Spawn
  <2>2. p \in Pids /\ Started(p, work[c]) \in Process
    BY DEF FreePids, Started, Process, TypeOK
  <2>3. QED
    BY <1>4, <2>1, <2>2 DEF Spawn, Goto, Steps, Launched, TypeOK
<1>5. CASE SpawnFails(c)
  BY <1>5, FailKeepsTypes DEF SpawnFails, Failures, TypeOK
<1>6. CASE Waiting(c)
  <2>1. Free \in Process
    BY DEF Free, Process
  <2>2. CASE Poll(c)
    <3>1. Zombie(child[c]) => proc[child[c]].st \in ExitCodes
      BY DEF Zombie
    <3>2. UNCHANGED <<dirs, object, work, child, late, status, actual>>
      BY <2>2 DEF Poll
    <3>3. proc' \in [Pids -> Process]
      BY <2>1, <2>2 DEF Poll, Reaped, TypeOK
    <3>4. pc' \in [Callers -> Steps]
      BY <2>2 DEF Poll, Reaped, Goto, Steps, Launched, TypeOK
    <3>5. verdict' \in [Callers -> ExitCodes \cup
                            {"none", "timed_out", "wait_error", "no_child"}]
      BY <2>2, <3>1 DEF Poll, Reaped, TypeOK
    <3>6. QED
      BY <3>2, <3>3, <3>4, <3>5 DEF TypeOK
  <2>3. CASE CheckClock(c)
    BY <2>3 DEF CheckClock, Goto, Steps, Launched, TypeOK
  <2>4. CASE Terminate(c)
    BY <2>4 DEF Terminate, Goto, Steps, Launched, TypeOK
  <2>5. CASE KillGroup(c)
    <3>1. ASSUME NEW q \in Pids PROVE [proc[q] EXCEPT !.killed = TRUE] \in Process
      <4>1. proc[q] \in Process
        BY DEF TypeOK
      <4>2. QED
        BY <4>1 DEF Process
    <3>2. QED
      BY <2>5, <3>1 DEF KillGroup, Goto, Steps, Launched, TypeOK
  <2>6. CASE Reap(c)
    BY <2>1, <2>6 DEF Reap, Goto, Steps, Launched, TypeOK
  <2>7. QED
    BY <1>6, <2>2, <2>3, <2>4, <2>5, <2>6 DEF Waiting
<1>7. CASE CollectFailure(c)
  <2>1. CASE Fail(c, "filesystem_error")
    BY <1>7, <2>1, FailKeepsTypes DEF CollectFailure, Failures, TypeOK
  <2>2. CASE verdict[c] # "exit0" /\ Fail(c, FailureOf(verdict[c]))
    <3>1. FailureOf(verdict[c]) \in Failures
      BY <1>7, <2>2, FailureType DEF CollectFailure, OutcomeKnown
    <3>2. QED
      BY <1>7, <2>2, <3>1, FailKeepsTypes DEF CollectFailure, TypeOK
  <2>3. QED
    BY <1>7, <2>1, <2>2 DEF CollectFailure
<1>8. CASE CollectSuccess(c)
  BY <1>8 DEF CollectSuccess, Construct, Goto, Steps, Objects, TypeOK
<1>9. QED
  BY <1>1, <1>2, <1>3, <1>4, <1>5, <1>6, <1>7, <1>8 DEF Compile

LEMMA OutcomeStaysKnown ==
    ASSUME TypeOK, OutcomeKnown, Next
    PROVE  OutcomeKnown'
<1> USE DEF TypeOK, OutcomeKnown
<1>1. ASSUME NEW c \in Callers, Compile(c)
      PROVE OutcomeKnown'
  <2>1. CASE Poll(c)
    BY <2>1 DEF Poll, Reaped, Zombie, ExitCodes, Goto
  <2>2. CASE CheckClock(c) \/ Terminate(c) \/ KillGroup(c) \/ Reap(c)
    BY <2>2 DEF CheckClock, Terminate, KillGroup, Reap, Goto
  <2>3. CASE Reject(c) \/ CreateWorkspace(c) \/ Prepare(c) \/ Spawn(c)
             \/ SpawnFails(c) \/ CollectFailure(c) \/ CollectSuccess(c)
    BY <2>3 DEF Reject, CreateWorkspace, Prepare, Spawn, SpawnFails,
                CollectFailure, CollectSuccess, Fail, Goto
  <2>4. QED
    BY <1>1, <2>1, <2>2, <2>3 DEF Compile, Waiting
<1>2. ASSUME NEW c \in Callers, Elapse(c) \/ Forget(c)
      PROVE OutcomeKnown'
  BY <1>2 DEF Elapse, Forget, Goto
<1>3. CASE UsePrograms
  BY <1>3 DEF UsePrograms, hostVars
<1>4. CASE System
  BY <1>4 DEF System, Exit, Fork, ForeignStart, ExternalReap, hostVars
<1>5. QED
  BY <1>1, <1>2, <1>3, <1>4 DEF Next

LEMMA TypesKept ==
    ASSUME TypeOK, OutcomeKnown, [Next]_vars
    PROVE  TypeOK' /\ OutcomeKnown'
<1>1. CASE Next
  <2>1. ASSUME NEW c \in Callers, Elapse(c) \/ Forget(c)
        PROVE TypeOK'
    BY <2>1 DEF Elapse, Forget, Goto, TypeOK, Steps
  <2>2. TypeOK'
    BY <1>1, <2>1, CompileKeepsTypes, ProgramsKeepTypes, SystemKeepsTypes DEF Next
  <2>3. QED
    BY <1>1, <2>2, OutcomeStaysKnown
<1>2. CASE UNCHANGED vars
  BY <1>2 DEF vars, hostVars, TypeOK, OutcomeKnown
<1>3. QED
  BY <1>1, <1>2

LEMMA InitTypes == Init => TypeOK /\ OutcomeKnown
<1>1. Free \in Process
  BY DEF Free, Process
<1>2. QED
  BY <1>1 DEF Init, TypeOK, OutcomeKnown, Steps

(***************************************************************************)
(* Every variable keeps its type, and the wait outcome that reaches the    *)
(* classification in compile() is always one it classifies.                *)
(***************************************************************************)
THEOREM TypeCorrect == Spec => [](TypeOK /\ OutcomeKnown)
  BY InitTypes, TypesKept, PTL DEF Spec

--------------------------------------------------------------------------------
(* The parts of HostInvariant, one by one. *)

LEMMA FailKeepsOwners ==
    ASSUME TypeOK, OneOwner, NEW c \in Callers, NEW failure, Fail(c, failure)
    PROVE  OneOwner'
  BY ObjectAssumption DEF TypeOK, OneOwner, Fail, Goto, AfterRemoveAll

LEMMA ProgramsKeepOwners ==
    ASSUME TypeOK, OneOwner, UsePrograms
    PROVE  OneOwner'
<1> USE ObjectAssumption DEF TypeOK, OneOwner, hostVars
<1>1. ASSUME NEW dst \in Holders, NEW src \in Objects, MoveConstruct(dst, src), UsePrograms
      PROVE OneOwner'
  BY <1>1 DEF MoveConstruct, UsePrograms, Objects
<1>2. ASSUME NEW dst \in Objects, NEW src \in Objects, MoveAssign(dst, src, Busy), UsePrograms
      PROVE OneOwner'
  BY <1>2 DEF MoveAssign, UsePrograms, AfterRemoveAll
<1>3. ASSUME NEW o \in Objects, Destroy(o, Busy), UsePrograms
      PROVE OneOwner'
  BY <1>3 DEF Destroy, UsePrograms, AfterRemoveAll
<1>4. QED
  BY <1>1, <1>2, <1>3 DEF UsePrograms, ProgramStep

LEMMA CompileKeepsOwners ==
    ASSUME TypeOK, OneOwner, NEW c \in Callers, Compile(c)
    PROVE  OneOwner'
<1>1. CASE \E failure : Fail(c, failure)
  BY <1>1, FailKeepsOwners
<1>2. CASE CreateWorkspace(c)
  <2>1. PICK w \in Unused : dirs' = dirs \cup {w} /\ work' = [work EXCEPT ![c] = w]
    BY <1>2 DEF CreateWorkspace
  <2>2. w \in Workspaces /\ w \notin dirs
    BY <2>1 DEF Unused
  <2>3. QED
    BY <1>2, <2>1, <2>2, ObjectAssumption DEF CreateWorkspace, OneOwner, TypeOK
<1>3. CASE CollectSuccess(c)
  BY <1>3, ObjectAssumption DEF CollectSuccess, Construct, OneOwner, TypeOK, Objects
<1>4. CASE UNCHANGED <<dirs, object, work>>
  BY <1>4 DEF OneOwner
<1>5. QED
  BY <1>1, <1>2, <1>3, <1>4
  DEF Compile, Waiting, Reject, Prepare, Spawn, SpawnFails, Poll, CheckClock,
      Terminate, KillGroup, Reap, CollectFailure

LEMMA OwnersKept ==
    ASSUME TypeOK, OneOwner, Next
    PROVE  OneOwner'
<1>1. CASE System \/ \E c \in Callers : Elapse(c) \/ Forget(c)
  BY <1>1 DEF System, Exit, Fork, ForeignStart, ExternalReap, hostVars, Elapse, Forget,
              OneOwner
<1>2. QED
  BY <1>1, ProgramsKeepOwners, CompileKeepsOwners DEF Next

\* What may happen to one process: it ends, it is signalled, or it starts with
\* a number that names neither a process nor a group.
ProcStep ==
    \/ UNCHANGED proc
    \/ \A p \in Pids : proc'[p] = proc[p] \/ proc'[p] = Free
          \/ /\ proc[p].st # "free"
             /\ proc'[p].st # "free"
             /\ proc'[p].grp = proc[p].grp
             /\ proc'[p].job = proc[p].job
    \/ \E r \in FreePids, w \in Workspaces \cup {Foreign, NoPath} :
          proc' = [proc EXCEPT ![r] = Started(r, w)]
    \/ \E r \in FreePids, q \in Pids :
          proc[q].st # "free" /\ proc' = [proc EXCEPT ![r] = Started(proc[q].grp, proc[q].job)]

LEMMA NextIsProcStep ==
    ASSUME TypeOK, Next
    PROVE  ProcStep
<1> USE DEF TypeOK, ProcStep
<1>1. ASSUME NEW p \in Pids, NEW code \in ExitCodes, Exit(p, code)
      PROVE ProcStep
  <2>1. [proc[p] EXCEPT !.st = code].st = code
    BY DEF Process
  <2>2. [proc[p] EXCEPT !.st = code].grp = proc[p].grp
        /\ [proc[p] EXCEPT !.st = code].job = proc[p].job
    BY DEF Process
  <2>3. code # "free" /\ proc[p].st # "free"
    BY <1>1 DEF ExitCodes, Exit
  <2>4. QED
    BY <1>1, <2>1, <2>2, <2>3 DEF Exit
<1>2. CASE System
  BY <1>1, <1>2 DEF System, Fork, ForeignStart, ExternalReap, FreePids
<1>3. ASSUME NEW c \in Callers, KillGroup(c)
      PROVE ProcStep
  <2>1. \A q \in Pids : [proc[q] EXCEPT !.killed = TRUE].st = proc[q].st
                        /\ [proc[q] EXCEPT !.killed = TRUE].grp = proc[q].grp
                        /\ [proc[q] EXCEPT !.killed = TRUE].job = proc[q].job
    BY DEF Process
  <2>2. QED
    BY <1>3, <2>1 DEF KillGroup, Group
<1>4. ASSUME NEW c \in Callers, Spawn(c)
      PROVE ProcStep
  BY <1>4 DEF Spawn
<1>5. ASSUME NEW c \in Callers, Poll(c) \/ Reap(c)
      PROVE ProcStep
  BY <1>5 DEF Poll, Reaped, Reap
<1>6. ASSUME UNCHANGED proc
      PROVE ProcStep
  BY <1>6
<1>7. QED
  BY <1>2, <1>3, <1>4, <1>5, <1>6
  DEF Next, Compile, Waiting, Reject, CreateWorkspace, Prepare, SpawnFails, CheckClock,
      Terminate, CollectFailure, CollectSuccess, Elapse, Forget, UsePrograms

LEMMA JobsKept ==
    ASSUME TypeOK, GroupsKeepJob, ProcStep
    PROVE  GroupsKeepJob'
<1> USE DEF TypeOK, GroupsKeepJob
<1>1. Free.st = "free"
  BY DEF Free
<1>2. CASE \A p \in Pids : proc'[p] = proc[p] \/ proc'[p] = Free
              \/ /\ proc[p].st # "free"
                 /\ proc'[p].st # "free"
                 /\ proc'[p].grp = proc[p].grp
                 /\ proc'[p].job = proc[p].job
  BY <1>1, <1>2
<1>3. ASSUME NEW r \in FreePids, NEW w, proc' = [proc EXCEPT ![r] = Started(r, w)]
      PROVE GroupsKeepJob'
  <2>1. r \in Pids /\ \A q \in Pids : proc[q].st # "free" => proc[q].grp # r
    BY DEF FreePids, Group
  <2>2. Started(r, w).grp = r /\ Started(r, w).job = w
    BY DEF Started
  <2>3. QED
    BY <1>3, <2>1, <2>2
<1>4. ASSUME NEW r \in FreePids, NEW q \in Pids, proc[q].st # "free",
             proc' = [proc EXCEPT ![r] = Started(proc[q].grp, proc[q].job)]
      PROVE GroupsKeepJob'
  <2>1. r \in Pids
    BY DEF FreePids
  <2>2. /\ Started(proc[q].grp, proc[q].job).grp = proc[q].grp
        /\ Started(proc[q].grp, proc[q].job).job = proc[q].job
    BY DEF Started
  <2>3. QED
    BY <1>4, <2>1, <2>2
<1>5. QED
  BY <1>2, <1>3, <1>4 DEF ProcStep

\* The host sees the same children, for the same jobs.
SameChildren ==
    Children' = Children /\ \A p \in Children : proc'[p].job = proc[p].job

LEMMA SystemKeepsChildren ==
    ASSUME TypeOK, ~HostReaps, System
    PROVE  SameChildren
<1> USE DEF TypeOK
<1>1. ASSUME NEW p \in Pids, NEW code \in ExitCodes, Exit(p, code)
      PROVE SameChildren
  <2>1. CASE p \in Children
    <3>1. [proc[p] EXCEPT !.st = code].st = code
      BY DEF Process
    <3>2. [proc[p] EXCEPT !.st = code].grp = proc[p].grp
          /\ [proc[p] EXCEPT !.st = code].job = proc[p].job
      BY DEF Process
    <3>3. code # "free" /\ proc[p].st # "free"
      BY <1>1 DEF ExitCodes, Exit
    <3>4. QED
      BY <1>1, <2>1, <3>1, <3>2, <3>3 DEF Exit, Children, SameChildren
  <2>2. CASE p \notin Children
    <3>1. proc' = [proc EXCEPT ![p] = Free] /\ Free.st = "free"
      BY <1>1, <2>2 DEF Exit, Free
    <3>2. QED
      BY <2>2, <3>1 DEF Children, SameChildren
  <2>3. QED
    BY <2>1, <2>2
<1>2. ASSUME NEW q \in Pids, NEW r \in Pids, Fork(q, r)
      PROVE SameChildren
  <2>1. proc[r].st = "free" /\ proc[q].grp # r
    BY <1>2 DEF Fork, FreePids, Group
  <2>2. Started(proc[q].grp, proc[q].job).grp = proc[q].grp
    BY DEF Started
  <2>3. QED
    BY <1>2, <2>1, <2>2 DEF Fork, Children, SameChildren
<1>3. ASSUME NEW p \in Pids, ForeignStart(p)
      PROVE SameChildren
  <2>1. proc[p].st = "free" /\ Started(p, Foreign).job = Foreign
    BY <1>3 DEF ForeignStart, FreePids, Started
  <2>2. QED
    BY <1>3, <2>1, ProcessAssumption DEF ForeignStart, Children, SameChildren
<1>4. QED
  BY <1>1, <1>2, <1>3 DEF System, ExternalReap

LEMMA KillKeepsChildren ==
    ASSUME TypeOK, NEW c \in Callers, KillGroup(c)
    PROVE  SameChildren
<1>1. \A q \in Pids : [proc[q] EXCEPT !.killed = TRUE].st = proc[q].st
                      /\ [proc[q] EXCEPT !.killed = TRUE].grp = proc[q].grp
                      /\ [proc[q] EXCEPT !.killed = TRUE].job = proc[q].job
  BY DEF Process, TypeOK
<1>2. \A q \in Pids : /\ proc'[q].st = proc[q].st
                      /\ proc'[q].grp = proc[q].grp
                      /\ proc'[q].job = proc[q].job
  BY <1>1 DEF KillGroup
<1>3. QED
  BY <1>2 DEF Children, SameChildren

LEMMA AwaitedKeptBySame ==
    ASSUME TypeOK, ChildrenAwaited, SameChildren, NEW c \in Callers,
           \A d \in Callers : d # c =>
               pc'[d] = pc[d] /\ child'[d] = child[d] /\ work'[d] = work[d],
           pc'[c] \in Launched <=> pc[c] \in Launched,
           pc[c] \in Launched => child'[c] = child[c] /\ work'[c] = work[c]
    PROVE  ChildrenAwaited'
<1> USE DEF ChildrenAwaited, SameChildren
<1>1. ASSUME NEW d \in Callers, pc'[d] \in Launched
      PROVE child'[d] \in Children' /\ proc'[child'[d]].job = work'[d]
  <2>1. pc[d] \in Launched /\ child'[d] = child[d] /\ work'[d] = work[d]
    BY <1>1
  <2>2. QED
    BY <2>1
<1>2. ASSUME NEW p \in Children'
      PROVE \E d \in Callers : pc'[d] \in Launched /\ child'[d] = p
  <2>1. PICK d \in Callers : pc[d] \in Launched /\ child[d] = p
    BY <1>2
  <2>2. pc'[d] \in Launched /\ child'[d] = p
    BY <2>1
  <2>3. QED
    BY <2>2
<1>3. QED
  BY <1>1, <1>2

LEMMA ReapKeepsAwaited ==
    ASSUME TypeOK, OneOwner, ChildrenAwaited, NEW c \in Callers,
           pc[c] \in Launched, proc' = [proc EXCEPT ![child[c]] = Free],
           pc' = [pc EXCEPT ![c] = "collect"], UNCHANGED <<child, work>>
    PROVE  ChildrenAwaited'
<1> USE DEF TypeOK, ChildrenAwaited
<1>1. child[c] \in Children /\ proc[child[c]].job = work[c] /\ Free.st = "free"
  BY DEF Free
<1>2. Children' = Children \ {child[c]}
  BY <1>1 DEF Children
<1>3. ASSUME NEW d \in Callers, pc'[d] \in Launched
      PROVE child'[d] \in Children' /\ proc'[child'[d]].job = work'[d]
  <2>1. d # c /\ pc[d] \in Launched
    BY <1>3 DEF Launched
  <2>2. child[d] # child[c]
    BY <1>1, <2>1, ObjectAssumption DEF OneOwner, Children
  <2>3. QED
    BY <1>2, <2>1, <2>2 DEF Children
<1>4. ASSUME NEW p \in Children'
      PROVE \E d \in Callers : pc'[d] \in Launched /\ child'[d] = p
  <2>1. PICK d \in Callers : pc[d] \in Launched /\ child[d] = p
    BY <1>2, <1>4
  <2>2. d # c
    BY <1>2, <1>4, <2>1
  <2>3. QED
    BY <2>1, <2>2
<1>5. QED
  BY <1>3, <1>4

LEMMA SpawnKeepsAwaited ==
    ASSUME TypeOK, ChildrenAwaited, NEW c \in Callers, Spawn(c), work[c] \in Workspaces
    PROVE  ChildrenAwaited'
<1> USE DEF TypeOK, ChildrenAwaited
<1>1. PICK r \in FreePids : /\ proc' = [proc EXCEPT ![r] = Started(r, work[c])]
                            /\ child' = [child EXCEPT ![c] = r]
  BY DEF Spawn
<1>2. r \in Pids /\ proc[r].st = "free"
  BY DEF FreePids
<1>3. /\ Started(r, work[c]).st = "run"
      /\ Started(r, work[c]).grp = r
      /\ Started(r, work[c]).job = work[c]
  BY DEF Started
<1>4. Children' = Children \cup {r} /\ r \notin Children
  BY <1>1, <1>2, <1>3 DEF Children
<1>5. pc' = [pc EXCEPT ![c] = "poll"] /\ work' = work /\ pc[c] \notin Launched
  BY DEF Spawn, Goto, Launched
<1>6. ASSUME NEW d \in Callers, pc'[d] \in Launched
      PROVE child'[d] \in Children' /\ proc'[child'[d]].job = work'[d]
  BY <1>1, <1>2, <1>3, <1>4, <1>5, <1>6
<1>7. ASSUME NEW p \in Children'
      PROVE \E d \in Callers : pc'[d] \in Launched /\ child'[d] = p
  <2>1. CASE p = r
    BY <1>1, <1>5, <2>1 DEF Launched
  <2>2. CASE p # r
    <3>1. PICK d \in Callers : pc[d] \in Launched /\ child[d] = p
      BY <1>4, <1>7, <2>2
    <3>2. d # c
      BY <1>5, <3>1
    <3>3. QED
      BY <1>1, <1>5, <3>1, <3>2
  <2>3. QED
    BY <2>1, <2>2
<1>8. QED
  BY <1>6, <1>7

LEMMA WorkspaceStaysHeld ==
    ASSUME TypeOK, WorkspaceHeld, Next
    PROVE  WorkspaceHeld'
<1> USE DEF TypeOK, WorkspaceHeld
<1>1. ASSUME NEW c \in Callers, NEW failure, Fail(c, failure)
      PROVE WorkspaceHeld'
  BY <1>1 DEF Fail, Goto
<1>2. ASSUME NEW c \in Callers, CreateWorkspace(c)
      PROVE WorkspaceHeld'
  BY <1>2, ObjectAssumption DEF CreateWorkspace, Goto, Unused
<1>3. ASSUME NEW c \in Callers, CollectSuccess(c)
      PROVE WorkspaceHeld'
  BY <1>3 DEF CollectSuccess, Goto
<1>4. ASSUME NEW c \in Callers, Forget(c)
      PROVE WorkspaceHeld'
  BY <1>4 DEF Forget, Goto
<1>5. ASSUME NEW c \in Callers, pc[c] \notin {"idle", "done"}, work' = work,
             \E step \in Steps \ {"idle", "done"} : Goto(c, step)
      PROVE WorkspaceHeld'
  BY <1>5 DEF Goto
<1>6. ASSUME NEW c \in Callers, Compile(c)
      PROVE WorkspaceHeld'
  BY <1>1, <1>2, <1>3, <1>5, <1>6
  DEF Compile, Waiting, Reject, Prepare, Spawn, SpawnFails, Poll, Reaped, CheckClock,
      Terminate, KillGroup, Reap, CollectFailure, Steps, Launched
<1>7. CASE UNCHANGED <<pc, work>>
  BY <1>7
<1>8. QED
  BY <1>4, <1>6, <1>7
  DEF Next, Elapse, UsePrograms, hostVars, System, Exit, Fork, ForeignStart, ExternalReap

LEMMA ChildrenStayAwaited ==
    ASSUME TypeOK, ~HostReaps, OneOwner, WorkspaceHeld, ChildrenAwaited, Next
    PROVE  ChildrenAwaited'
<1>1. ASSUME SameChildren, UNCHANGED <<pc, child, work>>
      PROVE ChildrenAwaited'
  BY <1>1 DEF ChildrenAwaited, SameChildren
<1>2. CASE System
  BY <1>1, <1>2, SystemKeepsChildren DEF System, Exit, Fork, ForeignStart, ExternalReap, hostVars
<1>3. CASE UsePrograms
  BY <1>1, <1>3 DEF UsePrograms, hostVars, SameChildren, Children
<1>4. ASSUME NEW c \in Callers, Compile(c) \/ Elapse(c) \/ Forget(c)
      PROVE ChildrenAwaited'
  <2>1. CASE Spawn(c)
    <3>1. work[c] \in Workspaces
      BY <2>1 DEF Spawn, WorkspaceHeld, TypeOK
    <3>2. QED
      BY <2>1, <3>1, SpawnKeepsAwaited
  <2>2. CASE pc[c] \in Launched /\ proc' = [proc EXCEPT ![child[c]] = Free]
             /\ pc' = [pc EXCEPT ![c] = "collect"] /\ UNCHANGED <<child, work>>
    BY <2>2, ReapKeepsAwaited
  <2>3. pc[c] \in Launched => child[c] \in Children
    BY DEF ChildrenAwaited
  <2>4. ASSUME SameChildren, UNCHANGED <<child, work>>,
               \E step : Goto(c, step) /\ (step \in Launched <=> pc[c] \in Launched)
        PROVE ChildrenAwaited'
    BY <2>4, AwaitedKeptBySame DEF TypeOK, Goto
  <2>5. CASE Poll(c)
    BY <2>2, <2>3, <2>4, <2>5 DEF Poll, Reaped, Goto, Launched, SameChildren, Children
  <2>6. CASE Reap(c)
    BY <2>2, <2>3, <2>6 DEF Reap, Goto, Launched
  <2>7. CASE KillGroup(c)
    BY <2>4, <2>7, KillKeepsChildren DEF KillGroup, Launched
  <2>8. CASE CheckClock(c) \/ Terminate(c)
    BY <2>4, <2>8 DEF CheckClock, Terminate, Launched, SameChildren, Children
  <2>9. CASE Elapse(c)
    BY <1>1, <2>9 DEF Elapse, SameChildren, Children
  <2>10. ASSUME pc[c] \notin Launched, UNCHANGED proc,
                \E step : step \notin Launched /\ Goto(c, step),
                \A d \in Callers : d # c => child'[d] = child[d] /\ work'[d] = work[d]
         PROVE ChildrenAwaited'
    <3>1. SameChildren
      BY <2>10 DEF SameChildren, Children
    <3>2. /\ \A d \in Callers : d # c => pc'[d] = pc[d]
          /\ pc'[c] \in Launched <=> pc[c] \in Launched
      BY <2>10 DEF Goto, TypeOK
    <3>3. QED
      BY <2>10, <3>1, <3>2, AwaitedKeptBySame
  <2>11. CASE \E failure : Fail(c, failure) /\ pc[c] \notin Launched /\ UNCHANGED proc
    BY <2>10, <2>11 DEF Fail, TypeOK, Launched
  <2>12. CASE CreateWorkspace(c) \/ CollectSuccess(c) \/ Forget(c)
    BY <2>10, <2>12 DEF CreateWorkspace, CollectSuccess, Forget, TypeOK, Launched
  <2>13. CASE Prepare(c) /\ Goto(c, "spawn")
    BY <2>10, <2>11, <2>13 DEF Prepare, TypeOK, Launched
  <2>14. QED
    BY <1>4, <2>1, <2>5, <2>6, <2>7, <2>8, <2>9, <2>11, <2>12, <2>13
    DEF Compile, Waiting, Reject, Prepare, SpawnFails, CollectFailure, Launched
<1>5. QED
  BY <1>2, <1>3, <1>4 DEF Next

LEMMA ExitKeepsStatus ==
    ASSUME TypeOK, OneOwner, ChildrenAwaited, StatusPassedOn, StatusIsOwn,
           NEW p \in Pids, NEW code \in ExitCodes, Exit(p, code)
    PROVE  StatusPassedOn' /\ StatusIsOwn'
<1> USE DEF TypeOK, StatusPassedOn, StatusIsOwn
<1>1. UNCHANGED hostVars
  BY DEF Exit
<1>2. ASSUME NEW c \in Callers, p \in Children, work[c] = proc[p].job
      PROVE pc[c] \in Launched /\ child[c] = p
  <2>1. PICK d \in Callers : pc[d] \in Launched /\ child[d] = p
    BY <1>2 DEF ChildrenAwaited
  <2>2. proc[p].job = work[d] /\ proc[p].job # NoPath
    BY <1>2, <2>1, ObjectAssumption DEF ChildrenAwaited, Children
  <2>3. QED
    BY <1>2, <2>1, <2>2 DEF OneOwner
<1>3. StatusIsOwn'
  <2>1. ASSUME NEW c \in Callers, verdict[c] \in ExitCodes
        PROVE actual'[c] = actual[c]
    <3>1. pc[c] \notin Launched
      BY <2>1
    <3>2. QED
      BY <1>2, <3>1 DEF Exit
  <2>2. QED
    BY <1>1, <2>1 DEF hostVars
<1>4. ASSUME NEW c \in Callers, pc[c] \in Launched, Zombie(child[c])'
      PROVE actual'[c] = proc'[child'[c]].st
  <2>1. child[c] \in Children /\ proc[child[c]].job = work[c]
    BY <1>4 DEF ChildrenAwaited
  <2>2. CASE p = child[c]
    <3>1. [proc[p] EXCEPT !.st = code].st = code
      BY DEF Process
    <3>2. QED
      BY <1>1, <2>1, <2>2, <3>1 DEF Exit, hostVars
  <2>3. CASE p # child[c]
    <3>1. proc'[child[c]] = proc[child[c]] /\ child' = child
      BY <1>1, <2>3 DEF Exit, hostVars, Children
    <3>2. Zombie(child[c])
      BY <1>4, <2>1, <3>1 DEF Zombie
    <3>3. actual'[c] = actual[c]
      BY <1>2, <2>3 DEF Exit
    <3>4. QED
      BY <1>4, <3>1, <3>2, <3>3
  <2>4. QED
    BY <2>2, <2>3
<1>5. StatusPassedOn'
  BY <1>1, <1>4 DEF hostVars
<1>6. QED
  BY <1>3, <1>5

\* A step that ends no process of the host leaves the statuses to agree, unless
\* it is the one that hands a status over (Poll) or drops it (Forget).
LEMMA ZombiesStay ==
    ASSUME TypeOK, ChildrenAwaited, StatusPassedOn, StatusIsOwn,
           \A q \in Pids : proc'[q].st = proc[q].st \/ proc'[q].st \notin ExitCodes,
           UNCHANGED <<verdict, actual>>,
           \A d \in Callers : pc'[d] \in Launched =>
               \/ pc[d] \in Launched /\ child'[d] = child[d]
               \/ proc'[child'[d]].st = "run" /\ verdict[d] \notin ExitCodes,
           \A d \in Callers : pc'[d] \in {"idle", "prepare", "spawn"} =>
               pc[d] \in {"idle", "prepare", "spawn"}
    PROVE  StatusPassedOn' /\ StatusIsOwn'
<1>1. StatusIsOwn'
  BY DEF StatusIsOwn
<1>2. ASSUME NEW d \in Callers, pc'[d] \in Launched, Zombie(child[d])',
             pc[d] \in Launched, child'[d] = child[d]
      PROVE actual'[d] = proc'[child'[d]].st
  <2>1. child[d] \in Children /\ child[d] \in Pids
    BY <1>2 DEF ChildrenAwaited, Children
  <2>2. proc'[child[d]].st \in ExitCodes
    BY <1>2 DEF Zombie
  <2>3. proc[child[d]].st = proc'[child[d]].st
    BY <2>1, <2>2
  <2>4. Zombie(child[d])
    BY <2>1, <2>2, <2>3 DEF Zombie
  <2>5. QED
    BY <1>2, <2>3, <2>4 DEF StatusPassedOn
<1>3. ASSUME NEW d \in Callers, pc'[d] \in Launched, Zombie(child[d])'
      PROVE actual'[d] = proc'[child'[d]].st
  BY <1>2, <1>3 DEF Zombie, ExitCodes
<1>4. QED
  BY <1>1, <1>3 DEF StatusPassedOn

LEMMA PollKeepsStatus ==
    ASSUME TypeOK, OneOwner, ChildrenAwaited, StatusPassedOn, StatusIsOwn,
           NEW c \in Callers, Poll(c)
    PROVE  StatusPassedOn' /\ StatusIsOwn'
<1> USE DEF TypeOK
<1>1. CASE Reaped(c)
  <2>1. /\ verdict' = [verdict EXCEPT ![c] = proc[child[c]].st]
        /\ proc' = [proc EXCEPT ![child[c]] = Free]
        /\ pc' = [pc EXCEPT ![c] = "collect"]
        /\ UNCHANGED <<child, actual>>
    BY <1>1 DEF Reaped, Goto, Poll
  <2>2. actual[c] = proc[child[c]].st
    BY <1>1 DEF Reaped, Poll, StatusPassedOn, Launched
  <2>3. StatusIsOwn'
    BY <2>1, <2>2 DEF StatusIsOwn
  <2>4. ASSUME NEW d \in Callers, pc'[d] \in Launched, Zombie(child[d])'
        PROVE actual'[d] = proc'[child'[d]].st
    <3>1. d # c /\ pc[d] \in Launched /\ pc[c] \in Launched
      BY <2>1, <2>4 DEF Launched, Poll
    <3>2. child[d] # child[c]
      BY <3>1, ObjectAssumption DEF ChildrenAwaited, OneOwner, Children
    <3>3. proc'[child[d]] = proc[child[d]] /\ child[d] \in Children
      BY <2>1, <3>1, <3>2 DEF ChildrenAwaited, Children
    <3>4. Zombie(child[d])
      BY <2>1, <2>4, <3>3 DEF Zombie
    <3>5. QED
      BY <2>1, <3>1, <3>3, <3>4 DEF StatusPassedOn
  <2>5. ASSUME NEW d \in Callers, pc'[d] \in Launched \cup {"idle", "prepare", "spawn"}
        PROVE verdict'[d] \notin ExitCodes
    BY <2>1, <2>5 DEF StatusPassedOn, Launched
  <2>6. QED
    BY <2>3, <2>4, <2>5 DEF StatusPassedOn
<1>2. CASE UNCHANGED <<proc, child, actual>> /\ pc[c] = "poll"
           /\ \/ UNCHANGED verdict
              \/ verdict' = [verdict EXCEPT ![c] = "no_child"]
              \/ verdict' = [verdict EXCEPT ![c] = "wait_error"]
           /\ \E step \in {"clock", "collect", "term"} : Goto(c, step)
  <2>1. \A d \in Callers : verdict'[d] \in ExitCodes => verdict[d] \in ExitCodes /\ verdict'[d] = verdict[d]
    BY <1>2 DEF ExitCodes
  <2>2. \A d \in Callers : pc'[d] \in Launched => pc[d] \in Launched
    BY <1>2 DEF Goto, Launched
  <2>3. \A d \in Callers : pc'[d] \in Launched \cup {"idle", "prepare", "spawn"}
                           => pc[d] \in Launched \cup {"idle", "prepare", "spawn"}
    BY <1>2 DEF Goto, Launched
  <2>4. \A q \in Pids : Zombie(q)' => Zombie(q)
    BY <1>2 DEF Zombie, Children
  <2>5. StatusIsOwn'
    BY <1>2, <2>1 DEF StatusIsOwn
  <2>6. \A d \in Callers : pc[d] \in Launched => child[d] \in Pids
    BY DEF ChildrenAwaited, Children
  <2>7. QED
    BY <1>2, <2>1, <2>2, <2>3, <2>4, <2>5, <2>6 DEF StatusPassedOn
<1>3. QED
  BY <1>1, <1>2 DEF Poll, Reaped

LEMMA StatusStaysOwn ==
    ASSUME TypeOK, OneOwner, ChildrenAwaited, StatusPassedOn, StatusIsOwn, Next
    PROVE  StatusPassedOn' /\ StatusIsOwn'
<1> USE DEF TypeOK
<1>1. Free.st = "free" /\ (\A g, w : Started(g, w).st = "run")
  BY DEF Free, Started
<1>2. CASE System
  <2>1. ASSUME NEW q \in Pids, NEW r \in Pids, Fork(q, r) \/ ForeignStart(r) \/ ExternalReap(r)
        PROVE StatusPassedOn' /\ StatusIsOwn'
    BY <1>1, <2>1, ZombiesStay
    DEF Fork, ForeignStart, ExternalReap, hostVars, ExitCodes
  <2>2. QED
    BY <1>2, <2>1, ExitKeepsStatus DEF System
<1>3. CASE UsePrograms
  BY <1>3, ZombiesStay DEF UsePrograms, hostVars
<1>4. ASSUME NEW c \in Callers, Compile(c) \/ Elapse(c)
      PROVE StatusPassedOn' /\ StatusIsOwn'
  <2>1. CASE Spawn(c)
    <3>1. PICK r \in FreePids : /\ proc' = [proc EXCEPT ![r] = Started(r, work[c])]
                                /\ child' = [child EXCEPT ![c] = r]
      BY <2>1 DEF Spawn
    <3>2. r \in Pids /\ pc' = [pc EXCEPT ![c] = "poll"] /\ verdict[c] \notin ExitCodes
      BY <2>1 DEF FreePids, Spawn, Goto, StatusPassedOn
    <3>3. QED
      BY <1>1, <2>1, <3>1, <3>2, ZombiesStay DEF Spawn, ExitCodes
  <2>2. CASE Reap(c)
    BY <1>1, <2>2, ZombiesStay DEF Reap, Goto, Launched, ExitCodes
  <2>3. CASE KillGroup(c)
    <3>1. \A q \in Pids : [proc[q] EXCEPT !.killed = TRUE].st = proc[q].st
      BY DEF Process
    <3>2. QED
      BY <2>3, <3>1, ZombiesStay DEF KillGroup, Goto, Launched
  <2>4. CASE CheckClock(c)
    <3>1. CASE verdict' = verdict
      BY <2>4, <3>1, ZombiesStay DEF CheckClock, Goto, Launched
    <3>2. CASE verdict' = [verdict EXCEPT ![c] = "timed_out"] /\ Goto(c, "term")
      BY <2>4, <3>2
      DEF CheckClock, Goto, Launched, StatusPassedOn, StatusIsOwn, ExitCodes, Zombie, Children
    <3>3. QED
      BY <2>4, <3>1, <3>2 DEF CheckClock
  <2>5. CASE Terminate(c) \/ Elapse(c)
    BY <2>5, ZombiesStay DEF Terminate, Elapse, Goto, Launched
  <2>6. ASSUME UNCHANGED <<proc, child, verdict, actual>>, pc[c] \notin Launched,
               \/ Goto(c, "done")
               \/ /\ pc[c] \in {"idle", "prepare", "spawn"}
                  /\ Goto(c, "prepare") \/ Goto(c, "spawn")
        PROVE StatusPassedOn' /\ StatusIsOwn'
    <3>1. \A d \in Callers : pc'[d] \in Launched => pc[d] \in Launched
      BY <2>6 DEF Goto, Launched
    <3>2. \A d \in Callers : pc'[d] \in {"idle", "prepare", "spawn"} =>
              pc[d] \in {"idle", "prepare", "spawn"}
      BY <2>6 DEF Goto
    <3>3. QED
      BY <2>6, <3>1, <3>2, ZombiesStay
  <2>7. CASE CreateWorkspace(c) \/ Prepare(c) \/ CollectSuccess(c)
    BY <2>6, <2>7 DEF CreateWorkspace, Prepare, CollectSuccess, Fail, Launched
  <2>8. CASE Reject(c) \/ SpawnFails(c) \/ CollectFailure(c)
    BY <2>6, <2>8 DEF Reject, SpawnFails, CollectFailure, Fail, Launched
  <2>9. QED
    BY <1>4, <2>1, <2>2, <2>3, <2>4, <2>5, <2>7, <2>8, PollKeepsStatus DEF Compile, Waiting
<1>5. ASSUME NEW c \in Callers, Forget(c)
      PROVE StatusPassedOn' /\ StatusIsOwn'
  <2>1. \A d \in Callers : d # c => /\ pc'[d] = pc[d]
                                    /\ verdict'[d] = verdict[d]
                                    /\ actual'[d] = actual[d]
                                    /\ child'[d] = child[d]
    BY <1>5 DEF Forget, Goto
  <2>2. pc'[c] = "idle" /\ verdict'[c] = "none" /\ proc' = proc
    BY <1>5 DEF Forget, Goto
  <2>3. \A q \in Pids : Zombie(q)' => Zombie(q)
    BY <2>2 DEF Zombie, Children
  <2>4. \A d \in Callers : pc[d] \in Launched => child[d] \in Pids
    BY DEF ChildrenAwaited, Children
  <2>5. QED
    BY <2>1, <2>2, <2>3, <2>4 DEF StatusPassedOn, StatusIsOwn, ExitCodes, Launched
<1>6. QED
  BY <1>2, <1>3, <1>4, <1>5 DEF Next

--------------------------------------------------------------------------------
(* The theorems. *)

Inv == TypeOK /\ HostInvariant /\ StatusIsOwn

LEMMA InvInductive ==
    ASSUME ~HostReaps, Inv, [Next]_vars
    PROVE  Inv'
<1>1. CASE Next
  <2>1. TypeOK'
    BY TypesKept DEF Inv, HostInvariant
  <2>2. OneOwner' /\ WorkspaceHeld' /\ OutcomeKnown'
    BY <1>1, OwnersKept, WorkspaceStaysHeld, OutcomeStaysKnown DEF Inv, HostInvariant
  <2>3. GroupsKeepJob'
    BY <1>1, NextIsProcStep, JobsKept DEF Inv, HostInvariant
  <2>4. ChildrenAwaited'
    BY <1>1, ChildrenStayAwaited DEF Inv, HostInvariant
  <2>5. StatusPassedOn' /\ StatusIsOwn'
    BY <1>1, StatusStaysOwn DEF Inv, HostInvariant
  <2>6. QED
    BY <2>1, <2>2, <2>3, <2>4, <2>5 DEF Inv, HostInvariant
<1>2. CASE UNCHANGED vars
  BY <1>2
  DEF vars, hostVars, Inv, TypeOK, HostInvariant, OneOwner, GroupsKeepJob, WorkspaceHeld,
      ChildrenAwaited, StatusPassedOn, OutcomeKnown, StatusIsOwn, Zombie, Children
<1>3. QED
  BY <1>1, <1>2

\* The whole inductive invariant holds in every reachable state.
LEMMA InvariantHolds ==
    ASSUME ~HostReaps
    PROVE  Spec => []Inv
<1>1. Init => Inv
  <2>1. Free \in Process /\ Free.st = "free"
    BY DEF Free, Process
  <2>2. Init => Children = {}
    BY <2>1 DEF Init, Children
  <2>3. QED
    BY <2>1, <2>2, ObjectAssumption
    DEF Init, Inv, TypeOK, Steps, Launched, HostInvariant, OneOwner, GroupsKeepJob,
        WorkspaceHeld, ChildrenAwaited, StatusPassedOn, OutcomeKnown, StatusIsOwn, ExitCodes
<1>2. Inv /\ [Next]_vars => Inv'
  BY InvInductive
<1>3. QED
  BY <1>1, <1>2, PTL DEF Spec

(***************************************************************************)
(* If nothing else in the host process reaps its children, every workspace *)
(* keeps one owner and every spawned compiler a call that waits for it.    *)
(***************************************************************************)
THEOREM OwnershipHolds ==
    ASSUME ~HostReaps
    PROVE  Spec => []HostInvariant
<1>1. Inv => HostInvariant
  BY DEF Inv
<1>2. QED
  BY <1>1, InvariantHolds, PTL

(***************************************************************************)
(* kill(-process_id) reaches only processes of the compiler that this call *)
(* spawned.                                                                *)
(***************************************************************************)
THEOREM OnlyOwnGroupSignalled ==
    ASSUME ~HostReaps
    PROVE  Spec => []SignalsReachOwnGroupOnly
<1>1. Inv => SignalsReachOwnGroupOnly
  <2> SUFFICES ASSUME Inv, NEW c \in Callers, pc[c] \in {"term", "kill"},
                      NEW q \in Group(child[c])
               PROVE  proc[q].job = work[c]
    BY DEF SignalsReachOwnGroupOnly
  <2>1. child[c] \in Children /\ proc[child[c]].job = work[c]
    BY DEF Inv, HostInvariant, ChildrenAwaited, Launched
  <2>2. QED
    BY <2>1 DEF Inv, HostInvariant, GroupsKeepJob, Group, Children
<1>2. QED
  BY <1>1, InvariantHolds, PTL

(***************************************************************************)
(* A running compiler keeps its workspace, and the call that spawned it    *)
(* keeps both.                                                             *)
(***************************************************************************)
THEOREM WorkspaceOutlivesCompiler ==
    ASSUME ~HostReaps
    PROVE  Spec => []CompilerKeepsWorkspace
<1>1. Inv => CompilerKeepsWorkspace
  <2> SUFFICES ASSUME Inv, NEW p \in Children
               PROVE  /\ proc[p].job \in dirs
                      /\ \E c \in Callers : child[c] = p /\ work[c] = proc[p].job
    BY DEF CompilerKeepsWorkspace
  <2>1. PICK c \in Callers : pc[c] \in Launched /\ child[c] = p
    BY DEF Inv, HostInvariant, ChildrenAwaited
  <2>2. work[c] = proc[p].job
    BY <2>1 DEF Inv, HostInvariant, ChildrenAwaited
  <2>3. work[c] \in dirs
    BY <2>2, ObjectAssumption DEF Inv, HostInvariant, OneOwner, Children
  <2>4. QED
    BY <2>1, <2>2, <2>3
<1>2. QED
  BY <1>1, InvariantHolds, PTL

(***************************************************************************)
(* The exit status that compile() classifies is that of its own compiler,  *)
(* however many threads of the host compile and however ids are reused.    *)
(***************************************************************************)
THEOREM OwnStatusReported ==
    ASSUME ~HostReaps
    PROVE  Spec => []StatusIsOwn
<1>1. Inv => StatusIsOwn
  BY DEF Inv
<1>2. QED
  BY <1>1, InvariantHolds, PTL

--------------------------------------------------------------------------------
(* Termination of the compiler's group, and the lease of workspaces. Nothing is *)
(* assumed of the host here: it may reap children elsewhere.                    *)

Signalled(c) ==
    \A q \in Pids : proc[q].st = "run" /\ proc[q].job = work[c] => proc[q].killed

\* What a call knows of the processes of its job: none before the spawn, then all
\* are in the compiler's group, and after SIGKILL all that run are signalled.
JobAccounted(c) ==
    /\ pc[c] \in {"prepare", "spawn"} => \A q \in Pids : proc[q].job # work[c]
    /\ pc[c] \in Launched \cup {"collect"} =>
           \A q \in Pids : proc[q].st # "free" /\ proc[q].job = work[c]
                               => proc[q].grp = child[c]
    /\ \/ pc[c] = "reap"
       \/ pc[c] = "collect" /\ verdict[c] \in {"timed_out", "wait_error"}
       => Signalled(c)

JobsAccounted == \A c \in Callers : JobAccounted(c)

\* A process that is of job w after a step was of it before, or has its group and
\* its signals from one that was.
Inherited(w) ==
    \A q \in Pids : proc'[q].job = w =>
        \E r \in Pids :
            /\ proc[r].job = w
            /\ proc'[q].grp = proc[r].grp
            /\ proc'[q].st # "free" => proc[r].st # "free"
            /\ proc'[q].st = "run" => /\ proc[r].st = "run"
                                      /\ proc[r].killed => proc'[q].killed

LEMMA SystemInherits ==
    ASSUME TypeOK, System, NEW w \in Workspaces
    PROVE  Inherited(w)
<1> USE DEF TypeOK, Inherited
<1>1. Free.job = NoPath /\ NoPath # w /\ Foreign # w
  BY ObjectAssumption, ProcessAssumption DEF Free
<1>2. ASSUME NEW p \in Pids, NEW code \in ExitCodes, Exit(p, code)
      PROVE Inherited(w)
  <2>1. /\ [proc[p] EXCEPT !.st = code].st = code
        /\ [proc[p] EXCEPT !.st = code].grp = proc[p].grp
        /\ [proc[p] EXCEPT !.st = code].job = proc[p].job
    BY DEF Process
  <2>2. proc[p].st # "free" /\ code # "run"
    BY <1>2 DEF Exit, ExitCodes
  <2>3. QED
    BY <1>1, <1>2, <2>1, <2>2 DEF Exit
<1>3. ASSUME NEW q \in Pids, NEW r \in Pids, Fork(q, r)
      PROVE Inherited(w)
  <2>1. /\ Started(proc[q].grp, proc[q].job).job = proc[q].job
        /\ Started(proc[q].grp, proc[q].job).grp = proc[q].grp
        /\ Started(proc[q].grp, proc[q].job).st = "run"
    BY DEF Started
  <2>2. QED
    BY <1>3, <2>1 DEF Fork
<1>4. ASSUME NEW p \in Pids, ForeignStart(p)
      PROVE Inherited(w)
  <2>1. Started(p, Foreign).job = Foreign
    BY DEF Started
  <2>2. QED
    BY <1>1, <1>4, <2>1 DEF ForeignStart
<1>5. ASSUME NEW p \in Pids, ExternalReap(p)
      PROVE Inherited(w)
  BY <1>1, <1>5 DEF ExternalReap
<1>6. QED
  BY <1>2, <1>3, <1>4, <1>5 DEF System

LEMMA CompileInherits ==
    ASSUME TypeOK, NEW c \in Callers, Compile(c), NEW w \in Workspaces,
           Spawn(c) => work[c] # w
    PROVE  Inherited(w)
<1> USE DEF TypeOK, Inherited
<1>1. Free.job = NoPath /\ NoPath # w
  BY ObjectAssumption DEF Free
<1>2. CASE Spawn(c)
  <2>1. PICK p \in FreePids : proc' = [proc EXCEPT ![p] = Started(p, work[c])]
    BY <1>2 DEF Spawn
  <2>2. Started(p, work[c]).job # w
    BY <1>2 DEF Started
  <2>3. \A q \in Pids : proc'[q].job = w => proc'[q] = proc[q]
    BY <2>1, <2>2
  <2>4. QED
    BY <2>3
<1>3. CASE KillGroup(c)
  <2>1. \A q \in Pids : /\ [proc[q] EXCEPT !.killed = TRUE].st = proc[q].st
                        /\ [proc[q] EXCEPT !.killed = TRUE].grp = proc[q].grp
                        /\ [proc[q] EXCEPT !.killed = TRUE].job = proc[q].job
                        /\ [proc[q] EXCEPT !.killed = TRUE].killed = TRUE
    BY DEF Process
  <2>2. QED
    BY <1>3, <2>1 DEF KillGroup
<1>4. CASE Poll(c) \/ Reap(c)
  BY <1>1, <1>4 DEF Poll, Reaped, Reap
<1>5. CASE UNCHANGED proc
  BY <1>5
<1>6. QED
  BY <1>2, <1>3, <1>4, <1>5
  DEF Compile, Waiting, Reject, CreateWorkspace, Prepare, SpawnFails, CheckClock,
      Terminate, CollectFailure, CollectSuccess

\* A call that takes no step itself.
LEMMA AccountKept ==
    ASSUME TypeOK, NEW c \in Callers, JobAccounted(c), Inherited(work[c]),
           pc'[c] = pc[c], work'[c] = work[c], child'[c] = child[c], verdict'[c] = verdict[c]
    PROVE  JobAccounted(c)'
  BY DEF TypeOK, JobAccounted, Inherited, Signalled

LEMMA OwnStepAccounts ==
    ASSUME TypeOK, WorkspaceHeld, NEW c \in Callers, JobAccounted(c),
           Compile(c) \/ Elapse(c) \/ Forget(c)
    PROVE  JobAccounted(c)'
<1> USE DEF TypeOK, JobAccounted, Signalled, Launched
<1>1. CASE \/ pc'[c] \in {"done", "idle"} \/ UNCHANGED <<proc, pc, work, child, verdict>>
  BY <1>1
<1>2. CASE CreateWorkspace(c)
  BY <1>2 DEF CreateWorkspace, Unused, Goto
<1>3. CASE Prepare(c)
  BY <1>1, <1>3 DEF Prepare, Fail, Goto
<1>4. CASE Spawn(c)
  <2>1. PICK p \in FreePids : /\ proc' = [proc EXCEPT ![p] = Started(p, work[c])]
                              /\ child' = [child EXCEPT ![c] = p]
    BY <1>4 DEF Spawn
  <2>2. Started(p, work[c]).grp = p
    BY DEF Started
  <2>3. \A q \in Pids : q # p => proc'[q].job # work[c]
    BY <1>4, <2>1 DEF Spawn
  <2>4. work' = work /\ pc' = [pc EXCEPT ![c] = "poll"]
    BY <1>4 DEF Spawn, Goto
  <2>5. p \in Pids
    BY DEF FreePids
  <2>6. QED
    BY <2>1, <2>2, <2>3, <2>4, <2>5
<1>5. CASE Waiting(c)
  <2>1. work[c] \in Workspaces /\ Free.job = NoPath /\ NoPath # work[c] /\ Free.st = "free"
    BY <1>5, ObjectAssumption
    DEF Waiting, Poll, Reaped, CheckClock, Terminate, KillGroup, Reap, WorkspaceHeld, Free
  <2>2. CASE Poll(c)
    BY <2>1, <2>2 DEF Poll, Reaped, Goto, Zombie, ExitCodes
  <2>3. CASE CheckClock(c) \/ Terminate(c)
    BY <2>3 DEF CheckClock, Terminate, Goto
  <2>4. CASE KillGroup(c)
    <3>1. \A q \in Pids : /\ [proc[q] EXCEPT !.killed = TRUE].st = proc[q].st
                          /\ [proc[q] EXCEPT !.killed = TRUE].grp = proc[q].grp
                          /\ [proc[q] EXCEPT !.killed = TRUE].job = proc[q].job
                          /\ [proc[q] EXCEPT !.killed = TRUE].killed = TRUE
      BY DEF Process
    <3>2. QED
      BY <2>4, <3>1 DEF KillGroup, Goto, Group
  <2>5. CASE Reap(c)
    BY <2>1, <2>5 DEF Reap, Goto
  <2>6. QED
    BY <1>5, <2>2, <2>3, <2>4, <2>5 DEF Waiting
<1>6. CASE Reject(c) \/ SpawnFails(c) \/ CollectFailure(c) \/ CollectSuccess(c) \/ Forget(c)
  BY <1>1, <1>6 DEF Reject, SpawnFails, CollectFailure, CollectSuccess, Forget, Fail, Goto
<1>7. CASE Elapse(c)
  BY <1>1, <1>7 DEF Elapse
<1>8. QED
  BY <1>2, <1>3, <1>4, <1>5, <1>6, <1>7 DEF Compile

LEMMA OthersKeepCall ==
    ASSUME TypeOK, NEW c \in Callers, NEW d \in Callers, d # c,
           Compile(d) \/ Elapse(d) \/ Forget(d)
    PROVE  pc'[c] = pc[c] /\ work'[c] = work[c] /\ child'[c] = child[c] /\ verdict'[c] = verdict[c]
  BY DEF TypeOK, Compile, Waiting, Reject, CreateWorkspace, Prepare, Spawn, SpawnFails, Poll,
         Reaped, CheckClock, Terminate, KillGroup, Reap, CollectFailure, CollectSuccess,
         Elapse, Forget, Fail, Goto

LEMMA JobsStayAccounted ==
    ASSUME TypeOK, OneOwner, WorkspaceHeld, JobsAccounted, Next
    PROVE  JobsAccounted'
<1> SUFFICES ASSUME NEW c \in Callers
             PROVE  JobAccounted(c)'
  BY DEF JobsAccounted
<1>1. JobAccounted(c)
  BY DEF JobsAccounted
<1>2. CASE work[c] \notin Workspaces /\ pc'[c] = pc[c]
  <2>1. pc[c] \in {"idle", "done"}
    BY <1>2 DEF WorkspaceHeld, TypeOK
  <2>2. QED
    BY <1>2, <2>1 DEF JobAccounted, Launched
<1>3. CASE work[c] \in Workspaces
  <2>1. CASE System
    <3>1. UNCHANGED hostVars
      BY <2>1 DEF System, Exit, Fork, ForeignStart, ExternalReap
    <3>2. QED
      BY <1>1, <1>3, <2>1, <3>1, SystemInherits, AccountKept DEF hostVars
  <2>2. CASE UsePrograms
    BY <1>1, <2>2 DEF UsePrograms, hostVars, JobAccounted, Signalled
  <2>3. ASSUME NEW d \in Callers, d # c, Compile(d) \/ Elapse(d) \/ Forget(d)
        PROVE JobAccounted(c)'
    <3>1. work[d] # work[c]
      BY <1>3, <2>3, ObjectAssumption DEF OneOwner
    <3>2. Inherited(work[c])
      <4>1. CASE Compile(d)
        BY <1>3, <3>1, <4>1, CompileInherits
      <4>2. CASE Elapse(d) \/ Forget(d)
        BY <4>2 DEF Elapse, Forget, Inherited
      <4>3. QED
        BY <2>3, <4>1, <4>2
    <3>3. QED
      BY <1>1, <2>3, <3>2, OthersKeepCall, AccountKept
  <2>4. QED
    BY <1>1, <2>1, <2>2, <2>3, OwnStepAccounts DEF Next
<1>4. CASE work[c] \notin Workspaces /\ pc'[c] # pc[c]
  <2>1. Compile(c) \/ Elapse(c) \/ Forget(c)
    BY <1>4, OthersKeepCall
    DEF Next, UsePrograms, System, Exit, Fork, ForeignStart, ExternalReap, hostVars
  <2>2. QED
    BY <1>1, <2>1, OwnStepAccounts
<1>5. QED
  BY <1>2, <1>3, <1>4

CallInv == TypeOK /\ OutcomeKnown /\ OneOwner /\ WorkspaceHeld /\ JobsAccounted

LEMMA CallInvHolds == Spec => []CallInv
<1>1. Init => CallInv
  <2> SUFFICES ASSUME Init PROVE CallInv
    OBVIOUS
  <2>1. OneOwner /\ WorkspaceHeld /\ JobsAccounted
    BY ObjectAssumption DEF Init, OneOwner, WorkspaceHeld, JobsAccounted, JobAccounted, Launched
  <2>2. QED
    BY <2>1, InitTypes DEF CallInv
<1>2. CallInv /\ [Next]_vars => CallInv'
  <2>1. ASSUME CallInv, Next
        PROVE OneOwner' /\ WorkspaceHeld' /\ JobsAccounted'
    BY <2>1, OwnersKept, WorkspaceStaysHeld, JobsStayAccounted DEF CallInv
  <2>2. ASSUME CallInv, UNCHANGED vars
        PROVE OneOwner' /\ WorkspaceHeld' /\ JobsAccounted'
    BY <2>2 DEF vars, hostVars, CallInv, OneOwner, WorkspaceHeld, JobsAccounted, JobAccounted,
                Signalled
  <2>3. QED
    BY <2>1, <2>2, TypesKept DEF CallInv
<1>3. QED
  BY <1>1, <1>2, PTL DEF Spec

(***************************************************************************)
(* When a call that gave up on its compiler reaches its result, every      *)
(* process of the job that still runs has been sent SIGKILL: members that  *)
(* forked or exited between the two signals included, and even if the host *)
(* reaps the leader itself.                                                *)
(***************************************************************************)
THEOREM TerminationCompletes == Spec => []TerminationIsComplete
<1>1. CallInv => TerminationIsComplete
  BY DEF CallInv, JobsAccounted, JobAccounted, Signalled, TerminationIsComplete
<1>2. QED
  BY <1>1, CallInvHolds, PTL

\* A call gives up on a compiler that was there when it looked for it.
GivenUp(c) == pc[c] \in {"term", "kill"} => verdict[c] \in {"timed_out", "wait_error"}

LEMMA StaysGivenUp ==
    ASSUME TypeOK, \A c \in Callers : GivenUp(c), [Next]_vars
    PROVE  \A c \in Callers : GivenUp(c)'
<1> USE DEF TypeOK, GivenUp
<1>1. ASSUME NEW c \in Callers, Compile(c) PROVE \A d \in Callers : GivenUp(d)'
  <2>1. CASE Poll(c)
    BY <1>1, <2>1 DEF Poll, Reaped, Goto
  <2>2. CASE CheckClock(c)
    BY <1>1, <2>2 DEF CheckClock, Goto
  <2>3. CASE Terminate(c) \/ KillGroup(c) \/ Reap(c)
    BY <1>1, <2>3 DEF Terminate, KillGroup, Reap, Goto
  <2>4. CASE \/ Reject(c) \/ CreateWorkspace(c) \/ Prepare(c) \/ Spawn(c)
             \/ SpawnFails(c) \/ CollectFailure(c) \/ CollectSuccess(c)
    BY <1>1, <2>4 DEF Reject, CreateWorkspace, Prepare, Spawn, SpawnFails,
                      CollectFailure, CollectSuccess, Fail, Goto
  <2>5. QED
    BY <1>1, <2>1, <2>2, <2>3, <2>4 DEF Compile, Waiting
<1>2. ASSUME NEW c \in Callers, Elapse(c) \/ Forget(c) PROVE \A d \in Callers : GivenUp(d)'
  BY <1>2 DEF Elapse, Forget, Goto
<1>3. CASE UsePrograms
  BY <1>3 DEF UsePrograms, hostVars
<1>4. CASE System
  BY <1>4 DEF System, Exit, Fork, ForeignStart, ExternalReap, hostVars
<1>5. CASE UNCHANGED vars
  BY <1>5 DEF vars, hostVars
<1>6. QED
  BY <1>1, <1>2, <1>3, <1>4, <1>5 DEF Next

\* Only SIGKILL marks a process as killed.
LEMMA OnlyKillGroupKills ==
    ASSUME TypeOK, [Next]_vars, NEW q \in Pids, proc'[q].killed, ~proc[q].killed
    PROVE  \E c \in Callers : KillGroup(c) /\ q \in Group(child[c])
<1>1. ASSUME NEW c \in Callers, Compile(c)
      PROVE  KillGroup(c) /\ q \in Group(child[c])
  <2>1. CASE KillGroup(c)
    BY <2>1 DEF KillGroup
  <2>2. CASE Poll(c) \/ Reap(c)
    <3>1. proc'[q] = proc[q] \/ proc'[q] = Free
      BY <2>2 DEF Poll, Reap, Reaped, TypeOK
    <3>2. QED
      BY <3>1 DEF Free
  <2>3. CASE Spawn(c)
    <3>1. PICK p \in FreePids : proc' = [proc EXCEPT ![p] = Started(p, work[c])]
      BY <2>3 DEF Spawn
    <3>2. ~Started(p, work[c]).killed
      BY DEF Started
    <3>3. proc'[q] = proc[q] \/ proc'[q] = Started(p, work[c])
      BY <3>1 DEF TypeOK
    <3>4. QED
      BY <3>2, <3>3
  <2>4. CASE \/ Reject(c) \/ CreateWorkspace(c) \/ Prepare(c) \/ SpawnFails(c)
             \/ CheckClock(c) \/ Terminate(c) \/ CollectFailure(c) \/ CollectSuccess(c)
    BY <2>4 DEF Reject, CreateWorkspace, Prepare, SpawnFails, CheckClock, Terminate,
                CollectFailure, CollectSuccess
  <2>5. QED
    BY <1>1, <2>1, <2>2, <2>3, <2>4 DEF Compile, Waiting
<1>2. ASSUME NEW c \in Callers, Elapse(c) \/ Forget(c) PROVE FALSE
  BY <1>2 DEF Elapse, Forget
<1>3. CASE UsePrograms \/ UNCHANGED vars
  BY <1>3 DEF UsePrograms, vars
<1>4. CASE System
  <2>1. PICK p \in Pids : \/ \E code \in ExitCodes : Exit(p, code)
                         \/ \E r \in Pids : Fork(p, r)
                         \/ ForeignStart(p)
                         \/ ExternalReap(p)
    BY <1>4 DEF System
  <2>2. CASE \E code \in ExitCodes : Exit(p, code)
    BY <2>2 DEF Exit, Free, TypeOK, Process
  <2>3. CASE \E r \in Pids : Fork(p, r)
    BY <2>3 DEF Fork, Started, TypeOK
  <2>4. CASE ForeignStart(p)
    BY <2>4 DEF ForeignStart, Started, TypeOK
  <2>5. CASE ExternalReap(p)
    BY <2>5 DEF ExternalReap, Free, TypeOK
  <2>6. QED
    BY <2>1, <2>2, <2>3, <2>4, <2>5
<1>5. QED
  BY <1>1, <1>2, <1>3, <1>4 DEF Next

(***************************************************************************)
(* wait_for_process signals nobody once waitpid has said that there is no  *)
(* such child, and terminate_process_group only the group it is called     *)
(* for: SIGKILL is sent to the group of a compiler that was there when its *)
(* call gave up on it. This holds whoever reaps the leader.                *)
(***************************************************************************)
THEOREM LostGroupIsNotSignalled == Spec => LostGroupIsLeftAlone
<1> DEFINE AllGivenUp == \A c \in Callers : GivenUp(c)
           Kills == \A q \in Pids : proc'[q].killed /\ ~proc[q].killed =>
                        \E c \in Callers :
                            child[c] = proc[q].grp /\ verdict[c] \in {"timed_out", "wait_error"}
<1>1. Init => AllGivenUp
  BY DEF Init, GivenUp
<1>2. TypeOK /\ AllGivenUp /\ [Next]_vars => AllGivenUp'
  BY StaysGivenUp
<1>3. TypeOK /\ AllGivenUp /\ [Next]_vars => Kills
  <2> SUFFICES ASSUME TypeOK, AllGivenUp, [Next]_vars, NEW q \in Pids,
                      proc'[q].killed, ~proc[q].killed
               PROVE  \E c \in Callers :
                          child[c] = proc[q].grp /\ verdict[c] \in {"timed_out", "wait_error"}
    OBVIOUS
  <2>1. PICK c \in Callers : KillGroup(c) /\ q \in Group(child[c])
    BY OnlyKillGroupKills
  <2>2. child[c] = proc[q].grp /\ pc[c] = "kill"
    BY <2>1 DEF KillGroup, Group
  <2>3. QED
    BY <2>2 DEF GivenUp
<1> HIDE DEF AllGivenUp, Kills
<1>4. TypeOK /\ AllGivenUp /\ [Next]_vars => [Kills]_vars
  BY <1>3
<1>5. Spec => [][Kills]_vars
  BY <1>1, <1>2, <1>4, TypeCorrect, PTL DEF Spec
<1>6. QED
  BY <1>5 DEF LostGroupIsLeftAlone, Kills

(* The mapping to ArtifactLease. *)

Builder(c) == <<"compile", c>>
Program(o) == <<"program", o>>

LEMMA HoldersAre ==
    ASSUME TypeOK
    PROVE  /\ DOMAIN Holding = Workspaces
           /\ \A w \in Workspaces : \A h :
                 h \in Holding[w] <=>
                     \/ \E c \in Callers : work[c] = w /\ h = Builder(c)
                     \/ \E o \in Objects : object[o] = w /\ h = Program(o)
  BY DEF Holding, Builder, Program

LEMMA NextHoldersAre ==
    /\ Holding' = [w \in Workspaces |-> Holding'[w]]
    /\ \A w \in Workspaces : \A h :
          h \in Holding'[w] <=>
              \/ \E c \in Callers : work'[c] = w /\ h = Builder(c)
              \/ \E o \in Objects : object'[o] = w /\ h = Program(o)
  BY DEF Holding, Builder, Program

LEMMA HoldersDiffer ==
    /\ \A c, o : Builder(c) # Program(o)
    /\ \A c, d : Builder(c) = Builder(d) => c = d
    /\ \A o, x : Program(o) = Program(x) => o = x
  BY DEF Builder, Program

LEMMA CallHoldsAlone ==
    ASSUME TypeOK, OneOwner, NEW c \in Callers, work[c] \in Workspaces
    PROVE  Holding[work[c]] = {Builder(c)}
<1>1. ASSUME NEW h PROVE h \in Holding[work[c]] <=> h = Builder(c)
  BY HoldersAre, ObjectAssumption DEF OneOwner
<1>2. QED
  BY <1>1

LEMMA ProgramHoldsAlone ==
    ASSUME TypeOK, OneOwner, NEW o \in Objects, object[o] \in Workspaces
    PROVE  Holding[object[o]] = {Program(o)}
<1>1. ASSUME NEW h PROVE h \in Holding[object[o]] <=> h = Program(o)
  BY HoldersAre, ObjectAssumption DEF OneOwner
<1>2. QED
  BY <1>1

LEMMA HoldNothing ==
    ASSUME TypeOK
    PROVE  /\ \A c \in Callers : work[c] = NoPath => Lease!HoldsNothing(Builder(c))
           /\ \A o \in Objects : object[o] \notin Workspaces => Lease!HoldsNothing(Program(o))
  BY HoldersAre, HoldersDiffer, ObjectAssumption DEF Lease!HoldsNothing

LEMMA HoldersFollow ==
    ASSUME TypeOK, OneOwner, NEW w \in Workspaces,
           NEW S, \A h : h \in S <=>
                      \/ \E c \in Callers : work'[c] = w /\ h = Builder(c)
                      \/ \E o \in Objects : object'[o] = w /\ h = Program(o),
           \A c \in Callers, v \in Workspaces \ {w} : work'[c] = v <=> work[c] = v,
           \A o \in Objects, v \in Workspaces \ {w} : object'[o] = v <=> object[o] = v
    PROVE  Holding' = [Holding EXCEPT ![w] = S]
<1>1. Holding'[w] = S
  <2>1. \A h : h \in Holding'[w] <=> h \in S
    BY NextHoldersAre
  <2>2. QED
    BY <2>1
<1>2. ASSUME NEW v \in Workspaces \ {w} PROVE Holding'[v] = Holding[v]
  <2>1. \A h : h \in Holding'[v] <=> h \in Holding[v]
    BY NextHoldersAre, HoldersAre
  <2>2. QED
    BY <2>1
<1>3. DOMAIN Holding = Workspaces /\ Holding = [v \in Workspaces |-> Holding[v]]
  BY DEF Holding
<1>4. QED
  BY <1>1, <1>2, <1>3, NextHoldersAre

LEMMA HoldersStay ==
    ASSUME TypeOK,
           \A c \in Callers, v \in Workspaces : work'[c] = v <=> work[c] = v,
           \A o \in Objects, v \in Workspaces : object'[o] = v <=> object[o] = v
    PROVE  Holding' = Holding
<1>1. ASSUME NEW v \in Workspaces PROVE Holding'[v] = Holding[v]
  <2>1. \A h : h \in Holding'[v] <=> h \in Holding[v]
    BY NextHoldersAre, HoldersAre
  <2>2. QED
    BY <2>1
<1>2. Holding = [v \in Workspaces |-> Holding[v]]
  BY DEF Holding
<1>3. QED
  BY <1>1, <1>2, NextHoldersAre

\* A job is at rest when its last process has exited.
LEMMA SystemKeepsBusy ==
    ASSUME TypeOK, System
    PROVE  Busy' = Busy \/ \E w \in Busy : Busy' = Busy \ {w}
<1> USE DEF TypeOK, Busy
<1>1. Free.st = "free" /\ Foreign \notin Workspaces
  BY ProcessAssumption DEF Free
<1>2. ASSUME NEW p \in Pids, NEW code \in ExitCodes, Exit(p, code)
      PROVE Busy' = Busy \/ \E w \in Busy : Busy' = Busy \ {w}
  <2>1. [proc[p] EXCEPT !.st = code].st = code /\ code # "run"
    BY DEF Process, ExitCodes
  <2>2. /\ proc[p].st = "run" /\ proc'[p].st # "run"
        /\ \A q \in Pids : q # p => proc'[q] = proc[q]
    BY <1>1, <1>2, <2>1 DEF Exit
  <2>3. \A w \in Workspaces : w # proc[p].job => (w \in Busy' <=> w \in Busy)
    BY <2>2
  <2>4. CASE proc[p].job \in Busy'
    BY <2>2, <2>3, <2>4
  <2>5. CASE proc[p].job \notin Busy' /\ proc[p].job \in Busy
    BY <2>3, <2>5
  <2>6. CASE proc[p].job \notin Busy' /\ proc[p].job \notin Busy
    BY <2>3, <2>6
  <2>7. QED
    BY <2>4, <2>5, <2>6
<1>3. ASSUME NEW q \in Pids, NEW r \in Pids, Fork(q, r)
      PROVE Busy' = Busy
  <2>1. /\ Started(proc[q].grp, proc[q].job).job = proc[q].job
        /\ Started(proc[q].grp, proc[q].job).st = "run"
    BY DEF Started
  <2>2. proc[r].st = "free" /\ proc[q].st = "run"
    BY <1>3 DEF Fork, FreePids
  <2>3. /\ proc'[r].st = "run" /\ proc'[r].job = proc[q].job
        /\ \A p \in Pids : p # r => proc'[p] = proc[p]
    BY <1>3, <2>1 DEF Fork
  <2>4. QED
    BY <2>2, <2>3
<1>4. ASSUME NEW p \in Pids, ForeignStart(p)
      PROVE Busy' = Busy
  <2>1. Started(p, Foreign).job = Foreign
    BY DEF Started
  <2>2. /\ proc'[p].job = Foreign /\ proc[p].st = "free"
        /\ \A q \in Pids : q # p => proc'[q] = proc[q]
    BY <1>4, <2>1 DEF ForeignStart, FreePids
  <2>3. QED
    BY <1>1, <2>2
<1>5. ASSUME NEW p \in Pids, ExternalReap(p)
      PROVE Busy' = Busy
  <2>1. /\ proc'[p].st = "free" /\ proc[p].st # "run"
        /\ \A q \in Pids : q # p => proc'[q] = proc[q]
    BY <1>1, <1>5 DEF ExternalReap, Zombie, ExitCodes
  <2>2. QED
    BY <2>1
<1>6. QED
  BY <1>2, <1>3, <1>4, <1>5 DEF System

LEMMA WaitingKeepsBusy ==
    ASSUME TypeOK, NEW c \in Callers, Waiting(c)
    PROVE  Busy' = Busy
<1>1. CASE KillGroup(c)
  <2>1. \A q \in Pids : /\ [proc[q] EXCEPT !.killed = TRUE].st = proc[q].st
                        /\ [proc[q] EXCEPT !.killed = TRUE].job = proc[q].job
    BY DEF Process, TypeOK
  <2>2. QED
    BY <1>1, <2>1 DEF KillGroup, Busy
<1>2. CASE Zombie(child[c]) /\ proc' = [proc EXCEPT ![child[c]] = Free]
  <2>1. proc[child[c]].st # "run" /\ proc'[child[c]].st # "run"
    BY <1>2 DEF Zombie, Children, ExitCodes, Free, TypeOK
  <2>2. \A q \in Pids : q # child[c] => proc'[q] = proc[q]
    BY <1>2 DEF TypeOK
  <2>3. QED
    BY <2>1, <2>2 DEF Busy
<1>3. CASE UNCHANGED proc
  BY <1>3 DEF Busy
<1>4. QED
  BY <1>1, <1>2, <1>3 DEF Waiting, Poll, Reaped, CheckClock, Terminate, Reap

\* An empty path removes nothing.
LEMMA NothingRemoved ==
    ASSUME TypeOK, dirs' \in AfterRemoveAll(NoPath, Busy)
    PROVE  dirs' = dirs
<1>1. NoPath \notin Busy /\ NoPath \notin dirs
  BY ObjectAssumption DEF Busy, TypeOK
<1>2. dirs \ {NoPath} = dirs
  BY <1>1
<1>3. QED
  BY <1>1, <1>2 DEF AfterRemoveAll

\* A call that fails drops its workspace, if it has one.
LEMMA FailDrops ==
    ASSUME TypeOK, OneOwner, NEW c \in Callers, NEW failure, Fail(c, failure), UNCHANGED proc
    PROVE  [Lease!LeaseNext]_(Lease!leaseVars)
<1>1. Busy' = Busy
  BY DEF Busy
<1>2. work' = [work EXCEPT ![c] = NoPath] /\ object' = object
  BY DEF Fail
<1>3. CASE work[c] \in Workspaces
  <2>1. Holding[work[c]] # {}
    BY <1>3, CallHoldsAlone
  <2>2. Holding' = [Holding EXCEPT ![work[c]] = {}]
    <3>1. \A d \in Callers : work'[d] # work[c]
      BY <1>2, <1>3, ObjectAssumption DEF OneOwner, TypeOK
    <3>2. \A o \in Objects : object'[o] # work[c]
      BY <1>2, <1>3, ObjectAssumption DEF OneOwner
    <3>3. \A d \in Callers, v \in Workspaces \ {work[c]} : work'[d] = v <=> work[d] = v
      BY <1>2, ObjectAssumption DEF TypeOK
    <3>4. QED
      BY <1>2, <1>3, <3>1, <3>2, <3>3, HoldersFollow
  <2>3. dirs' \in Lease!AfterDrop(work[c])
    BY DEF Fail, AfterRemoveAll, Lease!AfterDrop
  <2>4. Lease!Drop(work[c])
    BY <1>1, <2>1, <2>2, <2>3 DEF Lease!Drop
  <2>5. QED
    BY <1>3, <2>4 DEF Lease!LeaseNext
<1>4. CASE work[c] = NoPath
  <2>1. dirs' = dirs
    BY <1>4, NothingRemoved DEF Fail
  <2>2. Holding' = Holding
    BY <1>2, <1>4, HoldersStay, ObjectAssumption DEF TypeOK
  <2>3. QED
    BY <1>1, <2>1, <2>2 DEF Lease!leaseVars
<1>5. QED
  BY <1>3, <1>4 DEF TypeOK

LEMMA CompileHonoursLease ==
    ASSUME TypeOK, OneOwner, WorkspaceHeld, NEW c \in Callers, Compile(c)
    PROVE  [Lease!LeaseNext]_(Lease!leaseVars)
<1>1. CASE \E failure : Fail(c, failure) /\ UNCHANGED proc
  BY <1>1, FailDrops
<1>2. CASE CreateWorkspace(c)
  <2>1. PICK w \in Unused : dirs' = dirs \cup {w} /\ work' = [work EXCEPT ![c] = w]
    BY <1>2 DEF CreateWorkspace
  <2>2. w \in Workspaces /\ w \notin dirs /\ w \notin Busy
    BY <2>1 DEF Unused, Busy
  <2>3. work[c] = NoPath /\ object' = object /\ Busy' = Busy
    BY <1>2 DEF CreateWorkspace, WorkspaceHeld, Busy
  <2>4. Lease!HoldsNothing(Builder(c))
    BY <2>3, HoldNothing
  <2>5. Holding' = [Holding EXCEPT ![w] = {Builder(c)}]
    <3>1. \A d \in Callers : work'[d] = w <=> d = c
      BY <2>1, <2>2, ObjectAssumption DEF OneOwner, TypeOK
    <3>2. \A o \in Objects : object'[o] # w
      BY <2>2, <2>3 DEF OneOwner
    <3>3. \A d \in Callers, v \in Workspaces \ {w} : work'[d] = v <=> work[d] = v
      BY <2>1, <2>3, ObjectAssumption DEF TypeOK
    <3>4. QED
      BY <2>2, <2>3, <3>1, <3>2, <3>3, HoldersFollow
  <2>6. Lease!Create(w, Builder(c))
    BY <2>1, <2>2, <2>3, <2>4, <2>5 DEF Lease!Create
  <2>7. QED
    BY <2>2, <2>6 DEF Lease!LeaseNext, Builder
<1>3. CASE Spawn(c)
  <2>1. PICK p \in FreePids : proc' = [proc EXCEPT ![p] = Started(p, work[c])]
    BY <1>3 DEF Spawn
  <2>2. work[c] \in Workspaces /\ work[c] \in dirs
    BY <1>3, ObjectAssumption DEF Spawn, WorkspaceHeld, OneOwner, TypeOK
  <2>3. UNCHANGED <<dirs, object, work>>
    BY <1>3 DEF Spawn
  <2>4. Holding' = Holding
    BY <2>3 DEF Holding
  <2>5. Busy' = Busy \cup {work[c]}
    <3>1. proc[p].st = "free" /\ p \in Pids
      BY <2>1 DEF FreePids
    <3>2. Started(p, work[c]).st = "run" /\ Started(p, work[c]).job = work[c]
      BY DEF Started
    <3>3. /\ proc'[p].st = "run" /\ proc'[p].job = work[c]
          /\ \A q \in Pids : q # p => proc'[q] = proc[q]
      BY <2>1, <3>1, <3>2 DEF TypeOK
    <3>4. QED
      BY <2>2, <3>1, <3>3 DEF Busy
  <2>6. Lease!Work(work[c])
    BY <2>2, <2>3, <2>4, <2>5, CallHoldsAlone DEF Lease!Work, Builder
  <2>7. QED
    BY <2>2, <2>6 DEF Lease!LeaseNext
<1>4. CASE CollectSuccess(c)
  <2>1. work[c] \in Workspaces
    BY <1>4, ObjectAssumption DEF CollectSuccess, WorkspaceHeld, TypeOK
  <2>2. /\ object[c] = Dead /\ object' = [object EXCEPT ![c] = work[c]]
        /\ work' = [work EXCEPT ![c] = NoPath] /\ dirs' = dirs /\ Busy' = Busy
    BY <1>4 DEF CollectSuccess, Construct, Busy
  <2>3. Holding' = [Holding EXCEPT ![work[c]] = {Program(c)}]
    <3>1. \A d \in Callers : work'[d] # work[c]
      BY <2>1, <2>2, ObjectAssumption DEF OneOwner, TypeOK
    <3>2. \A o \in Objects : object'[o] = work[c] <=> o = c
      BY <2>1, <2>2, ObjectAssumption DEF OneOwner, TypeOK, Objects
    <3>3. \A d \in Callers, v \in Workspaces \ {work[c]} : work'[d] = v <=> work[d] = v
      BY <2>2, ObjectAssumption DEF TypeOK
    <3>4. \A o \in Objects, v \in Workspaces \ {work[c]} : object'[o] = v <=> object[o] = v
      BY <2>2, ObjectAssumption DEF TypeOK
    <3>5. c \in Objects
      BY DEF Objects
    <3>6. QED
      BY <2>1, <3>1, <3>2, <3>3, <3>4, <3>5, HoldersFollow
  <2>4. Lease!Hand(work[c], Builder(c), Program(c))
    <3>1. Lease!HoldsNothing(Program(c))
      BY <2>2, HoldNothing, ObjectAssumption DEF Objects
    <3>2. Program(c) \in {<<"program", o>> : o \in Objects}
      BY DEF Program, Objects
    <3>3. QED
      BY <2>1, <2>2, <2>3, <3>1, <3>2, CallHoldsAlone DEF Lease!Hand
  <2>5. QED
    BY <2>1, <2>4 DEF Lease!LeaseNext, Builder, Program, Objects
<1>5. CASE Waiting(c)
  <2>1. UNCHANGED <<dirs, object, work>>
    BY <1>5 DEF Waiting, Poll, CheckClock, Terminate, KillGroup, Reap
  <2>2. QED
    BY <1>5, <2>1, WaitingKeepsBusy DEF Lease!leaseVars, Holding
<1>6. CASE UNCHANGED <<dirs, object, work, proc>>
  BY <1>6 DEF Lease!leaseVars, Holding, Busy
<1>7. QED
  BY <1>1, <1>2, <1>3, <1>4, <1>5, <1>6
  DEF Compile, Reject, Prepare, SpawnFails, CollectFailure

\* A path that goes from one object to another that holds none.
LEMMA PathHandedOn ==
    ASSUME TypeOK, OneOwner, NEW dst \in Objects, NEW src \in Objects, dst # src,
           object[src] \in Workspaces, object[dst] \notin Workspaces,
           object' = [object EXCEPT ![dst] = object[src], ![src] = NoPath],
           UNCHANGED <<dirs, work, proc>>
    PROVE  Lease!LeaseNext
<1> DEFINE w == object[src]
<1>1. Holding' = [Holding EXCEPT ![w] = {Program(dst)}]
  <2>1. \A d \in Callers : work'[d] # w
    BY ObjectAssumption DEF OneOwner
  <2>2. \A o \in Objects : object'[o] = w <=> o = dst
    BY ObjectAssumption DEF OneOwner, TypeOK
  <2>3. \A o \in Objects, v \in Workspaces \ {w} : object'[o] = v <=> object[o] = v
    BY ObjectAssumption DEF TypeOK
  <2>4. \A d \in Callers, v \in Workspaces \ {w} : work'[d] = v <=> work[d] = v
    OBVIOUS
  <2>5. \A h : h \in {Program(dst)} <=>
            \/ \E d \in Callers : work'[d] = w /\ h = Builder(d)
            \/ \E o \in Objects : object'[o] = w /\ h = Program(o)
    BY <2>1, <2>2
  <2>6. w \in Workspaces
    OBVIOUS
  <2> HIDE DEF w
  <2>7. QED
    BY ONLY TypeOK, OneOwner, <2>3, <2>4, <2>5, <2>6, HoldersFollow
<1>2. Lease!HoldsNothing(Program(dst)) /\ Holding[w] = {Program(src)}
  BY HoldNothing, ProgramHoldsAlone
<1>3. Program(dst) \in {<<"program", o>> : o \in Objects} /\ Busy' = Busy
  BY DEF Program, Busy
<1>4. Lease!Hand(w, Program(src), Program(dst))
  BY <1>1, <1>2, <1>3 DEF Lease!Hand
<1>5. QED
  BY <1>4 DEF Lease!LeaseNext, Program

\* A path that an object drops, with no other in exchange.
LEMMA PathDropped ==
    ASSUME TypeOK, OneOwner, NEW o \in Objects, object[o] \in Workspaces,
           object'[o] \notin Workspaces,
           \A x \in Objects, v \in Workspaces : x # o => (object'[x] = v <=> object[x] = v),
           dirs' \in AfterRemoveAll(object[o], Busy), UNCHANGED <<work, proc>>
    PROVE  Lease!LeaseNext
<1> DEFINE w == object[o]
<1>1. Holding' = [Holding EXCEPT ![w] = {}]
  <2>1. \A d \in Callers : work'[d] # w
    BY ObjectAssumption DEF OneOwner
  <2>2. \A x \in Objects : object'[x] # w
    BY DEF OneOwner
  <2>3. \A x \in Objects, v \in Workspaces \ {w} : object'[x] = v <=> object[x] = v
    OBVIOUS
  <2>4. QED
    BY <2>1, <2>2, <2>3, HoldersFollow
<1>2. Holding[w] # {} /\ Busy' = Busy /\ dirs' \in Lease!AfterDrop(w)
  BY ProgramHoldsAlone DEF Busy, AfterRemoveAll, Lease!AfterDrop
<1>3. Lease!Drop(w)
  BY <1>1, <1>2 DEF Lease!Drop
<1>4. QED
  BY <1>3 DEF Lease!LeaseNext

LEMMA MoveAssignHonoursLease ==
    ASSUME TypeOK, OneOwner, NEW dst \in Objects, NEW src \in Objects,
           MoveAssign(dst, src, Busy), UNCHANGED <<work, proc>>
    PROVE  [Lease!LeaseNext]_(Lease!leaseVars)
<1>1. /\ dst # src /\ object' = [object EXCEPT ![dst] = object[src], ![src] = NoPath]
      /\ dirs' \in AfterRemoveAll(object[dst], Busy) /\ Busy' = Busy
      /\ object[dst] \in Workspaces \cup {NoPath} /\ object[src] \in Workspaces \cup {NoPath}
  BY DEF MoveAssign, Busy, TypeOK
<1>2. object[dst] = NoPath => dirs' = dirs
  BY <1>1, NothingRemoved
<1>3. CASE object[dst] = NoPath /\ object[src] = NoPath
  <2>1. Holding' = Holding
    BY <1>1, <1>3, HoldersStay, ObjectAssumption DEF TypeOK
  <2>2. QED
    BY <1>1, <1>2, <1>3, <2>1 DEF Lease!leaseVars
<1>4. CASE object[dst] = NoPath /\ object[src] \in Workspaces
  BY <1>1, <1>2, <1>4, PathHandedOn, ObjectAssumption
<1>5. CASE object[dst] \in Workspaces /\ object[src] = NoPath
  <2>1. /\ object'[dst] \notin Workspaces
        /\ \A x \in Objects, v \in Workspaces : x # dst => (object'[x] = v <=> object[x] = v)
    BY <1>1, <1>5, ObjectAssumption DEF TypeOK
  <2>2. QED
    BY <1>1, <1>5, <2>1, PathDropped
<1>6. CASE object[dst] \in Workspaces /\ object[src] \in Workspaces
  <2> DEFINE old == object[dst]
             w == object[src]
             held == [Holding EXCEPT ![w] = {Program(dst)}]
  <2>1. old # w /\ Holding[old] = {Program(dst)} /\ Holding[w] = {Program(src)}
    BY <1>1, <1>6, ProgramHoldsAlone DEF OneOwner
  <2>2. Holding' = [Holding EXCEPT ![old] = {}, ![w] = {Program(dst)}]
    <3>1. Holding'[old] = {}
      <4>1. \A x \in Objects : object'[x] # old
        BY <1>1, <1>6, <2>1, ObjectAssumption DEF OneOwner, TypeOK
      <4>2. \A c \in Callers : work'[c] # old
        BY <1>6, ObjectAssumption DEF OneOwner
      <4>3. QED
        BY <1>6, <4>1, <4>2, NextHoldersAre
    <3>2. Holding'[w] = {Program(dst)}
      <4>1. \A x \in Objects : object'[x] = w <=> x = dst
        BY <1>1, <1>6, <2>1, ObjectAssumption DEF OneOwner, TypeOK
      <4>2. \A c \in Callers : work'[c] # w
        BY <1>6, ObjectAssumption DEF OneOwner
      <4>3. \A h : h \in Holding'[w] <=> h = Program(dst)
        BY <1>6, <4>1, <4>2, NextHoldersAre
      <4>4. QED
        BY <4>3
    <3>3. ASSUME NEW v \in Workspaces \ {old, w} PROVE Holding'[v] = Holding[v]
      <4>1. \A x \in Objects : object'[x] = v <=> object[x] = v
        BY <1>1, ObjectAssumption DEF TypeOK
      <4>2. \A h : h \in Holding'[v] <=> h \in Holding[v]
        BY <4>1, NextHoldersAre, HoldersAre
      <4>3. QED
        BY <4>2
    <3>4. Holding = [v \in Workspaces |-> Holding[v]]
      BY DEF Holding
    <3>5. QED
      BY <1>6, <3>1, <3>2, <3>3, <3>4, NextHoldersAre
  <2>3. dirs' \in Lease!AfterDrop(old)
    BY <1>1 DEF AfterRemoveAll, Lease!AfterDrop
  <2>4. Program(dst) \in {<<"program", o>> : o \in Objects}
    BY DEF Program
  <2>5. Lease!Replace(old, w, Program(src), Program(dst))
    BY <1>1, <2>1, <2>2, <2>3, <2>4 DEF Lease!Replace
  <2>6. QED
    BY <1>6, <2>5 DEF Lease!LeaseNext, Program
<1>7. QED
  BY <1>1, <1>3, <1>4, <1>5, <1>6

LEMMA ProgramsHonourLease ==
    ASSUME TypeOK, OneOwner, UsePrograms
    PROVE  [Lease!LeaseNext]_(Lease!leaseVars)
<1>1. UNCHANGED <<work, proc>>
  BY DEF UsePrograms, hostVars
<1>2. ASSUME NEW dst \in Holders, NEW src \in Objects, MoveConstruct(dst, src)
      PROVE [Lease!LeaseNext]_(Lease!leaseVars)
  <2>1. /\ dst \in Objects /\ dst # src /\ object[dst] = Dead /\ dirs' = dirs
        /\ object' = [object EXCEPT ![dst] = object[src], ![src] = NoPath]
        /\ object[src] \in Workspaces \cup {NoPath}
    BY <1>2 DEF MoveConstruct, Objects, TypeOK
  <2>2. CASE object[src] \in Workspaces
    BY <1>1, <2>1, <2>2, PathHandedOn, ObjectAssumption
  <2>3. CASE object[src] = NoPath
    <3>1. Holding' = Holding
      BY <1>1, <2>1, <2>3, HoldersStay, ObjectAssumption DEF TypeOK
    <3>2. QED
      BY <1>1, <2>1, <3>1 DEF Lease!leaseVars, Busy
  <2>4. QED
    BY <2>1, <2>2, <2>3
<1>3. ASSUME NEW o \in Objects, Destroy(o, Busy)
      PROVE [Lease!LeaseNext]_(Lease!leaseVars)
  <2>1. /\ object' = [object EXCEPT ![o] = Dead] /\ dirs' \in AfterRemoveAll(object[o], Busy)
        /\ object[o] \in Workspaces \cup {NoPath}
    BY <1>3 DEF Destroy, TypeOK
  <2>2. \A x \in Objects, v \in Workspaces : x # o => (object'[x] = v <=> object[x] = v)
    BY <2>1 DEF TypeOK
  <2>3. CASE object[o] \in Workspaces
    <3>1. object'[o] \notin Workspaces
      BY <2>1, ObjectAssumption DEF TypeOK
    <3>2. QED
      BY <1>1, <2>1, <2>2, <2>3, <3>1, PathDropped
  <2>4. CASE object[o] = NoPath
    <3>1. dirs' = dirs
      BY <2>1, <2>4, NothingRemoved
    <3>2. Holding' = Holding
      BY <1>1, <2>1, <2>4, HoldersStay, ObjectAssumption DEF TypeOK
    <3>3. QED
      BY <1>1, <3>1, <3>2 DEF Lease!leaseVars, Busy
  <2>5. QED
    BY <2>1, <2>3, <2>4
<1>4. QED
  BY <1>1, <1>2, <1>3, MoveAssignHonoursLease DEF UsePrograms, ProgramStep

LEMMA StepHonoursLease ==
    ASSUME TypeOK, OneOwner, WorkspaceHeld, [Next]_vars
    PROVE  [Lease!LeaseNext]_(Lease!leaseVars)
<1>1. CASE System
  <2>1. UNCHANGED <<dirs, object, work>>
    BY <1>1 DEF System, Exit, Fork, ForeignStart, ExternalReap, hostVars
  <2>2. Holding' = Holding
    BY <2>1 DEF Holding
  <2>3. CASE Busy' = Busy
    BY <2>1, <2>2, <2>3 DEF Lease!leaseVars
  <2>4. ASSUME NEW w \in Busy, Busy' = Busy \ {w}
        PROVE Lease!LeaseNext
    BY <2>1, <2>2, <2>4 DEF Lease!LeaseNext, Lease!Rest, Busy
  <2>5. QED
    BY <1>1, <2>3, <2>4, SystemKeepsBusy
<1>2. ASSUME NEW c \in Callers, Elapse(c) \/ Forget(c)
      PROVE UNCHANGED Lease!leaseVars
  BY <1>2 DEF Elapse, Forget, Lease!leaseVars, Holding, Busy
<1>3. CASE UNCHANGED vars
  BY <1>3 DEF vars, hostVars, Lease!leaseVars, Holding, Busy
<1>4. QED
  BY <1>1, <1>2, <1>3, CompileHonoursLease, ProgramsHonourLease DEF Next

LEMMA StartHonoursLease == Init => Lease!LeaseInit
<1> SUFFICES ASSUME Init PROVE Lease!LeaseInit
  OBVIOUS
<1>1. Busy = {}
  BY DEF Init, Busy, Free
<1>2. Holding = [w \in Workspaces |-> {}]
  BY ObjectAssumption DEF Init, Holding
<1>3. QED
  BY <1>1, <1>2 DEF Init, Lease!LeaseInit

(***************************************************************************)
(* Refinement: all calls, moves and destructions, in any order and with    *)
(* any failures, are steps of ArtifactLease. A workspace has one holder    *)
(* from its creation on, is handed on whole, and is removed by the last.   *)
(***************************************************************************)
THEOREM LeaseImplemented == Spec => LeaseHonoured
<1>1. CallInv /\ [Next]_vars => [Lease!LeaseNext]_(Lease!leaseVars)
  BY StepHonoursLease DEF CallInv
<1>2. QED
  BY <1>1, StartHonoursLease, CallInvHolds, PTL DEF Spec, LeaseHonoured, Lease!LeaseSpec
================================================================================
