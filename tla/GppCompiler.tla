------------------------------ MODULE GppCompiler ------------------------------
(***************************************************************************)
(* GppCompiler::compile() called by several threads of one host process:   *)
(* private workspace, spawn of the C++ compiler as leader of a process     *)
(* group of its own, the polling wait with its timeout, termination of the *)
(* group, and classification of the result.  The operating system is part  *)
(* of the model: numeric process ids are a finite resource that is used    *)
(* again, zombies keep their number until they are reaped, a number stays  *)
(* taken while it names a process group, and a compiler forks descendants  *)
(* that may outlive it.                                                    *)
(***************************************************************************)
EXTENDS CompiledProgram

CONSTANTS
    Pids,       \* numeric process ids
    NoPid,      \* no process
    Foreign,    \* the job of processes unrelated to this program
    HostReaps   \* whether the host process reaps its children elsewhere
                \* (SIGCHLD ignored, or a wait() in other code)

ASSUME ProcessAssumption ==
    /\ NoPid \notin Pids
    /\ Foreign \notin Workspaces
    /\ NoPath # Foreign
    /\ HostReaps \in BOOLEAN

VARIABLES
    proc,     \* process id -> process
    pc,       \* caller -> where its compile() call is
    work,     \* caller -> path_ of its ScopedWorkspace
    child,    \* caller -> process_id of the compiler it spawned
    late,     \* caller -> whether config_.timeout has elapsed
    verdict,  \* caller -> WaitResult
    status,   \* caller -> GppCompilationStatus
    actual    \* caller -> how its own compiler really ended (history)

hostVars == <<pc, work, child, late, verdict, status>>
vars == <<dirs, object, proc, actual, hostVars>>

ExitCodes == {"exit0", "exitN", "signaled"}

\* job is the workspace the process was started for.
Free == [st |-> "free", grp |-> NoPid, job |-> NoPath, killed |-> FALSE]
Process ==
    [st : {"free", "run"} \cup ExitCodes, grp : Pids \cup {NoPid},
     job : Workspaces \cup {Foreign, NoPath}, killed : BOOLEAN]

Launched == {"poll", "clock", "term", "kill", "reap"}
Steps == {"idle", "prepare", "spawn", "collect", "done"} \cup Launched
Failures == {"compilation_failed", "compiler_signaled", "launch_failed",
             "timed_out", "filesystem_error", "wait_failed",
             "invalid_configuration"}

TypeOK ==
    /\ dirs \subseteq Workspaces
    /\ object \in [Objects -> Workspaces \cup {NoPath, Dead}]
    /\ proc \in [Pids -> Process]
    /\ pc \in [Callers -> Steps]
    /\ work \in [Callers -> Workspaces \cup {NoPath}]
    /\ child \in [Callers -> Pids \cup {NoPid}]
    /\ late \in [Callers -> BOOLEAN]
    /\ verdict \in [Callers -> ExitCodes \cup
                       {"none", "timed_out", "wait_error", "no_child"}]
    /\ status \in [Callers -> Failures \cup {"none", "succeeded"}]
    /\ actual \in [Callers -> ExitCodes \cup {"none"}]

Init ==
    /\ dirs = {}
    /\ object = [o \in Objects |-> Dead]
    /\ proc = [p \in Pids |-> Free]
    /\ pc = [c \in Callers |-> "idle"]
    /\ work = [c \in Callers |-> NoPath]
    /\ child = [c \in Callers |-> NoPid]
    /\ late = [c \in Callers |-> FALSE]
    /\ verdict = [c \in Callers |-> "none"]
    /\ status = [c \in Callers |-> "none"]
    /\ actual = [c \in Callers |-> "none"]

--------------------------------------------------------------------------------
(* The operating system's view. *)

Group(g) == {q \in Pids : proc[q].st # "free" /\ proc[q].grp = g}
FreePids == {p \in Pids : proc[p].st = "free" /\ Group(p) = {}}
Started(leader, w) ==
    [st |-> "run", grp |-> leader, job |-> w, killed |-> FALSE]

\* The children waitpid() finds: the group leaders this host process spawned.
Children == {p \in Pids : proc[p].st # "free" /\ proc[p].grp = p
                             /\ proc[p].job \in Workspaces}
Zombie(p) == p \in Children /\ proc[p].st \in ExitCodes
Busy == {w \in Workspaces : \E p \in Pids : proc[p].st = "run" /\ proc[p].job = w}
Unused == {w \in Workspaces \ dirs : \A p \in Pids : proc[p].job # w}

\* A child of the host stays a zombie; any other process is reaped at once.
Exit(p, code) ==
    /\ proc[p].st = "run"
    /\ proc' = [proc EXCEPT ![p] = IF p \in Children THEN [@ EXCEPT !.st = code]
                                                     ELSE Free]
    /\ actual' = [c \in Callers |->
                     IF p \in Children /\ work[c] = proc[p].job THEN code
                                                                ELSE actual[c]]
    /\ UNCHANGED <<dirs, object, hostVars>>

\* fork() in the group; the kernel does not complete it in a killed process.
Fork(q, r) ==
    /\ proc[q].st = "run" /\ ~proc[q].killed /\ proc[q].job \in Workspaces
    /\ r \in FreePids
    /\ proc' = [proc EXCEPT ![r] = Started(proc[q].grp, proc[q].job)]
    /\ UNCHANGED <<dirs, object, actual, hostVars>>

\* Another program starts a process, in a group of its own.
ForeignStart(p) ==
    /\ p \in FreePids
    /\ proc' = [proc EXCEPT ![p] = Started(p, Foreign)]
    /\ UNCHANGED <<dirs, object, actual, hostVars>>

ExternalReap(p) ==
    /\ HostReaps
    /\ Zombie(p)
    /\ proc' = [proc EXCEPT ![p] = Free]
    /\ UNCHANGED <<dirs, object, actual, hostVars>>

System ==
    \E p \in Pids :
        \/ \E code \in ExitCodes : Exit(p, code)
        \/ \E r \in Pids : Fork(p, r)
        \/ ForeignStart(p)
        \/ ExternalReap(p)

--------------------------------------------------------------------------------
(* compile() *)

Goto(c, step) == pc' = [pc EXCEPT ![c] = step]

\* Every failing return destroys the ScopedWorkspace, which removes it.
Fail(c, failure) ==
    /\ Goto(c, "done")
    /\ status' = [status EXCEPT ![c] = failure]
    /\ work' = [work EXCEPT ![c] = NoPath]
    /\ dirs' \in AfterRemoveAll(work[c], Busy)
    /\ UNCHANGED <<object, child, late, verdict>>

\* The configuration is invalid, or the temporary root cannot be determined,
\* or mkdtemp or chmod fails: nothing of the call is left on disk.
Reject(c) ==
    /\ pc[c] = "idle" /\ object[c] = Dead
    /\ \E failure \in {"invalid_configuration", "filesystem_error"} : Fail(c, failure)
    /\ UNCHANGED <<proc, actual>>

CreateWorkspace(c) ==
    /\ pc[c] = "idle" /\ object[c] = Dead
    /\ \E w \in Unused : dirs' = dirs \cup {w} /\ work' = [work EXCEPT ![c] = w]
    /\ Goto(c, "prepare")
    /\ UNCHANGED <<object, child, late, verdict, status, proc, actual>>

\* program.cpp is written, the capture files and /dev/null are opened.
Prepare(c) ==
    /\ pc[c] = "prepare"
    /\ \/ Goto(c, "spawn") /\ UNCHANGED <<dirs, object, work, child, late, verdict, status>>
       \/ Fail(c, "filesystem_error")
    /\ UNCHANGED <<proc, actual>>

\* posix_spawnp with POSIX_SPAWN_SETPGROUP 0: the child leads its own group.
Spawn(c) ==
    /\ pc[c] = "spawn"
    /\ \E p \in FreePids :
          /\ proc' = [proc EXCEPT ![p] = Started(p, work[c])]
          /\ child' = [child EXCEPT ![c] = p]
    /\ Goto(c, "poll")
    /\ UNCHANGED <<dirs, object, work, late, verdict, status, actual>>

SpawnFails(c) ==
    /\ pc[c] = "spawn"
    /\ Fail(c, "launch_failed")
    /\ UNCHANGED <<proc, actual>>

Reaped(c) ==
    /\ Zombie(child[c])
    /\ verdict' = [verdict EXCEPT ![c] = proc[child[c]].st]
    /\ proc' = [proc EXCEPT ![child[c]] = Free]
    /\ Goto(c, "collect")

\* Mutant: waits for any child, waitpid(-1, &status, WNOHANG).
PollAnyChild(c) ==
    /\ pc[c] = "poll"
    /\ \/ \E p \in Pids :
             /\ Zombie(p)
             /\ verdict' = [verdict EXCEPT ![c] = proc[p].st]
             /\ proc' = [proc EXCEPT ![p] = Free]
             /\ Goto(c, "collect")
       \/ child[c] \in Children /\ ~Zombie(child[c]) /\ Goto(c, "clock")
             /\ UNCHANGED <<verdict, proc>>
       \/ child[c] \notin Children /\ Goto(c, "collect") /\ UNCHANGED proc
             /\ verdict' = [verdict EXCEPT ![c] = "no_child"]
    /\ UNCHANGED <<dirs, object, work, child, late, status, actual>>

\* Mutant: the group of a child that is gone is signalled all the same.
PollSignalsLost(c) ==
    /\ pc[c] = "poll"
    /\ \/ Reaped(c)
       \/ child[c] \in Children /\ ~Zombie(child[c]) /\ Goto(c, "clock")
             /\ UNCHANGED <<verdict, proc>>
       \/ child[c] \notin Children /\ Goto(c, "term") /\ UNCHANGED proc
             /\ verdict' = [verdict EXCEPT ![c] = "no_child"]
    /\ UNCHANGED <<dirs, object, work, child, late, status, actual>>

\* waitpid(process_id, &status, WNOHANG): the child is reaped, or still runs, or
\* there is no such child (ECHILD), or another error (EINTR only repeats).
Poll(c) ==
    /\ pc[c] = "poll"
    /\ \/ Reaped(c)
       \/ child[c] \in Children /\ ~Zombie(child[c]) /\ Goto(c, "clock")
             /\ UNCHANGED <<verdict, proc>>
       \/ child[c] \notin Children /\ Goto(c, "collect") /\ UNCHANGED proc
             /\ verdict' = [verdict EXCEPT ![c] = "no_child"]
       \/ child[c] \in Children /\ Goto(c, "term") /\ UNCHANGED proc
             /\ verdict' = [verdict EXCEPT ![c] = "wait_error"]
    /\ UNCHANGED <<dirs, object, work, child, late, status, actual>>

Elapse(c) ==
    /\ pc[c] \in {"poll", "clock"}
    /\ ~late[c]
    /\ late' = [late EXCEPT ![c] = TRUE]
    /\ UNCHANGED <<dirs, object, pc, work, child, verdict, status, proc, actual>>

\* elapsed >= timeout, or sleep and poll again.
CheckClock(c) ==
    /\ pc[c] = "clock"
    /\ \/ late[c] /\ Goto(c, "term") /\ verdict' = [verdict EXCEPT ![c] = "timed_out"]
       \/ ~late[c] /\ Goto(c, "poll") /\ UNCHANGED verdict
    /\ UNCHANGED <<dirs, object, work, child, late, status, proc, actual>>

\* Mutant: the leader is reaped during the grace period if it has exited.
TerminateAndReap(c) ==
    /\ pc[c] = "term"
    /\ Goto(c, "kill")
    /\ proc' = IF Zombie(child[c]) THEN [proc EXCEPT ![child[c]] = Free] ELSE proc
    /\ UNCHANGED <<dirs, object, work, child, late, verdict, status, actual>>

\* kill(-process_id, SIGTERM).  A process may exit at any time and may ignore
\* this signal, so Exit already covers its effect.
Terminate(c) ==
    /\ pc[c] = "term"
    /\ Goto(c, "kill")
    /\ UNCHANGED <<dirs, object, work, child, late, verdict, status, proc, actual>>

\* Mutant: SIGKILL is sent only while the leader has not exited.
KillOnlyIfLeaderRuns(c) ==
    /\ pc[c] = "kill"
    /\ proc' = [q \in Pids |->
                   IF q \in Group(child[c]) /\ proc[child[c]].st = "run"
                   THEN [proc[q] EXCEPT !.killed = TRUE] ELSE proc[q]]
    /\ Goto(c, "reap")
    /\ UNCHANGED <<dirs, object, work, child, late, verdict, status, actual>>

\* Mutant: SIGTERM is expected to be enough.
NoKill(c) ==
    /\ pc[c] = "kill"
    /\ Goto(c, "reap")
    /\ UNCHANGED <<dirs, object, work, child, late, verdict, status, proc, actual>>

\* kill(-process_id, SIGKILL), 250 ms later.
KillGroup(c) ==
    /\ pc[c] = "kill"
    /\ proc' = [q \in Pids |-> IF q \in Group(child[c])
                               THEN [proc[q] EXCEPT !.killed = TRUE] ELSE proc[q]]
    /\ Goto(c, "reap")
    /\ UNCHANGED <<dirs, object, work, child, late, verdict, status, actual>>

\* Mutant: WNOHANG in the last waitpid, which then does not wait.
ReapWithoutWaiting(c) ==
    /\ pc[c] = "reap"
    /\ Goto(c, "collect")
    /\ proc' = IF Zombie(child[c]) THEN [proc EXCEPT ![child[c]] = Free] ELSE proc
    /\ UNCHANGED <<dirs, object, work, child, late, verdict, status, actual>>

\* The blocking waitpid(process_id, &status, 0).
Reap(c) ==
    /\ pc[c] = "reap"
    /\ \/ Zombie(child[c]) /\ proc' = [proc EXCEPT ![child[c]] = Free]
       \/ child[c] \notin Children /\ UNCHANGED proc
    /\ Goto(c, "collect")
    /\ UNCHANGED <<dirs, object, work, child, late, verdict, status, actual>>

\* What the WaitResult is reported as, unless it is an exit with code 0.
FailureOf(outcome) ==
    CASE outcome = "timed_out" -> "timed_out"
      [] outcome \in {"wait_error", "no_child"} -> "wait_failed"
      [] outcome = "signaled" -> "compiler_signaled"
      [] outcome = "exitN" -> "compilation_failed"

\* A capture file cannot be read (which hides every other outcome), or the
\* compiler did not end with code 0, or it left no executable regular file.
CollectFailure(c) ==
    /\ pc[c] = "collect"
    /\ \/ Fail(c, "filesystem_error")
       \/ verdict[c] # "exit0" /\ Fail(c, FailureOf(verdict[c]))
    /\ UNCHANGED <<proc, actual>>

\* Mutant: the path is copied out of the ScopedWorkspace instead of released,
\* so its destructor removes the directory of the program just returned.
CollectSuccessNoRelease(c) ==
    /\ pc[c] = "collect" /\ verdict[c] = "exit0"
    /\ Construct(c, work[c])
    /\ dirs' \in AfterRemoveAll(work[c], Busy)
    /\ work' = [work EXCEPT ![c] = NoPath]
    /\ status' = [status EXCEPT ![c] = "succeeded"]
    /\ Goto(c, "done")
    /\ UNCHANGED <<child, late, verdict, proc, actual>>

\* workspace->release() hands the directory to result.program.
CollectSuccess(c) ==
    /\ pc[c] = "collect" /\ verdict[c] = "exit0"
    /\ Construct(c, work[c])
    /\ work' = [work EXCEPT ![c] = NoPath]
    /\ status' = [status EXCEPT ![c] = "succeeded"]
    /\ Goto(c, "done")
    /\ UNCHANGED <<dirs, child, late, verdict, proc, actual>>

\* The caller has dropped the result's program and may call compile() again.
Forget(c) ==
    /\ pc[c] = "done" /\ object[c] = Dead
    /\ Goto(c, "idle")
    /\ child' = [child EXCEPT ![c] = NoPid]
    /\ late' = [late EXCEPT ![c] = FALSE]
    /\ verdict' = [verdict EXCEPT ![c] = "none"]
    /\ status' = [status EXCEPT ![c] = "none"]
    /\ actual' = [actual EXCEPT ![c] = "none"]
    /\ UNCHANGED <<dirs, object, work, proc>>

Waiting(c) == Poll(c) \/ CheckClock(c) \/ Terminate(c) \/ KillGroup(c) \/ Reap(c)

Compile(c) ==
    \/ Reject(c) \/ CreateWorkspace(c) \/ Prepare(c) \/ Spawn(c) \/ SpawnFails(c)
    \/ Waiting(c) \/ CollectFailure(c) \/ CollectSuccess(c)

\* The caller moves and destroys program objects.
UsePrograms == ProgramStep(Busy) /\ UNCHANGED <<proc, actual, hostVars>>

Next ==
    \/ \E c \in Callers : Compile(c) \/ Elapse(c) \/ Forget(c)
    \/ UsePrograms
    \/ System

Spec == Init /\ [][Next]_vars

\* A call that runs is scheduled, time passes, and a killed process exits.
\* Nothing is assumed of a process that has not been killed.
Fairness ==
    /\ \A c \in Callers : WF_vars(Prepare(c) \/ Spawn(c) \/ SpawnFails(c)
                                  \/ CollectFailure(c) \/ CollectSuccess(c))
    /\ \A c \in Callers : WF_vars(Waiting(c))
    /\ \A c \in Callers : WF_vars(Elapse(c))
    /\ \A p \in Pids : WF_vars(proc[p].killed /\ \E code \in ExitCodes : Exit(p, code))

FairSpec == Spec /\ Fairness

--------------------------------------------------------------------------------
(* Properties *)

\* Between deciding to terminate the compiler and the last signal, the process
\* group number that kill(-pid) is given names only processes of that compiler:
\* never an unrelated process whose id is a recycled one.
SignalsReachOwnGroupOnly ==
    \A c \in Callers : pc[c] \in {"term", "kill"} =>
        \A q \in Group(child[c]) : proc[q].job = work[c]

\* A call that reaches its result after terminating the group leaves no process
\* of its compiler running unsignalled, whichever members forked or exited
\* during the grace period.
TerminationIsComplete ==
    \A c \in Callers : pc[c] = "collect" /\ verdict[c] \in {"timed_out", "wait_error"} =>
        \A q \in Pids : proc[q].st = "run" /\ proc[q].job = work[c] => proc[q].killed

\* The exit status a call reports is that of the compiler it spawned itself.
StatusIsOwn ==
    \A c \in Callers : verdict[c] \in ExitCodes => verdict[c] = actual[c]

\* While a compiler runs as child of the host, its workspace exists and still
\* belongs to the call that spawned it: no path removes it or hands it on early.
CompilerKeepsWorkspace ==
    \A p \in Children : proc[p].st = "run" =>
        /\ proc[p].job \in dirs
        /\ \E c \in Callers : child[c] = p /\ work[c] = proc[p].job

\* Every workspace has one owner on disk: two ScopedWorkspaces, two program
\* objects, or one of each, never name the same directory, whatever is moved.
OneOwner ==
    /\ \A c, d \in Callers : work[c] = work[d] /\ work[c] # NoPath => c = d
    /\ \A o, x \in Objects : object[o] = object[x] /\ object[o] \in Workspaces => o = x
    /\ \A c \in Callers, o \in Objects : work[c] # NoPath => object[o] # work[c]
    /\ \A c \in Callers : work[c] # NoPath => work[c] \in dirs
    /\ \A o \in Objects : object[o] \in Workspaces => object[o] \in dirs

\* Processes of one group work for the same job: a number is not used again for
\* a new leader while it still names a group.
GroupsKeepJob ==
    \A p, q \in Pids :
        proc[p].st # "free" /\ proc[q].st # "free" /\ proc[p].grp = proc[q].grp
        => proc[p].job = proc[q].job

\* A call that waits has its child, and a child that has not been reaped has a
\* call that waits for it.  (Not if the host reaps children elsewhere.)
ChildrenAwaited ==
    /\ \A c \in Callers : pc[c] \in Launched =>
           child[c] \in Children /\ proc[child[c]].job = work[c]
    /\ \A p \in Children : \E c \in Callers : pc[c] \in Launched /\ child[c] = p

\* The history variable agrees with the zombie, and then with the verdict.
StatusPassedOn ==
    /\ \A c \in Callers : pc[c] \in Launched \cup {"idle", "prepare", "spawn"} =>
           verdict[c] \notin ExitCodes
    /\ \A c \in Callers : pc[c] \in Launched /\ Zombie(child[c]) =>
           actual[c] = proc[child[c]].st

\* From mkdtemp to its result a call owns a workspace.
WorkspaceHeld ==
    \A c \in Callers : work[c] # NoPath <=> pc[c] \notin {"idle", "done"}

\* A call that terminates its compiler or collects has a WaitResult.
OutcomeKnown ==
    \A c \in Callers : pc[c] \in {"term", "kill", "reap", "collect"} =>
        verdict[c] # "none"

\* What makes the properties above inductive, in terms of the code: an owner
\* for every workspace, a waiting call for every child, a result for every wait.
HostInvariant ==
    /\ OneOwner
    /\ GroupsKeepJob
    /\ WorkspaceHeld
    /\ ChildrenAwaited
    /\ StatusPassedOn
    /\ OutcomeKnown

\* Who holds a workspace: the ScopedWorkspace of a call or a program object.
Holding ==
    [w \in Workspaces |->
        {<<"compile", c>> : c \in {d \in Callers : work[d] = w}}
        \cup {<<"program", o>> : o \in {x \in Objects : object[x] = w}}]

\* Every workspace has one holder at a time and is removed when that is gone.
Lease == INSTANCE ArtifactLease WITH
    Builders <- {<<"compile", c>> : c \in Callers},
    Programs <- {<<"program", o>> : o \in Objects},
    exists <- dirs, holder <- Holding, busy <- Busy

LeaseHonoured == Lease!LeaseSpec

\* The comment in terminate_process_group: the leader's zombie keeps the numeric
\* id during the grace period, so that SIGKILL after a timeout cannot reach an
\* unrelated group.  (Stated without assuming who reaps the leader.)
ZombieHoldsGroupId ==
    \A c \in Callers : pc[c] = "kill" /\ verdict[c] = "timed_out" =>
        \A q \in Group(child[c]) : proc[q].job # Foreign

\* A call that finds that its compiler was reaped elsewhere signals nobody any more: who
\* is killed is in a group whose leader was still there when its call gave up on it.
LostGroupIsLeftAlone ==
    [][\A q \in Pids : proc'[q].killed /\ ~proc[q].killed =>
          \E c \in Callers :
              child[c] = proc[q].grp /\ verdict[c] \in {"timed_out", "wait_error"}]_vars

\* Every compile() call that created a workspace returns, even if the compiler
\* ignores SIGTERM or never exits.
EveryCallReturns ==
    \A c \in Callers : pc[c] = "prepare" ~> pc[c] = "done"
================================================================================
