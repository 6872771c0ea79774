----------------------------- MODULE ArtifactLease -----------------------------
(***************************************************************************)
(* What GppCompiler and CompiledProgram promise about temporary            *)
(* workspaces, with no processes, statuses or steps of compile(): a        *)
(* workspace directory has at most one holder from its creation to its     *)
(* removal.  The holder is first the compile() call that created it, then, *)
(* if that call succeeds, one program object at a time.  Whoever drops it  *)
(* removes it; only a workspace that processes still use may be left       *)
(* behind.                                                                 *)
(***************************************************************************)
CONSTANTS
    Workspaces,  \* directories mkdtemp can create
    Builders,    \* compile() calls in progress
    Programs     \* CompiledProgram objects

VARIABLES
    exists,  \* workspaces present on disk
    holder,  \* workspace -> the set of its holders
    busy     \* workspaces in which some process of the compiler still runs

leaseVars == <<exists, holder, busy>>

HoldsNothing(h) == \A w \in Workspaces : h \notin holder[w]

LeaseInit ==
    /\ exists = {}
    /\ holder = [w \in Workspaces |-> {}]
    /\ busy = {}

\* What disk may hold once the holder of w dropped it.
AfterDrop(w) == {exists \ {w}} \cup (IF w \in busy THEN {exists} ELSE {})

Create(w, b) ==
    /\ w \notin exists \cup busy
    /\ HoldsNothing(b)
    /\ exists' = exists \cup {w}
    /\ holder' = [holder EXCEPT ![w] = {b}]
    /\ UNCHANGED busy

Hand(w, from, to) ==
    /\ holder[w] = {from}
    /\ to \in Programs
    /\ HoldsNothing(to)
    /\ holder' = [holder EXCEPT ![w] = {to}]
    /\ UNCHANGED <<exists, busy>>

Drop(w) ==
    /\ holder[w] # {}
    /\ holder' = [holder EXCEPT ![w] = {}]
    /\ exists' \in AfterDrop(w)
    /\ UNCHANGED busy

\* A program object drops its workspace and takes over another one.
Replace(old, w, from, to) ==
    /\ old # w
    /\ holder[old] = {to}
    /\ holder[w] = {from}
    /\ to \in Programs
    /\ holder' = [holder EXCEPT ![old] = {}, ![w] = {to}]
    /\ exists' \in AfterDrop(old)
    /\ UNCHANGED busy

\* Processes start only for a call that still holds its workspace.
Work(w) ==
    /\ w \in exists
    /\ \E b \in Builders : holder[w] = {b}
    /\ busy' = busy \cup {w}
    /\ UNCHANGED <<exists, holder>>

Rest(w) ==
    /\ w \in busy
    /\ busy' = busy \ {w}
    /\ UNCHANGED <<exists, holder>>

LeaseNext ==
    \E w \in Workspaces :
        \/ \E b \in Builders : Create(w, b)
        \/ \E from \in Builders \cup Programs, to \in Programs :
              \/ Hand(w, from, to)
              \/ \E old \in Workspaces : Replace(old, w, from, to)
        \/ Drop(w)
        \/ Work(w)
        \/ Rest(w)

LeaseSpec == LeaseInit /\ [][LeaseNext]_leaseVars
================================================================================
