---------------------------- MODULE CompiledProgram ----------------------------
(***************************************************************************)
(* The life of CompiledProgram objects: move-only owners of a workspace    *)
(* directory, whose destructor and move assignment remove the directory    *)
(* and ignore the error if that fails.                                     *)
(***************************************************************************)
CONSTANTS
    Workspaces,  \* workspace directories (paths)
    Callers,     \* threads that call GppCompiler::compile
    Holders,     \* further program objects, results are moved into them
    NoPath,      \* the empty path: a moved-from or cleaned-up object
    Dead         \* an object that is not constructed

\* Caller c's GppCompilationResult::program is the object named c.
Objects == Callers \cup Holders

ASSUME ObjectAssumption ==
    /\ Callers \cap Holders = {}
    /\ NoPath \notin Workspaces
    /\ Dead \notin Workspaces
    /\ NoPath # Dead

VARIABLES
    dirs,   \* workspaces present on disk
    object  \* object -> workspace_path_, NoPath or Dead

\* remove_all(path, ignored): the directory is gone, unless processes that
\* still create files in it (busy) make the removal fail.
AfterRemoveAll(path, busy) ==
    {dirs \ {path}} \cup (IF path \in busy THEN {dirs} ELSE {})

Construct(o, path) ==
    /\ object[o] = Dead
    /\ object' = [object EXCEPT ![o] = path]

MoveConstruct(dst, src) ==
    /\ object[dst] = Dead
    /\ object[src] # Dead
    /\ object' = [object EXCEPT ![dst] = object[src], ![src] = NoPath]
    /\ UNCHANGED dirs

\* Mutant: the source keeps its path.
MoveAssignKeepsSource(dst, src, busy) ==
    /\ object[dst] # Dead
    /\ object[src] # Dead
    /\ dst # src
    /\ dirs' \in AfterRemoveAll(object[dst], busy)
    /\ object' = [object EXCEPT ![dst] = object[src]]

\* cleanup() is skipped on self-assignment: the object keeps its workspace.
MoveAssign(dst, src, busy) ==
    /\ object[dst] # Dead
    /\ object[src] # Dead
    /\ dst # src
    /\ dirs' \in AfterRemoveAll(object[dst], busy)
    /\ object' = [object EXCEPT ![dst] = object[src], ![src] = NoPath]

Destroy(o, busy) ==
    /\ object[o] # Dead
    /\ dirs' \in AfterRemoveAll(object[o], busy)
    /\ object' = [object EXCEPT ![o] = Dead]

ProgramStep(busy) ==
    \/ \E dst \in Holders, src \in Objects : MoveConstruct(dst, src)
    \/ \E dst \in Objects, src \in Objects : MoveAssign(dst, src, busy)
    \/ \E o \in Objects : Destroy(o, busy)
================================================================================
