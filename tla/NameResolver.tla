------------------------------ MODULE NameResolver ------------------------------
(***************************************************************************)
(* NameResolver::resolve(): a second visit of the tree that binds every    *)
(* use of a name to a symbol or a builtin function, or reports it.  A      *)
(* local variable becomes active when the visit has passed its initializer *)
(* and stays active; scopes keep it out of sight elsewhere.                *)
(***************************************************************************)
EXTENDS DeclarationCollector

CONSTANT Builtins  \* the names find_builtin_function() knows

ASSUME BuiltinAssumption == Builtins \subseteq Names

VARIABLES
    at,          \* the node that is visited
    read,        \* index of the next name it uses
    inside,      \* the scope and function_scope arguments of the visits in progress
    active,      \* active_local_variables_, as the set of those that are TRUE
    resolution,  \* ResolutionInfo: <<node, read>> -> symbol id or BuiltinTarget
    reports      \* errors: <<node, read, kind, symbol id the note points to>>

resolverVars == <<at, read, inside, active, resolution, reports>>

BuiltinTarget == NoSymbol
Current == tree[at]
Around == Last(inside)

ResolverInit ==
    /\ at = 1
    /\ read = 1
    /\ inside = <<[scope |-> GlobalScope, function |-> NoScope]>>
    /\ active = {}
    /\ resolution = <<>>
    /\ reports = {}

\* Mutant: every declaration of the scope is visible, also a later one.
VisibleIfDeclared(symbol, s) == TRUE

\* Mutant: parameters too are invisible until activated, which they never are.
ParametersNeedActivation(symbol, s) ==
    \/ symbols[symbol].kind = "function"
    \/ s = GlobalScope
    \/ symbol \in active

Visible(symbol, s) ==
    \/ symbols[symbol].kind # "variable"
    \/ s = GlobalScope
    \/ symbol \in active

\* The walk for a name ends here: there is no scope left, or a declaration is visible.
Stops(name, s) ==
    s # NoScope => LookupLocal(s, name) # NoSymbol /\ Visible(LookupLocal(s, name), s)

\* Where a name used in scope s of a function leads: the walk through the enclosing
\* scopes, and whether it left the function and which declaration that is not visible
\* yet it passed first.
Resolve(name, s, function) ==
    LET walk[t \in 0 .. Len(parent)] ==
            IF Stops(name, t) THEN [scope |-> t, crossed |-> FALSE, later |-> NoSymbol]
            ELSE [scope |-> walk[parent[t]].scope,
                  crossed |-> t = function \/ walk[parent[t]].crossed,
                  later |-> IF LookupLocal(t, name) # NoSymbol THEN LookupLocal(t, name)
                            ELSE walk[parent[t]].later]
        way == walk[s]
        found == LookupLocal(way.scope, name)
    IN  IF way.scope # NoScope THEN
            [target |-> {found},
             error |-> IF /\ way.crossed
                          /\ way.scope # GlobalScope
                          /\ symbols[found].kind \in {"variable", "parameter"}
                       THEN "capture" ELSE "none",
             note |-> found]
        ELSE IF name \in Builtins THEN
            [target |-> {BuiltinTarget}, error |-> "none", note |-> NoSymbol]
        ELSE
            [target |-> {},
             error |-> IF way.later # NoSymbol THEN "before declaration" ELSE "unknown",
             note |-> way.later]

Reads(node) == IF node.kind \in {"variable", "loop", "statement"} THEN node.reads ELSE <<>>

ResolveRead ==
    /\ at <= Len(tree)
    /\ read <= Len(Reads(Current))
    /\ LET result == Resolve(Reads(Current)[read], Around.scope, Around.function) IN
         /\ resolution' = IF result.target = {} THEN resolution
                          ELSE Emplace(resolution, <<at, read>>,
                                       CHOOSE t \in result.target : TRUE)
         /\ reports' = reports \cup IF result.error = "none" THEN {}
                                    ELSE {<<at, read, result.error, result.note>>}
    /\ read' = read + 1
    /\ UNCHANGED <<at, inside, active>>

Activate(declaration) ==
    IF declaration \in DOMAIN symbolOf
    THEN active' = active \cup {symbolOf[declaration]} /\ UNCHANGED reports
    ELSE reports' = reports \cup {<<at, read, "missing", NoSymbol>>} /\ UNCHANGED active

\* The names the node uses are done; what follows is its own part of the visit.
ReadsDone(kind) ==
    /\ at <= Len(tree)
    /\ Current.kind = kind
    /\ read > Len(Reads(Current))
    /\ at' = at + 1
    /\ read' = 1
    /\ UNCHANGED resolution

ResolveVariable ==
    /\ ReadsDone("variable")
    /\ \/ Around.scope = GlobalScope /\ UNCHANGED <<active, reports>>
       \/ Around.scope # GlobalScope /\ Activate(Own(at))
    /\ UNCHANGED inside

ResolveStatement ==
    /\ ReadsDone("statement")
    /\ UNCHANGED <<inside, active, reports>>

Enter(function) ==
    /\ at \in DOMAIN scopeOf
    /\ inside' = Append(inside, [scope |-> scopeOf[at], function |-> function])

ResolveLoop ==
    /\ ReadsDone("loop")
    /\ Activate(Own(at))
    /\ Enter(Around.function)

ResolveChildBlock ==
    /\ ReadsDone("block")
    /\ Enter(Around.function)
    /\ UNCHANGED <<active, reports>>

\* Mutant: the nested function is resolved with the boundary of the outer one.
ResolveFunctionKeepsBoundary ==
    /\ ReadsDone("function")
    /\ Enter(IF Around.function = NoScope THEN scopeOf[at] ELSE Around.function)
    /\ UNCHANGED <<active, reports>>

ResolveFunction ==
    /\ ReadsDone("function")
    /\ Enter(scopeOf[at])
    /\ UNCHANGED <<active, reports>>

ResolveEnd ==
    /\ ReadsDone("end")
    /\ inside' = Front(inside)
    /\ UNCHANGED <<active, reports>>

ResolverNext ==
    \/ ResolveRead
    \/ ResolveVariable
    \/ ResolveStatement
    \/ ResolveLoop
    \/ ResolveChildBlock
    \/ ResolveFunction
    \/ ResolveEnd
================================================================================
