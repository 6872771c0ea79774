-------------------------- MODULE DeclarationCollector --------------------------
(***************************************************************************)
(* DeclarationCollector::collect(): one visit of the syntax tree, in       *)
(* order, that fills the SymbolTable and DeclarationInfo.  The tree is any *)
(* tree: its next node is chosen when the collector reaches it, and the    *)
(* blocks that are open after the last node end there.  Nodes are:         *)
(*   function   name, parameters, type (of the result); its items follow   *)
(*   variable   name, reads: the names its initializer uses                *)
(*   loop       for-range or for-each: name, reads in its bounds or in its *)
(*              iterable; the items of its body follow                     *)
(*   block      a block statement, a branch or the body of a while: its    *)
(*              items follow                                               *)
(*   statement  any other statement, or a condition: reads                 *)
(*   end        the innermost open body ends                               *)
(***************************************************************************)
EXTENDS SymbolTable, SequencesExt

CONSTANTS
    Nodes,         \* the nodes a tree may have
    MaxNodes,      \* bound on the size of a tree
    MaxParameters  \* bound on the parameters of one function

Kinds == {"function", "variable", "loop", "block", "statement", "end"}

ASSUME NodeAssumption ==
    /\ MaxNodes \in Nat /\ MaxParameters \in Nat
    /\ \A node \in Nodes :
          /\ node.kind \in Kinds
          /\ node.kind \in {"function", "variable", "loop"} => node.name \in Names
          /\ node.kind = "function" =>
                 node.parameters \in Seq(Names) /\ Len(node.parameters) <= MaxParameters
          /\ node.kind \in {"variable", "loop", "statement"} => node.reads \in Seq(Names)

\* A declaration is named by its node and, for a parameter, its position.
Declaration == [node : 1 .. MaxNodes, position : 0 .. MaxParameters]
Own(node) == [node |-> node, position |-> 0]
SymbolKinds == {"function", "parameter", "variable"}

ASSUME SymbolsAssumption ==
    [name : Names, kind : SymbolKinds, declaration : Declaration] \subseteq Symbols

VARIABLES
    tree,          \* the nodes visited so far
    open,          \* enclosing_scope arguments of the visits in progress, innermost last
    step,          \* what the visit of the last node still has to do
    parameter,     \* index of the next parameter to declare
    symbolOf,      \* DeclarationInfo: <<node, parameter>> -> symbol
    scopeOf,       \* DeclarationInfo: node that has a body -> scope
    duplicates     \* errors: <<declaration, symbol id of the previous one>>

infoVars == <<symbolOf, scopeOf>>
collectorVars == <<tableVars, infoVars, tree, open, step, parameter, duplicates>>

Here == Len(tree)
Scope == Last(open)

CollectorInit ==
    /\ TableInit
    /\ tree = <<>>
    /\ open = <<GlobalScope>>
    /\ step = "node"
    /\ parameter = 1
    /\ symbolOf = <<>>
    /\ scopeOf = <<>>
    /\ duplicates = {}

\* record(): a key that is in the map keeps its value.
Emplace(map, key, value) ==
    [k \in DOMAIN map \cup {key} |-> IF k \in DOMAIN map THEN map[k] ELSE value]

\* insert_symbol(), and the record() that follows if it was not a duplicate.
Declare(s, kind, name, declaration) ==
    /\ Insert(s, [name |-> name, kind |-> kind, declaration |-> declaration])
    /\ \/ /\ LookupLocal(s, name) = NoSymbol
          /\ symbolOf' = Emplace(symbolOf, declaration, Len(symbols) + 1)
          /\ UNCHANGED duplicates
       \/ /\ LookupLocal(s, name) # NoSymbol
          /\ duplicates' = duplicates \cup {<<declaration, LookupLocal(s, name)>>}
          /\ UNCHANGED symbolOf

Arrives(node) ==
    /\ step = "node"
    /\ Len(tree) < MaxNodes
    /\ tree' = Append(tree, node)

\* The name is declared in the enclosing scope, before the function's scope exists.
CollectFunction(node) ==
    /\ node.kind = "function"
    /\ Arrives(node)
    /\ Declare(Scope, "function", node.name, Own(Here + 1))
    /\ step' = "body"
    /\ UNCHANGED <<scopeOf, open, parameter>>

CollectVariable(node) ==
    /\ node.kind = "variable"
    /\ Arrives(node)
    /\ Declare(Scope, "variable", node.name, Own(Here + 1))
    /\ UNCHANGED <<scopeOf, open, step, parameter>>

CollectBlockNode(node) ==
    /\ node.kind \in {"loop", "block"}
    /\ Arrives(node)
    /\ Len(open) > 1
    /\ step' = "body"
    /\ UNCHANGED <<tableVars, infoVars, open, parameter, duplicates>>

CollectStatement(node) ==
    /\ node.kind = "statement"
    /\ Arrives(node)
    /\ Len(open) > 1
    /\ UNCHANGED <<tableVars, infoVars, open, step, parameter, duplicates>>

CollectEnd(node) ==
    /\ node.kind = "end"
    /\ Arrives(node)
    /\ Len(open) > 1
    /\ open' = Front(open)
    /\ UNCHANGED <<tableVars, infoVars, step, parameter, duplicates>>

\* create_child_scope(), for the body of the node and for what it binds there.
EnterBody ==
    /\ step = "body"
    /\ CreateChildScope(Scope)
    /\ scopeOf' = Emplace(scopeOf, Here, Len(parent) + 1)
    /\ open' = Append(open, Len(parent) + 1)
    /\ step' = CASE tree[Here].kind = "function" -> "parameters"
                 [] tree[Here].kind = "loop" -> "binding"
                 [] tree[Here].kind = "block" -> "node"
    /\ parameter' = 1
    /\ UNCHANGED <<tree, symbolOf, duplicates>>

\* Parameters share the scope of the function's body.
CollectParameter ==
    /\ step = "parameters"
    /\ parameter \in DOMAIN tree[Here].parameters
    /\ Declare(Scope, "parameter", tree[Here].parameters[parameter],
               [node |-> Here, position |-> parameter])
    /\ parameter' = parameter + 1
    /\ UNCHANGED <<scopeOf, tree, open, step>>

ParametersDone ==
    /\ step = "parameters"
    /\ parameter > Len(tree[Here].parameters)
    /\ step' = "node"
    /\ UNCHANGED <<tableVars, infoVars, tree, open, parameter, duplicates>>

\* Mutant: the variable of a loop is declared around the loop.
CollectLoopBindingOutside ==
    /\ step = "binding"
    /\ Declare(open[Len(open) - 1], "variable", tree[Here].name, Own(Here))
    /\ step' = "node"
    /\ UNCHANGED <<scopeOf, tree, open, parameter>>

\* The variable of a loop lives in the scope of its body.
CollectLoopBinding ==
    /\ step = "binding"
    /\ Declare(Scope, "variable", tree[Here].name, Own(Here))
    /\ step' = "node"
    /\ UNCHANGED <<scopeOf, tree, open, parameter>>

Visit(node) ==
    \/ CollectFunction(node)
    \/ CollectVariable(node)
    \/ CollectBlockNode(node)
    \/ CollectStatement(node)
    \/ CollectEnd(node)

CollectorNext ==
    \/ \E node \in Nodes : Visit(node)
    \/ EnterBody
    \/ CollectParameter
    \/ ParametersDone
    \/ CollectLoopBinding

CollectorSpec == CollectorInit /\ [][CollectorNext]_collectorVars
================================================================================
