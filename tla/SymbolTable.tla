------------------------------ MODULE SymbolTable ------------------------------
(***************************************************************************)
(* SymbolTable: the scopes of a program, the names bound in each, and the  *)
(* symbols, as any caller may use it.  Scope and symbol ids are positions  *)
(* in the vectors of the code, counted from 1.                             *)
(***************************************************************************)
EXTENDS Naturals, Sequences

CONSTANTS
    Names,    \* identifiers
    Symbols   \* what may be inserted: records with a field name

ASSUME SymbolAssumption == \A symbol \in Symbols : symbol.name \in Names

VARIABLES
    parent,   \* scope -> enclosing scope, NoScope for the global one
    binding,  \* scope -> name -> symbol id, NoSymbol if not bound there
    symbols   \* symbol id -> symbol

tableVars == <<parent, binding, symbols>>

NoScope == 0
NoSymbol == 0
GlobalScope == 1
Unbound == [n \in Names |-> NoSymbol]

ScopeIds == DOMAIN parent
SymbolIds == DOMAIN symbols

TableInit ==
    /\ parent = <<NoScope>>
    /\ binding = <<Unbound>>
    /\ symbols = <<>>

CreateChildScope(s) ==
    /\ parent' = Append(parent, s)
    /\ binding' = Append(binding, Unbound)
    /\ UNCHANGED symbols

\* emplace: a name that is bound in the scope keeps its symbol.
Insert(s, symbol) ==
    /\ \/ /\ binding[s][symbol.name] = NoSymbol
          /\ symbols' = Append(symbols, symbol)
          /\ binding' = [binding EXCEPT ![s] = [@ EXCEPT ![symbol.name] = Len(symbols) + 1]]
       \/ /\ binding[s][symbol.name] # NoSymbol
          /\ UNCHANGED <<symbols, binding>>
    /\ UNCHANGED parent

LookupLocal(s, name) == binding[s][name]

TableNext ==
    \E s \in ScopeIds :
        \/ CreateChildScope(s)
        \/ \E symbol \in Symbols : Insert(s, symbol)

TableSpec == TableInit /\ [][TableNext]_tableVars

--------------------------------------------------------------------------------
(* Properties *)

\* Types; and scopes form a tree in which parents are older than their
\* children, so that the walk through enclosing scopes ends.
TableTypeOK ==
    /\ parent \in Seq(Nat)
    /\ symbols \in Seq(Symbols)
    /\ binding \in Seq([Names -> Nat])
    /\ Len(binding) = Len(parent)
    /\ GlobalScope \in ScopeIds
    /\ \A s \in ScopeIds : parent[s] < s /\ (parent[s] = NoScope <=> s = GlobalScope)

\* A binding leads to a symbol of that name, and every symbol is bound in one
\* scope, even if the insertion of its name was refused elsewhere.
SymbolsBoundOnce ==
    /\ \A s \in ScopeIds, n \in Names :
           LookupLocal(s, n) # NoSymbol =>
               LookupLocal(s, n) \in SymbolIds /\ symbols[LookupLocal(s, n)].name = n
    /\ \A id \in SymbolIds : \E s \in ScopeIds : LookupLocal(s, symbols[id].name) = id
    /\ \A s, t \in ScopeIds, n \in Names :
           LookupLocal(s, n) = LookupLocal(t, n) /\ LookupLocal(s, n) # NoSymbol => s = t

\* "IDs remain stable while the table grows": a binding, a parent or a symbol
\* that an id names never changes afterwards.
IdsStable ==
    [][/\ \A id \in SymbolIds : id \in SymbolIds' /\ symbols'[id] = symbols[id]
       /\ \A s \in ScopeIds : s \in ScopeIds' /\ parent'[s] = parent[s]
       /\ \A s \in ScopeIds, n \in Names :
              LookupLocal(s, n) # NoSymbol => LookupLocal(s, n)' = LookupLocal(s, n)]_tableVars
================================================================================
