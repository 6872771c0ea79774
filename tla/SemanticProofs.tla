---------------------------- MODULE SemanticProofs ----------------------------
(***************************************************************************)
(* TLAPS proofs about the semantic phases: SymbolTable, for any names,     *)
(* symbols and calls; TypeContext, for any number of types and any caller; *)
(* and the passes of NameAnalysis, for trees of any size.                  *)
(*                                                                         *)
(* The scoping rules of NameAnalysis find the regions of a program by      *)
(* counting bodies and ends.  The first part of the proofs about the       *)
(* passes turns that into regions that nest (Regions, Inner) and tells how *)
(* they change from one node to the next.  CollectorInv says which scope   *)
(* each region has, and which declaration is bound or reported there;      *)
(* ResolverInv which visits are in progress, which variables are active,   *)
(* and that the uses that are passed have got their meaning.  NameInv puts *)
(* the two together with the phase the compilation is in.                  *)
(***************************************************************************)
EXTENDS NameAnalysis, TypeContext, TLAPS, FiniteSetTheorems, SequenceTheorems,
        WellFoundedInduction

-----------------------------------------------------------------------------
(* The symbol table *)
TableInv == TableTypeOK /\ SymbolsBoundOnce

\* The table starts sound.
LEMMA EmptyTable == TableInit => TableInv
  BY DEF TableInit, TableInv, TableTypeOK, SymbolsBoundOnce, ScopeIds, SymbolIds, LookupLocal,
         Unbound, NoScope, NoSymbol, GlobalScope

\* A new scope keeps the table sound.
LEMMA ScopeKeepsTable ==
    ASSUME TableInv, NEW s \in ScopeIds, CreateChildScope(s)
    PROVE  TableInv'
<1> DEFINE new == Len(parent) + 1
<1> USE DEF ScopeIds, SymbolIds, LookupLocal
<1>1. /\ parent \in Seq(Nat) /\ binding \in Seq([Names -> Nat])
      /\ symbols \in Seq(Symbols) /\ Len(binding) = Len(parent)
      /\ DOMAIN parent = 1 .. Len(parent) /\ s \in 1 .. Len(parent) /\ Len(parent) \in Nat
  BY DEF TableInv, TableTypeOK
<1>2. /\ Len(parent') = new /\ Len(binding') = new /\ symbols' = symbols
      /\ parent'[new] = s /\ binding'[new] = Unbound
  BY <1>1 DEF CreateChildScope
<1>3. \A t \in 1 .. Len(parent) : parent'[t] = parent[t] /\ binding'[t] = binding[t]
  BY <1>1 DEF CreateChildScope
<1>4. Unbound \in [Names -> Nat] /\ \A n \in Names : Unbound[n] = NoSymbol
  BY DEF Unbound, NoSymbol
<1>5. TableTypeOK'
  <2>1. parent' \in Seq(Nat) /\ binding' \in Seq([Names -> Nat])
    BY <1>1, <1>4 DEF CreateChildScope
  <2>2. \A t \in 1 .. Len(parent) :
            parent'[t] < t /\ (parent'[t] = NoScope <=> t = GlobalScope)
    BY <1>1, <1>3 DEF TableInv, TableTypeOK
  <2>3. parent'[new] < new /\ parent'[new] # NoScope /\ new # GlobalScope
    BY <1>1, <1>2 DEF NoScope, GlobalScope
  <2>4. DOMAIN parent' = 1 .. new /\ GlobalScope \in 1 .. new
    BY <1>1, <1>2, <2>1 DEF GlobalScope
  <2>5. \A t \in 1 .. new : t \in 1 .. Len(parent) \/ t = new
    BY <1>1
  <2>6. QED
    BY <1>1, <1>2, <2>1, <2>2, <2>3, <2>4, <2>5 DEF TableTypeOK
<1>6. SymbolsBoundOnce'
  <2>1. \A t \in 1 .. new : t \in 1 .. Len(parent) \/ t = new
    BY <1>1
  <2>2. DOMAIN parent' = 1 .. new /\ DOMAIN parent = 1 .. Len(parent)
    BY <1>1, <1>2 DEF CreateChildScope
  <2>3. QED
    BY <1>2, <1>3, <1>4, <2>1, <2>2 DEF TableInv, SymbolsBoundOnce
<1>7. QED
  BY <1>5, <1>6 DEF TableInv

\* An insertion keeps the table sound.
LEMMA InsertKeepsTable ==
    ASSUME TableInv, NEW s \in ScopeIds, NEW symbol \in Symbols, Insert(s, symbol)
    PROVE  TableInv'
<1> USE DEF ScopeIds, SymbolIds, LookupLocal
<1>1. CASE UNCHANGED <<symbols, binding, parent>>
  BY <1>1 DEF TableInv, TableTypeOK, SymbolsBoundOnce
<1>2. CASE /\ binding[s][symbol.name] = NoSymbol
           /\ symbols' = Append(symbols, symbol)
           /\ binding' = [binding EXCEPT ![s] =
                             [@ EXCEPT ![symbol.name] = Len(symbols) + 1]]
           /\ UNCHANGED parent
  <2> DEFINE id == Len(symbols) + 1
             name == symbol.name
  <2>1. /\ parent \in Seq(Nat) /\ binding \in Seq([Names -> Nat])
        /\ symbols \in Seq(Symbols) /\ Len(binding) = Len(parent)
        /\ name \in Names /\ s \in 1 .. Len(parent)
        /\ DOMAIN parent = 1 .. Len(parent) /\ DOMAIN symbols = 1 .. Len(symbols)
        /\ Len(symbols) \in Nat
    BY SymbolAssumption DEF TableInv, TableTypeOK
  <2>2. /\ symbols' \in Seq(Symbols) /\ Len(symbols') = id /\ symbols'[id] = symbol
        /\ \A k \in 1 .. Len(symbols) : symbols'[k] = symbols[k]
    BY <1>2, <2>1
  <2>3. \A t \in 1 .. Len(parent), n \in Names :
            binding'[t][n] = IF t = s /\ n = name THEN id ELSE binding[t][n]
    <3> TAKE t \in 1 .. Len(parent), n \in Names
    <3> HIDE DEF id
    <3>1. t \in DOMAIN binding /\ n \in DOMAIN binding[t]
      BY <2>1
    <3>2. binding' = [binding EXCEPT ![s] = [binding[s] EXCEPT ![name] = id]]
      BY <1>2 DEF id
    <3>3. CASE t = s
      <4>1. binding'[t] = [binding[s] EXCEPT ![name] = id]
        BY <3>1, <3>2, <3>3
      <4>2. QED
        BY <3>1, <3>3, <4>1
    <3>4. CASE t # s
      BY <3>1, <3>2, <3>4
    <3>5. QED
      BY <3>3, <3>4
  <2>4. binding' \in Seq([Names -> Nat]) /\ Len(binding') = Len(parent)
    <3>1. [binding[s] EXCEPT ![name] = id] \in [Names -> Nat]
      BY <2>1
    <3>2. QED
      BY <1>2, <2>1, <3>1
  <2>5. TableTypeOK'
    BY <1>2, <2>2, <2>4 DEF TableInv, TableTypeOK
  <2>6. \A t \in 1 .. Len(parent), n \in Names :
            binding[t][n] # NoSymbol => binding[t][n] \in 1 .. Len(symbols)
    BY <2>1 DEF TableInv, SymbolsBoundOnce
  <2>7. ASSUME NEW t \in 1 .. Len(parent), NEW n \in Names, binding'[t][n] # NoSymbol
        PROVE binding'[t][n] \in 1 .. id /\ symbols'[binding'[t][n]].name = n
    <3>1. CASE t = s /\ n = name
      BY <2>1, <2>2, <2>3, <3>1
    <3>2. CASE ~(t = s /\ n = name)
      <4>1. binding'[t][n] = binding[t][n] /\ binding[t][n] # NoSymbol
        BY <2>3, <2>7, <3>2
      <4>2. /\ binding[t][n] \in 1 .. Len(symbols)
            /\ symbols[binding[t][n]].name = n
        BY <2>1, <4>1 DEF TableInv, SymbolsBoundOnce
      <4>3. QED
        BY <2>1, <2>2, <4>1, <4>2
    <3>3. QED
      BY <3>1, <3>2
  <2>8. ASSUME NEW k \in 1 .. id
        PROVE \E t \in 1 .. Len(parent) : binding'[t][symbols'[k].name] = k
    <3>1. CASE k = id
      BY <2>1, <2>2, <2>3, <3>1
    <3>2. CASE k # id
      <4>1. k \in 1 .. Len(symbols) /\ symbols'[k] = symbols[k] /\ symbols[k].name \in Names
        BY <2>1, <2>2, <3>2, SymbolAssumption
      <4>2. PICK t \in 1 .. Len(parent) : binding[t][symbols[k].name] = k
        BY <2>1, <4>1 DEF TableInv, SymbolsBoundOnce
      <4>3. ~(t = s /\ symbols[k].name = name)
        BY <1>2, <4>1, <4>2 DEF NoSymbol
      <4>4. QED
        BY <2>3, <4>1, <4>2, <4>3
    <3>3. QED
      BY <3>1, <3>2
  <2>9. ASSUME NEW t \in 1 .. Len(parent), NEW u \in 1 .. Len(parent), NEW n \in Names,
               binding'[t][n] = binding'[u][n], binding'[t][n] # NoSymbol
        PROVE t = u
    <3>1. ASSUME NEW v \in 1 .. Len(parent), NEW m \in Names
          PROVE binding[v][m] # id
      <4>1. CASE binding[v][m] = NoSymbol
        BY <2>1, <4>1 DEF NoSymbol
      <4>2. CASE binding[v][m] # NoSymbol
        <5>1. binding[v][m] \in 1 .. Len(symbols)
          BY <2>6, <4>2
        <5>2. Len(symbols) \in Nat /\ id = Len(symbols) + 1
          BY <2>1
        <5>3. \A k \in 1 .. Len(symbols) : k # Len(symbols) + 1
          BY <5>2
        <5>4. QED
          BY <5>1, <5>2, <5>3
      <4>3. QED
        BY <4>1, <4>2
    <3>2. ASSUME NEW v \in 1 .. Len(parent), NEW w \in 1 .. Len(parent),
                 binding[v][n] = binding[w][n], binding[v][n] # NoSymbol
          PROVE v = w
      <4>1. \A x, y \in DOMAIN parent, m \in Names :
                binding[x][m] = binding[y][m] /\ binding[x][m] # NoSymbol => x = y
        BY DEF TableInv, SymbolsBoundOnce
      <4>2. QED
        BY <2>1, <3>2, <4>1
    <3>3. CASE n = name /\ (t = s \/ u = s)
      <4>1. binding'[t][n] = id /\ binding'[u][n] = id
        BY <2>3, <2>9, <3>3
      <4>2. t = s /\ u = s
        BY <2>3, <3>1, <4>1
      <4>3. QED
        BY <4>2
    <3>4. CASE ~(n = name /\ (t = s \/ u = s))
      <4>1. binding'[t][n] = binding[t][n] /\ binding'[u][n] = binding[u][n]
        BY <2>3, <3>4
      <4>2. QED
        BY <2>9, <3>2, <4>1
    <3>5. QED
      BY <3>3, <3>4
  <2>10. DOMAIN parent' = 1 .. Len(parent) /\ DOMAIN symbols' = 1 .. id
    BY <1>2, <2>1, <2>2
  <2>11. SymbolsBoundOnce'
    <3>1. \A t \in DOMAIN parent', n \in Names :
              binding'[t][n] # NoSymbol =>
                  binding'[t][n] \in DOMAIN symbols' /\ symbols'[binding'[t][n]].name = n
      BY <2>7, <2>10
    <3>2. \A k \in DOMAIN symbols' :
              \E t \in DOMAIN parent' : binding'[t][symbols'[k].name] = k
      BY <2>8, <2>10
    <3>3. \A t, u \in DOMAIN parent', n \in Names :
              binding'[t][n] = binding'[u][n] /\ binding'[t][n] # NoSymbol => t = u
      BY <2>9, <2>10
    <3>4. QED
      BY <3>1, <3>2, <3>3 DEF SymbolsBoundOnce
  <2>12. QED
    BY <2>5, <2>11 DEF TableInv
<1>3. QED
  BY <1>1, <1>2 DEF Insert

(***************************************************************************)
(* However the table is filled, scopes form a tree, and names, bindings    *)
(* and symbols correspond: every symbol is bound once, under its name.     *)
(***************************************************************************)
THEOREM TableCorrect == TableSpec => [](TableTypeOK /\ SymbolsBoundOnce)
<1>1. TableInv /\ [TableNext]_tableVars => TableInv'
  <2>1. ASSUME TableInv, UNCHANGED tableVars
        PROVE TableInv'
    BY <2>1 DEF tableVars, TableInv, TableTypeOK, SymbolsBoundOnce, ScopeIds, SymbolIds,
                LookupLocal
  <2>2. QED
    BY <2>1, ScopeKeepsTable, InsertKeepsTable DEF TableNext
<1>2. QED
  BY <1>1, EmptyTable, PTL DEF TableSpec, TableInv

\* A step of the table keeps what ids mean.
LEMMA StepKeepsIds ==
    ASSUME TableInv, [TableNext]_tableVars
    PROVE  /\ \A id \in SymbolIds : id \in SymbolIds' /\ symbols'[id] = symbols[id]
           /\ \A s \in ScopeIds : s \in ScopeIds' /\ parent'[s] = parent[s]
           /\ \A s \in ScopeIds, n \in Names :
                  LookupLocal(s, n) # NoSymbol => LookupLocal(s, n)' = LookupLocal(s, n)
<1> USE DEF ScopeIds, SymbolIds, LookupLocal
<1>1. /\ parent \in Seq(Nat) /\ binding \in Seq([Names -> Nat])
      /\ symbols \in Seq(Symbols) /\ Len(binding) = Len(parent)
      /\ DOMAIN parent = 1 .. Len(parent) /\ DOMAIN symbols = 1 .. Len(symbols)
      /\ Len(parent) \in Nat /\ Len(symbols) \in Nat
  BY DEF TableInv, TableTypeOK
<1>2. CASE UNCHANGED tableVars
  BY <1>2 DEF tableVars
<1>3. ASSUME NEW s \in ScopeIds, CreateChildScope(s)
      PROVE /\ \A id \in SymbolIds : id \in SymbolIds' /\ symbols'[id] = symbols[id]
            /\ \A t \in ScopeIds : t \in ScopeIds' /\ parent'[t] = parent[t]
            /\ \A t \in ScopeIds : binding'[t] = binding[t]
  <2>1. parent' = Append(parent, s) /\ binding' = Append(binding, Unbound) /\ symbols' = symbols
    BY <1>3 DEF CreateChildScope
  <2>2. \A t \in 1 .. Len(parent) : parent'[t] = parent[t] /\ binding'[t] = binding[t]
    BY <1>1, <2>1
  <2>3. DOMAIN parent' = 1 .. Len(parent) + 1
    BY <1>1, <1>3, <2>1
  <2>4. QED
    BY <1>1, <2>1, <2>2, <2>3
<1>4. ASSUME NEW s \in ScopeIds, NEW symbol \in Symbols, Insert(s, symbol)
      PROVE /\ \A id \in SymbolIds : id \in SymbolIds' /\ symbols'[id] = symbols[id]
            /\ parent' = parent
            /\ \A t \in ScopeIds, n \in Names :
                   binding[t][n] # NoSymbol => binding'[t][n] = binding[t][n]
  <2>1. CASE UNCHANGED <<symbols, binding>>
    BY <1>4, <2>1 DEF Insert
  <2>2. CASE /\ binding[s][symbol.name] = NoSymbol
             /\ symbols' = Append(symbols, symbol)
             /\ binding' = [binding EXCEPT ![s] =
                               [@ EXCEPT ![symbol.name] = Len(symbols) + 1]]
    <3>1. /\ \A id \in 1 .. Len(symbols) : symbols'[id] = symbols[id]
          /\ DOMAIN symbols' = 1 .. Len(symbols) + 1
      BY <1>1, <2>2
    <3>2. \A t \in ScopeIds, n \in Names :
              binding[t][n] # NoSymbol => binding'[t][n] = binding[t][n]
      BY <1>1, <2>2
    <3>3. QED
      BY <1>1, <1>4, <3>1, <3>2 DEF Insert
  <2>3. QED
    BY <1>4, <2>1, <2>2 DEF Insert
<1>5. QED
  BY <1>2, <1>3, <1>4 DEF TableNext

(***************************************************************************)
(* Ids stay valid while the table grows: what a symbol id, a scope id or a *)
(* successful local lookup gave once, it gives for ever.                   *)
(***************************************************************************)
THEOREM IdsAreStable == TableSpec => IdsStable
<1>1. TableInv /\ [TableNext]_tableVars =>
          [/\ \A id \in SymbolIds : id \in SymbolIds' /\ symbols'[id] = symbols[id]
           /\ \A s \in ScopeIds : s \in ScopeIds' /\ parent'[s] = parent[s]
           /\ \A s \in ScopeIds, n \in Names :
                  LookupLocal(s, n) # NoSymbol => LookupLocal(s, n)' = LookupLocal(s, n)]_tableVars
  BY StepKeepsIds
<1>2. TableSpec => []TableInv
  BY TableCorrect, PTL DEF TableInv
<1>3. QED
  BY <1>1, <1>2, PTL DEF TableSpec, IdsStable

-----------------------------------------------------------------------------
(* The type context *)
TypeInv == TypesWellFounded /\ IdsCanonical

\* The types start sound.
LEMMA InitiallySound == TypeContextInit => TypeInv
<1> SUFFICES ASSUME TypeContextInit PROVE TypeInv
  OBVIOUS
<1> USE DEF TypeContextInit, PrimitiveKinds, Primitive, Vector, NoType, TypeIds
<1>1. types \in Seq([kind : {"vector", "int", "bool", "char", "string", "void"}, element : Nat])
      /\ Len(types) = 5
  OBVIOUS
<1>2. TypesWellFounded
  BY <1>1 DEF TypesWellFounded
<1>3. IdsCanonical
  BY <1>1 DEF IdsCanonical
<1>4. QED
  BY <1>2, <1>3 DEF TypeInv

\* A call of vector_type() changes nothing or appends a new vector type.
LEMMA VectorAppends ==
    ASSUME TypeInv, NEW element \in Nat, VectorType(element)
    PROVE  \/ types' = types
           \/ /\ types' = Append(types, Vector(element))
              /\ element \in TypeIds /\ element # VoidTypeId
              /\ Interned(types, element) = {}
<1>1. CASE IsElement(types, element) /\ Interned(types, element) = {}
  <2>1. types' = Append(types, Vector(element))
    BY <1>1 DEF VectorType, WithVector
  <2>2. element # VoidTypeId
    BY <1>1 DEF IsElement, TypeInv, TypesWellFounded, VoidTypeId, PrimitiveKinds
  <2>3. QED
    BY <1>1, <2>1, <2>2 DEF IsElement, TypeIds
<1>2. CASE ~(IsElement(types, element) /\ Interned(types, element) = {})
  BY <1>2 DEF VectorType, WithVector
<1>3. QED
  BY <1>1, <1>2

\* A vector type that is added or found keeps them sound.
LEMMA VectorKeepsSound ==
    ASSUME TypeInv, NEW element \in Nat, VectorType(element)
    PROVE  /\ TypeInv'
           /\ \A id \in TypeIds : id \in TypeIds' /\ types'[id] = types[id]
<1> DEFINE Type == [kind : {"vector", "int", "bool", "char", "string", "void"}, element : Nat]
<1>1. CASE types' = types
  BY <1>1 DEF TypeInv, TypesWellFounded, IdsCanonical, TypeIds
<1>2. CASE /\ types' = Append(types, Vector(element))
           /\ element \in TypeIds /\ element # VoidTypeId
           /\ Interned(types, element) = {}
  <2>1. types \in Seq(Type) /\ Len(types) \in Nat /\ Len(types) >= 5
    BY DEF TypeInv, TypesWellFounded
  <2>2. Vector(element) \in Type /\ Vector(element).element = element
    BY DEF Vector
  <2>3. /\ types' \in Seq(Type)
        /\ Len(types') = Len(types) + 1
        /\ TypeIds' = 1 .. Len(types) + 1
        /\ TypeIds = 1 .. Len(types)
        /\ types'[Len(types) + 1] = Vector(element)
        /\ \A id \in TypeIds : types'[id] = types[id]
    BY <1>2, <2>1, <2>2 DEF TypeIds
  <2>0. \A id \in TypeIds' : id \in TypeIds \/ id = Len(types) + 1
    BY <2>1, <2>3
  <2>4. TypesWellFounded'
    <3>1. \A id \in 1 .. 5 : types'[id] = Primitive(PrimitiveKinds[id])
      <4>1. \A id \in 1 .. 5 : types[id] = Primitive(PrimitiveKinds[id])
        BY DEF TypeInv, TypesWellFounded
      <4>2. \A id \in 1 .. 5 : id \in TypeIds
        BY <2>1, <2>3
      <4>3. QED
        BY <2>3, <4>1, <4>2
    <3>2. ASSUME NEW id \in TypeIds', id > 5
          PROVE  /\ types'[id] = Vector(types'[id].element)
                 /\ types'[id].element \in 1 .. id - 1
                 /\ types'[id].element # VoidTypeId
      <4>1. CASE id \in TypeIds
        BY <2>3, <3>2, <4>1 DEF TypeInv, TypesWellFounded
      <4>2. CASE id = Len(types) + 1
        <5>1. types'[id].element = element /\ types'[id] = Vector(element)
          BY <2>2, <2>3, <4>2
        <5>2. element \in 1 .. id - 1
          BY <1>2, <2>1, <2>3, <4>2
        <5>3. QED
          BY ONLY <1>2, <5>1, <5>2
      <4>3. QED
        BY <2>0, <3>2, <4>1, <4>2
    <3>3. \A id \in TypeIds' : id > 5 =>
              /\ types'[id] = Vector(types'[id].element)
              /\ types'[id].element \in 1 .. id - 1
              /\ types'[id].element # VoidTypeId
      BY <3>2
    <3>4. Len(types') >= 5
      BY <2>1, <2>3
    <3>5. QED
      BY ONLY <2>3, <3>1, <3>3, <3>4 DEF TypesWellFounded
  <2>5. IdsCanonical'
    <3>1. \A id \in TypeIds : types[id] # Vector(element)
      BY <1>2 DEF Interned, TypeIds
    <3>2. ASSUME NEW id \in TypeIds', NEW other \in TypeIds', types'[id] = types'[other]
          PROVE  id = other
      <4>1. CASE id \in TypeIds /\ other \in TypeIds
        BY <2>3, <3>2, <4>1 DEF TypeInv, IdsCanonical
      <4>2. CASE id \in TypeIds /\ other = Len(types) + 1
        BY <2>3, <3>1, <3>2, <4>2
      <4>3. CASE id = Len(types) + 1 /\ other \in TypeIds
        BY <2>3, <3>1, <3>2, <4>3
      <4>4. CASE id = Len(types) + 1 /\ other = Len(types) + 1
        BY <4>4
      <4>5. QED
        BY <2>0, <3>2, <4>1, <4>2, <4>3, <4>4
    <3>3. QED
      BY <3>2 DEF IdsCanonical
  <2>6. QED
    BY <2>1, <2>3, <2>4, <2>5 DEF TypeInv
<1>3. QED
  BY <1>1, <1>2, VectorAppends

(***************************************************************************)
(* The types of any program are well founded and no type has two ids.      *)
(***************************************************************************)
THEOREM ContextSound == TypeContextSpec => [](TypesWellFounded /\ IdsCanonical)
<1>1. TypeInv /\ [TypeContextNext]_types => TypeInv'
  <2>1. CASE TypeContextNext
    BY <2>1, VectorKeepsSound DEF TypeContextNext
  <2>2. CASE UNCHANGED types
    BY <2>2 DEF TypeInv, TypesWellFounded, IdsCanonical, TypeIds
  <2>3. QED
    BY <2>1, <2>2
<1>2. QED
  BY <1>1, InitiallySound, PTL DEF TypeContextSpec, TypeInv

(***************************************************************************)
(* A type id never changes its meaning while types are added.              *)
(***************************************************************************)
THEOREM IdsKeepMeaning == TypeContextSpec => TypeIdsStable
<1>1. TypeInv /\ [TypeContextNext]_types =>
          [\A id \in TypeIds : id \in TypeIds' /\ types'[id] = types[id]]_types
  BY VectorKeepsSound DEF TypeContextNext
<1>2. TypeContextSpec => []TypeInv
  BY ContextSound, PTL DEF TypeInv
<1>3. QED
  BY <1>1, <1>2, PTL DEF TypeContextSpec, TypeIdsStable

-----------------------------------------------------------------------------
(* Regions, read off the nodes before a place *)

Opens(t, i) == t[i].kind \in {"function", "loop", "block"}
Shuts(t, i) == t[i].kind = "end"
Rising(t, i) == {j \in 1 .. i - 1 : Opens(t, j)}
Ending(t, i) == {j \in 1 .. i - 1 : Shuts(t, j)}
Level(t, i) == Cardinality(Rising(t, i)) - Cardinality(Ending(t, i))

\* Body j is open at node i.
Holds(t, j, i) ==
    /\ j \in 1 .. i - 1 /\ Opens(t, j)
    /\ \A k \in j + 1 .. i - 1 : Shuts(t, k) => Level(t, k + 1) >= Level(t, j + 1)

\* The regions around node i, and the innermost one.
Regions(t, i) == {Program} \cup {j \in 1 .. i - 1 : Holds(t, j, i)}
Inner(t, i) == Max(Regions(t, i))

\* Only what is open is ended.
Whole(t) ==
    /\ t \in Seq(Nodes)
    /\ \A i \in 1 .. Len(t) : Shuts(t, i) => Inner(t, i) # Program

-----------------------------------------------------------------------------
(* Numbers *)

\* Induction over the natural numbers.
LEMMA NatInd ==
    ASSUME NEW T, 0 \in T, \A n \in Nat : n \in T => n + 1 \in T
    PROVE  Nat \subseteq T
<1> SUFFICES ASSUME Nat \ T # {} PROVE FALSE
  OBVIOUS
<1> DEFINE below == {pair \in Nat \X Nat : pair[1] < pair[2]}
<1>1. IsWellFoundedOn(below, Nat)
  BY NatLessThanWellFounded DEF OpToRel
<1> HIDE DEF below
<1>2. PICK n \in Nat \ T : \A m \in Nat \ T : <<m, n>> \notin below
  <2>1. Nat \ T \subseteq Nat
    OBVIOUS
  <2>2. QED
    BY <1>1, <2>1, WFMin
<1>3. n # 0 /\ n - 1 \in Nat
  BY <1>2
<1>4. <<n - 1, n>> \in below
  BY <1>3 DEF below
<1>5. n - 1 \in T
  BY <1>2, <1>3, <1>4
<1>6. QED
  BY <1>2, <1>3, <1>5

\* The same, with the claim for all smaller numbers.
LEMMA StrongInd ==
    ASSUME NEW T, \A n \in Nat : (\A m \in 0 .. n - 1 : m \in T) => n \in T
    PROVE  Nat \subseteq T
<1> DEFINE S == {n \in Nat : \A m \in 0 .. n - 1 : m \in T}
<1>1. 0 \in S
  OBVIOUS
<1>2. \A n \in Nat : n \in S => n + 1 \in S
  <2>1. ASSUME NEW n \in Nat, n \in S PROVE n + 1 \in S
    <3>1. n \in T
      BY <2>1
    <3>2. \A m \in 0 .. (n + 1) - 1 : m \in 0 .. n - 1 \/ m = n
      OBVIOUS
    <3>3. QED
      BY <2>1, <3>1, <3>2
  <2>2. QED
    BY <2>1
<1>3. Nat \subseteq S
  <2> HIDE DEF S
  <2>1. QED
    BY <1>1, <1>2, NatInd
<1>4. QED
  BY <1>3

\* A set of numbers up to n has a greatest one.
LEMMA Greatest ==
    ASSUME NEW n \in Nat, NEW S, S \subseteq 0 .. n, S # {}
    PROVE  /\ Max(S) \in S /\ Max(S) \in Nat
           /\ \A k \in S : k <= Max(S)
           /\ \A m \in S : (\A k \in S : k <= m) => m = Max(S)
<1> DEFINE T == {i \in Nat : (\E k \in S : k <= i) =>
                     \E m \in S : m <= i /\ \A k \in S : k <= i => k <= m}
<1>1. 0 \in T
  OBVIOUS
<1>2. ASSUME NEW i \in Nat, i \in T PROVE i + 1 \in T
  <2>1. CASE i + 1 \in S
    BY <2>1
  <2>2. CASE i + 1 \notin S
    <3>1. \A k \in S : k <= i + 1 <=> k <= i
      BY <2>2
    <3>2. QED
      BY <1>2, <3>1
  <2>3. QED
    BY <2>1, <2>2
<1>3. \A i \in Nat : i \in T => i + 1 \in T
  BY <1>2
<1> HIDE DEF T
<1>4. n \in T
  BY <1>1, <1>3, NatInd
<1>5. (\E k \in S : k <= n) => \E m \in S : m <= n /\ \A k \in S : k <= n => k <= m
  BY <1>4 DEF T
<1>6. \A k \in S : k <= n /\ k \in Nat
  OBVIOUS
<1>7. \E m \in S : \A k \in S : m >= k
  BY <1>5, <1>6
<1>8. PICK m : m = CHOOSE x \in S : \A y \in S : x >= y
  OBVIOUS
<1>9. m \in S /\ \A y \in S : m >= y
  BY <1>7, <1>8
<1>10. Max(S) = m
  BY <1>8 DEF Max
<1>11. QED
  BY <1>6, <1>9, <1>10

-----------------------------------------------------------------------------
(* Levels *)

\* Trees are sequences of nodes.
LEMMA NodeFacts ==
    ASSUME NEW t \in Seq(Nodes)
    PROVE  /\ Len(t) \in Nat /\ DOMAIN t = 1 .. Len(t)
           /\ \A i \in 1 .. Len(t) : t[i] \in Nodes /\ t[i].kind \in Kinds
BY NodeAssumption

\* The nodes that are counted are finitely many.
LEMMA CountsFinite ==
    ASSUME NEW t, NEW i \in Nat \ {0}
    PROVE  /\ IsFiniteSet(Rising(t, i)) /\ Cardinality(Rising(t, i)) \in Nat
           /\ IsFiniteSet(Ending(t, i)) /\ Cardinality(Ending(t, i)) \in Nat
           /\ Level(t, i) \in Int
<1>1. IsFiniteSet(1 .. i - 1)
  BY FS_Interval
<1>2. Rising(t, i) \in SUBSET (1 .. i - 1) /\ Ending(t, i) \in SUBSET (1 .. i - 1)
  BY DEF Rising, Ending
<1>3. /\ IsFiniteSet(Rising(t, i)) /\ Cardinality(Rising(t, i)) \in Nat
      /\ IsFiniteSet(Ending(t, i)) /\ Cardinality(Ending(t, i)) \in Nat
  BY <1>1, <1>2, FS_Subset, FS_CardinalityType
<1>4. QED
  BY <1>3 DEF Level

\* The level changes by one at a body, and at an end.
LEMMA LevelNext ==
    ASSUME NEW t, NEW i \in Nat \ {0}
    PROVE  /\ Opens(t, i) => Level(t, i + 1) = Level(t, i) + 1
           /\ Shuts(t, i) => Level(t, i + 1) = Level(t, i) - 1
           /\ ~Opens(t, i) /\ ~Shuts(t, i) => Level(t, i + 1) = Level(t, i)
<1>1. Opens(t, i) => ~Shuts(t, i)
  BY DEF Opens, Shuts
<1>2. i \notin Rising(t, i) /\ i \notin Ending(t, i)
  BY DEF Rising, Ending
<1>3. ~Opens(t, i) => Rising(t, i + 1) = Rising(t, i)
  BY DEF Rising
<1>4. ~Shuts(t, i) => Ending(t, i + 1) = Ending(t, i)
  BY DEF Ending
<1>5. Opens(t, i) => Cardinality(Rising(t, i + 1)) = Cardinality(Rising(t, i)) + 1
  <2>1. Opens(t, i) => Rising(t, i + 1) = Rising(t, i) \cup {i}
    BY DEF Rising
  <2>2. QED
    BY <1>2, <2>1, CountsFinite, FS_AddElement
<1>6. Shuts(t, i) => Cardinality(Ending(t, i + 1)) = Cardinality(Ending(t, i)) + 1
  <2>1. Shuts(t, i) => Ending(t, i + 1) = Ending(t, i) \cup {i}
    BY DEF Ending
  <2>2. QED
    BY <1>2, <2>1, CountsFinite, FS_AddElement
<1>7. QED
  BY <1>1, <1>3, <1>4, <1>5, <1>6, CountsFinite DEF Level

\* How many bodies start and end between two nodes shows in the level.
LEMMA LevelBetween ==
    ASSUME NEW t, NEW j \in Nat, NEW k \in Nat, j <= k
    PROVE  Cardinality({s \in j + 1 .. k : Shuts(t, s)})
                   > Cardinality({s \in j + 1 .. k : Opens(t, s)})
               <=> Level(t, k + 1) < Level(t, j + 1)
<1>1. PICK ends : ends = {s \in j + 1 .. k : Shuts(t, s)}
  OBVIOUS
<1>2. PICK bodies : bodies = {s \in j + 1 .. k : Opens(t, s)}
  OBVIOUS
<1>3. IsFiniteSet(ends) /\ IsFiniteSet(bodies)
  <2>1. IsFiniteSet(j + 1 .. k)
    BY FS_Interval
  <2>2. ends \in SUBSET (j + 1 .. k) /\ bodies \in SUBSET (j + 1 .. k)
    BY <1>1, <1>2
  <2>3. QED
    BY <2>1, <2>2, FS_Subset
<1>4. Cardinality(ends) \in Nat /\ Cardinality(bodies) \in Nat
  BY <1>3, FS_CardinalityType
<1>5. j + 1 \in Nat \ {0} /\ k + 1 \in Nat \ {0}
  OBVIOUS
<1>6. Ending(t, k + 1) = Ending(t, j + 1) \cup ends /\ Ending(t, j + 1) \cap ends = {}
  BY <1>1 DEF Ending
<1>7. Rising(t, k + 1) = Rising(t, j + 1) \cup bodies /\ Rising(t, j + 1) \cap bodies = {}
  BY <1>2 DEF Rising
<1>8. ASSUME NEW A, NEW B, IsFiniteSet(A), IsFiniteSet(B), A \cap B = {}
      PROVE  Cardinality(A \cup B) = Cardinality(A) + Cardinality(B)
  <2>1. Cardinality(A \cap B) = 0
    BY <1>8, FS_EmptySet
  <2>2. Cardinality(A) \in Nat /\ Cardinality(B) \in Nat
    BY <1>8, FS_CardinalityType
  <2>3. Cardinality(A \cup B) = Cardinality(A) + Cardinality(B) - Cardinality(A \cap B)
    BY ONLY <1>8, FS_Union
  <2>4. QED
    BY ONLY <2>1, <2>2, <2>3
<1>9. /\ Cardinality(Ending(t, k + 1)) = Cardinality(Ending(t, j + 1)) + Cardinality(ends)
      /\ Cardinality(Rising(t, k + 1)) = Cardinality(Rising(t, j + 1)) + Cardinality(bodies)
  <2>1. IsFiniteSet(Ending(t, j + 1)) /\ IsFiniteSet(Rising(t, j + 1))
    BY <1>5, CountsFinite
  <2>2. QED
    BY <1>3, <1>6, <1>7, <1>8, <2>1
<1>10. QED
  BY <1>1, <1>2, <1>4, <1>5, <1>9, CountsFinite DEF Level

\* While a body is open the level does not fall below its own.
LEMMA LevelAbove ==
    ASSUME NEW t, NEW i \in Nat, NEW j, Holds(t, j, i), NEW m \in j + 1 .. i
    PROVE  Level(t, m) >= Level(t, j + 1)
<1>1. j \in Nat /\ j >= 1 /\ j + 1 \in Nat \ {0}
  BY DEF Holds
<1> DEFINE T == {n \in Nat : j + 1 + n <= i => Level(t, j + 1 + n) >= Level(t, j + 1)}
<1>2. 0 \in T
  <2>1. Level(t, j + 1) \in Int /\ j + 1 + 0 = j + 1
    BY <1>1, CountsFinite
  <2>2. QED
    BY <2>1
<1>3. ASSUME NEW n \in Nat, n \in T, j + 1 + (n + 1) <= i
      PROVE  Level(t, j + 1 + (n + 1)) >= Level(t, j + 1)
  <2>1. PICK k : k = j + 1 + n
    OBVIOUS
  <2>2. /\ k \in Nat \ {0} /\ k \in j + 1 .. i - 1 /\ k + 1 = j + 1 + (n + 1)
        /\ k + 1 \in Nat \ {0}
    BY <1>1, <1>3, <2>1
  <2>3. Level(t, k) >= Level(t, j + 1)
    BY <1>1, <1>3, <2>1
  <2>4. /\ Level(t, k) \in Int /\ Level(t, k + 1) \in Int /\ Level(t, j + 1) \in Int
    BY <1>1, <2>2, CountsFinite
  <2>5. CASE Shuts(t, k)
    BY <2>2, <2>5 DEF Holds
  <2>6. CASE ~Shuts(t, k)
    BY <2>2, <2>3, <2>4, <2>6, LevelNext
  <2>7. QED
    BY <2>2, <2>5, <2>6
<1>4. \A n \in Nat : n \in T => n + 1 \in T
  BY <1>3
<1>5. Nat \subseteq T
  <2> HIDE DEF T
  <2>1. QED
    BY <1>2, <1>4, NatInd
<1>6. PICK n \in Nat : m = j + 1 + n
  <2>1. m - (j + 1) \in Nat /\ m = j + 1 + (m - (j + 1))
    BY <1>1
  <2>2. QED
    BY <2>1
<1>7. QED
  BY <1>1, <1>5, <1>6

\* The bodies around a body that is open are those that were open at it.
LEMMA Nested ==
    ASSUME NEW t, NEW i \in Nat, NEW j, Holds(t, j, i), NEW b \in 1 .. j - 1
    PROVE  Holds(t, b, j) <=> Holds(t, b, i)
<1>1. j \in 1 .. i - 1 /\ Opens(t, j) /\ ~Shuts(t, j) /\ j \in Nat \ {0}
  BY DEF Holds, Opens, Shuts
<1>2. CASE Holds(t, b, i)
  <2>1. \A k \in b + 1 .. j - 1 : k \in b + 1 .. i - 1
    BY <1>1
  <2>2. QED
    BY <1>2, <2>1 DEF Holds
<1>3. ASSUME Holds(t, b, j), NEW k \in b + 1 .. i - 1, Shuts(t, k)
      PROVE  Level(t, k + 1) >= Level(t, b + 1)
  <2>1. CASE k < j
    BY <1>3, <2>1 DEF Holds
  <2>2. CASE k = j
    BY <1>1, <1>3, <2>2
  <2>3. CASE k > j
    <3>1. k \in j + 1 .. i - 1
      BY <1>1, <2>3
    <3>2. Level(t, k + 1) >= Level(t, j + 1)
      BY <1>3, <3>1 DEF Holds
    <3>3. Level(t, j + 1) = Level(t, j) + 1
      BY <1>1, LevelNext
    <3>4. Level(t, j) >= Level(t, b + 1)
      <4>1. j \in b + 1 .. j
        BY <1>1
      <4>2. QED
        BY <1>1, <1>3, <4>1, LevelAbove
    <3>5. /\ Level(t, k + 1) \in Int /\ Level(t, j + 1) \in Int /\ Level(t, b + 1) \in Int
          /\ Level(t, j) \in Int
      BY <1>1, CountsFinite
    <3>6. QED
      BY <3>2, <3>3, <3>4, <3>5
  <2>4. QED
    BY <1>1, <2>1, <2>2, <2>3
<1>4. CASE Holds(t, b, j)
  <2>1. b \in 1 .. i - 1 /\ Opens(t, b)
    BY <1>1, <1>4 DEF Holds
  <2>2. QED
    BY <1>3, <1>4, <2>1 DEF Holds
<1>5. QED
  BY <1>2, <1>4

\* The innermost region.
LEMMA InnerFacts ==
    ASSUME NEW t, NEW i \in Nat \ {0}
    PROVE  /\ Regions(t, i) \subseteq 0 .. i - 1
           /\ Program \in Regions(t, i)
           /\ Inner(t, i) \in Regions(t, i) /\ Inner(t, i) \in 0 .. i - 1
           /\ \A r \in Regions(t, i) : r <= Inner(t, i)
           /\ \A r \in Regions(t, i) :
                  (\A q \in Regions(t, i) : q <= r) => Inner(t, i) = r
<1>1. Regions(t, i) \subseteq 0 .. i - 1 /\ Program \in Regions(t, i) /\ i - 1 \in Nat
  BY DEF Regions, Program
<1>2. PICK S : S = Regions(t, i)
  OBVIOUS
<1>3. QED
  BY <1>1, <1>2, Greatest DEF Inner

\* The regions around an open body.
LEMMA RegionsNested ==
    ASSUME NEW t, NEW i \in Nat \ {0}, NEW r \in Regions(t, i), r # Program
    PROVE  /\ Regions(t, r) = {q \in Regions(t, i) : q < r}
           /\ r \in 1 .. i - 1 /\ Opens(t, r) /\ Holds(t, r, i)
<1>1. r \in 1 .. i - 1 /\ Holds(t, r, i) /\ Opens(t, r)
  BY DEF Regions, Holds
<1>2. \A b \in 1 .. r - 1 : Holds(t, b, r) <=> Holds(t, b, i)
  BY <1>1, Nested
<1>3. \A b : b \in 1 .. r - 1 <=> b \in 1 .. i - 1 /\ b < r
  BY <1>1
<1>4. Program < r /\ Program \notin 1 .. i - 1
  BY <1>1 DEF Program
<1>5. QED
  BY <1>1, <1>2, <1>3, <1>4 DEF Regions

\* The regions behind a node that is no end: the same, and its own body.
LEMMA RegionsStay ==
    ASSUME NEW t, NEW i \in Nat \ {0}, ~Shuts(t, i)
    PROVE  /\ Regions(t, i + 1) = Regions(t, i) \cup (IF Opens(t, i) THEN {i} ELSE {})
           /\ Inner(t, i + 1) = IF Opens(t, i) THEN i ELSE Inner(t, i)
<1>1. ASSUME NEW j \in 1 .. i - 1 PROVE Holds(t, j, i + 1) <=> Holds(t, j, i)
  <2>1. \A k : k \in j + 1 .. (i + 1) - 1 <=> k \in j + 1 .. i - 1 \/ k = i
    OBVIOUS
  <2>2. QED
    BY <2>1 DEF Holds
<1>2. Holds(t, i, i + 1) <=> Opens(t, i)
  BY DEF Holds
<1>3. \A j : j \in 1 .. (i + 1) - 1 <=> j \in 1 .. i - 1 \/ j = i
  OBVIOUS
<1>4. Regions(t, i + 1) = Regions(t, i) \cup (IF Opens(t, i) THEN {i} ELSE {})
  BY <1>1, <1>2, <1>3 DEF Regions
<1>5. i + 1 \in Nat \ {0}
  OBVIOUS
<1>6. CASE Opens(t, i)
  <2>1. \A q \in Regions(t, i + 1) : q <= i
    BY <1>5, InnerFacts
  <2>2. i \in Regions(t, i + 1)
    BY <1>4, <1>6
  <2>3. QED
    BY <1>4, <1>5, <1>6, <2>1, <2>2, InnerFacts
<1>7. CASE ~Opens(t, i)
  BY <1>4, <1>7 DEF Inner
<1>8. QED
  BY <1>4, <1>6, <1>7

\* The regions behind an end: those around the body it ends.
LEMMA RegionsEnd ==
    ASSUME NEW t, NEW i \in Nat \ {0}, Shuts(t, i), Inner(t, i) # Program,
           Level(t, i) = Level(t, Inner(t, i) + 1)
    PROVE  /\ Regions(t, i + 1) = {q \in Regions(t, i) : q < Inner(t, i)}
           /\ Regions(t, i + 1) = Regions(t, Inner(t, i))
           /\ Inner(t, i + 1) = Inner(t, Inner(t, i))
           /\ Level(t, i + 1) = Level(t, Inner(t, i))
<1>1. PICK r : r = Inner(t, i)
  OBVIOUS
<1>2. /\ r \in Regions(t, i) /\ r \in 1 .. i - 1 /\ Opens(t, r) /\ Holds(t, r, i)
      /\ Regions(t, r) = {q \in Regions(t, i) : q < r}
      /\ \A q \in Regions(t, i) : q <= r
  BY <1>1, InnerFacts, RegionsNested
<1>3. r \in Nat \ {0} /\ r + 1 \in Nat \ {0} /\ i + 1 \in Nat \ {0}
  BY <1>2
<1>4. Level(t, r + 1) = Level(t, r) + 1 /\ Level(t, i + 1) = Level(t, i) - 1
  BY <1>2, <1>3, LevelNext
<1>5. /\ Level(t, r) \in Int /\ Level(t, i) \in Int /\ Level(t, i + 1) = Level(t, r)
      /\ Level(t, r + 1) \in Int
  BY <1>1, <1>3, <1>4, CountsFinite
<1>6. ASSUME NEW j \in 1 .. i - 1
      PROVE  Holds(t, j, i + 1) <=> Holds(t, j, i) /\ j < r
  <2>1. \A k : k \in j + 1 .. (i + 1) - 1 <=> k \in j + 1 .. i - 1 \/ k = i
    OBVIOUS
  <2>2. Holds(t, j, i + 1) <=> Holds(t, j, i) /\ Level(t, i + 1) >= Level(t, j + 1)
    BY <2>1 DEF Holds
  <2>3. ASSUME Holds(t, j, i) PROVE Level(t, i + 1) >= Level(t, j + 1) <=> j < r
    <3>1. j <= r
      BY <1>2, <2>3 DEF Regions
    <3>2. CASE j = r
      BY <1>4, <1>5, <3>2
    <3>3. CASE j < r
      <4>1. j \in 1 .. r - 1 /\ r \in j + 1 .. r
        BY <1>2, <3>3
      <4>2. Holds(t, j, r)
        BY <1>2, <2>3, <4>1, Nested
      <4>3. Level(t, r) >= Level(t, j + 1)
        BY <1>3, <4>1, <4>2, LevelAbove
      <4>4. QED
        BY <1>5, <3>3, <4>3
    <3>4. QED
      BY <1>2, <3>1, <3>2, <3>3
  <2>4. QED
    BY <2>2, <2>3
<1>7. ~Holds(t, i, i + 1)
  BY DEF Holds, Opens, Shuts
<1>8. Regions(t, i + 1) = {q \in Regions(t, i) : q < r}
  <2>1. \A j : j \in 1 .. (i + 1) - 1 <=> j \in 1 .. i - 1 \/ j = i
    OBVIOUS
  <2>2. Program < r
    BY <1>2 DEF Program
  <2>3. QED
    BY <1>6, <1>7, <2>1, <2>2 DEF Regions
<1>9. Regions(t, i + 1) = Regions(t, r)
  BY <1>2, <1>8
<1>10. Inner(t, i + 1) = Inner(t, r)
  BY <1>9 DEF Inner
<1>11. QED
  BY <1>1, <1>5, <1>8, <1>9, <1>10

\* The level at a node is that of the innermost body.
LEMMA LevelInner ==
    ASSUME NEW t, Whole(t), NEW i \in 1 .. Len(t) + 1
    PROVE  Level(t, i) = IF Inner(t, i) = Program THEN 0 ELSE Level(t, Inner(t, i) + 1)
<1> DEFINE Fits(n) == Level(t, n) = IF Inner(t, n) = Program THEN 0
                                    ELSE Level(t, Inner(t, n) + 1)
           T == {n \in Nat : n \in 1 .. Len(t) + 1 => Fits(n)}
<1>0. Len(t) \in Nat
  BY DEF Whole
<1>1. ASSUME NEW n \in Nat, \A m \in 0 .. n - 1 : m \in T, n \in 1 .. Len(t) + 1
      PROVE  Fits(n)
  <2>1. CASE n = 1
    <3>1. Rising(t, 1) = {} /\ Ending(t, 1) = {}
      BY DEF Rising, Ending
    <3>2. Level(t, 1) = 0
      BY <3>1, FS_EmptySet DEF Level
    <3>3. Inner(t, 1) = Program
      <4>1. Inner(t, 1) \in 0 .. 1 - 1
        BY InnerFacts
      <4>2. QED
        BY <4>1 DEF Program
    <3>4. QED
      BY <2>1, <3>2, <3>3
  <2>2. CASE n > 1
    <3>1. PICK b \in Nat \ {0} : n = b + 1
      <4>1. n - 1 \in Nat \ {0} /\ n = (n - 1) + 1
        BY <2>2
      <4>2. QED
        BY <4>1
    <3>2. b \in 1 .. Len(t) /\ b \in 0 .. n - 1 /\ b \in 1 .. Len(t) + 1
      BY <1>0, <1>1, <3>1
    <3>3. Fits(b)
      BY <1>1, <3>2
    <3>4. CASE Shuts(t, b)
      <4>1. Inner(t, b) # Program
        BY <3>2, <3>4 DEF Whole
      <4>2. PICK r : r = Inner(t, b)
        OBVIOUS
      <4>3. Inner(t, b + 1) = Inner(t, r) /\ Level(t, b + 1) = Level(t, r)
        BY <3>3, <3>4, <4>1, <4>2, RegionsEnd
      <4>4. r \in 0 .. b - 1 /\ r # 0
        BY <4>1, <4>2, InnerFacts DEF Program
      <4>5. r \in 0 .. n - 1 /\ r \in 1 .. Len(t) + 1
        BY <3>1, <3>2, <4>4
      <4>6. Fits(r)
        BY <1>1, <4>5
      <4>7. QED
        BY <3>1, <4>3, <4>6
    <3>5. CASE Opens(t, b)
      <4>1. ~Shuts(t, b)
        BY <3>5 DEF Opens, Shuts
      <4>2. Inner(t, b + 1) = b /\ b # Program
        BY <3>5, <4>1, RegionsStay DEF Program
      <4>3. QED
        BY <3>1, <4>2
    <3>6. CASE ~Shuts(t, b) /\ ~Opens(t, b)
      <4>1. Inner(t, b + 1) = Inner(t, b) /\ Level(t, b + 1) = Level(t, b)
        BY <3>6, RegionsStay, LevelNext
      <4>2. QED
        BY <3>1, <3>3, <4>1
    <3>7. QED
      BY <3>4, <3>5, <3>6
  <2>3. QED
    BY <1>1, <2>1, <2>2
<1>2. \A n \in Nat : (\A m \in 0 .. n - 1 : m \in T) => n \in T
  BY <1>1
<1>3. Nat \subseteq T
  <2> HIDE DEF T
  <2>1. QED
    BY <1>2, StrongInd
<1>4. QED
  BY <1>0, <1>3

\* What the end of a body does, in a tree in which only what is open is ended.
LEMMA EndLeaves ==
    ASSUME NEW t, Whole(t), NEW i \in 1 .. Len(t), Shuts(t, i)
    PROVE  /\ Inner(t, i) # Program
           /\ Regions(t, i + 1) = {q \in Regions(t, i) : q < Inner(t, i)}
           /\ Regions(t, i + 1) = Regions(t, Inner(t, i))
           /\ Inner(t, i + 1) = Inner(t, Inner(t, i))
<1>1. Inner(t, i) # Program
  BY DEF Whole
<1>2. Len(t) \in Nat
  BY DEF Whole
<1>3. i \in Nat \ {0} /\ i \in 1 .. Len(t) + 1
  BY <1>2
<1>4. Level(t, i) = Level(t, Inner(t, i) + 1)
  BY <1>1, <1>3, LevelInner
<1>5. QED
  BY <1>1, <1>3, <1>4, RegionsEnd

-----------------------------------------------------------------------------
(* A tree that grows: what is said of the nodes so far does not change *)

\* A node more changes nothing about the nodes before it.
LEMMA Grown ==
    ASSUME NEW t \in Seq(Nodes), NEW node \in Nodes, NEW u, u = Append(t, node)
    PROVE  /\ u \in Seq(Nodes) /\ Len(t) \in Nat /\ Len(u) = Len(t) + 1 /\ u[Len(t) + 1] = node
           /\ \A i \in 1 .. Len(t) : u[i] = t[i]
           /\ \A i \in 1 .. Len(t) + 1 : Regions(u, i) = Regions(t, i) /\ Inner(u, i) = Inner(t, i)
<1>1. /\ u \in Seq(Nodes) /\ Len(t) \in Nat /\ Len(u) = Len(t) + 1 /\ u[Len(t) + 1] = node
      /\ \A i \in 1 .. Len(t) : u[i] = t[i]
  OBVIOUS
<1>2. \A i \in 1 .. Len(t) : (Opens(u, i) <=> Opens(t, i)) /\ (Shuts(u, i) <=> Shuts(t, i))
  BY <1>1 DEF Opens, Shuts
<1>3. ASSUME NEW i \in 1 .. Len(t) + 1 PROVE Level(u, i) = Level(t, i)
  <2>1. \A j \in 1 .. i - 1 : j \in 1 .. Len(t)
    BY <1>1
  <2>2. Rising(u, i) = Rising(t, i) /\ Ending(u, i) = Ending(t, i)
    BY <1>2, <2>1 DEF Rising, Ending
  <2>3. QED
    BY <2>2 DEF Level
<1>4. ASSUME NEW i \in 1 .. Len(t) + 1
      PROVE  Regions(u, i) = Regions(t, i) /\ Inner(u, i) = Inner(t, i)
  <2>1. ASSUME NEW j \in 1 .. i - 1 PROVE Holds(u, j, i) <=> Holds(t, j, i)
    <3>1. j \in 1 .. Len(t) /\ j + 1 \in 1 .. Len(t) + 1
      BY <1>1
    <3>2. \A k \in j + 1 .. i - 1 : k \in 1 .. Len(t) /\ k + 1 \in 1 .. Len(t) + 1
      BY <1>1
    <3>3. \A k \in j + 1 .. i - 1 : Level(u, k + 1) = Level(t, k + 1)
      BY <1>3, <3>2
    <3>4. Level(u, j + 1) = Level(t, j + 1)
      BY <1>3, <3>1
    <3>5. QED
      BY <1>2, <3>1, <3>2, <3>3, <3>4 DEF Holds
  <2>2. Regions(u, i) = Regions(t, i)
    BY <2>1 DEF Regions
  <2>3. QED
    BY <2>2 DEF Inner
<1>5. QED
  BY <1>1, <1>4

\* A node that ends nothing, or what is open, leaves only ends of what is open.
LEMMA GrownWhole ==
    ASSUME NEW t, Whole(t), NEW node \in Nodes, NEW u, u = Append(t, node),
           node.kind = "end" => Inner(t, Len(t) + 1) # Program
    PROVE  Whole(u)
<1>0. t \in Seq(Nodes) /\ u = Append(t, node)
  BY DEF Whole
<1>1. /\ t \in Seq(Nodes) /\ Len(t) \in Nat
      /\ u \in Seq(Nodes) /\ Len(u) = Len(t) + 1 /\ u[Len(t) + 1] = node
      /\ \A i \in 1 .. Len(t) : u[i] = t[i]
  BY <1>0
<1>4. \A i \in 1 .. Len(t) + 1 : Inner(u, i) = Inner(t, i)
  BY <1>0, Grown
<1>2. ASSUME NEW i \in 1 .. Len(u), Shuts(u, i) PROVE Inner(u, i) # Program
  <2>1. CASE i = Len(t) + 1
    BY <1>1, <1>2, <1>4, <2>1 DEF Shuts
  <2>2. CASE i # Len(t) + 1
    <3>1. i \in 1 .. Len(t) /\ i \in 1 .. Len(t) + 1
      BY <1>1, <2>2
    <3>2. QED
      BY <1>1, <1>2, <1>4, <3>1 DEF Shuts, Whole
  <2>3. QED
    BY <2>1, <2>2
<1>3. QED
  BY <1>1, <1>2 DEF Whole

-----------------------------------------------------------------------------
(* The definitions of NameAnalysis are these *)

\* Regions and Inner are what the scoping rules say, for the tree that is compiled.
LEMMA RegionsAre ==
    ASSUME NEW i \in Nat \ {0}
    PROVE  RegionsAround(i) = Regions(tree, i) /\ Region(i) = Inner(tree, i)
<1>1. ASSUME NEW j \in 1 .. i - 1 PROVE Encloses(j, i) <=> Holds(tree, j, i)
  <2>1. ASSUME NEW k \in j + 1 .. i - 1
        PROVE  Quantify(j + 1 .. k, Ends) > Quantify(j + 1 .. k, HasBody)
                   <=> ~(Level(tree, k + 1) >= Level(tree, j + 1))
    <3>1. /\ Quantify(j + 1 .. k, Ends) = Cardinality({s \in j + 1 .. k : Shuts(tree, s)})
          /\ Quantify(j + 1 .. k, HasBody) = Cardinality({s \in j + 1 .. k : Opens(tree, s)})
      BY DEF Quantify, Ends, HasBody, Shuts, Opens
    <3>2. j \in Nat /\ k \in Nat /\ j <= k /\ k + 1 \in Nat \ {0} /\ j + 1 \in Nat \ {0}
      OBVIOUS
    <3>3. Level(tree, k + 1) \in Int /\ Level(tree, j + 1) \in Int
      BY <3>2, CountsFinite
    <3>4. QED
      BY <3>1, <3>2, <3>3, LevelBetween
  <2>2. Ended(j, i) <=> \E k \in j + 1 .. i - 1 :
                            Shuts(tree, k) /\ ~(Level(tree, k + 1) >= Level(tree, j + 1))
    BY <2>1 DEF Ended, Ends, Shuts
  <2>3. QED
    BY <2>2 DEF Encloses, HasBody, Opens, Holds
<1>2. RegionsAround(i) = Regions(tree, i)
  BY <1>1 DEF RegionsAround, Regions
<1>3. QED
  BY <1>2 DEF Region, Inner

-----------------------------------------------------------------------------
(* Declarations *)

\* What is declared: by a function and its parameters, by a variable, by a loop.
Keys(t) ==
    {k \in [node : 1 .. Len(t), position : 0 .. MaxParameters] :
        \/ t[k.node].kind = "function" /\ k.position \in 0 .. Len(t[k.node].parameters)
        \/ t[k.node].kind \in {"variable", "loop"} /\ k.position = 0}

NameAt(t, k) ==
    IF k.position = 0 THEN t[k.node].name ELSE t[k.node].parameters[k.position]
KindAt(t, k) ==
    IF k.position > 0 THEN "parameter"
    ELSE IF t[k.node].kind = "function" THEN "function" ELSE "variable"
RegionAt(t, k) ==
    IF k.position > 0 \/ t[k.node].kind = "loop" THEN k.node ELSE Inner(t, k.node)
AfterAt(t, k) ==
    IF t[k.node].kind = "variable" /\ Inner(t, k.node) # Program THEN k.node ELSE 0
LocalAt(t, k) == KindAt(t, k) # "function" /\ RegionAt(t, k) # Program

\* The order of declarations, and which ones are in each other's way.
Before(k, l) == k.node < l.node \/ (k.node = l.node /\ k.position < l.position)
Clash(t, k, l) == NameAt(t, k) = NameAt(t, l) /\ RegionAt(t, k) = RegionAt(t, l)
First(t, M, k) == \A l \in M : Clash(t, l, k) => ~Before(l, k)

-----------------------------------------------------------------------------
(* What the collector has made of the nodes it has visited *)

\* The bodies it has entered, and the declarations it has inserted.
Entered(t, s) == {j \in 1 .. Len(t) : Opens(t, j) /\ (s = "body" => j < Len(t))}
Made(t, s, p) ==
    {k \in Keys(t) :
        \/ k.node < Len(t)
        \/ s = "node"
        \/ s = "body" /\ t[Len(t)].kind = "function" /\ k.position = 0
        \/ s = "parameters" /\ k.position < p}

StepFits(t, s, p) ==
    /\ s \in {"node", "body", "parameters", "binding"} /\ p \in Nat \ {0}
    /\ s # "node" => Len(t) > 0
    /\ s = "body" => Opens(t, Len(t))
    /\ s = "parameters" => t[Len(t)].kind = "function" /\ p <= Len(t[Len(t)].parameters) + 1
    /\ s = "binding" => t[Len(t)].kind = "loop"

\* The scope of a region.
ScopeAt(scopes, r) == IF r = Program THEN GlobalScope ELSE scopes[r]

\* Each body has a scope of its own, in the scope of the region around it.
Scoped(t, bodies, scopes, par) ==
    /\ DOMAIN scopes = bodies
    /\ \A j \in bodies : scopes[j] \in 2 .. Len(par)
                         /\ par[scopes[j]] = ScopeAt(scopes, Inner(t, j))
    /\ \A i, j \in bodies : scopes[i] = scopes[j] => i = j

\* The visits in progress are those of the regions around the next node.
OpenFits(t, s, scopes, par, stack) ==
    /\ stack \in Seq(Nat) /\ Len(stack) > 0 /\ stack[1] = GlobalScope
    /\ \A k \in 2 .. Len(stack) : stack[k] \in 2 .. Len(par) /\ par[stack[k]] = stack[k - 1]
    /\ stack[Len(stack)] =
           ScopeAt(scopes, Inner(t, IF s = "body" THEN Len(t) ELSE Len(t) + 1))

\* Of the declarations M of a name in a region the first one is bound, and the others are
\* reported, with the first one.
BoundTo(t, scopes, bind, k) == bind[ScopeAt(scopes, RegionAt(t, k))][NameAt(t, k)]
SymbolFor(t, k) == [name |-> NameAt(t, k), kind |-> KindAt(t, k), declaration |-> k]
Bound(t, M, scopes, bind, syms, ids, dups) ==
    /\ DOMAIN ids = {k \in M : First(t, M, k)}
    /\ \A k \in DOMAIN ids : /\ ids[k] = BoundTo(t, scopes, bind, k)
                             /\ ids[k] \in 1 .. Len(syms)
                             /\ syms[ids[k]] = SymbolFor(t, k)
    /\ \A k \in M : BoundTo(t, scopes, bind, k) # NoSymbol
    /\ \A r \in {Program} \cup DOMAIN scopes, n \in Names :
          bind[ScopeAt(scopes, r)][n] # NoSymbol =>
              \E k \in DOMAIN ids : RegionAt(t, k) = r /\ NameAt(t, k) = n
    /\ dups = {<<k, BoundTo(t, scopes, bind, k)>> : k \in M \ DOMAIN ids}

CollectorInv ==
    /\ Whole(tree) /\ Len(tree) <= MaxNodes
    /\ StepFits(tree, step, parameter)
    /\ Scoped(tree, Entered(tree, step), scopeOf, parent)
    /\ OpenFits(tree, step, scopeOf, parent, open)
    /\ Bound(tree, Made(tree, step, parameter), scopeOf, binding, symbols, symbolOf, duplicates)

-----------------------------------------------------------------------------
(* What the resolver has made of the uses it has passed *)

\* The function around a region, or the program.
FunctionAround(t, r) ==
    Max({Program} \cup {j \in {r} \cup Regions(t, r) : j # Program /\ t[j].kind = "function"})

\* The arguments of a visit in region r.
Frame(t, scopes, r) ==
    [scope |-> ScopeAt(scopes, r),
     function |-> IF r = Program \/ FunctionAround(t, r) = Program THEN NoScope
                  ELSE scopes[FunctionAround(t, r)]]

InsideFits(t, scopes, n, stack) ==
    /\ stack # <<>>
    /\ stack \in Seq([scope : Nat, function : Nat])
    /\ stack[1] = Frame(t, scopes, Program)
    /\ \A k \in 2 .. Len(stack) : \E r \in DOMAIN scopes :
          stack[k] = Frame(t, scopes, r) /\ stack[k - 1] = Frame(t, scopes, Inner(t, r))
    /\ stack[Len(stack)] = Frame(t, scopes, Inner(t, n))

\* The variables whose declarations the visit has passed.
Activated(t, n) ==
    {j \in 1 .. n - 1 :
        t[j].kind = "loop" \/ (t[j].kind = "variable" /\ Inner(t, j) # Program)}
Passed(n, r) == {use \in Uses : use[1] < n \/ (use[1] = n /\ use[2] < r)}

\* What is said of a use of a name in node i.
Verdict(name, i) ==
    IF Meanings(name, i) # {} THEN (IF Captured(name, i) THEN "capture" ELSE "none")
    ELSE IF name \in Builtins THEN "none"
    ELSE IF Known(name, i) # {} THEN "before declaration" ELSE "unknown"

Means(name, i, target) ==
    IF Meanings(name, i) # {}
    THEN /\ target \in 1 .. Len(symbols)
         /\ symbols[target].declaration = Meaning(name, i).declaration
    ELSE target = BuiltinTarget /\ name \in Builtins

Resolved(n, r) ==
    /\ DOMAIN resolution =
           {use \in Passed(n, r) : Meanings(NameOf(use), use[1]) # {} \/ NameOf(use) \in Builtins}
    /\ \A use \in DOMAIN resolution : Means(NameOf(use), use[1], resolution[use])
    /\ \A report \in reports : \E use \in Passed(n, r), note \in Nat :
          /\ report = <<use[1], use[2], Verdict(NameOf(use), use[1]), note>>
          /\ Verdict(NameOf(use), use[1]) # "none"
    /\ \A use \in Passed(n, r) : Verdict(NameOf(use), use[1]) # "none" =>
          \E report \in reports : report[1] = use[1] /\ report[2] = use[2]

ResolverInv ==
    /\ at \in 1 .. Len(tree) + 1 /\ read \in Nat \ {0}
    /\ at > Len(tree) => read = 1
    /\ at <= Len(tree) => read <= Len(Reads(tree[at])) + 1
    /\ InsideFits(tree, scopeOf, at, inside)
    /\ active = {symbolOf[Own(j)] : j \in Activated(tree, at)}
    /\ Resolved(at, read)

\* The invariant: what is so in each phase.
NameInv ==
    /\ CollectorInv
    /\ phase \in {"collect", "validate", "resolve", "accepted", "rejected"}
    /\ phase # "collect" => step = "node"
    /\ phase \in {"collect", "validate"} => ResolverInit
    /\ phase \in {"validate", "resolve", "accepted"} => duplicates = {}
    /\ phase \in {"resolve", "accepted"} => HasEntryPoint /\ ResolverInv
    /\ phase = "accepted" => at > Len(tree) /\ reports = {}
    /\ phase = "rejected" =>
          \/ ResolverInit /\ (duplicates # {} \/ ~HasEntryPoint)
          \/ ResolverInv /\ duplicates = {} /\ at > Len(tree) /\ reports # {}

-----------------------------------------------------------------------------
(* Declarations and their names and regions *)

\* Before is a strict order in which any two keys compare.
LEMMA BeforeOrders ==
    ASSUME NEW k, NEW l, k.node \in Nat, l.node \in Nat, k.position \in Nat, l.position \in Nat
    PROVE  /\ ~(Before(k, l) /\ Before(l, k)) /\ ~Before(k, k)
           /\ Before(k, l) \/ Before(l, k) \/ (k.node = l.node /\ k.position = l.position)
BY DEF Before

\* What keys are.
LEMMA KeyFacts ==
    ASSUME NEW t \in Seq(Nodes), NEW k \in Keys(t)
    PROVE  /\ k.node \in 1 .. Len(t) /\ k.node \in Nat \ {0} /\ k.position \in Nat
           /\ k.position \in 0 .. MaxParameters /\ MaxParameters \in Nat
           /\ k = [node |-> k.node, position |-> k.position]
           /\ t[k.node].kind \in {"function", "variable", "loop"}
           /\ k.position > 0 => t[k.node].kind = "function"
           /\ NameAt(t, k) \in Names
           /\ RegionAt(t, k) \in 0 .. k.node
           /\ RegionAt(t, k) # Program => Opens(t, RegionAt(t, k))
<1>1. /\ Len(t) \in Nat /\ MaxParameters \in Nat
      /\ k \in [node : 1 .. Len(t), position : 0 .. MaxParameters]
      /\ \/ t[k.node].kind = "function" /\ k.position \in 0 .. Len(t[k.node].parameters)
         \/ t[k.node].kind \in {"variable", "loop"} /\ k.position = 0
  BY NodeFacts, NodeAssumption DEF Keys
<1>2. k.node \in 1 .. Len(t) /\ k.position \in 0 .. MaxParameters /\ k.node \in Nat \ {0}
  BY <1>1
<1>3. t[k.node] \in Nodes
  BY <1>2, NodeFacts
<1>4. NameAt(t, k) \in Names
  <2>1. CASE k.position = 0
    BY <1>1, <1>3, <2>1, NodeAssumption DEF NameAt
  <2>2. CASE k.position # 0
    <3>1. /\ t[k.node].parameters \in Seq(Names)
          /\ k.position \in 1 .. Len(t[k.node].parameters)
      BY <1>1, <1>2, <1>3, <2>2, NodeAssumption
    <3>2. QED
      BY <2>2, <3>1 DEF NameAt
  <2>3. QED
    BY <2>1, <2>2
<1>5. Inner(t, k.node) \in 0 .. k.node - 1
      /\ (Inner(t, k.node) # Program => Opens(t, Inner(t, k.node)))
  BY <1>2, InnerFacts, RegionsNested
<1>6. k.position > 0 => t[k.node].kind = "function"
  BY <1>1
<1>7. RegionAt(t, k) \in 0 .. k.node /\ (RegionAt(t, k) # Program => Opens(t, RegionAt(t, k)))
  <2>1. CASE k.position > 0 \/ t[k.node].kind = "loop"
    BY <1>2, <1>6, <2>1 DEF RegionAt, Opens
  <2>2. CASE ~(k.position > 0 \/ t[k.node].kind = "loop")
    BY <1>2, <1>5, <2>2 DEF RegionAt
  <2>3. QED
    BY <2>1, <2>2
<1>8. k.position \in Nat /\ k = [node |-> k.node, position |-> k.position]
  BY <1>1, <1>2
<1>9. QED
  BY <1>1, <1>2, <1>4, <1>6, <1>7, <1>8

\* The declarations of a tree that grows stay.
LEMMA GrownKeys ==
    ASSUME NEW t \in Seq(Nodes), NEW node \in Nodes, NEW u, u = Append(t, node)
    PROVE  /\ Keys(t) = {k \in Keys(u) : k.node < Len(u)}
           /\ \A k \in Keys(t) : /\ NameAt(u, k) = NameAt(t, k)
                                 /\ KindAt(u, k) = KindAt(t, k)
                                 /\ RegionAt(u, k) = RegionAt(t, k)
<1>1. /\ u \in Seq(Nodes) /\ Len(t) \in Nat /\ Len(u) = Len(t) + 1
      /\ \A i \in 1 .. Len(t) : u[i] = t[i]
  OBVIOUS
<1>2. \A i \in 1 .. Len(t) + 1 : Inner(u, i) = Inner(t, i)
  BY Grown
<1>3. ASSUME NEW k PROVE k \in Keys(t) <=> k \in Keys(u) /\ k.node < Len(u)
  <2>1. k \in [node : 1 .. Len(t), position : 0 .. MaxParameters]
            <=> k \in [node : 1 .. Len(u), position : 0 .. MaxParameters] /\ k.node < Len(u)
    BY <1>1
  <2>2. k \in [node : 1 .. Len(t), position : 0 .. MaxParameters] => u[k.node] = t[k.node]
    BY <1>1
  <2>3. QED
    BY <2>1, <2>2 DEF Keys
<1>4. ASSUME NEW k \in Keys(t)
      PROVE  /\ NameAt(u, k) = NameAt(t, k) /\ KindAt(u, k) = KindAt(t, k)
             /\ RegionAt(u, k) = RegionAt(t, k)
  <2>1. k.node \in 1 .. Len(t) /\ k.node \in 1 .. Len(t) + 1
    BY <1>1, KeyFacts
  <2>2. u[k.node] = t[k.node] /\ Inner(u, k.node) = Inner(t, k.node)
    BY <1>1, <1>2, <2>1
  <2>3. QED
    BY <2>2 DEF NameAt, KindAt, RegionAt
<1>5. QED
  BY <1>3, <1>4

-----------------------------------------------------------------------------
(* One more declaration *)

\* The tables belong to the tree, and bodies have scopes of their own.
Tables(t, M, scopes, bind, syms) ==
    /\ t \in Seq(Nodes) /\ M \subseteq Keys(t)
    /\ bind \in Seq([Names -> Nat]) /\ syms \in Seq(Symbols)
    /\ \A r \in {Program} \cup DOMAIN scopes : ScopeAt(scopes, r) \in 1 .. Len(bind)
    /\ \A q, r \in {Program} \cup DOMAIN scopes :
          ScopeAt(scopes, q) = ScopeAt(scopes, r) => q = r
    /\ \A m \in M : RegionAt(t, m) \in {Program} \cup DOMAIN scopes

\* Key k comes after all of M.
Latest(t, M, k) == k \in Keys(t) \ M /\ \A m \in M : Before(m, k)

\* The declaration finds its name free, or taken.
Inserts(t, k, scopes, bind, syms, ids, bind2, syms2, ids2) ==
    LET s == ScopeAt(scopes, RegionAt(t, k)) IN
    /\ BoundTo(t, scopes, bind, k) = NoSymbol
    /\ syms2 = Append(syms, SymbolFor(t, k))
    /\ bind2 = [bind EXCEPT ![s] = [bind[s] EXCEPT ![NameAt(t, k)] = Len(syms) + 1]]
    /\ ids2 = Emplace(ids, k, Len(syms) + 1)

\* A declaration that comes after the others takes no name from them.
LEMMA FirstGrows ==
    ASSUME NEW t \in Seq(Nodes), NEW M, M \subseteq Keys(t), NEW k, Latest(t, M, k)
    PROVE  /\ \A m \in M : First(t, M \cup {k}, m) <=> First(t, M, m)
           /\ First(t, M \cup {k}, k) <=> \A m \in M : ~Clash(t, m, k)
           /\ k \notin M
<1>1. \A m \in M \cup {k} : /\ m.node \in Nat /\ m.position \in Nat
  BY KeyFacts DEF Latest
<1>2. \A m \in M : Before(m, k) /\ ~Before(k, m)
  BY <1>1, BeforeOrders DEF Latest
<1>3. ~Before(k, k)
  BY <1>1, BeforeOrders
<1>4. QED
  BY <1>2, <1>3 DEF First, Latest

\* A declaration whose name is free is bound.
LEMMA BoundInserts ==
    ASSUME NEW t, NEW M, NEW k, NEW scopes, NEW bind, NEW syms, NEW ids, NEW dups,
           NEW bind2, NEW syms2, NEW ids2,
           Tables(t, M, scopes, bind, syms), Latest(t, M, k), SymbolFor(t, k) \in Symbols,
           RegionAt(t, k) \in {Program} \cup DOMAIN scopes,
           Bound(t, M, scopes, bind, syms, ids, dups),
           Inserts(t, k, scopes, bind, syms, ids, bind2, syms2, ids2)
    PROVE  Bound(t, M \cup {k}, scopes, bind2, syms2, ids2, dups)
<1>1. PICK id : id = Len(syms) + 1
  OBVIOUS
<1>2. PICK regions : regions = {Program} \cup DOMAIN scopes
  OBVIOUS
<1>3. /\ t \in Seq(Nodes) /\ M \subseteq Keys(t) /\ k \in Keys(t) /\ k \notin M
      /\ bind \in Seq([Names -> Nat]) /\ syms \in Seq(Symbols) /\ Len(syms) \in Nat
      /\ NameAt(t, k) \in Names /\ RegionAt(t, k) \in regions
  BY <1>2, KeyFacts DEF Tables, Latest
<1>4. /\ syms2 \in Seq(Symbols) /\ Len(syms2) = id /\ syms2[id] = SymbolFor(t, k)
      /\ \A i \in 1 .. Len(syms) : syms2[i] = syms[i]
  <2>1. syms2 = Append(syms, SymbolFor(t, k))
    BY DEF Inserts
  <2>2. QED
    BY <1>1, <1>3, <2>1
<1>5. ASSUME NEW r \in regions, NEW n \in Names
      PROVE  bind2[ScopeAt(scopes, r)][n] =
                 IF r = RegionAt(t, k) /\ n = NameAt(t, k) THEN id ELSE bind[ScopeAt(scopes, r)][n]
  <2>1. PICK s : s = ScopeAt(scopes, RegionAt(t, k))
    OBVIOUS
  <2>2. PICK z : z = ScopeAt(scopes, r)
    OBVIOUS
  <2>3. s \in 1 .. Len(bind) /\ z \in 1 .. Len(bind) /\ (z = s <=> r = RegionAt(t, k))
    BY <1>2, <1>3, <2>1, <2>2 DEF Tables
  <2>4. bind2 = [bind EXCEPT ![s] = [bind[s] EXCEPT ![NameAt(t, k)] = id]]
    BY <1>1, <2>1 DEF Inserts
  <2>5. z \in DOMAIN bind /\ bind[z] \in [Names -> Nat] /\ n \in DOMAIN bind[z]
    BY <1>3, <2>3
  <2>6. CASE z = s
    <3>1. bind2[z] = [bind[s] EXCEPT ![NameAt(t, k)] = id]
      BY <2>4, <2>5, <2>6
    <3>2. QED
      BY <2>2, <2>3, <2>5, <2>6, <3>1
  <2>7. CASE z # s
    BY <2>2, <2>3, <2>4, <2>5, <2>7
  <2>8. QED
    BY <2>6, <2>7
<1>6. /\ DOMAIN ids = {m \in M : First(t, M, m)}
      /\ \A m \in M : BoundTo(t, scopes, bind, m) # NoSymbol
      /\ \A m \in DOMAIN ids : /\ ids[m] = BoundTo(t, scopes, bind, m)
                               /\ ids[m] \in 1 .. Len(syms)
                               /\ syms[ids[m]] = SymbolFor(t, m)
      /\ dups = {<<m, BoundTo(t, scopes, bind, m)>> : m \in M \ DOMAIN ids}
  BY DEF Bound
<1>7. ASSUME NEW m \in M PROVE ~Clash(t, m, k)
  <2>1. BoundTo(t, scopes, bind, k) = NoSymbol
    BY DEF Inserts
  <2>2. Clash(t, m, k) => BoundTo(t, scopes, bind, m) = BoundTo(t, scopes, bind, k)
    BY DEF Clash, BoundTo
  <2>3. QED
    BY <1>6, <2>1, <2>2
<1>8. /\ DOMAIN ids2 = DOMAIN ids \cup {k} /\ ids2[k] = id
      /\ \A m \in DOMAIN ids : ids2[m] = ids[m]
  <2>1. ids2 = Emplace(ids, k, id)
    BY <1>1 DEF Inserts
  <2>2. k \notin DOMAIN ids
    BY <1>3, <1>6
  <2>3. QED
    BY <2>1, <2>2 DEF Emplace
<1>9. DOMAIN ids2 = {m \in M \cup {k} : First(t, M \cup {k}, m)}
  <2>1. /\ \A m \in M : First(t, M \cup {k}, m) <=> First(t, M, m)
        /\ First(t, M \cup {k}, k)
    BY <1>3, <1>7, FirstGrows
  <2>2. QED
    BY <1>3, <1>6, <1>8, <2>1
<1>10. BoundTo(t, scopes, bind2, k) = id
  BY <1>3, <1>5 DEF BoundTo
<1>11. ASSUME NEW m \in M PROVE BoundTo(t, scopes, bind2, m) = BoundTo(t, scopes, bind, m)
  <2>1. RegionAt(t, m) \in regions /\ NameAt(t, m) \in Names
    BY <1>2, <1>3, KeyFacts DEF Tables
  <2>2. ~(RegionAt(t, m) = RegionAt(t, k) /\ NameAt(t, m) = NameAt(t, k))
    BY <1>7 DEF Clash
  <2>3. QED
    BY <1>5, <2>1, <2>2 DEF BoundTo
<1>12. id # NoSymbol /\ id \in 1 .. Len(syms2)
  BY <1>1, <1>3, <1>4 DEF NoSymbol
<1>13. \A m \in DOMAIN ids2 : /\ ids2[m] = BoundTo(t, scopes, bind2, m)
                              /\ ids2[m] \in 1 .. Len(syms2)
                              /\ syms2[ids2[m]] = SymbolFor(t, m)
  <2>1. ASSUME NEW m \in DOMAIN ids
        PROVE  /\ ids2[m] = BoundTo(t, scopes, bind2, m) /\ ids2[m] \in 1 .. Len(syms2)
               /\ syms2[ids2[m]] = SymbolFor(t, m)
    <3>1. m \in M /\ ids2[m] = ids[m] /\ ids[m] \in 1 .. Len(syms)
      BY <1>6, <1>8
    <3>2. ids[m] \in 1 .. Len(syms2)
      BY <1>1, <1>3, <1>4, <3>1
    <3>3. QED
      BY <1>4, <1>6, <1>11, <3>1, <3>2
  <2>2. QED
    BY <1>4, <1>8, <1>10, <1>12, <2>1
<1>14. \A m \in M \cup {k} : BoundTo(t, scopes, bind2, m) # NoSymbol
  BY <1>6, <1>10, <1>11, <1>12
<1>15. ASSUME NEW r \in regions, NEW n \in Names, bind2[ScopeAt(scopes, r)][n] # NoSymbol
       PROVE  \E m \in DOMAIN ids2 : RegionAt(t, m) = r /\ NameAt(t, m) = n
  <2>1. CASE r = RegionAt(t, k) /\ n = NameAt(t, k)
    BY <1>8, <2>1
  <2>2. CASE ~(r = RegionAt(t, k) /\ n = NameAt(t, k))
    <3>1. bind[ScopeAt(scopes, r)][n] # NoSymbol
      BY <1>5, <1>15, <2>2
    <3>2. \E m \in DOMAIN ids : RegionAt(t, m) = r /\ NameAt(t, m) = n
      BY <1>2, <3>1 DEF Bound
    <3>3. QED
      BY <1>8, <3>2
  <2>3. QED
    BY <2>1, <2>2
<1>16. dups = {<<m, BoundTo(t, scopes, bind2, m)>> : m \in (M \cup {k}) \ DOMAIN ids2}
  <2>1. (M \cup {k}) \ DOMAIN ids2 = M \ DOMAIN ids
    BY <1>3, <1>8
  <2>2. QED
    BY <1>6, <1>11, <2>1
<1>17. QED
  BY <1>2, <1>9, <1>13, <1>14, <1>15, <1>16 DEF Bound

\* A declaration whose name is taken is reported with the one that has it.
LEMMA BoundRefuses ==
    ASSUME NEW t, NEW M, NEW k, NEW scopes, NEW bind, NEW syms, NEW ids, NEW dups, NEW dups2,
           Tables(t, M, scopes, bind, syms), Latest(t, M, k),
           RegionAt(t, k) \in {Program} \cup DOMAIN scopes,
           Bound(t, M, scopes, bind, syms, ids, dups),
           BoundTo(t, scopes, bind, k) # NoSymbol,
           dups2 = dups \cup {<<k, BoundTo(t, scopes, bind, k)>>}
    PROVE  Bound(t, M \cup {k}, scopes, bind, syms, ids, dups2)
<1>1. /\ t \in Seq(Nodes) /\ M \subseteq Keys(t) /\ k \in Keys(t) /\ k \notin M
      /\ NameAt(t, k) \in Names
  BY KeyFacts DEF Tables, Latest
<1>2. DOMAIN ids = {m \in M : First(t, M, m)}
  BY DEF Bound
<1>3. PICK l \in DOMAIN ids : RegionAt(t, l) = RegionAt(t, k) /\ NameAt(t, l) = NameAt(t, k)
  BY <1>1 DEF Bound, BoundTo
<1>4. l \in M /\ Clash(t, l, k)
  BY <1>2, <1>3 DEF Clash
<1>5. DOMAIN ids = {m \in M \cup {k} : First(t, M \cup {k}, m)}
  <2>1. /\ \A m \in M : First(t, M \cup {k}, m) <=> First(t, M, m)
        /\ ~First(t, M \cup {k}, k)
    BY <1>1, <1>4, FirstGrows
  <2>2. QED
    BY <1>1, <1>2, <2>1
<1>6. dups2 = {<<m, BoundTo(t, scopes, bind, m)>> : m \in (M \cup {k}) \ DOMAIN ids}
  <2>1. dups = {<<m, BoundTo(t, scopes, bind, m)>> : m \in M \ DOMAIN ids}
    BY DEF Bound
  <2>2. (M \cup {k}) \ DOMAIN ids = (M \ DOMAIN ids) \cup {k}
    BY <1>1, <1>2
  <2>3. QED
    BY <2>1, <2>2
<1>7. \A m \in M \cup {k} : BoundTo(t, scopes, bind, m) # NoSymbol
  BY DEF Bound
<1>8. QED
  BY <1>5, <1>6, <1>7 DEF Bound

\* What Bound says of a tree it says of the tree with one more node.
LEMMA BoundGrown ==
    ASSUME NEW t \in Seq(Nodes), NEW node \in Nodes, NEW u, u = Append(t, node),
           NEW M, M \subseteq Keys(t), NEW scopes, NEW bind, NEW syms, NEW ids, NEW dups,
           Bound(t, M, scopes, bind, syms, ids, dups)
    PROVE  M \subseteq Keys(u) /\ Bound(u, M, scopes, bind, syms, ids, dups)
<1>1. M \subseteq Keys(u)
  BY GrownKeys
<1>2. ASSUME NEW k \in M
      PROVE  /\ NameAt(u, k) = NameAt(t, k) /\ KindAt(u, k) = KindAt(t, k)
             /\ RegionAt(u, k) = RegionAt(t, k)
  <2>1. k \in Keys(t)
    OBVIOUS
  <2>2. QED
    BY <2>1, GrownKeys
<1>3. \A k \in M : /\ BoundTo(u, scopes, bind, k) = BoundTo(t, scopes, bind, k)
                   /\ SymbolFor(u, k) = SymbolFor(t, k)
  BY <1>2 DEF BoundTo, SymbolFor
<1>4. \A k \in M : First(u, M, k) <=> First(t, M, k)
  BY <1>2 DEF First, Clash
<1>5. DOMAIN ids \subseteq M /\ DOMAIN ids = {k \in M : First(u, M, k)}
  BY <1>4 DEF Bound
<1>6. \A k \in DOMAIN ids : /\ ids[k] = BoundTo(u, scopes, bind, k)
                            /\ ids[k] \in 1 .. Len(syms)
                            /\ syms[ids[k]] = SymbolFor(u, k)
  BY <1>3, <1>5 DEF Bound
<1>7. \A k \in M : BoundTo(u, scopes, bind, k) # NoSymbol
  BY <1>3 DEF Bound
<1>8. \A r \in {Program} \cup DOMAIN scopes, n \in Names :
          bind[ScopeAt(scopes, r)][n] # NoSymbol =>
              \E k \in DOMAIN ids : RegionAt(u, k) = r /\ NameAt(u, k) = n
  <2>1. ASSUME NEW r \in {Program} \cup DOMAIN scopes, NEW n \in Names,
               bind[ScopeAt(scopes, r)][n] # NoSymbol
        PROVE  \E k \in DOMAIN ids : RegionAt(u, k) = r /\ NameAt(u, k) = n
    <3>1. PICK k \in DOMAIN ids : RegionAt(t, k) = r /\ NameAt(t, k) = n
      BY <2>1 DEF Bound
    <3>2. QED
      BY <1>2, <1>5, <3>1
  <2>2. QED
    BY <2>1
<1>9. dups = {<<k, BoundTo(u, scopes, bind, k)>> : k \in M \ DOMAIN ids}
  <2>1. dups = {<<k, BoundTo(t, scopes, bind, k)>> : k \in M \ DOMAIN ids}
    BY DEF Bound
  <2>2. QED
    BY <1>3, <2>1
<1>10. QED
  BY <1>1, <1>5, <1>6, <1>7, <1>8, <1>9 DEF Bound

\* What Scoped says, in the terms of the tables.
LEMMA ScopedTables ==
    ASSUME TableInv, NEW t \in Seq(Nodes), NEW s,
           Scoped(t, Entered(t, s), scopeOf, parent), NEW M, M \subseteq Keys(t),
           \A m \in M : RegionAt(t, m) \in {Program} \cup Entered(t, s)
    PROVE  Tables(t, M, scopeOf, binding, symbols)
<1>1. /\ parent \in Seq(Nat) /\ symbols \in Seq(Symbols) /\ binding \in Seq([Names -> Nat])
      /\ Len(binding) = Len(parent) /\ 1 \in DOMAIN parent /\ DOMAIN parent = 1 .. Len(parent)
      /\ Len(parent) \in Nat
  BY DEF TableInv, TableTypeOK, ScopeIds, GlobalScope
<1>2. /\ DOMAIN scopeOf = Entered(t, s)
      /\ \A j \in DOMAIN scopeOf : scopeOf[j] \in 2 .. Len(parent) /\ j # Program
      /\ \A i, j \in DOMAIN scopeOf : scopeOf[i] = scopeOf[j] => i = j
  BY DEF Scoped, Entered, Program
<1>3. \A r \in {Program} \cup DOMAIN scopeOf : ScopeAt(scopeOf, r) \in 1 .. Len(binding)
  BY <1>1, <1>2 DEF ScopeAt, GlobalScope
<1>4. ASSUME NEW q \in {Program} \cup DOMAIN scopeOf, NEW r \in {Program} \cup DOMAIN scopeOf,
             ScopeAt(scopeOf, q) = ScopeAt(scopeOf, r)
      PROVE  q = r
  <2>1. \A j \in DOMAIN scopeOf : scopeOf[j] # GlobalScope
    BY <1>1, <1>2 DEF GlobalScope
  <2>2. CASE q = Program \/ r = Program
    BY <1>2, <1>4, <2>1, <2>2 DEF ScopeAt
  <2>3. CASE q # Program /\ r # Program
    BY <1>2, <1>4, <2>3 DEF ScopeAt
  <2>4. QED
    BY <2>2, <2>3
<1>5. QED
  BY <1>1, <1>2, <1>3, <1>4 DEF Tables

\* insert_symbol() for the next declaration.
LEMMA DeclareKeeps ==
    ASSUME TableInv, NEW t, NEW M, NEW k, Tables(t, M, scopeOf, binding, symbols),
           Latest(t, M, k), k \in Declaration,
           RegionAt(t, k) \in {Program} \cup DOMAIN scopeOf,
           Bound(t, M, scopeOf, binding, symbols, symbolOf, duplicates),
           NEW kind, NEW name, NEW s, kind = KindAt(t, k), name = NameAt(t, k),
           s = ScopeAt(scopeOf, RegionAt(t, k)), Declare(s, kind, name, k)
    PROVE  /\ TableInv' /\ parent' = parent
           /\ Bound(t, M \cup {k}, scopeOf, binding', symbols', symbolOf', duplicates')
<1>1. PICK symbol : symbol = SymbolFor(t, k)
  OBVIOUS
<1>2. /\ symbol.name = name /\ symbol.kind = kind /\ symbol.declaration = k
      /\ symbol = [name |-> name, kind |-> kind, declaration |-> k]
  BY <1>1 DEF SymbolFor
<1>3. symbol \in Symbols
  <2>1. NameAt(t, k) \in Names
    BY KeyFacts DEF Latest, Tables
  <2>2. KindAt(t, k) \in SymbolKinds
    BY DEF KindAt, SymbolKinds
  <2>3. symbol \in [name : Names, kind : SymbolKinds, declaration : Declaration]
    BY <1>2, <2>1, <2>2
  <2>4. QED
    BY <2>3, SymbolsAssumption
<1>4. s \in ScopeIds
  <2>1. s \in 1 .. Len(binding)
    BY DEF Tables
  <2>2. DOMAIN parent = 1 .. Len(binding)
    BY DEF TableInv, TableTypeOK
  <2>3. QED
    BY <2>1, <2>2 DEF ScopeIds
<1>5. Insert(s, symbol) /\ parent' = parent
  BY <1>2 DEF Declare, Insert
<1>6. TableInv'
  BY <1>3, <1>4, <1>5, InsertKeepsTable
<1>7. LookupLocal(s, name) = BoundTo(t, scopeOf, binding, k)
  BY DEF LookupLocal, BoundTo
<1>8. CASE LookupLocal(s, name) = NoSymbol
  <2>1. /\ symbols' = Append(symbols, symbol)
        /\ binding' = [binding EXCEPT ![s] = [@ EXCEPT ![name] = Len(symbols) + 1]]
    BY <1>2, <1>5, <1>8 DEF Insert, LookupLocal
  <2>2. symbolOf' = Emplace(symbolOf, k, Len(symbols) + 1) /\ duplicates' = duplicates
    BY <1>8 DEF Declare
  <2>3. Inserts(t, k, scopeOf, binding, symbols, symbolOf, binding', symbols', symbolOf')
    BY <1>1, <1>7, <1>8, <2>1, <2>2 DEF Inserts
  <2>4. Bound(t, M \cup {k}, scopeOf, binding', symbols', symbolOf', duplicates)
    <3>1. SymbolFor(t, k) \in Symbols
      BY <1>1, <1>3
    <3>2. QED
      BY <2>3, <3>1, BoundInserts
  <2>5. QED
    BY <1>5, <1>6, <2>2, <2>4
<1>9. CASE LookupLocal(s, name) # NoSymbol
  <2>1. symbols' = symbols /\ binding' = binding
    BY <1>2, <1>5, <1>9 DEF Insert, LookupLocal
  <2>2. /\ duplicates' = duplicates \cup {<<k, LookupLocal(s, name)>>}
        /\ symbolOf' = symbolOf
    BY <1>9 DEF Declare
  <2>3. Bound(t, M \cup {k}, scopeOf, binding, symbols, symbolOf, duplicates')
    BY <1>7, <1>9, <2>2, BoundRefuses
  <2>4. QED
    BY <1>5, <1>6, <2>1, <2>2, <2>3
<1>10. QED
  BY <1>8, <1>9

\* A body gets a scope in which nothing is bound.
LEMMA BoundEnters ==
    ASSUME NEW t, NEW M, NEW scopes, NEW bind, NEW syms, NEW ids, NEW dups, NEW j,
           NEW scopes2, NEW bind2,
           Tables(t, M, scopes, bind, syms), j \notin DOMAIN scopes, j # Program,
           bind2 = Append(bind, Unbound), scopes2 = Emplace(scopes, j, Len(bind) + 1),
           Bound(t, M, scopes, bind, syms, ids, dups)
    PROVE  Bound(t, M, scopes2, bind2, syms, ids, dups)
<1>1. /\ bind \in Seq([Names -> Nat]) /\ Len(bind) \in Nat
      /\ \A r \in {Program} \cup DOMAIN scopes : ScopeAt(scopes, r) \in 1 .. Len(bind)
      /\ \A m \in M : RegionAt(t, m) \in {Program} \cup DOMAIN scopes
  BY DEF Tables
<1>2. Unbound \in [Names -> Nat] /\ \A n \in Names : Unbound[n] = NoSymbol
  BY DEF Unbound, NoSymbol
<1>3. bind2[Len(bind) + 1] = Unbound /\ \A s \in 1 .. Len(bind) : bind2[s] = bind[s]
  BY <1>1, <1>2
<1>4. /\ DOMAIN scopes2 = DOMAIN scopes \cup {j} /\ scopes2[j] = Len(bind) + 1
      /\ \A r \in DOMAIN scopes : scopes2[r] = scopes[r]
  BY DEF Emplace
<1>5. \A r \in {Program} \cup DOMAIN scopes : ScopeAt(scopes2, r) = ScopeAt(scopes, r)
  BY <1>4 DEF ScopeAt
<1>6. \A r \in {Program} \cup DOMAIN scopes :
          bind2[ScopeAt(scopes2, r)] = bind[ScopeAt(scopes, r)]
  BY <1>1, <1>3, <1>5
<1>7. \A k \in M : BoundTo(t, scopes2, bind2, k) = BoundTo(t, scopes, bind, k)
  BY <1>1, <1>6 DEF BoundTo
<1>8. bind2[ScopeAt(scopes2, j)] = Unbound
  BY <1>3, <1>4 DEF ScopeAt
<1>9. DOMAIN ids \subseteq M /\ DOMAIN ids = {k \in M : First(t, M, k)}
  BY DEF Bound
<1>10. \A k \in DOMAIN ids : /\ ids[k] = BoundTo(t, scopes2, bind2, k)
                             /\ ids[k] \in 1 .. Len(syms)
                             /\ syms[ids[k]] = SymbolFor(t, k)
  BY <1>7, <1>9 DEF Bound
<1>11. \A k \in M : BoundTo(t, scopes2, bind2, k) # NoSymbol
  BY <1>7 DEF Bound
<1>12. \A r \in {Program} \cup DOMAIN scopes2, n \in Names :
           bind2[ScopeAt(scopes2, r)][n] # NoSymbol =>
               \E k \in DOMAIN ids : RegionAt(t, k) = r /\ NameAt(t, k) = n
  <2>1. ASSUME NEW r \in {Program} \cup DOMAIN scopes2, NEW n \in Names,
               bind2[ScopeAt(scopes2, r)][n] # NoSymbol
        PROVE  \E k \in DOMAIN ids : RegionAt(t, k) = r /\ NameAt(t, k) = n
    <3>1. r # j
      BY <1>2, <1>8, <2>1
    <3>2. r \in {Program} \cup DOMAIN scopes
      BY <1>4, <2>1, <3>1
    <3>3. bind[ScopeAt(scopes, r)][n] # NoSymbol
      BY <1>6, <2>1, <3>2
    <3>4. QED
      BY <3>2, <3>3 DEF Bound
  <2>2. QED
    BY <2>1
<1>13. dups = {<<k, BoundTo(t, scopes2, bind2, k)>> : k \in M \ DOMAIN ids}
  <2>1. dups = {<<k, BoundTo(t, scopes, bind, k)>> : k \in M \ DOMAIN ids}
    BY DEF Bound
  <2>2. QED
    BY <1>7, <2>1
<1>14. QED
  BY <1>9, <1>10, <1>11, <1>12, <1>13 DEF Bound

-----------------------------------------------------------------------------
(* The declarations made, from step to step of the visit *)

Grows(t, node, u) == t \in Seq(Nodes) /\ node \in Nodes /\ u = Append(t, node)

\* A node arrives: what it declares at once.
LEMMA MadeArrives ==
    ASSUME NEW t, NEW node, NEW u, Grows(t, node, u), NEW q
    PROVE  /\ node.kind = "function" =>
                  Made(u, "body", q) = Keys(t) \cup {Own(Len(t) + 1)}
           /\ node.kind = "variable" =>
                  Made(u, "node", q) = Keys(t) \cup {Own(Len(t) + 1)}
           /\ node.kind \in {"loop", "block"} => Made(u, "body", q) = Keys(t)
           /\ node.kind \in {"statement", "end"} => Made(u, "node", q) = Keys(t)
           /\ node.kind \in {"function", "variable"} => Latest(u, Keys(t), Own(Len(t) + 1))
<1>0. t \in Seq(Nodes) /\ node \in Nodes /\ u = Append(t, node)
  BY DEF Grows
<1>1. /\ u \in Seq(Nodes) /\ Len(t) \in Nat /\ Len(u) = Len(t) + 1 /\ u[Len(u)] = node
  BY <1>0
<1>2. PICK n : n = Len(u)
  OBVIOUS
<1>3. n \in Nat \ {0} /\ n = Len(t) + 1 /\ u[n] = node /\ MaxParameters \in Nat
  BY <1>1, <1>2, NodeAssumption
<1>4. Keys(t) = {k \in Keys(u) : k.node < n}
  BY <1>0, <1>2, GrownKeys
<1>5. /\ Own(n) \in [node : 1 .. n, position : 0 .. MaxParameters]
      /\ Own(n).node = n /\ Own(n).position = 0
  BY <1>3 DEF Own
<1>6. \A k \in Keys(u) : /\ k.node \in 1 .. n /\ k.position \in Nat
                         /\ k.position = 0 /\ k.node = n => k = Own(n)
  BY <1>1, <1>2, KeyFacts DEF Own
<1>7. node.kind = "function" => node.parameters \in Seq(Names)
  BY <1>0, NodeAssumption
<1>8. node.kind \in {"function", "variable"} => Own(n) \in Keys(u)
  <2>1. CASE node.kind = "function"
    <3>1. 0 \in 0 .. Len(u[n].parameters)
      BY <1>3, <1>7, <2>1
    <3>2. QED
      BY <1>2, <1>3, <1>5, <2>1, <3>1 DEF Keys
  <2>2. CASE node.kind = "variable"
    BY <1>2, <1>3, <1>5, <2>2 DEF Keys
  <2>3. QED
    BY <2>1, <2>2
<1>9. \A k \in Keys(u) : k.node = n =>
          /\ node.kind \in {"function", "variable", "loop"}
          /\ node.kind \in {"variable", "loop"} => k.position = 0
  <2>1. ASSUME NEW k \in Keys(u), k.node = n
        PROVE  \/ node.kind = "function"
               \/ node.kind \in {"variable", "loop"} /\ k.position = 0
    BY <1>3, <2>1 DEF Keys
  <2>2. QED
    BY <2>1
<1>11. ASSUME node.kind = "function"
       PROVE  Made(u, "body", q) = Keys(t) \cup {Own(n)}
  BY <1>2, <1>3, <1>4, <1>5, <1>6, <1>8, <1>11 DEF Made
<1>12. ASSUME node.kind = "variable"
       PROVE  Made(u, "node", q) = Keys(t) \cup {Own(n)}
  <2>1. Made(u, "node", q) = Keys(u)
    BY DEF Made
  <2>2. \A k \in Keys(u) : k.node < n \/ k = Own(n)
    BY <1>3, <1>6, <1>9, <1>12
  <2>3. QED
    BY <1>4, <1>8, <1>12, <2>1, <2>2
<1>13. ASSUME node.kind \in {"loop", "block"}
       PROVE  Made(u, "body", q) = Keys(t)
  <2>1. u[Len(u)].kind # "function"
    BY <1>2, <1>3, <1>13
  <2>2. QED
    BY <1>2, <1>4, <2>1 DEF Made
<1>14. ASSUME node.kind \in {"statement", "end"}
       PROVE  Made(u, "node", q) = Keys(t)
  <2>1. Made(u, "node", q) = Keys(u)
    BY DEF Made
  <2>2. \A k \in Keys(u) : k.node < n
    BY <1>3, <1>6, <1>9, <1>14
  <2>3. QED
    BY <1>4, <2>1, <2>2
<1>15. ASSUME node.kind \in {"function", "variable"}
       PROVE  Latest(u, Keys(t), Own(n))
  BY <1>3, <1>4, <1>5, <1>8, <1>15 DEF Latest, Before
<1>16. QED
  BY <1>3, <1>11, <1>12, <1>13, <1>14, <1>15

\* A body is entered.
LEMMA MadeEnters ==
    ASSUME NEW t \in Seq(Nodes), Len(t) > 0, NEW p, NEW s, Opens(t, Len(t)),
           s = CASE t[Len(t)].kind = "function" -> "parameters"
                 [] t[Len(t)].kind = "loop" -> "binding"
                 [] t[Len(t)].kind = "block" -> "node"
    PROVE  Made(t, s, 1) = Made(t, "body", p)
<1>1. PICK n : n = Len(t)
  OBVIOUS
<1>2. n \in Nat \ {0} /\ \A k \in Keys(t) : k.node \in 1 .. n /\ k.position \in Nat
  BY <1>1, KeyFacts
<1>3. CASE t[n].kind = "function"
  <2>1. s = "parameters"
    BY <1>1, <1>3
  <2>2. \A k \in Keys(t) : k.position < 1 <=> k.position = 0
    BY <1>2
  <2>3. QED
    BY <1>1, <1>2, <1>3, <2>1, <2>2 DEF Made
<1>4. CASE t[n].kind = "loop"
  <2>1. s = "binding"
    BY <1>1, <1>4
  <2>2. QED
    BY <1>1, <1>4, <2>1 DEF Made
<1>5. CASE t[n].kind = "block"
  <2>1. s = "node"
    BY <1>1, <1>5
  <2>2. \A k \in Keys(t) : k.node # n
    BY <1>5 DEF Keys
  <2>3. \A k \in Keys(t) : k.node < n
    BY <1>2, <2>2
  <2>4. QED
    BY <1>1, <1>5, <2>1, <2>3 DEF Made
<1>6. QED
  BY <1>1, <1>3, <1>4, <1>5 DEF Opens

\* A parameter is declared, or there is none left, or the variable of a loop is declared.
LEMMA MadeParameter ==
    ASSUME NEW t \in Seq(Nodes), Len(t) > 0, t[Len(t)].kind = "function",
           NEW p \in DOMAIN t[Len(t)].parameters, NEW k, k = [node |-> Len(t), position |-> p]
    PROVE  /\ Made(t, "parameters", p + 1) = Made(t, "parameters", p) \cup {k}
           /\ Latest(t, Made(t, "parameters", p), k)
           /\ p \in Nat \ {0} /\ p \in 1 .. MaxParameters /\ p <= Len(t[Len(t)].parameters)
<1>1. PICK n : n = Len(t)
  OBVIOUS
<1>2. n \in Nat \ {0} /\ \A l \in Keys(t) : l.node \in 1 .. n /\ l.position \in Nat
  BY <1>1, KeyFacts
<1>3. t[n].parameters \in Seq(Names) /\ Len(t[n].parameters) <= MaxParameters
  <2>1. t[n] \in Nodes
    BY <1>1, <1>2, NodeFacts
  <2>2. QED
    BY <1>1, <2>1, NodeAssumption
<1>4. p \in 1 .. Len(t[n].parameters) /\ Len(t[n].parameters) \in Nat /\ MaxParameters \in Nat
  BY <1>1, <1>3, NodeAssumption
<1>5. p \in Nat \ {0} /\ p \in 1 .. MaxParameters /\ p <= Len(t[n].parameters)
  BY <1>3, <1>4
<1>6. k.node = n /\ k.position = p
  BY <1>1
<1>7. k \in Keys(t)
  <2>1. k \in [node : 1 .. Len(t), position : 0 .. MaxParameters]
    BY <1>1, <1>2, <1>5
  <2>2. p \in 0 .. Len(t[n].parameters)
    BY <1>4
  <2>3. QED
    BY <1>1, <1>6, <2>1, <2>2 DEF Keys
<1>8. \A l \in Keys(t) : l.node = n /\ l.position = p => l = k
  BY <1>6, <1>7, KeyFacts
<1>9. Made(t, "parameters", p + 1) = Made(t, "parameters", p) \cup {k}
  <2>1. \A l \in Keys(t) : l.position < p + 1 <=> l.position < p \/ l.position = p
    BY <1>2, <1>5
  <2>2. \A l \in Keys(t) : l.node < n \/ l.node = n
    BY <1>2
  <2>3. Made(t, "parameters", p) = {l \in Keys(t) : l.node < n \/ l.position < p}
    BY <1>1 DEF Made
  <2>4. Made(t, "parameters", p + 1) = {l \in Keys(t) : l.node < n \/ l.position < p + 1}
    BY <1>1 DEF Made
  <2>5. QED
    BY <1>6, <1>7, <1>8, <2>1, <2>2, <2>3, <2>4
<1>10. Latest(t, Made(t, "parameters", p), k)
  <2>1. \A l \in Made(t, "parameters", p) : Before(l, k)
    BY <1>1, <1>2, <1>5, <1>6 DEF Made, Before
  <2>2. k \notin Made(t, "parameters", p)
    BY <1>1, <1>2, <1>5, <1>6 DEF Made
  <2>3. QED
    BY <1>7, <2>1, <2>2 DEF Latest
<1>11. QED
  BY <1>1, <1>5, <1>9, <1>10

\* The same for the parameter that is next, and behind the last one.
LEMMA MadeParameters ==
    ASSUME NEW t \in Seq(Nodes), Len(t) > 0, t[Len(t)].kind = "function",
           NEW p \in Nat, p > Len(t[Len(t)].parameters)
    PROVE  Made(t, "node", p) = Made(t, "parameters", p)
<1>1. \A k \in Keys(t) : k.node \in 1 .. Len(t) /\ k.position \in Nat
  BY KeyFacts
<1>2. t[Len(t)].parameters \in Seq(Names)
  <2>1. t[Len(t)] \in Nodes
    BY NodeFacts
  <2>2. QED
    BY <2>1, NodeAssumption
<1>3. \A k \in Keys(t) : k.node = Len(t) => k.position < p
  <2>1. ASSUME NEW k \in Keys(t), k.node = Len(t)
        PROVE  k.position \in 0 .. Len(t[Len(t)].parameters)
    BY <2>1 DEF Keys
  <2>2. Len(t[Len(t)].parameters) \in Nat
    BY <1>2
  <2>3. QED
    BY <2>1, <2>2
<1>4. Len(t) \in Nat
  OBVIOUS
<1>5. \A k \in Keys(t) : k.node < Len(t) \/ k.position < p
  BY <1>1, <1>3, <1>4
<1>6. QED
  BY <1>5 DEF Made

\* The same for the variable of a loop.
LEMMA MadeBinding ==
    ASSUME NEW t \in Seq(Nodes), Len(t) > 0, t[Len(t)].kind = "loop", NEW p, NEW q
    PROVE  /\ Made(t, "node", q) = Made(t, "binding", p) \cup {Own(Len(t))}
           /\ Latest(t, Made(t, "binding", p), Own(Len(t)))
<1>1. PICK n : n = Len(t)
  OBVIOUS
<1>2. n \in Nat \ {0} /\ \A k \in Keys(t) : k.node \in 1 .. n /\ k.position \in Nat
  BY <1>1, KeyFacts
<1>3. Own(n) \in Keys(t) /\ Own(n).node = n /\ Own(n).position = 0
  <2>1. /\ Own(n) \in [node : 1 .. n, position : 0 .. MaxParameters]
        /\ Own(n).node = n /\ Own(n).position = 0
    BY <1>2, NodeAssumption DEF Own
  <2>2. QED
    BY <1>1, <2>1 DEF Keys
<1>4. \A k \in Keys(t) : k.node = n => k = Own(n)
  <2>1. ASSUME NEW k \in Keys(t), k.node = n PROVE k.position = 0
    BY <1>1, <2>1 DEF Keys
  <2>2. QED
    BY <1>3, <2>1, KeyFacts
<1>5. Made(t, "binding", p) = {k \in Keys(t) : k.node < n}
  BY <1>1 DEF Made
<1>6. Made(t, "node", q) = Keys(t)
  BY DEF Made
<1>7. Made(t, "node", q) = Made(t, "binding", p) \cup {Own(n)}
  BY <1>2, <1>3, <1>4, <1>5, <1>6
<1>8. Latest(t, Made(t, "binding", p), Own(n))
  BY <1>2, <1>3, <1>5 DEF Latest, Before
<1>9. QED
  BY <1>1, <1>7, <1>8

\* What is declared is in a region that has been entered.
LEMMA MadeEntered ==
    ASSUME NEW t \in Seq(Nodes), NEW s, NEW p
    PROVE  /\ Made(t, s, p) \subseteq Keys(t)
           /\ \A k \in Made(t, s, p) : RegionAt(t, k) \in {Program} \cup Entered(t, s)
           /\ \A j \in 1 .. Len(t) : Inner(t, j) \in {Program} \cup Entered(t, s)
           /\ s # "body" => Inner(t, Len(t) + 1) \in {Program} \cup Entered(t, s)
<1>1. Len(t) \in Nat
  OBVIOUS
<1>2. ASSUME NEW j \in Nat \ {0}, Inner(t, j) # Program
      PROVE  Inner(t, j) \in 1 .. j - 1 /\ Opens(t, Inner(t, j))
  BY <1>2, InnerFacts, RegionsNested
<1>3. \A j \in 1 .. Len(t) : Inner(t, j) \in {Program} \cup Entered(t, s)
  <2>1. ASSUME NEW j \in 1 .. Len(t), Inner(t, j) # Program
        PROVE  Inner(t, j) \in Entered(t, s)
    <3>1. j \in Nat \ {0}
      OBVIOUS
    <3>2. Inner(t, j) \in 1 .. j - 1 /\ Opens(t, Inner(t, j))
      BY <1>2, <2>1, <3>1
    <3>3. Inner(t, j) \in 1 .. Len(t) /\ Inner(t, j) < Len(t)
      BY <1>1, <3>2
    <3>4. QED
      BY <3>2, <3>3 DEF Entered
  <2>2. QED
    BY <2>1
<1>4. s # "body" => Inner(t, Len(t) + 1) \in {Program} \cup Entered(t, s)
  <2>1. Len(t) + 1 \in Nat \ {0} /\ (Len(t) + 1) - 1 = Len(t)
    BY <1>1
  <2>2. Inner(t, Len(t) + 1) # Program =>
            Inner(t, Len(t) + 1) \in 1 .. Len(t) /\ Opens(t, Inner(t, Len(t) + 1))
    BY <1>2, <2>1
  <2>3. QED
    BY <2>2 DEF Entered
<1>5. ASSUME NEW k \in Made(t, s, p) PROVE RegionAt(t, k) \in {Program} \cup Entered(t, s)
  <2>1. k \in Keys(t)
    BY DEF Made
  <2>2. /\ k.node \in 1 .. Len(t) /\ RegionAt(t, k) \in 0 .. k.node
        /\ RegionAt(t, k) # Program => Opens(t, RegionAt(t, k))
    BY <2>1, KeyFacts
  <2>3. CASE s # "body" \/ k.node < Len(t)
    BY <1>1, <2>2, <2>3 DEF Entered, Program
  <2>4. CASE s = "body" /\ ~(k.node < Len(t))
    <3>1. t[Len(t)].kind = "function" /\ k.position = 0 /\ k.node = Len(t)
      BY <1>1, <2>2, <2>4 DEF Made
    <3>2. RegionAt(t, k) = Inner(t, k.node)
      BY <3>1 DEF RegionAt
    <3>3. QED
      BY <1>3, <2>2, <3>2
  <2>5. QED
    BY <2>3, <2>4
<1>6. Made(t, s, p) \subseteq Keys(t)
  BY DEF Made
<1>7. QED
  BY <1>3, <1>4, <1>5, <1>6

-----------------------------------------------------------------------------
(* Scopes and the visits in progress *)

\* The scopes of the bodies stay while the tree grows.
LEMMA ScopedGrown ==
    ASSUME NEW t \in Seq(Nodes), NEW node \in Nodes, NEW u, u = Append(t, node),
           NEW bodies, bodies \subseteq 1 .. Len(t), NEW scopes, NEW par,
           Scoped(t, bodies, scopes, par)
    PROVE  Scoped(u, bodies, scopes, par)
<1>1. \A j \in bodies : Inner(u, j) = Inner(t, j)
  <2>1. \A j \in bodies : j \in 1 .. Len(t) + 1
    OBVIOUS
  <2>2. QED
    BY <2>1, Grown
<1>2. QED
  BY <1>1 DEF Scoped

\* A body gets a scope of its own, in the scope around it.
Enters(t, bodies, scopes, par, j, scopes2, par2) ==
    /\ par \in Seq(Nat) /\ Len(par) > 0 /\ j \notin bodies /\ j # Program /\ Program \notin bodies
    /\ scopes2 = Emplace(scopes, j, Len(par) + 1)
    /\ par2 = Append(par, ScopeAt(scopes, Inner(t, j)))
    /\ Inner(t, j) \in {Program} \cup bodies
    /\ \A b \in bodies : Inner(t, b) \in {Program} \cup bodies

\* The body that is entered gets a scope of its own.
LEMMA ScopedEnters ==
    ASSUME NEW t, NEW bodies, NEW scopes, NEW par, NEW j, NEW scopes2, NEW par2,
           Scoped(t, bodies, scopes, par), Enters(t, bodies, scopes, par, j, scopes2, par2)
    PROVE  Scoped(t, bodies \cup {j}, scopes2, par2)
<1>0. PICK bodies2, s : bodies2 = bodies \cup {j} /\ s = ScopeAt(scopes, Inner(t, j))
  OBVIOUS
<1> /\ par \in Seq(Nat) /\ Len(par) > 0 /\ j \notin bodies /\ j # Program /\ Program \notin bodies
    /\ bodies2 = bodies \cup {j} /\ s = ScopeAt(scopes, Inner(t, j))
    /\ scopes2 = Emplace(scopes, j, Len(par) + 1)
    /\ par2 = Append(par, s)
    /\ Inner(t, j) \in {Program} \cup bodies
    /\ \A b \in bodies : Inner(t, b) \in {Program} \cup bodies
  BY <1>0 DEF Enters
<1>1. /\ DOMAIN scopes = bodies /\ DOMAIN scopes2 = bodies2 /\ scopes2[j] = Len(par) + 1
      /\ \A b \in bodies : scopes2[b] = scopes[b]
  BY DEF Emplace, Scoped
<1>2. \A q \in {Program} \cup bodies : ScopeAt(scopes2, q) = ScopeAt(scopes, q)
  BY <1>1 DEF ScopeAt
<1>3. /\ Len(par) \in Nat /\ Len(par2) = Len(par) + 1 /\ par2[Len(par) + 1] = s
      /\ \A i \in 1 .. Len(par) : par2[i] = par[i]
  OBVIOUS
<1>4. ASSUME NEW b \in bodies2
      PROVE  /\ scopes2[b] \in 2 .. Len(par2)
             /\ par2[scopes2[b]] = ScopeAt(scopes2, Inner(t, b))
  <2>1. CASE b = j
    BY <1>1, <1>2, <1>3, <2>1
  <2>2. CASE b \in bodies
    <3>1. scopes[b] \in 2 .. Len(par) /\ par[scopes[b]] = ScopeAt(scopes, Inner(t, b))
      BY <2>2 DEF Scoped
    <3>2. QED
      BY <1>1, <1>2, <1>3, <2>2, <3>1
  <2>3. QED
    BY <2>1, <2>2
<1>5. \A a, b \in bodies2 : scopes2[a] = scopes2[b] => a = b
  <2>1. \A b \in bodies : scopes[b] \in 2 .. Len(par)
    BY DEF Scoped
  <2>2. \A b \in bodies : scopes2[b] # scopes2[j]
    BY <1>1, <1>3, <2>1
  <2>3. \A a, b \in bodies : scopes2[a] = scopes2[b] => a = b
    BY <1>1 DEF Scoped
  <2>4. QED
    BY <2>2, <2>3
<1>6. QED
  BY <1>1, <1>4, <1>5 DEF Scoped

\* The table's invariant stays while the table does.
LEMMA TableStays ==
    ASSUME TableInv, UNCHANGED tableVars
    PROVE  TableInv'
<1>1. parent' = parent /\ binding' = binding /\ symbols' = symbols
  BY DEF tableVars
<1>2. TableTypeOK'
  BY <1>1 DEF TableInv, TableTypeOK, ScopeIds
<1>3. SymbolsBoundOnce'
  BY <1>1 DEF TableInv, SymbolsBoundOnce, ScopeIds, SymbolIds, LookupLocal
<1>4. QED
  BY <1>2, <1>3 DEF TableInv

-----------------------------------------------------------------------------
(* The steps of the collector keep the invariant *)

\* The collector starts with what its invariant says of the empty tree.
LEMMA CollectorStarts == CollectorInit => CollectorInv
<1> SUFFICES ASSUME CollectorInit PROVE CollectorInv
  OBVIOUS
<1>1. /\ parent = <<NoScope>> /\ binding = <<Unbound>> /\ symbols = <<>> /\ tree = <<>>
      /\ open = <<GlobalScope>> /\ step = "node" /\ parameter = 1 /\ symbolOf = <<>>
      /\ scopeOf = <<>> /\ duplicates = {} /\ MaxNodes \in Nat
  BY NodeAssumption DEF CollectorInit, TableInit
<1>2. tree \in Seq(Nodes) /\ Len(tree) = 0 /\ Whole(tree) /\ Len(tree) <= MaxNodes
  BY <1>1 DEF Whole
<1>3. StepFits(tree, step, parameter)
  BY <1>1 DEF StepFits
<1>4. Entered(tree, step) = {} /\ DOMAIN scopeOf = {} /\ DOMAIN symbolOf = {}
  BY <1>1, <1>2 DEF Entered
<1>5. Scoped(tree, Entered(tree, step), scopeOf, parent)
  BY <1>4 DEF Scoped
<1>6. Inner(tree, 1) = Program
  <2>1. Inner(tree, 1) \in 0 .. 1 - 1
    BY InnerFacts
  <2>2. QED
    BY <2>1 DEF Program
<1>7. OpenFits(tree, step, scopeOf, parent, open)
  BY <1>1, <1>2, <1>6 DEF OpenFits, ScopeAt, GlobalScope
<1>8. Made(tree, step, parameter) = {}
  BY <1>2 DEF Made, Keys
<1>9. \A n \in Names : binding[ScopeAt(scopeOf, Program)][n] = NoSymbol
  BY <1>1 DEF ScopeAt, GlobalScope, Unbound
<1>10. Bound(tree, {}, scopeOf, binding, symbols, symbolOf, duplicates)
  BY <1>1, <1>4, <1>9 DEF Bound
<1>11. QED
  BY <1>2, <1>3, <1>5, <1>7, <1>8, <1>10 DEF CollectorInv

\* What the invariant says at an arrival.
LEMMA ArrivalFacts ==
    ASSUME TableInv, CollectorInv, NEW node \in Nodes, Arrives(node)
    PROVE  /\ step = "node" /\ tree \in Seq(Nodes) /\ tree' = Append(tree, node)
           /\ Len(tree) \in Nat /\ tree' \in Seq(Nodes) /\ Len(tree') = Len(tree) + 1
           /\ tree'[Len(tree')] = node /\ Here = Len(tree)
           /\ Len(tree') <= MaxNodes /\ Len(tree') \in 1 .. MaxNodes
           /\ Scope = ScopeAt(scopeOf, Inner(tree, Len(tree) + 1))
           /\ Inner(tree', Len(tree')) = Inner(tree, Len(tree) + 1)
           /\ Inner(tree', Len(tree')) \in {Program} \cup DOMAIN scopeOf
           /\ DOMAIN scopeOf = Entered(tree, "node")
           /\ \A s : s = "body" \/ ~Opens(tree', Len(tree')) =>
                  Entered(tree', s) = Entered(tree, "node")
           /\ Scoped(tree', Entered(tree, "node"), scopeOf, parent)
           /\ \A k \in Keys(tree) : RegionAt(tree', k) \in {Program} \cup Entered(tree, "node")
           /\ Keys(tree) \subseteq Keys(tree')
           /\ Tables(tree', Keys(tree), scopeOf, binding, symbols)
           /\ Bound(tree', Keys(tree), scopeOf, binding, symbols, symbolOf, duplicates)
<1>1. step = "node" /\ tree' = Append(tree, node) /\ Len(tree) < MaxNodes /\ tree \in Seq(Nodes)
  BY DEF Arrives, CollectorInv, Whole
<1>2. PICK u : u = Append(tree, node)
  OBVIOUS
<1>3. /\ Len(tree) \in Nat /\ u \in Seq(Nodes) /\ Len(u) = Len(tree) + 1 /\ u[Len(u)] = node
      /\ \A i \in 1 .. Len(tree) : u[i] = tree[i]
      /\ MaxNodes \in Nat
  BY <1>1, <1>2, NodeAssumption
<1>4. Len(u) <= MaxNodes /\ Len(u) \in 1 .. MaxNodes
  BY <1>1, <1>3
<1>5. Inner(u, Len(u)) = Inner(tree, Len(tree) + 1)
  <2>1. Len(tree) + 1 \in 1 .. Len(tree) + 1
    BY <1>3
  <2>2. \A i \in 1 .. Len(tree) + 1 : Inner(u, i) = Inner(tree, i)
    BY <1>1, <1>2, Grown
  <2>3. QED
    BY <1>3, <2>1, <2>2
<1>6. Scope = ScopeAt(scopeOf, Inner(tree, Len(tree) + 1))
  BY <1>1 DEF CollectorInv, OpenFits, Scope, Last
<1>7. Scoped(tree, Entered(tree, "node"), scopeOf, parent)
  BY <1>1 DEF CollectorInv
<1>8. DOMAIN scopeOf = Entered(tree, "node") /\ Entered(tree, "node") \subseteq 1 .. Len(tree)
  BY <1>7 DEF Scoped, Entered
<1>9. Inner(tree, Len(tree) + 1) \in {Program} \cup DOMAIN scopeOf
  BY <1>1, <1>8, MadeEntered
<1>10. ASSUME NEW s, s = "body" \/ ~Opens(u, Len(u))
       PROVE  Entered(u, s) = Entered(tree, "node")
  <2>1. \A j \in 1 .. Len(tree) : Opens(u, j) <=> Opens(tree, j)
    BY <1>3 DEF Opens
  <2>2. \A j : j \in 1 .. Len(u) <=> j \in 1 .. Len(tree) \/ j = Len(u)
    BY <1>3
  <2>3. \A j \in 1 .. Len(tree) : j < Len(u)
    BY <1>3
  <2>4. ~(Len(u) < Len(u))
    BY <1>3
  <2>5. QED
    BY <1>10, <2>1, <2>2, <2>3, <2>4 DEF Entered
<1>11. Scoped(u, Entered(tree, "node"), scopeOf, parent)
  BY <1>1, <1>2, <1>7, <1>8, ScopedGrown
<1>12. Made(tree, "node", parameter) = Keys(tree)
  BY DEF Made
<1>13. Bound(u, Keys(tree), scopeOf, binding, symbols, symbolOf, duplicates)
       /\ Keys(tree) \subseteq Keys(u)
  <2>1. Bound(tree, Keys(tree), scopeOf, binding, symbols, symbolOf, duplicates)
    BY <1>1, <1>12 DEF CollectorInv
  <2>2. QED
    BY <1>1, <1>2, <2>1, BoundGrown
<1>14. \A k \in Keys(tree) : RegionAt(u, k) \in {Program} \cup Entered(tree, "node")
  <2>1. \A k \in Keys(tree) : RegionAt(u, k) = RegionAt(tree, k)
    BY <1>1, <1>2, GrownKeys
  <2>2. \A k \in Keys(tree) : RegionAt(tree, k) \in {Program} \cup Entered(tree, "node")
    BY <1>1, <1>12, MadeEntered
  <2>3. QED
    BY <2>1, <2>2
<1>15. Tables(u, Keys(tree), scopeOf, binding, symbols)
  <2>1. Entered(u, "body") = Entered(tree, "node")
    BY <1>10
  <2>2. Scoped(u, Entered(u, "body"), scopeOf, parent)
    BY <1>11, <2>1
  <2>3. \A k \in Keys(tree) : RegionAt(u, k) \in {Program} \cup Entered(u, "body")
    BY <1>14, <2>1
  <2>4. QED
    BY <1>3, <1>13, <2>2, <2>3, ScopedTables
<1>16. QED
  BY <1>1, <1>2, <1>3, <1>4, <1>5, <1>6, <1>8, <1>9, <1>10, <1>11, <1>13, <1>14, <1>15 DEF Here

\* The visits in progress are the same behind a node that opens and ends nothing.
LEMMA OpenArrives ==
    ASSUME TableInv, CollectorInv, NEW node \in Nodes, Arrives(node), NEW s,
           IF s = "body" THEN Opens(tree', Len(tree'))
           ELSE ~Opens(tree', Len(tree')) /\ ~Shuts(tree', Len(tree'))
    PROVE  OpenFits(tree', s, scopeOf, parent, open)
<1>1. OpenFits(tree, step, scopeOf, parent, open) /\ step = "node"
  BY ArrivalFacts DEF CollectorInv
<1>2. Len(tree') \in Nat \ {0} /\ Inner(tree', Len(tree')) = Inner(tree, Len(tree) + 1)
  BY ArrivalFacts
<1>3. Inner(tree', IF s = "body" THEN Len(tree') ELSE Len(tree') + 1)
          = Inner(tree, Len(tree) + 1)
  BY <1>2, RegionsStay
<1>4. QED
  BY <1>1, <1>3 DEF OpenFits

\* A function or a variable is declared when it arrives.
LEMMA OwnArrives ==
    ASSUME TableInv, CollectorInv, NEW node \in Nodes, Arrives(node),
           node.kind \in {"function", "variable"},
           Declare(Scope, node.kind, node.name, Own(Here + 1))
    PROVE  /\ TableInv' /\ parent' = parent
           /\ Bound(tree', Keys(tree) \cup {Own(Len(tree) + 1)},
                    scopeOf, binding', symbols', symbolOf', duplicates')
<1>1. PICK u : u = tree'
  OBVIOUS
<1>2. PICK k : k = Own(Len(tree) + 1)
  OBVIOUS
<1>3. /\ Len(u) = Len(tree) + 1 /\ u[Len(u)] = node /\ Here = Len(tree) /\ Len(u) \in 1 .. MaxNodes
      /\ Tables(u, Keys(tree), scopeOf, binding, symbols)
      /\ Bound(u, Keys(tree), scopeOf, binding, symbols, symbolOf, duplicates)
      /\ Scope = ScopeAt(scopeOf, Inner(u, Len(u)))
      /\ Inner(u, Len(u)) \in {Program} \cup DOMAIN scopeOf
  BY <1>1, ArrivalFacts
<1>4. Latest(u, Keys(tree), k)
  <2>1. Grows(tree, node, u)
    BY <1>1, ArrivalFacts DEF Grows
  <2>2. QED
    BY <1>2, <2>1, MadeArrives
<1>5. k.node = Len(u) /\ k.position = 0 /\ k \in Declaration
  BY <1>2, <1>3, NodeAssumption DEF Own, Declaration
<1>6. /\ KindAt(u, k) = node.kind /\ NameAt(u, k) = node.name
      /\ RegionAt(u, k) = Inner(u, Len(u))
  BY <1>3, <1>5 DEF KindAt, NameAt, RegionAt
<1>7. Declare(Scope, node.kind, node.name, k)
  BY <1>2, <1>3
<1>8. /\ RegionAt(u, k) \in {Program} \cup DOMAIN scopeOf
      /\ Scope = ScopeAt(scopeOf, RegionAt(u, k))
  BY <1>3, <1>6
<1>9. PICK s : s = Scope
  OBVIOUS
<1>10. /\ TableInv' /\ parent' = parent
       /\ Bound(u, Keys(tree) \cup {k}, scopeOf, binding', symbols', symbolOf', duplicates')
  BY <1>3, <1>4, <1>5, <1>6, <1>7, <1>8, <1>9, DeclareKeeps
<1>11. QED
  BY <1>1, <1>2, <1>10

\* CollectFunction keeps the invariant.
LEMMA FunctionCollected ==
    ASSUME TableInv, CollectorInv, NEW node \in Nodes, CollectFunction(node)
    PROVE  TableInv' /\ CollectorInv'
<1>1. /\ node.kind = "function" /\ Arrives(node) /\ step' = "body"
      /\ Declare(Scope, node.kind, node.name, Own(Here + 1))
      /\ UNCHANGED <<scopeOf, open, parameter>>
  BY DEF CollectFunction
<1>2. /\ TableInv' /\ parent' = parent
      /\ Bound(tree', Keys(tree) \cup {Own(Len(tree) + 1)},
               scopeOf, binding', symbols', symbolOf', duplicates')
  BY <1>1, OwnArrives
<1>3. /\ tree \in Seq(Nodes) /\ tree' = Append(tree, node) /\ Len(tree') = Len(tree) + 1
      /\ Len(tree) \in Nat /\ tree'[Len(tree')] = node /\ Len(tree') <= MaxNodes
      /\ Scoped(tree', Entered(tree, "node"), scopeOf, parent)
      /\ Entered(tree', "body") = Entered(tree, "node")
  BY <1>1, ArrivalFacts
<1>4. Made(tree', step', parameter') = Keys(tree) \cup {Own(Len(tree) + 1)}
  <2>1. PICK u : u = tree'
    OBVIOUS
  <2>2. Grows(tree, node, u)
    BY <1>3, <2>1 DEF Grows
  <2>3. PICK q : q = parameter'
    OBVIOUS
  <2>4. node.kind = "function"
    BY <1>1
  <2>5. Made(u, "body", q) = Keys(tree) \cup {Own(Len(tree) + 1)}
    BY <2>2, <2>4, MadeArrives
  <2>6. QED
    BY <1>1, <1>3, <2>1, <2>3, <2>5
<1>5. Whole(tree')
  <2>1. node.kind # "end"
    BY <1>1
  <2>2. QED
    BY <1>3, <2>1, GrownWhole DEF CollectorInv
<1>6. Opens(tree', Len(tree'))
  BY <1>1, <1>3 DEF Opens
<1>7. StepFits(tree', step', parameter')
  BY <1>1, <1>3, <1>6 DEF CollectorInv, StepFits
<1>8. OpenFits(tree', step', scopeOf', parent', open')
  <2>1. OpenFits(tree', "body", scopeOf, parent, open)
    BY <1>1, <1>6, OpenArrives
  <2>2. QED
    BY <1>1, <1>2, <2>1
<1>9. Scoped(tree', Entered(tree', step'), scopeOf', parent')
  BY <1>1, <1>2, <1>3
<1>10. QED
  BY <1>1, <1>2, <1>3, <1>4, <1>5, <1>7, <1>8, <1>9 DEF CollectorInv

\* CollectVariable keeps the invariant.
LEMMA VariableCollected ==
    ASSUME TableInv, CollectorInv, NEW node \in Nodes, CollectVariable(node)
    PROVE  TableInv' /\ CollectorInv'
<1>1. /\ node.kind = "variable" /\ Arrives(node)
      /\ Declare(Scope, node.kind, node.name, Own(Here + 1))
      /\ UNCHANGED <<scopeOf, open, step, parameter>>
  BY DEF CollectVariable
<1>2. /\ TableInv' /\ parent' = parent
      /\ Bound(tree', Keys(tree) \cup {Own(Len(tree) + 1)},
               scopeOf, binding', symbols', symbolOf', duplicates')
  BY <1>1, OwnArrives
<1>3. /\ tree \in Seq(Nodes) /\ tree' = Append(tree, node) /\ Len(tree') = Len(tree) + 1
      /\ Len(tree) \in Nat /\ tree'[Len(tree')] = node /\ Len(tree') <= MaxNodes
      /\ Scoped(tree', Entered(tree, "node"), scopeOf, parent) /\ step = "node"
  BY <1>1, ArrivalFacts
<1>4. Made(tree', step', parameter') = Keys(tree) \cup {Own(Len(tree) + 1)}
  <2>1. PICK u : u = tree'
    OBVIOUS
  <2>2. Grows(tree, node, u)
    BY <1>3, <2>1 DEF Grows
  <2>3. PICK q : q = parameter'
    OBVIOUS
  <2>4. node.kind = "variable"
    BY <1>1
  <2>5. Made(u, "node", q) = Keys(tree) \cup {Own(Len(tree) + 1)}
    BY <2>2, <2>4, MadeArrives
  <2>6. QED
    BY <1>1, <1>3, <2>1, <2>3, <2>5
<1>5. Whole(tree')
  <2>1. node.kind # "end"
    BY <1>1
  <2>2. QED
    BY <1>3, <2>1, GrownWhole DEF CollectorInv
<1>6. ~Opens(tree', Len(tree')) /\ ~Shuts(tree', Len(tree'))
  BY <1>1, <1>3 DEF Opens, Shuts
<1>7. StepFits(tree', step', parameter')
  BY <1>1, <1>3, <1>6 DEF CollectorInv, StepFits
<1>8. OpenFits(tree', step', scopeOf', parent', open')
  <2>1. OpenFits(tree', "node", scopeOf, parent, open)
    BY <1>1, <1>6, OpenArrives
  <2>2. QED
    BY <1>1, <1>2, <1>3, <2>1
<1>9. Scoped(tree', Entered(tree', step'), scopeOf', parent')
  <2>1. Entered(tree', "node") = Entered(tree, "node")
    BY <1>1, <1>6, ArrivalFacts
  <2>2. QED
    BY <1>1, <1>2, <1>3, <2>1
<1>10. QED
  BY <1>1, <1>2, <1>3, <1>4, <1>5, <1>7, <1>8, <1>9 DEF CollectorInv

\* A node that declares nothing when it arrives, and ends nothing.
LEMMA OtherCollected ==
    ASSUME TableInv, CollectorInv, NEW node \in Nodes,
           CollectBlockNode(node) \/ CollectStatement(node)
    PROVE  TableInv' /\ CollectorInv'
<1>1. /\ Arrives(node)
      /\ UNCHANGED <<tableVars, infoVars, open, parameter, duplicates>>
      /\ \/ node.kind \in {"loop", "block"} /\ step' = "body"
         \/ node.kind = "statement" /\ step' = step
  BY DEF CollectBlockNode, CollectStatement
<1>2. /\ parent' = parent /\ binding' = binding /\ symbols' = symbols /\ symbolOf' = symbolOf
      /\ scopeOf' = scopeOf /\ open' = open /\ parameter' = parameter /\ duplicates' = duplicates
  BY <1>1 DEF tableVars, infoVars
<1>3. /\ tree \in Seq(Nodes) /\ tree' = Append(tree, node) /\ Len(tree') = Len(tree) + 1
      /\ Len(tree) \in Nat /\ tree'[Len(tree')] = node /\ Len(tree') <= MaxNodes
      /\ Scoped(tree', Entered(tree, "node"), scopeOf, parent) /\ step = "node"
      /\ Bound(tree', Keys(tree), scopeOf, binding, symbols, symbolOf, duplicates)
  BY <1>1, ArrivalFacts
<1>4. Made(tree', step', parameter') = Keys(tree)
  <2>1. PICK u : u = tree'
    OBVIOUS
  <2>2. Grows(tree, node, u)
    BY <1>3, <2>1 DEF Grows
  <2>3. PICK q : q = parameter'
    OBVIOUS
  <2>4. node.kind \in {"loop", "block"} \/ node.kind = "statement"
    BY <1>1
  <2>5. /\ node.kind \in {"loop", "block"} => Made(u, "body", q) = Keys(tree)
        /\ node.kind = "statement" => Made(u, "node", q) = Keys(tree)
    BY <2>2, <2>4, MadeArrives
  <2>6. QED
    BY <1>1, <1>3, <2>1, <2>3, <2>5
<1>5. Whole(tree')
  <2>1. node.kind # "end"
    BY <1>1
  <2>2. QED
    BY <1>3, <2>1, GrownWhole DEF CollectorInv
<1>6. IF step' = "body" THEN Opens(tree', Len(tree'))
      ELSE ~Opens(tree', Len(tree')) /\ ~Shuts(tree', Len(tree'))
  BY <1>1, <1>3 DEF Opens, Shuts
<1>7. StepFits(tree', step', parameter')
  BY <1>1, <1>2, <1>3, <1>6 DEF CollectorInv, StepFits
<1>8. OpenFits(tree', step', scopeOf', parent', open')
  <2>1. OpenFits(tree', step', scopeOf, parent, open)
    BY <1>1, <1>6, OpenArrives
  <2>2. QED
    BY <1>2, <2>1
<1>9. Scoped(tree', Entered(tree', step'), scopeOf', parent')
  <2>1. Entered(tree', step') = Entered(tree, "node")
    BY <1>1, <1>6, ArrivalFacts
  <2>2. QED
    BY <1>2, <1>3, <2>1
<1>10. TableInv'
  BY <1>2, TableStays DEF tableVars
<1>11. QED
  BY <1>2, <1>3, <1>4, <1>5, <1>7, <1>8, <1>9, <1>10 DEF CollectorInv

\* What the invariant says of the stack when the collector is in a body.
LEMMA StackFacts ==
    ASSUME TableInv, CollectorInv
    PROVE  /\ tree \in Seq(Nodes) /\ Len(tree) \in Nat
           /\ open \in Seq(Nat) /\ Len(open) \in Nat /\ Len(open) > 0
           /\ Here = Len(tree) /\ Scope = open[Len(open)]
           /\ parent \in Seq(Nat) /\ Len(parent) \in Nat /\ Len(parent) > 0
           /\ binding \in Seq([Names -> Nat]) /\ Len(binding) = Len(parent)
           /\ DOMAIN parent = 1 .. Len(parent) /\ Scope \in 1 .. Len(parent)
           /\ parent[GlobalScope] = NoScope
           /\ DOMAIN scopeOf = Entered(tree, step)
           /\ Entered(tree, step) \subseteq 1 .. Len(tree)
           /\ Program \notin Entered(tree, step)
           /\ step # "node" => Len(tree) \in Nat \ {0} /\ Opens(tree, Len(tree))
           /\ Tables(tree, Made(tree, step, parameter), scopeOf, binding, symbols)
<1>1. /\ tree \in Seq(Nodes) /\ Len(tree) \in Nat /\ Here = Len(tree)
  BY DEF CollectorInv, Whole, Here
<1>2. /\ open \in Seq(Nat) /\ Len(open) \in Nat /\ Len(open) > 0 /\ Scope = open[Len(open)]
      /\ open[1] = GlobalScope
      /\ \A k \in 2 .. Len(open) : open[k] \in 2 .. Len(parent)
  BY DEF CollectorInv, OpenFits, Scope, Last
<1>3. /\ parent \in Seq(Nat) /\ Len(parent) \in Nat /\ binding \in Seq([Names -> Nat])
      /\ Len(binding) = Len(parent) /\ DOMAIN parent = 1 .. Len(parent)
      /\ 1 \in DOMAIN parent /\ parent[GlobalScope] = NoScope /\ Len(parent) > 0
  <2>1. /\ parent \in Seq(Nat) /\ binding \in Seq([Names -> Nat])
        /\ Len(binding) = Len(parent) /\ GlobalScope \in DOMAIN parent
        /\ parent[GlobalScope] = NoScope
    BY DEF TableInv, TableTypeOK, ScopeIds
  <2>2. DOMAIN parent = 1 .. Len(parent) /\ Len(parent) \in Nat
    BY <2>1
  <2>3. QED
    BY <2>1, <2>2 DEF GlobalScope
<1>4. Scope \in 1 .. Len(parent)
  <2>1. CASE Len(open) = 1
    BY <1>2, <1>3, <2>1 DEF GlobalScope
  <2>2. CASE Len(open) # 1
    <3>1. Len(open) \in 2 .. Len(open)
      <4>1. PICK m : m = Len(open)
        OBVIOUS
      <4>2. m \in Nat /\ m > 0 /\ m # 1
        BY <1>2, <2>2, <4>1
      <4>3. m \in 2 .. m
        BY ONLY <4>2
      <4>4. QED
        BY <4>1, <4>3
    <3>2. open[Len(open)] \in 2 .. Len(parent)
      BY <1>2, <3>1
    <3>3. QED
      BY <1>2, <1>3, <3>2
  <2>3. QED
    BY <2>1, <2>2
<1>5. /\ DOMAIN scopeOf = Entered(tree, step) /\ Entered(tree, step) \subseteq 1 .. Len(tree)
      /\ Program \notin Entered(tree, step)
  BY DEF CollectorInv, Scoped, Entered, Program
<1>6. step # "node" => Len(tree) \in Nat \ {0} /\ Opens(tree, Len(tree))
  BY <1>1 DEF CollectorInv, StepFits, Opens
<1>7. Tables(tree, Made(tree, step, parameter), scopeOf, binding, symbols)
  <2>1. /\ Made(tree, step, parameter) \subseteq Keys(tree)
        /\ \A k \in Made(tree, step, parameter) :
               RegionAt(tree, k) \in {Program} \cup Entered(tree, step)
    BY <1>1, MadeEntered
  <2>2. Scoped(tree, Entered(tree, step), scopeOf, parent)
    BY DEF CollectorInv
  <2>3. QED
    BY <1>1, <2>1, <2>2, ScopedTables
<1>8. QED
  BY <1>1, <1>2, <1>3, <1>4, <1>5, <1>6, <1>7

\* CollectEnd keeps the invariant.
LEMMA EndCollected ==
    ASSUME TableInv, CollectorInv, NEW node \in Nodes, CollectEnd(node)
    PROVE  TableInv' /\ CollectorInv'
<1>1. /\ Arrives(node) /\ node.kind = "end" /\ Len(open) > 1 /\ open' = Front(open)
      /\ UNCHANGED <<tableVars, infoVars, step, parameter, duplicates>>
  BY DEF CollectEnd
<1>2. /\ parent' = parent /\ binding' = binding /\ symbols' = symbols /\ symbolOf' = symbolOf
      /\ scopeOf' = scopeOf /\ step' = step /\ parameter' = parameter /\ duplicates' = duplicates
  BY <1>1 DEF tableVars, infoVars
<1>3. /\ tree \in Seq(Nodes) /\ tree' = Append(tree, node) /\ Len(tree') = Len(tree) + 1
      /\ Len(tree) \in Nat /\ tree'[Len(tree')] = node /\ Len(tree') <= MaxNodes
      /\ Scoped(tree', Entered(tree, "node"), scopeOf, parent) /\ step = "node"
      /\ Bound(tree', Keys(tree), scopeOf, binding, symbols, symbolOf, duplicates)
      /\ Scope = ScopeAt(scopeOf, Inner(tree, Len(tree) + 1))
      /\ Inner(tree', Len(tree')) = Inner(tree, Len(tree) + 1)
      /\ Inner(tree', Len(tree')) \in {Program} \cup DOMAIN scopeOf
      /\ DOMAIN scopeOf = Entered(tree, "node")
  BY <1>1, ArrivalFacts
<1>4. /\ Len(open) \in Nat /\ Scope = open[Len(open)] /\ parent[GlobalScope] = NoScope
      /\ open \in Seq(Nat) /\ Entered(tree, "node") \subseteq 1 .. Len(tree)
  BY <1>3, StackFacts
<1>5. /\ \A k \in 2 .. Len(open) : open[k] \in 2 .. Len(parent) /\ parent[open[k]] = open[k - 1]
      /\ open[1] = GlobalScope
  BY DEF CollectorInv, OpenFits
<1>6. open[Len(open)] \in 2 .. Len(parent) /\ parent[open[Len(open)]] = open[Len(open) - 1]
  <2>1. Len(open) \in 2 .. Len(open)
    BY <1>1, <1>4
  <2>2. QED
    BY <1>5, <2>1
<1>7. PICK r : r = Inner(tree, Len(tree) + 1)
  OBVIOUS
<1>8. r # Program /\ r \in 1 .. Len(tree) /\ open[Len(open)] = scopeOf[r]
  <2>1. Scope # GlobalScope
    BY <1>4, <1>6 DEF GlobalScope
  <2>2. r # Program
    BY <1>3, <1>7, <2>1 DEF ScopeAt
  <2>3. QED
    BY <1>3, <1>4, <1>7, <2>2 DEF ScopeAt
<1>9. Whole(tree')
  <2>1. Inner(tree, Len(tree) + 1) # Program
    BY <1>7, <1>8
  <2>2. QED
    BY <1>3, <2>1, GrownWhole DEF CollectorInv
<1>10. Shuts(tree', Len(tree')) /\ ~Opens(tree', Len(tree'))
  BY <1>1, <1>3 DEF Shuts, Opens
<1>11. Inner(tree', Len(tree') + 1) = Inner(tree, r)
  <2>1. Len(tree') \in 1 .. Len(tree')
    BY <1>3
  <2>2. Inner(tree', Len(tree') + 1) = Inner(tree', r)
    BY <1>3, <1>7, <1>9, <1>10, <2>1, EndLeaves
  <2>3. \A i \in 1 .. Len(tree) + 1 : Inner(tree', i) = Inner(tree, i)
    <3>1. PICK u : u = tree'
      OBVIOUS
    <3>2. u = Append(tree, node)
      BY <1>3, <3>1
    <3>3. \A i \in 1 .. Len(tree) + 1 : Inner(u, i) = Inner(tree, i)
      BY <1>3, <3>2, Grown
    <3>4. QED
      BY <3>1, <3>3
  <2>4. r \in 1 .. Len(tree) + 1
    BY <1>3, <1>8
  <2>5. QED
    BY <2>2, <2>3, <2>4
<1>12. open[Len(open) - 1] = ScopeAt(scopeOf, Inner(tree, r))
  <2>1. Scoped(tree, Entered(tree, "node"), scopeOf, parent)
    BY <1>3 DEF CollectorInv
  <2>2. r \in Entered(tree, "node")
    BY <1>3, <1>7, <1>8
  <2>3. parent[scopeOf[r]] = ScopeAt(scopeOf, Inner(tree, r))
    BY <2>1, <2>2 DEF Scoped
  <2>4. QED
    BY <1>6, <1>8, <2>3
<1>13. OpenFits(tree', step', scopeOf', parent', open')
  <2>1. PICK m : m = Len(open) - 1
    OBVIOUS
  <2>2. m \in Nat \ {0} /\ open' = SubSeq(open, 1, m) /\ m <= Len(open)
    BY <1>1, <1>4, <2>1 DEF Front
  <2>3. /\ open' \in Seq(Nat) /\ Len(open') = m
        /\ \A k \in 1 .. m : open'[k] = open[k]
    BY <1>4, <2>2
  <2>4. \A k \in 2 .. m : open'[k] \in 2 .. Len(parent) /\ parent[open'[k]] = open'[k - 1]
    <3>1. ASSUME NEW k \in 2 .. m
          PROVE  open'[k] \in 2 .. Len(parent) /\ parent[open'[k]] = open'[k - 1]
      <4>1. k \in 2 .. Len(open) /\ k \in 1 .. m /\ k - 1 \in 1 .. m
        BY <1>4, <2>2
      <4>2. QED
        BY <1>5, <2>3, <4>1
    <3>2. QED
      BY <3>1
  <2>5. open'[1] = GlobalScope /\ open'[m] = ScopeAt(scopeOf, Inner(tree', Len(tree') + 1))
    <3>1. 1 \in 1 .. m /\ m \in 1 .. m
      BY <2>2
    <3>2. QED
      BY <1>5, <1>11, <1>12, <2>1, <2>3, <3>1
  <2>6. QED
    BY <1>2, <1>3, <2>2, <2>3, <2>4, <2>5 DEF OpenFits
<1>14. Made(tree', step', parameter') = Keys(tree)
  <2>1. PICK u : u = tree'
    OBVIOUS
  <2>2. Grows(tree, node, u)
    BY <1>3, <2>1 DEF Grows
  <2>3. PICK q : q = parameter'
    OBVIOUS
  <2>4. Made(u, "node", q) = Keys(tree)
    BY <1>1, <2>2, MadeArrives
  <2>5. QED
    BY <1>2, <1>3, <2>1, <2>3, <2>4
<1>15. StepFits(tree', step', parameter')
  BY <1>2, <1>3 DEF CollectorInv, StepFits
<1>16. Scoped(tree', Entered(tree', step'), scopeOf', parent')
  <2>1. Entered(tree', step') = Entered(tree, "node")
    BY <1>1, <1>10, ArrivalFacts
  <2>2. QED
    BY <1>2, <1>3, <2>1
<1>17. TableInv'
  BY <1>2, TableStays DEF tableVars
<1>18. QED
  BY <1>2, <1>3, <1>9, <1>13, <1>14, <1>15, <1>16, <1>17 DEF CollectorInv

\* EnterBody keeps the invariant.
LEMMA BodyEntered ==
    ASSUME TableInv, CollectorInv, EnterBody
    PROVE  TableInv' /\ CollectorInv'
<1>1. PICK n : n = Len(tree)
  OBVIOUS
<1>2. PICK new : new = Len(parent) + 1
  OBVIOUS
<1>3. /\ step = "body" /\ Here = n /\ CreateChildScope(Scope)
      /\ scopeOf' = Emplace(scopeOf, n, new) /\ open' = Append(open, new)
      /\ step' = CASE tree[n].kind = "function" -> "parameters"
                   [] tree[n].kind = "loop" -> "binding"
                   [] tree[n].kind = "block" -> "node"
      /\ parameter' = 1 /\ tree' = tree /\ symbolOf' = symbolOf /\ duplicates' = duplicates
      /\ parent' = Append(parent, Scope) /\ binding' = Append(binding, Unbound)
      /\ symbols' = symbols
  BY <1>1, <1>2 DEF EnterBody, Here, CreateChildScope
<1>4. /\ tree \in Seq(Nodes) /\ n \in Nat \ {0} /\ Opens(tree, n)
      /\ open \in Seq(Nat) /\ Len(open) \in Nat /\ Len(open) > 0 /\ Scope = open[Len(open)]
      /\ parent \in Seq(Nat) /\ Len(parent) \in Nat /\ Len(parent) > 0
      /\ binding \in Seq([Names -> Nat]) /\ Len(binding) = Len(parent)
      /\ DOMAIN parent = 1 .. Len(parent) /\ Scope \in 1 .. Len(parent)
      /\ DOMAIN scopeOf = Entered(tree, "body") /\ Entered(tree, "body") \subseteq 1 .. n
      /\ Program \notin Entered(tree, "body")
      /\ Tables(tree, Made(tree, "body", parameter), scopeOf, binding, symbols)
  BY <1>1, <1>3, StackFacts
<1>5. TableInv'
  BY <1>3, <1>4, ScopeKeepsTable DEF ScopeIds
<1>6. Entered(tree, step') = Entered(tree, "body") \cup {n} /\ n \notin Entered(tree, "body")
  <2>1. step' # "body"
    BY <1>3, <1>4 DEF Opens
  <2>2. \A j \in 1 .. n : j < n \/ j = n
    BY <1>4
  <2>3. ~(n < n) /\ n \in 1 .. n
    BY <1>4
  <2>4. QED
    BY <1>1, <1>4, <2>1, <2>2, <2>3 DEF Entered
<1>7. Scope = ScopeAt(scopeOf, Inner(tree, n))
  BY <1>1, <1>3, <1>4 DEF CollectorInv, OpenFits
<1>8. /\ Inner(tree, n) \in {Program} \cup Entered(tree, "body")
      /\ \A b \in Entered(tree, "body") : Inner(tree, b) \in {Program} \cup Entered(tree, "body")
  <2>1. \A j \in 1 .. n : Inner(tree, j) \in {Program} \cup Entered(tree, "body")
    BY <1>1, <1>4, MadeEntered
  <2>2. n \in 1 .. n
    BY <1>4
  <2>3. QED
    BY <1>4, <2>1, <2>2
<1>9. Scoped(tree', Entered(tree', step'), scopeOf', parent')
  <2>1. Scoped(tree, Entered(tree, "body"), scopeOf, parent)
    BY <1>3 DEF CollectorInv
  <2>2. n # Program
    BY <1>4 DEF Program
  <2>3. Enters(tree, Entered(tree, "body"), scopeOf, parent, n, scopeOf', parent')
    BY <1>2, <1>3, <1>4, <1>6, <1>7, <1>8, <2>2 DEF Enters
  <2>4. Scoped(tree, Entered(tree, "body") \cup {n}, scopeOf', parent')
    BY <2>1, <2>3, ScopedEnters
  <2>5. QED
    BY <1>3, <1>6, <2>4
<1>10. Made(tree, step', 1) = Made(tree, "body", parameter)
  <2>1. PICK s : s = step'
    OBVIOUS
  <2>2. /\ Len(tree) > 0 /\ Opens(tree, Len(tree))
        /\ s = CASE tree[Len(tree)].kind = "function" -> "parameters"
                 [] tree[Len(tree)].kind = "loop" -> "binding"
                 [] tree[Len(tree)].kind = "block" -> "node"
    BY <1>1, <1>3, <1>4, <2>1
  <2>3. Made(tree, s, 1) = Made(tree, "body", parameter)
    BY <1>4, <2>2, MadeEnters
  <2>4. QED
    BY <2>1, <2>3
<1>11. Bound(tree, Made(tree, "body", parameter), scopeOf', binding', symbols, symbolOf, duplicates)
  <2>1. Bound(tree, Made(tree, "body", parameter), scopeOf, binding, symbols, symbolOf, duplicates)
    BY <1>3 DEF CollectorInv
  <2>2. n \notin DOMAIN scopeOf /\ n # Program
    BY <1>4, <1>6 DEF Program
  <2>3. binding' = Append(binding, Unbound) /\ scopeOf' = Emplace(scopeOf, n, Len(binding) + 1)
    BY <1>2, <1>3, <1>4
  <2>4. QED
    BY <1>4, <2>1, <2>2, <2>3, BoundEnters
<1>12. Inner(tree, n + 1) = n
  <2>1. ~Shuts(tree, n)
    BY <1>4 DEF Opens, Shuts
  <2>2. QED
    BY <1>4, <2>1, RegionsStay
<1>13. OpenFits(tree', step', scopeOf', parent', open')
  <2>1. step' # "body"
    BY <1>3, <1>4 DEF Opens
  <2>2. /\ open' \in Seq(Nat) /\ Len(open') = Len(open) + 1 /\ open'[Len(open) + 1] = new
        /\ \A k \in 1 .. Len(open) : open'[k] = open[k]
    BY <1>2, <1>3, <1>4
  <2>3. /\ Len(parent') = new /\ parent'[new] = Scope
        /\ \A s \in 1 .. Len(parent) : parent'[s] = parent[s]
    BY <1>2, <1>3, <1>4
  <2>4. /\ open[1] = GlobalScope
        /\ \A k \in 2 .. Len(open) : open[k] \in 2 .. Len(parent) /\ parent[open[k]] = open[k - 1]
    BY DEF CollectorInv, OpenFits
  <2>5. ASSUME NEW k \in 2 .. Len(open')
        PROVE  open'[k] \in 2 .. Len(parent') /\ parent'[open'[k]] = open'[k - 1]
    <3>1. CASE k = Len(open) + 1
      <4>1. k - 1 = Len(open) /\ k - 1 \in 1 .. Len(open)
        BY <1>4, <3>1
      <4>2. new \in 2 .. Len(parent')
        BY <1>2, <1>4, <2>3
      <4>3. QED
        BY <1>4, <2>2, <2>3, <3>1, <4>1, <4>2
    <3>2. CASE k # Len(open) + 1
      <4>1. k \in 2 .. Len(open) /\ k \in 1 .. Len(open) /\ k - 1 \in 1 .. Len(open)
        BY <1>4, <2>2, <3>2
      <4>2. open[k] \in 2 .. Len(parent) /\ parent[open[k]] = open[k - 1]
        BY <2>4, <4>1
      <4>3. open[k] \in 1 .. Len(parent) /\ open[k] \in 2 .. Len(parent')
        BY <1>2, <1>4, <2>3, <4>2
      <4>4. QED
        BY <2>2, <2>3, <4>1, <4>2, <4>3
    <3>3. QED
      BY <3>1, <3>2
  <2>6. ScopeAt(scopeOf', n) = new
    <3>1. n # Program /\ n \notin DOMAIN scopeOf
      BY <1>4, <1>6 DEF Program
    <3>2. QED
      BY <1>3, <3>1 DEF ScopeAt, Emplace
  <2>7. open'[1] = GlobalScope
    <3>1. 1 \in 1 .. Len(open)
      BY <1>4
    <3>2. QED
      BY <2>2, <2>4, <3>1
  <2>8. Len(open') > 0 /\ open'[Len(open')] = new
    BY <1>4, <2>2
  <2>9. IF step' = "body" THEN FALSE ELSE Inner(tree', Len(tree') + 1) = n
    BY <1>1, <1>3, <1>12, <2>1
  <2>10. open'[Len(open')] =
             ScopeAt(scopeOf', Inner(tree', IF step' = "body" THEN Len(tree') ELSE Len(tree') + 1))
    BY <2>6, <2>8, <2>9
  <2>11. QED
    BY <2>2, <2>5, <2>7, <2>8, <2>10 DEF OpenFits
<1>14. StepFits(tree', step', parameter')
  <2>1. CASE tree[n].kind = "function"
    <3>1. step' = "parameters"
      BY <1>3, <2>1
    <3>2. Len(tree[n].parameters) \in Nat
      BY <1>1, <1>4, <2>1, NodeFacts, NodeAssumption
    <3>3. QED
      BY <1>1, <1>3, <1>4, <2>1, <3>1, <3>2 DEF StepFits
  <2>2. CASE tree[n].kind = "loop"
    <3>1. step' = "binding"
      BY <1>3, <2>2
    <3>2. QED
      BY <1>1, <1>3, <1>4, <2>2, <3>1 DEF StepFits
  <2>3. CASE tree[n].kind = "block"
    <3>1. step' = "node"
      BY <1>3, <2>3
    <3>2. QED
      BY <1>1, <1>3, <1>4, <2>3, <3>1 DEF StepFits
  <2>4. QED
    BY <1>4, <2>1, <2>2, <2>3 DEF Opens
<1>15. QED
  <2>1. Bound(tree', Made(tree', step', parameter'), scopeOf', binding', symbols', symbolOf',
              duplicates')
    BY <1>3, <1>10, <1>11
  <2>2. Whole(tree') /\ Len(tree') <= MaxNodes
    BY <1>3 DEF CollectorInv
  <2>3. QED
    BY <1>5, <1>9, <1>13, <1>14, <2>1, <2>2 DEF CollectorInv

\* A declaration in the body that was entered.
LEMMA InsideDeclared ==
    ASSUME TableInv, CollectorInv, step \in {"parameters", "binding"}, NEW k,
           Latest(tree, Made(tree, step, parameter), k), k \in Declaration,
           RegionAt(tree, k) = Len(tree),
           NEW kind, NEW name, kind = KindAt(tree, k), name = NameAt(tree, k),
           Declare(Scope, kind, name, k)
    PROVE  /\ TableInv' /\ parent' = parent
           /\ Bound(tree, Made(tree, step, parameter) \cup {k},
                    scopeOf, binding', symbols', symbolOf', duplicates')
<1>1. PICK n : n = Len(tree)
  OBVIOUS
<1>2. /\ tree \in Seq(Nodes) /\ n \in Nat \ {0} /\ Opens(tree, n) /\ Scope = open[Len(open)]
      /\ Tables(tree, Made(tree, step, parameter), scopeOf, binding, symbols)
      /\ DOMAIN scopeOf = Entered(tree, step)
  BY <1>1, StackFacts
<1>3. Inner(tree, n + 1) = n
  <2>1. ~Shuts(tree, n)
    BY <1>2 DEF Opens, Shuts
  <2>2. QED
    BY <1>2, <2>1, RegionsStay
<1>4. Scope = ScopeAt(scopeOf, n)
  BY <1>1, <1>2, <1>3 DEF CollectorInv, OpenFits
<1>5. n \in Entered(tree, step)
  BY <1>1, <1>2 DEF Entered
<1>6. RegionAt(tree, k) \in {Program} \cup DOMAIN scopeOf
  BY <1>1, <1>2, <1>5
<1>7. PICK s : s = Scope
  OBVIOUS
<1>8. s = ScopeAt(scopeOf, RegionAt(tree, k)) /\ Declare(s, kind, name, k)
  BY <1>1, <1>4, <1>7
<1>9. Bound(tree, Made(tree, step, parameter), scopeOf, binding, symbols, symbolOf, duplicates)
  BY DEF CollectorInv
<1>10. QED
  BY <1>2, <1>6, <1>8, <1>9, DeclareKeeps

\* What stays as it is when the tree, the scopes and the visits do.
LEMMA StaysOpen ==
    ASSUME CollectorInv, UNCHANGED <<scopeOf, tree, open>>, parent' = parent,
           step \in {"parameters", "binding"}, step' \in {"parameters", "node"}
    PROVE  /\ Whole(tree') /\ Len(tree') <= MaxNodes
           /\ Scoped(tree', Entered(tree', step'), scopeOf', parent')
           /\ OpenFits(tree', step', scopeOf', parent', open')
<1>1. Whole(tree') /\ Len(tree') <= MaxNodes
  BY DEF CollectorInv
<1>2. Entered(tree, step') = Entered(tree, step)
  BY DEF Entered
<1>3. Scoped(tree', Entered(tree', step'), scopeOf', parent')
  <2>1. Scoped(tree, Entered(tree, step), scopeOf, parent)
    BY DEF CollectorInv
  <2>2. QED
    BY <1>2, <2>1
<1>4. OpenFits(tree, step', scopeOf, parent, open)
  <2>1. OpenFits(tree, step, scopeOf, parent, open)
    BY DEF CollectorInv
  <2>2. step # "body" /\ step' # "body"
    OBVIOUS
  <2>3. QED
    BY <2>1, <2>2 DEF OpenFits
<1>5. QED
  BY <1>1, <1>3, <1>4

\* CollectParameter keeps the invariant.
LEMMA ParameterCollected ==
    ASSUME TableInv, CollectorInv, CollectParameter
    PROVE  TableInv' /\ CollectorInv'
<1>1. PICK n : n = Len(tree)
  OBVIOUS
<1>2. PICK k : k = [node |-> n, position |-> parameter]
  OBVIOUS
<1>3. /\ step = "parameters" /\ parameter \in DOMAIN tree[n].parameters
      /\ Declare(Scope, "parameter", tree[n].parameters[parameter], k)
      /\ parameter' = parameter + 1 /\ UNCHANGED <<scopeOf, tree, open, step>>
  BY <1>1, <1>2 DEF CollectParameter, Here
<1>4. /\ tree \in Seq(Nodes) /\ n \in Nat \ {0} /\ tree[n].kind = "function" /\ n <= MaxNodes
  BY <1>1, <1>3, StackFacts DEF CollectorInv, StepFits
<1>5. /\ Made(tree, "parameters", parameter + 1) = Made(tree, "parameters", parameter) \cup {k}
      /\ Latest(tree, Made(tree, "parameters", parameter), k)
      /\ parameter \in Nat \ {0} /\ parameter \in 1 .. MaxParameters
      /\ parameter <= Len(tree[n].parameters)
  <2>1. PICK p : p = parameter
    OBVIOUS
  <2>2. Len(tree) > 0 /\ p \in DOMAIN tree[Len(tree)].parameters
        /\ k = [node |-> Len(tree), position |-> p] /\ tree[Len(tree)].kind = "function"
    BY <1>1, <1>2, <1>3, <1>4, <2>1
  <2>3. QED
    BY <1>1, <1>4, <2>1, <2>2, MadeParameter
<1>6. k.node = n /\ k.position = parameter
  BY <1>2
<1>7. /\ KindAt(tree, k) = "parameter" /\ NameAt(tree, k) = tree[n].parameters[parameter]
      /\ RegionAt(tree, k) = n
  BY <1>5, <1>6 DEF KindAt, NameAt, RegionAt
<1>8. k \in Declaration
  BY <1>2, <1>4, <1>5, NodeAssumption DEF Declaration
<1>9. /\ TableInv' /\ parent' = parent
      /\ Bound(tree, Made(tree, step, parameter) \cup {k},
               scopeOf, binding', symbols', symbolOf', duplicates')
  BY <1>1, <1>3, <1>5, <1>7, <1>8, InsideDeclared
<1>10. StepFits(tree', step', parameter')
  <2>1. Len(tree[n].parameters) \in Nat
    <3>1. tree[n] \in Nodes
      BY <1>1, <1>4, NodeFacts
    <3>2. QED
      BY <1>4, <3>1, NodeAssumption
  <2>2. QED
    BY <1>1, <1>3, <1>4, <1>5, <2>1 DEF StepFits
<1>11. Made(tree', step', parameter') = Made(tree, step, parameter) \cup {k}
  BY <1>3, <1>5
<1>12. /\ Whole(tree') /\ Len(tree') <= MaxNodes
       /\ Scoped(tree', Entered(tree', step'), scopeOf', parent')
       /\ OpenFits(tree', step', scopeOf', parent', open')
  BY <1>3, <1>9, StaysOpen
<1>13. QED
  BY <1>3, <1>9, <1>10, <1>11, <1>12 DEF CollectorInv

\* ParametersDone keeps the invariant.
LEMMA ParametersCollected ==
    ASSUME TableInv, CollectorInv, ParametersDone
    PROVE  TableInv' /\ CollectorInv'
<1>1. PICK n : n = Len(tree)
  OBVIOUS
<1>2. /\ step = "parameters" /\ parameter > Len(tree[n].parameters) /\ step' = "node"
      /\ UNCHANGED <<tableVars, infoVars, tree, open, parameter, duplicates>>
  BY <1>1 DEF ParametersDone, Here
<1>3. /\ parent' = parent /\ binding' = binding /\ symbols' = symbols /\ symbolOf' = symbolOf
      /\ scopeOf' = scopeOf /\ open' = open /\ parameter' = parameter /\ duplicates' = duplicates
      /\ tree' = tree
  BY <1>2 DEF tableVars, infoVars
<1>4. /\ tree \in Seq(Nodes) /\ n \in Nat \ {0} /\ tree[n].kind = "function" /\ parameter \in Nat
  BY <1>1, <1>2, StackFacts DEF CollectorInv, StepFits
<1>5. Made(tree', step', parameter') = Made(tree, step, parameter)
  <2>1. PICK p : p = parameter
    OBVIOUS
  <2>2. Made(tree, "node", p) = Made(tree, "parameters", p)
    BY <1>1, <1>2, <1>4, <2>1, MadeParameters
  <2>3. QED
    BY <1>2, <1>3, <2>1, <2>2
<1>6. TableInv'
  BY <1>3, TableStays DEF tableVars
<1>7. StepFits(tree', step', parameter')
  BY <1>2, <1>3 DEF CollectorInv, StepFits
<1>8. /\ Whole(tree') /\ Len(tree') <= MaxNodes
      /\ Scoped(tree', Entered(tree', step'), scopeOf', parent')
      /\ OpenFits(tree', step', scopeOf', parent', open')
  BY <1>2, <1>3, StaysOpen
<1>9. QED
  BY <1>3, <1>5, <1>6, <1>7, <1>8 DEF CollectorInv

\* CollectLoopBinding keeps the invariant.
LEMMA BindingCollected ==
    ASSUME TableInv, CollectorInv, CollectLoopBinding
    PROVE  TableInv' /\ CollectorInv'
<1>1. PICK n : n = Len(tree)
  OBVIOUS
<1>2. PICK k : k = Own(n)
  OBVIOUS
<1>3. /\ step = "binding" /\ Declare(Scope, "variable", tree[n].name, k) /\ step' = "node"
      /\ UNCHANGED <<scopeOf, tree, open, parameter>>
  BY <1>1, <1>2 DEF CollectLoopBinding, Here
<1>4. /\ tree \in Seq(Nodes) /\ n \in Nat \ {0} /\ tree[n].kind = "loop" /\ n <= MaxNodes
  BY <1>1, <1>3, StackFacts DEF CollectorInv, StepFits
<1>5. /\ Made(tree, "node", parameter) = Made(tree, "binding", parameter) \cup {k}
      /\ Latest(tree, Made(tree, "binding", parameter), k)
  BY <1>1, <1>2, <1>4, MadeBinding
<1>6. k.node = n /\ k.position = 0 /\ k = [node |-> n, position |-> 0]
  BY <1>2 DEF Own
<1>7. KindAt(tree, k) = "variable" /\ NameAt(tree, k) = tree[n].name /\ RegionAt(tree, k) = n
  BY <1>4, <1>6 DEF KindAt, NameAt, RegionAt
<1>8. k \in Declaration
  BY <1>4, <1>6, NodeAssumption DEF Declaration
<1>9. /\ TableInv' /\ parent' = parent
      /\ Bound(tree, Made(tree, step, parameter) \cup {k},
               scopeOf, binding', symbols', symbolOf', duplicates')
  BY <1>1, <1>3, <1>5, <1>7, <1>8, InsideDeclared
<1>10. StepFits(tree', step', parameter')
  BY <1>3 DEF CollectorInv, StepFits
<1>11. Made(tree', step', parameter') = Made(tree, step, parameter) \cup {k}
  BY <1>3, <1>5
<1>12. /\ Whole(tree') /\ Len(tree') <= MaxNodes
       /\ Scoped(tree', Entered(tree', step'), scopeOf', parent')
       /\ OpenFits(tree', step', scopeOf', parent', open')
  BY <1>3, <1>9, StaysOpen
<1>13. QED
  BY <1>3, <1>9, <1>10, <1>11, <1>12 DEF CollectorInv

\* A step of the collector.
LEMMA CollectorKeeps ==
    ASSUME TableInv, CollectorInv, CollectorNext
    PROVE  TableInv' /\ CollectorInv'
<1>1. ASSUME NEW node \in Nodes, Visit(node) PROVE TableInv' /\ CollectorInv'
  BY <1>1, FunctionCollected, VariableCollected, OtherCollected, EndCollected DEF Visit
<1>2. QED
  BY <1>1, BodyEntered, ParameterCollected, ParametersCollected, BindingCollected
  DEF CollectorNext

-----------------------------------------------------------------------------
(* The passes use the table as any caller may *)

\* A declaration is one insertion into the table.
LEMMA DeclareIsInsert ==
    ASSUME NEW s \in ScopeIds, NEW kind \in SymbolKinds, NEW name \in Names, NEW k \in Declaration,
           Declare(s, kind, name, k)
    PROVE  TableNext
<1>1. PICK symbol : symbol = [name |-> name, kind |-> kind, declaration |-> k]
  OBVIOUS
<1>2. symbol \in Symbols
  BY <1>1, SymbolsAssumption
<1>3. Insert(s, symbol)
  BY <1>1 DEF Declare
<1>4. QED
  BY <1>2, <1>3 DEF TableNext

\* A step of the collector is a step of the table, or leaves it alone.
LEMMA CollectorUsesTable ==
    ASSUME TableInv, CollectorInv, CollectorNext
    PROVE  [TableNext]_tableVars
<1>1. /\ Here = Len(tree) /\ Scope \in ScopeIds /\ Len(tree) \in Nat
      /\ step # "node" => Len(tree) \in Nat \ {0}
  BY StackFacts DEF ScopeIds
<1>2. Len(tree) <= MaxNodes /\ MaxNodes \in Nat /\ MaxParameters \in Nat /\ tree \in Seq(Nodes)
  BY NodeAssumption DEF CollectorInv, Whole
<1>3. ASSUME NEW node \in Nodes, Visit(node) PROVE [TableNext]_tableVars
  <2>1. CASE CollectFunction(node) \/ CollectVariable(node)
    <3>1. /\ node.kind \in {"function", "variable"} /\ Arrives(node)
          /\ Declare(Scope, node.kind, node.name, Own(Here + 1))
      BY <2>1 DEF CollectFunction, CollectVariable
    <3>2. node.name \in Names /\ node.kind \in SymbolKinds
      BY <3>1, NodeAssumption DEF SymbolKinds
    <3>3. Own(Here + 1) \in Declaration
      BY <1>1, <1>2, <3>1 DEF Arrives, Own, Declaration
    <3>4. TableNext
      BY <1>1, <3>1, <3>2, <3>3, DeclareIsInsert
    <3>5. QED
      BY <3>4
  <2>2. CASE CollectBlockNode(node) \/ CollectStatement(node) \/ CollectEnd(node)
    BY <2>2 DEF CollectBlockNode, CollectStatement, CollectEnd
  <2>3. QED
    BY <1>3, <2>1, <2>2 DEF Visit
<1>4. CASE EnterBody
  <2>1. CreateChildScope(Scope)
    BY <1>4 DEF EnterBody
  <2>2. QED
    BY <1>1, <2>1 DEF TableNext
<1>5. CASE CollectParameter
  <2>1. /\ step = "parameters" /\ parameter \in DOMAIN tree[Len(tree)].parameters
        /\ Declare(Scope, "parameter", tree[Len(tree)].parameters[parameter],
                   [node |-> Len(tree), position |-> parameter])
    BY <1>1, <1>5 DEF CollectParameter
  <2>2. tree[Len(tree)] \in Nodes /\ tree[Len(tree)].kind = "function"
    BY <1>1, <1>2, <2>1, NodeFacts DEF CollectorInv, StepFits
  <2>3. /\ tree[Len(tree)].parameters \in Seq(Names)
        /\ Len(tree[Len(tree)].parameters) <= MaxParameters
    BY <2>2, NodeAssumption
  <2>4. parameter \in 1 .. MaxParameters /\ tree[Len(tree)].parameters[parameter] \in Names
    BY <1>2, <2>1, <2>3
  <2>5. [node |-> Len(tree), position |-> parameter] \in Declaration
    BY <1>1, <1>2, <2>1, <2>4 DEF Declaration
  <2>6. "parameter" \in SymbolKinds
    BY DEF SymbolKinds
  <2>7. TableNext
    BY <1>1, <2>1, <2>4, <2>5, <2>6, DeclareIsInsert
  <2>8. QED
    BY <2>7
<1>6. CASE ParametersDone
  BY <1>6 DEF ParametersDone
<1>7. CASE CollectLoopBinding
  <2>1. step = "binding" /\ Declare(Scope, "variable", tree[Len(tree)].name, Own(Len(tree)))
    BY <1>1, <1>7 DEF CollectLoopBinding
  <2>2. tree[Len(tree)] \in Nodes /\ tree[Len(tree)].kind = "loop"
    BY <1>1, <1>2, <2>1, NodeFacts DEF CollectorInv, StepFits
  <2>3. tree[Len(tree)].name \in Names
    BY <2>2, NodeAssumption
  <2>4. Own(Len(tree)) \in Declaration
    BY <1>1, <1>2, <2>1 DEF Own, Declaration
  <2>5. "variable" \in SymbolKinds
    BY DEF SymbolKinds
  <2>6. TableNext
    BY <1>1, <2>1, <2>3, <2>4, <2>5, DeclareIsInsert
  <2>7. QED
    BY <2>6
<1>8. QED
  BY <1>3, <1>4, <1>5, <1>6, <1>7 DEF CollectorNext

-----------------------------------------------------------------------------
(* The declarations of NameAnalysis are those of the keys *)

DeclAt(k) ==
    Declared(k.node, k.position, NameAt(tree, k), RegionAt(tree, k), AfterAt(tree, k),
             LocalAt(tree, k))

\* The declaration at a key, as the scoping rules describe it.
LEMMA DeclFields ==
    ASSUME tree \in Seq(Nodes), NEW k \in Keys(tree)
    PROVE  /\ DeclAt(k).declaration = k /\ DeclAt(k).name = NameAt(tree, k)
           /\ DeclAt(k).region = RegionAt(tree, k) /\ DeclAt(k).after = AfterAt(tree, k)
           /\ DeclAt(k).local = LocalAt(tree, k)
<1>1. k = [node |-> k.node, position |-> k.position]
  BY KeyFacts
<1>2. PICK n, p, name, region, after, local :
          /\ n = k.node /\ p = k.position /\ name = NameAt(tree, k) /\ region = RegionAt(tree, k)
          /\ after = AfterAt(tree, k) /\ local = LocalAt(tree, k)
  OBVIOUS
<1>3. DeclAt(k) = [declaration |-> [node |-> n, position |-> p], name |-> name,
                   region |-> region, after |-> after, local |-> local]
  BY <1>2 DEF DeclAt, Declared
<1>4. k = [node |-> n, position |-> p]
  BY <1>1, <1>2
<1>5. QED
  BY <1>2, <1>3, <1>4

\* Every key is a declaration of the scoping rules.
LEMMA KeysDeclare ==
    ASSUME tree \in Seq(Nodes), NEW k \in Keys(tree)
    PROVE  DeclAt(k) \in Declarations
<1>1. PICK i : i = k.node
  OBVIOUS
<1>2. /\ i \in 1 .. Len(tree) /\ i \in Nat \ {0} /\ k.position \in Nat
      /\ tree[i] \in Nodes /\ i \in Positions
  BY <1>1, KeyFacts, NodeFacts DEF Positions
<1>3. Region(i) = Inner(tree, i)
  BY <1>2, RegionsAre
<1>4. CASE k.position > 0
  <2>1. PICK p : p = k.position
    OBVIOUS
  <2>2. tree[i].kind = "function" /\ i \in OfKind("function")
    BY <1>1, <1>2, <1>4, KeyFacts DEF OfKind
  <2>3. p \in DOMAIN tree[i].parameters
    <3>1. p \in 0 .. Len(tree[i].parameters)
      BY <1>1, <2>1, <2>2 DEF Keys
    <3>2. tree[i].parameters \in Seq(Names)
      BY <1>2, <2>2, NodeAssumption
    <3>3. QED
      BY <1>4, <2>1, <3>1, <3>2
  <2>4. /\ NameAt(tree, k) = tree[i].parameters[p] /\ RegionAt(tree, k) = i
        /\ AfterAt(tree, k) = 0 /\ LocalAt(tree, k) = TRUE
    <3>1. AfterAt(tree, k) = 0
      BY <1>1, <2>2 DEF AfterAt
    <3>2. KindAt(tree, k) = "parameter" /\ RegionAt(tree, k) = i
      BY <1>1, <1>4 DEF KindAt, RegionAt
    <3>3. LocalAt(tree, k) = TRUE
      BY <1>2, <3>2 DEF LocalAt, Program
    <3>4. NameAt(tree, k) = tree[i].parameters[p]
      BY <1>1, <1>4, <2>1 DEF NameAt
    <3>5. QED
      BY <3>1, <3>2, <3>3, <3>4
  <2>5. DeclAt(k) = Declared(i, p, tree[i].parameters[p], i, 0, TRUE)
    BY <1>1, <2>1, <2>4 DEF DeclAt
  <2>6. QED
    <3>1. PICK S : S = {Declared(i, q, tree[i].parameters[q], i, 0, TRUE)
                        : q \in DOMAIN tree[i].parameters}
      OBVIOUS
    <3>2. DeclAt(k) \in S
      BY <2>3, <2>5, <3>1
    <3>3. S \in {{Declared(j, q, tree[j].parameters[q], j, 0, TRUE)
                  : q \in DOMAIN tree[j].parameters} : j \in OfKind("function")}
      BY <2>2, <3>1
    <3>4. DeclAt(k) \in UNION {{Declared(j, q, tree[j].parameters[q], j, 0, TRUE)
                  : q \in DOMAIN tree[j].parameters} : j \in OfKind("function")}
      BY <3>2, <3>3
    <3>5. QED
      BY <3>4 DEF Declarations
<1>5. CASE k.position = 0
  <2>1. NameAt(tree, k) = tree[i].name
    BY <1>1, <1>5 DEF NameAt
  <2>2. CASE tree[i].kind = "function"
    <3>1. /\ RegionAt(tree, k) = Region(i) /\ AfterAt(tree, k) = 0 /\ KindAt(tree, k) = "function"
      BY <1>1, <1>3, <1>5, <2>2 DEF RegionAt, AfterAt, KindAt
    <3>2. LocalAt(tree, k) = FALSE
      BY <3>1 DEF LocalAt
    <3>3. DeclAt(k) = Declared(i, 0, tree[i].name, Region(i), 0, FALSE)
      BY <1>1, <1>5, <2>1, <3>1, <3>2 DEF DeclAt
    <3>4. i \in OfKind("function")
      BY <1>2, <2>2 DEF OfKind
    <3>5. QED
      BY <3>3, <3>4 DEF Declarations
  <2>3. CASE tree[i].kind = "loop"
    <3>1. /\ RegionAt(tree, k) = i /\ AfterAt(tree, k) = 0 /\ KindAt(tree, k) = "variable"
      BY <1>1, <1>5, <2>3 DEF RegionAt, AfterAt, KindAt
    <3>2. LocalAt(tree, k) = TRUE
      BY <1>2, <3>1 DEF LocalAt, Program
    <3>3. DeclAt(k) = Declared(i, 0, tree[i].name, i, 0, TRUE)
      BY <1>1, <1>5, <2>1, <3>1, <3>2 DEF DeclAt
    <3>4. i \in OfKind("loop")
      BY <1>2, <2>3 DEF OfKind
    <3>5. QED
      BY <3>3, <3>4 DEF Declarations
  <2>4. CASE tree[i].kind = "variable"
    <3>1. /\ RegionAt(tree, k) = Region(i)
          /\ AfterAt(tree, k) = (IF Region(i) = Program THEN 0 ELSE i)
          /\ KindAt(tree, k) = "variable"
      BY <1>1, <1>3, <1>5, <2>4 DEF RegionAt, AfterAt, KindAt
    <3>2. LocalAt(tree, k) = (Region(i) # Program)
      BY <3>1 DEF LocalAt
    <3>3. DeclAt(k) = Declared(i, 0, tree[i].name, Region(i),
                               IF Region(i) = Program THEN 0 ELSE i, Region(i) # Program)
      BY <1>1, <1>5, <2>1, <3>1, <3>2 DEF DeclAt
    <3>4. i \in OfKind("variable")
      BY <1>2, <2>4 DEF OfKind
    <3>5. QED
      BY <3>3, <3>4 DEF Declarations
  <2>5. QED
    BY <1>1, <2>2, <2>3, <2>4, KeyFacts
<1>6. QED
  BY <1>2, <1>4, <1>5

\* Every declaration of the scoping rules has its key.
LEMMA DeclaredKeys ==
    ASSUME tree \in Seq(Nodes), NEW d \in Declarations
    PROVE  \E k \in Keys(tree) : d = DeclAt(k)
<1>1. ASSUME NEW i \in Positions
      PROVE  /\ i \in 1 .. Len(tree) /\ i \in Nat \ {0} /\ tree[i] \in Nodes
             /\ Region(i) = Inner(tree, i)
  <2>1. i \in 1 .. Len(tree) /\ i \in Nat \ {0} /\ tree[i] \in Nodes
    BY NodeFacts DEF Positions
  <2>2. QED
    BY <2>1, RegionsAre
<1>2. ASSUME NEW i \in Positions, tree[i].kind \in {"function", "variable", "loop"}
      PROVE  /\ Own(i) \in Keys(tree) /\ Own(i).node = i /\ Own(i).position = 0
             /\ NameAt(tree, Own(i)) = tree[i].name
  <2>1. Own(i).node = i /\ Own(i).position = 0
        /\ Own(i) \in [node : 1 .. Len(tree), position : 0 .. MaxParameters]
    BY <1>1, NodeAssumption DEF Own
  <2>2. tree[i].kind = "function" => Len(tree[i].parameters) \in Nat
    BY <1>1, NodeAssumption
  <2>3. Own(i) \in Keys(tree)
    BY <1>2, <2>1, <2>2 DEF Keys
  <2>4. QED
    BY <2>1, <2>3 DEF NameAt
<1>3. CASE \E i \in OfKind("function") : d = Declared(i, 0, tree[i].name, Region(i), 0, FALSE)
  <2>1. PICK i \in OfKind("function") : d = Declared(i, 0, tree[i].name, Region(i), 0, FALSE)
    BY <1>3
  <2>2. i \in Positions /\ tree[i].kind = "function"
    BY DEF OfKind
  <2>3. PICK k \in Keys(tree) : k = Own(i)
    BY <1>2, <2>2
  <2>4. k.node = i /\ k.position = 0 /\ NameAt(tree, k) = tree[i].name
    BY <1>2, <2>2, <2>3
  <2>5. /\ RegionAt(tree, k) = Region(i) /\ AfterAt(tree, k) = 0 /\ LocalAt(tree, k) = FALSE
    BY <1>1, <2>2, <2>4 DEF RegionAt, AfterAt, LocalAt, KindAt
  <2>6. QED
    BY <2>1, <2>4, <2>5 DEF DeclAt
<1>4. CASE \E i \in OfKind("loop") : d = Declared(i, 0, tree[i].name, i, 0, TRUE)
  <2>1. PICK i \in OfKind("loop") : d = Declared(i, 0, tree[i].name, i, 0, TRUE)
    BY <1>4
  <2>2. i \in Positions /\ tree[i].kind = "loop"
    BY DEF OfKind
  <2>3. PICK k \in Keys(tree) : k = Own(i)
    BY <1>2, <2>2
  <2>4. k.node = i /\ k.position = 0 /\ NameAt(tree, k) = tree[i].name /\ i # Program
    BY <1>1, <1>2, <2>2, <2>3 DEF Program
  <2>5. /\ RegionAt(tree, k) = i /\ AfterAt(tree, k) = 0 /\ LocalAt(tree, k) = TRUE
    BY <2>2, <2>4 DEF RegionAt, AfterAt, LocalAt, KindAt
  <2>6. QED
    BY <2>1, <2>4, <2>5 DEF DeclAt
<1>5. CASE \E i \in OfKind("variable") :
               d = Declared(i, 0, tree[i].name, Region(i),
                            IF Region(i) = Program THEN 0 ELSE i, Region(i) # Program)
  <2>1. PICK i \in OfKind("variable") :
               d = Declared(i, 0, tree[i].name, Region(i),
                            IF Region(i) = Program THEN 0 ELSE i, Region(i) # Program)
    BY <1>5
  <2>2. i \in Positions /\ tree[i].kind = "variable"
    BY DEF OfKind
  <2>3. PICK k \in Keys(tree) : k = Own(i)
    BY <1>2, <2>2
  <2>4. k.node = i /\ k.position = 0 /\ NameAt(tree, k) = tree[i].name
    BY <1>2, <2>2, <2>3
  <2>5. /\ RegionAt(tree, k) = Region(i) /\ KindAt(tree, k) = "variable"
        /\ AfterAt(tree, k) = (IF Region(i) = Program THEN 0 ELSE i)
    BY <1>1, <2>2, <2>4 DEF RegionAt, AfterAt, KindAt
  <2>6. LocalAt(tree, k) = (Region(i) # Program)
    BY <2>5 DEF LocalAt
  <2>7. QED
    BY <2>1, <2>4, <2>5, <2>6 DEF DeclAt
<1>6. CASE \E i \in OfKind("function") : \E p \in DOMAIN tree[i].parameters :
               d = Declared(i, p, tree[i].parameters[p], i, 0, TRUE)
  <2>0. PICK i \in OfKind("function") : \E p \in DOMAIN tree[i].parameters :
               d = Declared(i, p, tree[i].parameters[p], i, 0, TRUE)
    BY <1>6
  <2>1. PICK p \in DOMAIN tree[i].parameters :
               d = Declared(i, p, tree[i].parameters[p], i, 0, TRUE)
    BY <2>0
  <2>2. i \in Positions /\ tree[i].kind = "function"
    BY DEF OfKind
  <2>3. i \in 1 .. Len(tree) /\ i \in Nat \ {0} /\ tree[i] \in Nodes
    BY <1>1, <2>2
  <2>4. /\ tree[i].parameters \in Seq(Names) /\ Len(tree[i].parameters) <= MaxParameters
        /\ MaxParameters \in Nat
    BY <2>2, <2>3, NodeAssumption
  <2>5. p \in 1 .. Len(tree[i].parameters) /\ Len(tree[i].parameters) \in Nat
    BY <2>4
  <2>6. PICK k : k = [node |-> i, position |-> p]
    OBVIOUS
  <2>7. k.node = i /\ k.position = p /\ k.position > 0 /\ k.position # 0 /\ i # Program
    BY <2>3, <2>5, <2>6 DEF Program
  <2>8. k \in Keys(tree)
    <3>1. k \in [node : 1 .. Len(tree), position : 0 .. MaxParameters]
      BY <2>3, <2>4, <2>5, <2>6
    <3>2. p \in 0 .. Len(tree[i].parameters)
      BY <2>5
    <3>3. QED
      BY <2>2, <2>7, <3>1, <3>2 DEF Keys
  <2>9. /\ NameAt(tree, k) = tree[i].parameters[p] /\ RegionAt(tree, k) = i
        /\ AfterAt(tree, k) = 0 /\ KindAt(tree, k) = "parameter"
    BY <2>2, <2>7 DEF RegionAt, AfterAt, KindAt, NameAt
  <2>10. LocalAt(tree, k) = TRUE
    BY <2>7, <2>9 DEF LocalAt
  <2>11. QED
    BY <2>1, <2>7, <2>8, <2>9, <2>10 DEF DeclAt
<1>7. QED
  BY <1>3, <1>4, <1>5, <1>6 DEF Declarations

\* Which declarations stand in each other's way.
LEMMA RedeclaredAre ==
    ASSUME tree \in Seq(Nodes)
    PROVE  /\ \A k, l \in Keys(tree) :
                  /\ Earlier(DeclAt(k), DeclAt(l)) <=> Clash(tree, k, l) /\ Before(k, l)
                  /\ DeclAt(k) = DeclAt(l) => k = l
           /\ \A k \in Keys(tree) :
                  DeclAt(k) \in Redeclared <=> ~First(tree, Keys(tree), k)
<1>1. ASSUME NEW k \in Keys(tree), NEW l \in Keys(tree)
      PROVE  /\ Earlier(DeclAt(k), DeclAt(l)) <=> Clash(tree, k, l) /\ Before(k, l)
             /\ DeclAt(k) = DeclAt(l) => k = l
  <2>1. /\ DeclAt(k).declaration = k /\ DeclAt(k).name = NameAt(tree, k)
        /\ DeclAt(k).region = RegionAt(tree, k)
    BY DeclFields
  <2>2. /\ DeclAt(l).declaration = l /\ DeclAt(l).name = NameAt(tree, l)
        /\ DeclAt(l).region = RegionAt(tree, l)
    BY DeclFields
  <2>3. QED
    BY <2>1, <2>2 DEF Earlier, Clash, Before
<1>2. ASSUME NEW k \in Keys(tree)
      PROVE  DeclAt(k) \in Redeclared <=> ~First(tree, Keys(tree), k)
  <2>1. DeclAt(k) \in Redeclared <=> \E d \in Declarations : Earlier(d, DeclAt(k))
    BY KeysDeclare DEF Redeclared
  <2>2. (\E d \in Declarations : Earlier(d, DeclAt(k)))
            <=> \E l \in Keys(tree) : Earlier(DeclAt(l), DeclAt(k))
    BY KeysDeclare, DeclaredKeys
  <2>3. (\E l \in Keys(tree) : Earlier(DeclAt(l), DeclAt(k)))
            <=> \E l \in Keys(tree) : Clash(tree, l, k) /\ Before(l, k)
    BY <1>1
  <2>4. QED
    BY <2>1, <2>2, <2>3 DEF First
<1>3. QED
  BY <1>1, <1>2

\* What the collector leaves behind.
LEMMA CollectedFacts ==
    ASSUME TableInv, CollectorInv, step = "node"
    PROVE  /\ tree \in Seq(Nodes) /\ Whole(tree)
           /\ Scoped(tree, Entered(tree, "node"), scopeOf, parent)
           /\ DOMAIN scopeOf = Entered(tree, "node")
           /\ Bound(tree, Keys(tree), scopeOf, binding, symbols, symbolOf, duplicates)
           /\ \A k \in Keys(tree) : RegionAt(tree, k) \in {Program} \cup DOMAIN scopeOf
<1>1. Made(tree, step, parameter) = Keys(tree)
  BY DEF Made
<1>2. tree \in Seq(Nodes) /\ Scoped(tree, Entered(tree, "node"), scopeOf, parent)
  BY DEF CollectorInv, Whole
<1>3. DOMAIN scopeOf = Entered(tree, "node")
  BY <1>2 DEF Scoped
<1>4. \A k \in Keys(tree) : RegionAt(tree, k) \in {Program} \cup DOMAIN scopeOf
  BY <1>1, <1>2, <1>3, MadeEntered
<1>5. QED
  BY <1>1, <1>2, <1>3, <1>4 DEF CollectorInv

\* What the collector has reported are the redeclarations, each with the first
\* declaration of its name.
LEMMA CollectedReports ==
    ASSUME TableInv, CollectorInv, step = "node"
    PROVE  /\ {x[1] : x \in duplicates} = {d.declaration : d \in Redeclared}
           /\ \A x \in duplicates, d, e \in Declarations :
                 d.declaration = x[1] /\ symbols[x[2]].declaration = e.declaration =>
                     Earlier(e, d) /\ e \notin Redeclared
           /\ duplicates = {} <=> Redeclared = {}
<1>1. /\ tree \in Seq(Nodes)
      /\ \A k \in Keys(tree) : RegionAt(tree, k) \in {Program} \cup DOMAIN scopeOf
      /\ Bound(tree, Keys(tree), scopeOf, binding, symbols, symbolOf, duplicates)
  BY CollectedFacts
<1>2. /\ DOMAIN symbolOf = {k \in Keys(tree) : First(tree, Keys(tree), k)}
      /\ duplicates = {<<k, BoundTo(tree, scopeOf, binding, k)>>
                       : k \in Keys(tree) \ DOMAIN symbolOf}
  BY <1>1 DEF Bound
<1>3. \A k \in Keys(tree) : DeclAt(k).declaration = k
  BY <1>1, DeclFields
<1>4. \A k \in Keys(tree) : DeclAt(k) \in Redeclared <=> k \notin DOMAIN symbolOf
  BY <1>1, <1>2, RedeclaredAre
<1>5. \A d \in Redeclared : \E k \in Keys(tree) : d = DeclAt(k)
  BY <1>1, DeclaredKeys DEF Redeclared
<1>6. {x[1] : x \in duplicates} = Keys(tree) \ DOMAIN symbolOf
  <2>1. ASSUME NEW x \in duplicates PROVE x[1] \in Keys(tree) \ DOMAIN symbolOf
    BY <1>2
  <2>2. ASSUME NEW k \in Keys(tree) \ DOMAIN symbolOf
        PROVE  \E x \in duplicates : x[1] = k
    <3>1. PICK x : x = <<k, BoundTo(tree, scopeOf, binding, k)>>
      OBVIOUS
    <3>2. x \in duplicates /\ x[1] = k
      BY <1>2, <3>1
    <3>3. QED
      BY <3>2
  <2>3. QED
    BY <2>1, <2>2
<1>7. {d.declaration : d \in Redeclared} = Keys(tree) \ DOMAIN symbolOf
  BY <1>3, <1>4, <1>5
<1>8. ASSUME NEW x \in duplicates, NEW d \in Declarations, NEW e \in Declarations,
             d.declaration = x[1], symbols[x[2]].declaration = e.declaration
      PROVE  Earlier(e, d) /\ e \notin Redeclared
  <2>1. PICK k \in Keys(tree) \ DOMAIN symbolOf : x = <<k, BoundTo(tree, scopeOf, binding, k)>>
    BY <1>2
  <2>2. PICK k2 \in Keys(tree) : d = DeclAt(k2)
    BY <1>1, DeclaredKeys
  <2>3. d = DeclAt(k)
    BY <1>3, <1>8, <2>1, <2>2
  <2>4. /\ BoundTo(tree, scopeOf, binding, k) # NoSymbol /\ NameAt(tree, k) \in Names
        /\ RegionAt(tree, k) \in {Program} \cup DOMAIN scopeOf
    BY <1>1, <2>1, KeyFacts DEF Bound
  <2>5. PICK l \in DOMAIN symbolOf :
            RegionAt(tree, l) = RegionAt(tree, k) /\ NameAt(tree, l) = NameAt(tree, k)
    BY <1>1, <2>4 DEF Bound, BoundTo
  <2>6. l \in Keys(tree) /\ First(tree, Keys(tree), l) /\ ~First(tree, Keys(tree), k)
    BY <1>2, <2>1
  <2>7. Clash(tree, l, k) /\ Clash(tree, k, l)
    BY <2>5 DEF Clash
  <2>8. BoundTo(tree, scopeOf, binding, l) = BoundTo(tree, scopeOf, binding, k)
    BY <2>5 DEF BoundTo
  <2>9. symbols[x[2]].declaration = l
    <3>1. x[2] = BoundTo(tree, scopeOf, binding, l)
      BY <2>1, <2>8
    <3>2. symbols[x[2]] = SymbolFor(tree, l)
      BY <1>1, <3>1 DEF Bound
    <3>3. QED
      BY <3>2 DEF SymbolFor
  <2>10. e = DeclAt(l)
    <3>1. PICK m \in Keys(tree) : e = DeclAt(m)
      BY <1>1, DeclaredKeys
    <3>2. m = l
      BY <1>3, <1>8, <2>9, <3>1
    <3>3. QED
      BY <3>1, <3>2
  <2>11. ~Before(k, l) /\ k # l
    BY <2>1, <2>6, <2>7 DEF First
  <2>12. Before(l, k)
    <3>1. /\ k.node \in Nat /\ k.position \in Nat
          /\ k = [node |-> k.node, position |-> k.position]
      BY <1>1, <2>1, KeyFacts
    <3>2. /\ l.node \in Nat /\ l.position \in Nat
          /\ l = [node |-> l.node, position |-> l.position]
      BY <1>1, <2>6, KeyFacts
    <3>3. ~(l.node = k.node /\ l.position = k.position)
      BY <2>11, <3>1, <3>2
    <3>4. QED
      BY <2>11, <3>1, <3>2, <3>3, BeforeOrders
  <2>13. Earlier(e, d)
    BY <1>1, <2>1, <2>3, <2>6, <2>7, <2>10, <2>12, RedeclaredAre
  <2>14. QED
    BY <1>4, <2>6, <2>10, <2>13
<1>9. duplicates = {} <=> Redeclared = {}
  <2>1. duplicates = {} <=> Keys(tree) \ DOMAIN symbolOf = {}
    BY <1>2
  <2>2. QED
    BY <1>4, <1>5, <2>1
<1>10. QED
  BY <1>6, <1>7, <1>8, <1>9

-----------------------------------------------------------------------------
(* The walk through the enclosing scopes *)

StopAt(s) == [scope |-> s, crossed |-> FALSE, later |-> NoSymbol]
Further(name, function, s, w) ==
    [scope |-> w.scope,
     crossed |-> s = function \/ w.crossed,
     later |-> IF LookupLocal(s, name) # NoSymbol THEN LookupLocal(s, name) ELSE w.later]
Walks(name, function, n, g) ==
    g = [s \in 0 .. n |-> IF Stops(name, s) THEN StopAt(s)
                          ELSE Further(name, function, s, g[parent[s]])]

\* The walk from any scope is defined, as scopes are younger than those around them.
LEMMA WalksExist ==
    ASSUME TableInv, NEW name, NEW function
    PROVE  \A n \in Nat : n <= Len(parent) => \E g : Walks(name, function, n, g)
<1> DEFINE T == {n \in Nat : n <= Len(parent) => \E g : Walks(name, function, n, g)}
<1>1. /\ Len(parent) \in Nat
      /\ \A s \in 1 .. Len(parent) : parent[s] \in Nat /\ parent[s] < s
  <2>1. parent \in Seq(Nat) /\ \A s \in DOMAIN parent : parent[s] < s
    BY DEF TableInv, TableTypeOK, ScopeIds
  <2>2. Len(parent) \in Nat /\ DOMAIN parent = 1 .. Len(parent)
    BY <2>1
  <2>3. QED
    BY <2>1, <2>2
<1>2. 0 \in T
  <2>1. PICK g : g = [s \in 0 .. 0 |-> StopAt(s)]
    OBVIOUS
  <2>2. \A s \in 0 .. 0 : Stops(name, s)
    BY DEF Stops, NoScope
  <2>3. g = [s \in 0 .. 0 |-> IF Stops(name, s) THEN StopAt(s)
                              ELSE Further(name, function, s, g[parent[s]])]
    BY <2>1, <2>2
  <2>4. Walks(name, function, 0, g)
    BY <2>3 DEF Walks
  <2>5. QED
    BY <2>4
<1>3. ASSUME NEW n \in Nat, n \in T, n + 1 <= Len(parent)
      PROVE  \E g : Walks(name, function, n + 1, g)
  <2>1. PICK g : Walks(name, function, n, g)
    BY <1>1, <1>3
  <2>2. PICK h : h = [s \in 0 .. n + 1 |->
                         IF s = n + 1 THEN IF Stops(name, s) THEN StopAt(s)
                                           ELSE Further(name, function, s, g[parent[s]])
                         ELSE g[s]]
    OBVIOUS
  <2>3. \A s \in 0 .. n : h[s] = g[s]
    BY <2>2
  <2>4. ASSUME NEW s \in 0 .. n + 1
        PROVE  h[s] = IF Stops(name, s) THEN StopAt(s)
                      ELSE Further(name, function, s, h[parent[s]])
    <3>1. CASE s = 0
      <4>1. Stops(name, s)
        BY <3>1 DEF Stops, NoScope
      <4>2. s \in 0 .. n /\ h[s] = g[s]
        BY <2>3, <3>1
      <4>3. g[s] = StopAt(s)
        BY ONLY <2>1, <4>1, <4>2 DEF Walks
      <4>4. QED
        BY <4>1, <4>2, <4>3
    <3>2. CASE s # 0
      <4>1. s \in 1 .. Len(parent)
        BY <1>1, <1>3, <3>2
      <4>2. parent[s] \in 0 .. n /\ h[parent[s]] = g[parent[s]]
        <5>1. parent[s] \in 0 .. n
          BY <1>1, <4>1
        <5>2. QED
          BY <2>3, <5>1
      <4>3. CASE s = n + 1
        <5>1. h[s] = IF Stops(name, s) THEN StopAt(s)
                     ELSE Further(name, function, s, g[parent[s]])
          BY <2>2, <4>3
        <5>2. QED
          BY ONLY <4>2, <5>1
      <4>4. CASE s # n + 1
        <5>1. s \in 0 .. n
          BY <4>4
        <5>2. g[s] = IF Stops(name, s) THEN StopAt(s)
                     ELSE Further(name, function, s, g[parent[s]])
          BY ONLY <2>1, <5>1 DEF Walks
        <5>3. QED
          BY ONLY <2>3, <4>2, <5>1, <5>2
      <4>5. QED
        BY <4>3, <4>4
    <3>3. QED
      BY <3>1, <3>2
  <2>5. h = [s \in 0 .. n + 1 |-> IF Stops(name, s) THEN StopAt(s)
                                  ELSE Further(name, function, s, h[parent[s]])]
    BY <2>2, <2>4
  <2>6. Walks(name, function, n + 1, h)
    BY <2>5 DEF Walks
  <2>7. QED
    BY <2>6
<1>4. \A n \in Nat : n \in T => n + 1 \in T
  BY <1>3
<1>5. Nat \subseteq T
  <2> HIDE DEF T
  <2>1. QED
    BY <1>2, <1>4, NatInd
<1>6. QED
  BY <1>5

\* What Resolve makes of the walk.
Outcome(name, way) ==
    LET found == LookupLocal(way.scope, name)
    IN  IF way.scope # NoScope THEN
            [target |-> {found},
             error |-> IF /\ way.crossed
                          /\ way.scope # GlobalScope
                          /\ symbols[found].kind \in {"variable", "parameter"}
                       THEN "capture" ELSE "none",
             note |-> found]
        ELSE IF name \in Builtins THEN
            [target |-> {BuiltinTarget}, error |-> "none", note |-> NoSymbol]
        ELSE
            [target |-> {},
             error |-> IF way.later # NoSymbol THEN "before declaration" ELSE "unknown",
             note |-> way.later]

\* Resolve(), unfolded: some function gives the walk from every scope.
LEMMA ResolveUnfolds ==
    ASSUME TableInv, NEW name, NEW function
    PROVE  \E g : /\ \A s : Resolve(name, s, function) = Outcome(name, g[s])
                  /\ \A s \in 0 .. Len(parent) :
                         g[s] = IF Stops(name, s) THEN StopAt(s)
                                ELSE Further(name, function, s, g[parent[s]])
<1>1. Len(parent) \in Nat
  BY DEF TableInv, TableTypeOK
<1>2. \E g : Walks(name, function, Len(parent), g)
  <2>1. PICK n : n = Len(parent)
    OBVIOUS
  <2>2. n \in Nat /\ n <= Len(parent)
    BY <1>1, <2>1
  <2>3. \E g : Walks(name, function, n, g)
    BY <2>2, WalksExist
  <2>4. QED
    BY <2>1, <2>3
<1>3. PICK g : g = CHOOSE h : Walks(name, function, Len(parent), h)
  OBVIOUS
<1>4. Walks(name, function, Len(parent), g)
  BY <1>2, <1>3
<1>5. ASSUME NEW s PROVE Resolve(name, s, function) = Outcome(name, g[s])
  BY <1>3 DEF Resolve, Outcome, Walks, StopAt, Further
<1>6. ASSUME NEW s \in 0 .. Len(parent)
      PROVE  g[s] = IF Stops(name, s) THEN StopAt(s)
                    ELSE Further(name, function, s, g[parent[s]])
  BY ONLY <1>4, <1>6 DEF Walks
<1>7. QED
  BY <1>5, <1>6

-----------------------------------------------------------------------------
(* From a region outward *)

Out(t, r) == {r} \cup IF r = Program THEN {} ELSE Regions(t, r)

\* The regions from a region outward: itself, and those from the region around it.
LEMMA OutNext ==
    ASSUME NEW t, NEW r \in Nat
    PROVE  /\ Out(t, Program) = {Program}
           /\ r # Program => /\ Out(t, r) = {r} \cup Out(t, Inner(t, r))
                             /\ Inner(t, r) \in 0 .. r - 1
           /\ Out(t, r) \subseteq 0 .. r /\ r \in Out(t, r) /\ Program \in Out(t, r)
           /\ \A q \in Out(t, r) : Out(t, q) = {p \in Out(t, r) : p <= q}
<1>1. Out(t, Program) = {Program}
  BY DEF Out
<1>2. CASE r = Program
  BY <1>1, <1>2 DEF Program
<1>3. CASE r # Program
  <2>1. r \in Nat \ {0}
    BY <1>3 DEF Program
  <2>2. /\ Regions(t, r) \subseteq 0 .. r - 1 /\ Program \in Regions(t, r)
        /\ Inner(t, r) \in Regions(t, r) /\ Inner(t, r) \in 0 .. r - 1
        /\ \A q \in Regions(t, r) : q <= Inner(t, r)
    BY <2>1, InnerFacts
  <2>3. Out(t, r) = {r} \cup Regions(t, r)
    BY <1>3 DEF Out
  <2>4. ASSUME NEW q \in Regions(t, r) PROVE Out(t, q) = {p \in Regions(t, r) : p <= q}
    <3>1. CASE q = Program
      BY <1>1, <2>2, <3>1 DEF Program
    <3>2. CASE q # Program
      <4>1. Regions(t, q) = {p \in Regions(t, r) : p < q}
        BY <2>1, <3>2, RegionsNested
      <4>2. Out(t, q) = {q} \cup {p \in Regions(t, r) : p < q}
        BY <3>2, <4>1 DEF Out
      <4>3. QED
        BY <2>2, <4>2
    <3>3. QED
      BY <3>1, <3>2
  <2>5. Out(t, Inner(t, r)) = Regions(t, r)
    BY <2>2, <2>4
  <2>6. Out(t, r) \subseteq 0 .. r /\ r \in Out(t, r) /\ Program \in Out(t, r)
    BY <2>1, <2>2, <2>3
  <2>7. ASSUME NEW q \in Out(t, r) PROVE Out(t, q) = {p \in Out(t, r) : p <= q}
    <3>1. CASE q = r
      BY <2>6, <3>1
    <3>2. CASE q \in Regions(t, r)
      <4>1. \A p : p = r => ~(p <= q)
        BY <2>1, <2>2, <3>2
      <4>2. QED
        BY <2>3, <2>4, <3>2, <4>1
    <3>3. QED
      BY <2>3, <3>1, <3>2
  <2>8. QED
    BY <1>1, <2>2, <2>3, <2>5, <2>6, <2>7
<1>4. QED
  BY <1>2, <1>3

\* The regions around a node are those from its region outward.
LEMMA OutIs ==
    ASSUME NEW t, NEW i \in Nat \ {0}
    PROVE  Out(t, Inner(t, i)) = Regions(t, i)
<1>1. /\ Regions(t, i) \subseteq 0 .. i - 1 /\ Program \in Regions(t, i)
      /\ Inner(t, i) \in Regions(t, i) /\ Inner(t, i) \in 0 .. i - 1
      /\ \A q \in Regions(t, i) : q <= Inner(t, i)
  BY InnerFacts
<1>2. i # Program /\ i \in Nat
  BY DEF Program
<1>3. Out(t, i) = {i} \cup Regions(t, i)
  BY <1>2 DEF Out
<1>4. Out(t, Inner(t, i)) = {p \in Out(t, i) : p <= Inner(t, i)}
  BY <1>1, <1>2, <1>3, OutNext
<1>5. ~(i <= Inner(t, i))
  BY <1>1
<1>6. QED
  BY <1>1, <1>3, <1>4, <1>5

\* They are the regions that the scoping rules call Outward.
LEMMA OutwardIs ==
    ASSUME NEW r \in Nat
    PROVE  /\ Outward(r) = Out(tree, r)
           /\ FunctionOf(r) = FunctionAround(tree, r)
<1>1. Outward(r) = Out(tree, r)
  <2>1. CASE r = Program
    BY <2>1 DEF Outward, Out
  <2>2. CASE r # Program
    <3>1. r \in Nat \ {0}
      BY <2>2 DEF Program
    <3>2. RegionsAround(r) = Regions(tree, r)
      BY <3>1, RegionsAre
    <3>3. QED
      BY <2>2, <3>2 DEF Outward, Out
  <2>3. QED
    BY <2>1, <2>2
<1>2. {j \in Outward(r) \ {Program} : tree[j].kind = "function"}
          = {j \in {r} \cup Regions(tree, r) : j # Program /\ tree[j].kind = "function"}
  <2>1. CASE r = Program
    <3>1. Regions(tree, r) = {Program}
      BY <2>1 DEF Regions, Program
    <3>2. QED
      BY <1>1, <2>1, <3>1 DEF Out
  <2>2. CASE r # Program
    BY <1>1, <2>2 DEF Out
  <2>3. QED
    BY <2>1, <2>2
<1>3. FunctionOf(r) = FunctionAround(tree, r)
  BY <1>2 DEF FunctionOf, FunctionAround
<1>4. QED
  BY <1>1, <1>3

\* The scopes of regions.
LEMMA ScopeChain ==
    ASSUME TableInv, CollectorInv, step = "node"
    PROVE  /\ \A r \in {Program} \cup DOMAIN scopeOf :
                  /\ r \in Nat /\ ScopeAt(scopeOf, r) \in 1 .. Len(parent)
                  /\ ScopeAt(scopeOf, r) # NoScope
                  /\ ScopeAt(scopeOf, r) = GlobalScope <=> r = Program
                  /\ parent[ScopeAt(scopeOf, r)] =
                         IF r = Program THEN NoScope ELSE ScopeAt(scopeOf, Inner(tree, r))
                  /\ r # Program => /\ Inner(tree, r) \in {Program} \cup DOMAIN scopeOf
                                    /\ r \in 1 .. Len(tree) /\ Opens(tree, r)
           /\ \A q, r \in {Program} \cup DOMAIN scopeOf :
                  ScopeAt(scopeOf, q) = ScopeAt(scopeOf, r) => q = r
           /\ \A j \in 1 .. Len(tree) : Opens(tree, j) => j \in DOMAIN scopeOf
<1>1. /\ tree \in Seq(Nodes) /\ Scoped(tree, Entered(tree, "node"), scopeOf, parent)
      /\ DOMAIN scopeOf = Entered(tree, "node")
  BY CollectedFacts
<1>2. /\ parent \in Seq(Nat) /\ Len(parent) \in Nat /\ Len(parent) > 0
      /\ parent[GlobalScope] = NoScope
  BY StackFacts
<1>3. \A j \in DOMAIN scopeOf : /\ j \in 1 .. Len(tree) /\ Opens(tree, j) /\ j # Program
                                /\ j \in Nat /\ Inner(tree, j) \in {Program} \cup DOMAIN scopeOf
  <2>1. \A j \in 1 .. Len(tree) : Inner(tree, j) \in {Program} \cup Entered(tree, "node")
    BY <1>1, MadeEntered
  <2>2. \A j \in DOMAIN scopeOf : j \in 1 .. Len(tree) /\ Opens(tree, j) /\ j # Program /\ j \in Nat
    BY <1>1 DEF Entered, Program
  <2>3. QED
    BY <1>1, <2>1, <2>2
<1>4. \A j \in DOMAIN scopeOf : /\ scopeOf[j] \in 2 .. Len(parent)
                                /\ parent[scopeOf[j]] = ScopeAt(scopeOf, Inner(tree, j))
  BY <1>1 DEF Scoped
<1>5. \A i, j \in DOMAIN scopeOf : scopeOf[i] = scopeOf[j] => i = j
  BY <1>1 DEF Scoped
<1>6. \A j \in DOMAIN scopeOf : ScopeAt(scopeOf, j) = scopeOf[j] /\ scopeOf[j] # 1
  BY <1>3, <1>4 DEF ScopeAt
<1>7. ScopeAt(scopeOf, Program) = 1 /\ GlobalScope = 1 /\ NoScope = 0 /\ Program \in Nat
  BY DEF ScopeAt, GlobalScope, NoScope, Program
<1>8. ASSUME NEW r \in {Program} \cup DOMAIN scopeOf
      PROVE  /\ r \in Nat /\ ScopeAt(scopeOf, r) \in 1 .. Len(parent)
             /\ ScopeAt(scopeOf, r) # NoScope
             /\ ScopeAt(scopeOf, r) = GlobalScope <=> r = Program
             /\ parent[ScopeAt(scopeOf, r)] =
                    IF r = Program THEN NoScope ELSE ScopeAt(scopeOf, Inner(tree, r))
             /\ r # Program => /\ Inner(tree, r) \in {Program} \cup DOMAIN scopeOf
                               /\ r \in 1 .. Len(tree) /\ Opens(tree, r)
  <2>1. CASE r = Program
    BY <1>2, <1>7, <2>1
  <2>2. CASE r # Program
    <3>1. r \in DOMAIN scopeOf
      BY <2>2
    <3>2. ScopeAt(scopeOf, r) = scopeOf[r] /\ scopeOf[r] # 1 /\ scopeOf[r] \in 2 .. Len(parent)
      BY <1>4, <1>6, <3>1
    <3>3. scopeOf[r] \in 1 .. Len(parent) /\ scopeOf[r] # 0
      BY <1>2, <3>2
    <3>4. parent[scopeOf[r]] = ScopeAt(scopeOf, Inner(tree, r))
      BY <1>4, <3>1
    <3>5. QED
      BY <1>3, <1>7, <2>2, <3>1, <3>2, <3>3, <3>4
  <2>3. QED
    BY <2>1, <2>2
<1>9. ASSUME NEW q \in {Program} \cup DOMAIN scopeOf, NEW r \in {Program} \cup DOMAIN scopeOf,
             ScopeAt(scopeOf, q) = ScopeAt(scopeOf, r)
      PROVE  q = r
  <2>1. CASE q = Program \/ r = Program
    BY <1>8, <1>9, <2>1
  <2>2. CASE q # Program /\ r # Program
    BY <1>5, <1>6, <1>9, <2>2
  <2>3. QED
    BY <2>1, <2>2
<1>10. \A j \in 1 .. Len(tree) : Opens(tree, j) => j \in DOMAIN scopeOf
  BY <1>1 DEF Entered
<1>11. QED
  BY <1>8, <1>9, <1>10

-----------------------------------------------------------------------------
(* The walk, region by region *)

Hit(name, q) == Stops(name, ScopeAt(scopeOf, q))
Local(name, q) == LookupLocal(ScopeAt(scopeOf, q), name)
\* Where the walk that starts in region r gets to.
WalkFits(name, function, r, w) ==
    /\ (\A q \in Out(tree, r) : ~Hit(name, q)) =>
           /\ w.scope = NoScope /\ w.later \in Nat
           /\ w.later # NoSymbol <=> \E q \in Out(tree, r) : Local(name, q) # NoSymbol
    /\ \A q \in Out(tree, r) : Hit(name, q) /\ (\A p \in Out(tree, r) : q < p => ~Hit(name, p)) =>
           /\ w.scope = ScopeAt(scopeOf, q)
           /\ w.crossed <=> \E p \in Out(tree, r) : q < p /\ ScopeAt(scopeOf, p) = function

\* The walk ends in the region where a declaration is visible.
LEMMA WalkEnds ==
    ASSUME NEW name, NEW function, NEW r \in Nat, Hit(name, r)
    PROVE  WalkFits(name, function, r, StopAt(ScopeAt(scopeOf, r)))
<1>1. Out(tree, r) \subseteq 0 .. r /\ r \in Out(tree, r)
  BY OutNext
<1>2. PICK w : w = StopAt(ScopeAt(scopeOf, r))
  OBVIOUS
<1>3. w.scope = ScopeAt(scopeOf, r) /\ w.crossed = FALSE
  BY <1>2 DEF StopAt
<1>4. ASSUME NEW q \in Out(tree, r), \A p \in Out(tree, r) : q < p => ~Hit(name, p)
      PROVE  q = r
  BY <1>1, <1>4
<1>5. ~\E p \in Out(tree, r) : r < p /\ ScopeAt(scopeOf, p) = function
  BY <1>1
<1>6. WalkFits(name, function, r, w)
  BY <1>1, <1>3, <1>4, <1>5 DEF WalkFits
<1>7. QED
  BY <1>2, <1>6

\* Otherwise it goes on in the region around.
LEMMA WalkGoesOn ==
    ASSUME NEW name, NEW function, NEW r \in Nat, r # Program, ~Hit(name, r), NEW w,
           Local(name, r) \in Nat, WalkFits(name, function, Inner(tree, r), w)
    PROVE  WalkFits(name, function, r, Further(name, function, ScopeAt(scopeOf, r), w))
<1>1. PICK o : o = Inner(tree, r)
  OBVIOUS
<1>2. /\ Out(tree, r) = {r} \cup Out(tree, o) /\ o \in Nat /\ o < r /\ Out(tree, o) \subseteq 0 .. o
  <2>1. Out(tree, r) = {r} \cup Out(tree, o) /\ o \in Nat /\ o < r
    BY <1>1, OutNext
  <2>2. QED
    BY <2>1, OutNext
<1>3. \A q \in Out(tree, o) : q < r /\ ~(r < q) /\ ~(r < r)
  BY <1>2
<1>4. PICK v : v = Further(name, function, ScopeAt(scopeOf, r), w)
  OBVIOUS
<1>5. /\ v.scope = w.scope
      /\ v.crossed <=> (ScopeAt(scopeOf, r) = function \/ w.crossed)
      /\ v.later = IF Local(name, r) # NoSymbol THEN Local(name, r) ELSE w.later
  BY <1>4 DEF Further, Local
<1>6. WalkFits(name, function, o, w)
  BY <1>1
<1>7. ASSUME \A q \in Out(tree, r) : ~Hit(name, q)
      PROVE  /\ v.scope = NoScope /\ v.later \in Nat
             /\ v.later # NoSymbol <=> \E q \in Out(tree, r) : Local(name, q) # NoSymbol
  <2>1. /\ w.scope = NoScope /\ w.later \in Nat
        /\ w.later # NoSymbol <=> \E q \in Out(tree, o) : Local(name, q) # NoSymbol
    BY <1>2, <1>6, <1>7 DEF WalkFits
  <2>2. QED
    BY <1>2, <1>5, <2>1
<1>8. ASSUME NEW q \in Out(tree, r), Hit(name, q),
             \A p \in Out(tree, r) : q < p => ~Hit(name, p)
      PROVE  /\ v.scope = ScopeAt(scopeOf, q)
             /\ v.crossed <=> \E p \in Out(tree, r) : q < p /\ ScopeAt(scopeOf, p) = function
  <2>1. q \in Out(tree, o)
    BY <1>2, <1>8
  <2>2. /\ w.scope = ScopeAt(scopeOf, q)
        /\ w.crossed <=> \E p \in Out(tree, o) : q < p /\ ScopeAt(scopeOf, p) = function
    BY <1>2, <1>6, <1>8, <2>1 DEF WalkFits
  <2>3. q < r
    BY <1>3, <2>1
  <2>4. QED
    BY <1>2, <1>5, <2>2, <2>3
<1>9. WalkFits(name, function, r, v)
  BY <1>7, <1>8 DEF WalkFits
<1>10. QED
  BY <1>4, <1>9

\* From the global scope it leaves the program.
LEMMA WalkLeaves ==
    ASSUME NEW name, NEW function, ~Hit(name, Program), Local(name, Program) \in Nat
    PROVE  WalkFits(name, function, Program,
                    Further(name, function, ScopeAt(scopeOf, Program), StopAt(NoScope)))
<1>1. PICK v : v = Further(name, function, ScopeAt(scopeOf, Program), StopAt(NoScope))
  OBVIOUS
<1>2. /\ v.scope = NoScope
      /\ v.later = IF Local(name, Program) # NoSymbol THEN Local(name, Program) ELSE NoSymbol
  BY <1>1 DEF Further, StopAt, Local
<1>3. Out(tree, Program) = {Program}
  BY DEF Out
<1>4. v.later \in Nat /\ (v.later # NoSymbol <=> Local(name, Program) # NoSymbol)
  BY <1>2 DEF NoSymbol
<1>5. WalkFits(name, function, Program, v)
  BY <1>2, <1>3, <1>4 DEF WalkFits
<1>6. QED
  BY <1>1, <1>5

\* So the walk that starts in a region finds the innermost visible declaration.
LEMMA WalkIs ==
    ASSUME TableInv, CollectorInv, step = "node", NEW name \in Names, NEW function
    PROVE  \E g : /\ \A s : Resolve(name, s, function) = Outcome(name, g[s])
                  /\ \A r \in {Program} \cup DOMAIN scopeOf :
                         WalkFits(name, function, r, g[ScopeAt(scopeOf, r)])
<1>1. PICK g : /\ \A s : Resolve(name, s, function) = Outcome(name, g[s])
               /\ \A s \in 0 .. Len(parent) :
                      g[s] = IF Stops(name, s) THEN StopAt(s)
                             ELSE Further(name, function, s, g[parent[s]])
  BY ResolveUnfolds
<1>2. /\ binding \in Seq([Names -> Nat]) /\ Len(binding) = Len(parent) /\ Len(parent) \in Nat
  BY StackFacts
<1> DEFINE T == {r \in Nat : r \in {Program} \cup DOMAIN scopeOf =>
                                 WalkFits(name, function, r, g[ScopeAt(scopeOf, r)])}
<1>3. ASSUME NEW r \in Nat, \A q \in 0 .. r - 1 : q \in T, r \in {Program} \cup DOMAIN scopeOf
      PROVE  WalkFits(name, function, r, g[ScopeAt(scopeOf, r)])
  <2>1. PICK s : s = ScopeAt(scopeOf, r)
    OBVIOUS
  <2>2. /\ s \in 1 .. Len(parent) /\ s \in 0 .. Len(parent)
        /\ parent[s] = IF r = Program THEN NoScope ELSE ScopeAt(scopeOf, Inner(tree, r))
        /\ r # Program => Inner(tree, r) \in {Program} \cup DOMAIN scopeOf
    BY <1>2, <1>3, <2>1, ScopeChain
  <2>3. g[s] = IF Stops(name, s) THEN StopAt(s)
               ELSE Further(name, function, s, g[parent[s]])
    BY <1>1, <2>2
  <2>4. Local(name, r) \in Nat
    <3>1. binding[s] \in [Names -> Nat]
      BY <1>2, <2>2
    <3>2. QED
      BY <2>1, <3>1 DEF Local, LookupLocal
  <2>5. CASE Hit(name, r)
    <3>1. g[s] = StopAt(s)
      BY <2>1, <2>3, <2>5 DEF Hit
    <3>2. QED
      BY <2>1, <2>5, <3>1, WalkEnds
  <2>6. CASE ~Hit(name, r) /\ r = Program
    <3>1. g[0] = StopAt(NoScope)
      <4>1. 0 \in 0 .. Len(parent) /\ Stops(name, 0)
        BY <1>2 DEF Stops, NoScope
      <4>2. QED
        BY <1>1, <4>1 DEF NoScope
    <3>2. g[s] = Further(name, function, s, StopAt(NoScope))
      BY <2>1, <2>2, <2>3, <2>6, <3>1 DEF Hit, NoScope
    <3>3. QED
      BY <2>1, <2>4, <2>6, <3>2, WalkLeaves
  <2>7. CASE ~Hit(name, r) /\ r # Program
    <3>1. PICK o : o = Inner(tree, r)
      OBVIOUS
    <3>2. o \in 0 .. r - 1 /\ o \in {Program} \cup DOMAIN scopeOf
      BY <2>2, <2>7, <3>1, OutNext
    <3>3. WalkFits(name, function, o, g[ScopeAt(scopeOf, o)])
      BY <1>3, <3>2
    <3>4. g[s] = Further(name, function, s, g[ScopeAt(scopeOf, o)])
      BY <2>1, <2>2, <2>3, <2>7, <3>1 DEF Hit
    <3>5. QED
      BY <2>1, <2>4, <2>7, <3>1, <3>3, <3>4, WalkGoesOn
  <2>8. QED
    BY <2>5, <2>6, <2>7
<1>4. \A r \in Nat : (\A q \in 0 .. r - 1 : q \in T) => r \in T
  BY <1>3
<1>5. Nat \subseteq T
  <2> HIDE DEF T
  <2>1. QED
    BY <1>4, StrongInd
<1>6. \A r \in {Program} \cup DOMAIN scopeOf : r \in Nat
  BY ScopeChain
<1>7. \A r \in {Program} \cup DOMAIN scopeOf :
          WalkFits(name, function, r, g[ScopeAt(scopeOf, r)])
  BY <1>5, <1>6
<1>8. QED
  BY <1>1, <1>7

-----------------------------------------------------------------------------
(* What a name means, and what is visible *)

Ready == TableInv /\ CollectorInv /\ step = "node" /\ duplicates = {}

\* Without duplicates every declaration has its symbol, where it is bound.
LEMMA OneEach ==
    ASSUME Ready
    PROVE  /\ tree \in Seq(Nodes) /\ DOMAIN symbolOf = Keys(tree)
           /\ \A k \in Keys(tree) :
                  /\ symbolOf[k] = Local(NameAt(tree, k), RegionAt(tree, k))
                  /\ symbolOf[k] \in 1 .. Len(symbols) /\ symbolOf[k] \in Nat \ {0}
                  /\ symbolOf[k] # NoSymbol
                  /\ symbols[symbolOf[k]] = SymbolFor(tree, k)
                  /\ symbols[symbolOf[k]].declaration = k
                  /\ symbols[symbolOf[k]].kind = KindAt(tree, k)
           /\ \A k, l \in Keys(tree) : Clash(tree, k, l) => k = l
           /\ \A k, l \in Keys(tree) : symbolOf[k] = symbolOf[l] => k = l
           /\ \A r \in {Program} \cup DOMAIN scopeOf, n \in Names : Local(n, r) # NoSymbol =>
                  \E k \in Keys(tree) : /\ RegionAt(tree, k) = r /\ NameAt(tree, k) = n
                                        /\ Local(n, r) = symbolOf[k]
<1>1. /\ tree \in Seq(Nodes)
      /\ Bound(tree, Keys(tree), scopeOf, binding, symbols, symbolOf, duplicates)
  BY CollectedFacts DEF Ready
<1>2. DOMAIN symbolOf = Keys(tree) /\ \A k \in Keys(tree) : First(tree, Keys(tree), k)
  <2>1. /\ DOMAIN symbolOf = {k \in Keys(tree) : First(tree, Keys(tree), k)}
        /\ duplicates = {<<k, BoundTo(tree, scopeOf, binding, k)>>
                         : k \in Keys(tree) \ DOMAIN symbolOf}
    BY <1>1 DEF Bound
  <2>2. Keys(tree) \ DOMAIN symbolOf = {}
    BY <2>1 DEF Ready
  <2>3. QED
    BY <2>1, <2>2
<1>3. ASSUME NEW k \in Keys(tree)
      PROVE  /\ symbolOf[k] = Local(NameAt(tree, k), RegionAt(tree, k))
             /\ symbolOf[k] \in 1 .. Len(symbols) /\ symbolOf[k] \in Nat \ {0}
             /\ symbolOf[k] # NoSymbol
             /\ symbols[symbolOf[k]] = SymbolFor(tree, k)
             /\ symbols[symbolOf[k]].declaration = k
             /\ symbols[symbolOf[k]].kind = KindAt(tree, k)
  <2>1. /\ symbolOf[k] = BoundTo(tree, scopeOf, binding, k) /\ symbolOf[k] \in 1 .. Len(symbols)
        /\ symbols[symbolOf[k]] = SymbolFor(tree, k)
    BY <1>1, <1>2 DEF Bound
  <2>2. symbolOf[k] \in Nat \ {0} /\ symbolOf[k] # NoSymbol
    BY <2>1 DEF NoSymbol
  <2>3. SymbolFor(tree, k).declaration = k /\ SymbolFor(tree, k).kind = KindAt(tree, k)
    BY DEF SymbolFor
  <2>4. QED
    BY <2>1, <2>2, <2>3 DEF BoundTo, Local, LookupLocal
<1>4. ASSUME NEW k \in Keys(tree), NEW l \in Keys(tree), Clash(tree, k, l) PROVE k = l
  <2>1. Clash(tree, l, k)
    BY <1>4 DEF Clash
  <2>2. ~Before(k, l) /\ ~Before(l, k)
    BY <1>2, <1>4, <2>1 DEF First
  <2>3. /\ k.node \in Nat /\ k.position \in Nat
        /\ k = [node |-> k.node, position |-> k.position]
    BY <1>1, KeyFacts
  <2>4. /\ l.node \in Nat /\ l.position \in Nat
        /\ l = [node |-> l.node, position |-> l.position]
    BY <1>1, KeyFacts
  <2>5. k.node = l.node /\ k.position = l.position
    BY <2>2, <2>3, <2>4, BeforeOrders
  <2>6. QED
    BY <2>3, <2>4, <2>5
<1>5. ASSUME NEW k \in Keys(tree), NEW l \in Keys(tree), symbolOf[k] = symbolOf[l] PROVE k = l
  BY <1>3, <1>5
<1>6. ASSUME NEW r \in {Program} \cup DOMAIN scopeOf, NEW n \in Names, Local(n, r) # NoSymbol
      PROVE  \E k \in Keys(tree) : /\ RegionAt(tree, k) = r /\ NameAt(tree, k) = n
                                   /\ Local(n, r) = symbolOf[k]
  <2>1. binding[ScopeAt(scopeOf, r)][n] # NoSymbol
    BY <1>6 DEF Local, LookupLocal
  <2>2. PICK k \in DOMAIN symbolOf : RegionAt(tree, k) = r /\ NameAt(tree, k) = n
    BY <1>1, <2>1 DEF Bound
  <2>3. QED
    BY <1>2, <1>3, <2>2
<1>7. QED
  BY <1>1, <1>2, <1>3, <1>4, <1>5, <1>6

\* The regions around a node have scopes.
LEMMA RegionsEntered ==
    ASSUME Ready, NEW i \in 1 .. Len(tree) + 1
    PROVE  /\ i \in Nat \ {0}
           /\ Regions(tree, i) \subseteq {Program} \cup DOMAIN scopeOf
           /\ Regions(tree, i) \subseteq 0 .. i - 1
           /\ Inner(tree, i) \in Regions(tree, i) /\ Inner(tree, i) \in Nat
           /\ Out(tree, Inner(tree, i)) = Regions(tree, i)
           /\ Outward(Region(i)) = Regions(tree, i)
<1>1. tree \in Seq(Nodes) /\ Len(tree) \in Nat
  BY OneEach
<1>2. i \in Nat \ {0}
  BY <1>1
<1>3. /\ Regions(tree, i) \subseteq 0 .. i - 1
      /\ Inner(tree, i) \in Regions(tree, i) /\ Inner(tree, i) \in Nat
  BY <1>2, InnerFacts
<1>4. ASSUME NEW r \in Regions(tree, i), r # Program PROVE r \in DOMAIN scopeOf
  <2>1. r \in 1 .. i - 1 /\ Opens(tree, r)
    BY <1>2, <1>4, RegionsNested
  <2>2. r \in 1 .. Len(tree)
    BY <1>1, <2>1
  <2>3. QED
    BY <2>1, <2>2, ScopeChain DEF Ready
<1>5. Out(tree, Inner(tree, i)) = Regions(tree, i)
  BY <1>2, OutIs
<1>6. Region(i) = Inner(tree, i)
  BY <1>2, RegionsAre
<1>7. Outward(Region(i)) = Regions(tree, i)
  BY <1>3, <1>5, <1>6, OutwardIs
<1>8. QED
  BY <1>2, <1>3, <1>4, <1>5, <1>7

\* The visit of node i sees the declarations of its regions that are not behind it.
ActiveAt(i) == active = {symbolOf[Own(j)] : j \in Activated(tree, i)}

\* What is active is what has been passed: a local variable is visible behind its
\* declaration, everything else in all of its region.
LEMMA VisibleIs ==
    ASSUME Ready, NEW i \in 1 .. Len(tree) + 1, ActiveAt(i), NEW k \in Keys(tree),
           RegionAt(tree, k) \in Regions(tree, i)
    PROVE  Visible(symbolOf[k], ScopeAt(scopeOf, RegionAt(tree, k))) <=> i > AfterAt(tree, k)
<1>1. /\ tree \in Seq(Nodes) /\ DOMAIN symbolOf = Keys(tree)
      /\ symbols[symbolOf[k]].kind = KindAt(tree, k)
      /\ \A m, l \in Keys(tree) : symbolOf[m] = symbolOf[l] => m = l
  BY OneEach
<1>2. /\ k.node \in 1 .. Len(tree) /\ k.node \in Nat \ {0} /\ k.position \in Nat
      /\ k = [node |-> k.node, position |-> k.position] /\ i \in Nat \ {0} /\ Len(tree) \in Nat
  BY <1>1, KeyFacts, RegionsEntered
<1>3. \A j \in Activated(tree, i) : Own(j) \in Keys(tree) /\ Own(j).node = j /\ Own(j).position = 0
  <2>1. ASSUME NEW j \in Activated(tree, i)
        PROVE  Own(j) \in Keys(tree) /\ Own(j).node = j /\ Own(j).position = 0
    <3>1. /\ j \in 1 .. Len(tree) /\ tree[j].kind \in {"variable", "loop"}
          /\ MaxParameters \in Nat
      BY <1>2, NodeAssumption DEF Activated
    <3>2. /\ Own(j) \in [node : 1 .. Len(tree), position : 0 .. MaxParameters]
          /\ Own(j).node = j /\ Own(j).position = 0
      BY <3>1 DEF Own
    <3>3. QED
      BY <3>1, <3>2 DEF Keys
  <2>2. QED
    BY <2>1
<1>4. symbolOf[k] \in active <=> k.position = 0 /\ k.node \in Activated(tree, i)
  <2>1. symbolOf[k] \in active <=> \E j \in Activated(tree, i) : symbolOf[k] = symbolOf[Own(j)]
    BY DEF ActiveAt
  <2>2. \A j \in Activated(tree, i) : symbolOf[k] = symbolOf[Own(j)] <=> k = Own(j)
    BY <1>1, <1>3
  <2>3. \A j \in Activated(tree, i) : k = Own(j) => k.position = 0 /\ k.node = j
    BY <1>3
  <2>4. k.position = 0 => k = Own(k.node)
    BY <1>2 DEF Own
  <2>5. QED
    BY <2>1, <2>2, <2>3, <2>4
<1>5. ScopeAt(scopeOf, RegionAt(tree, k)) = GlobalScope <=> RegionAt(tree, k) = Program
  BY RegionsEntered, ScopeChain DEF Ready
<1>6. Visible(symbolOf[k], ScopeAt(scopeOf, RegionAt(tree, k))) <=>
          \/ KindAt(tree, k) # "variable" \/ RegionAt(tree, k) = Program
          \/ k.position = 0 /\ k.node \in Activated(tree, i)
  BY <1>1, <1>4, <1>5 DEF Visible
<1>7. \/ k.position > 0 /\ tree[k.node].kind = "function"
      \/ k.position = 0 /\ tree[k.node].kind \in {"function", "variable", "loop"}
  BY <1>1, <1>2, KeyFacts
<1>8. CASE tree[k.node].kind = "function"
  <2>1. AfterAt(tree, k) = 0 /\ KindAt(tree, k) # "variable"
    BY <1>2, <1>8 DEF AfterAt, KindAt
  <2>2. QED
    BY <1>2, <1>6, <2>1
<1>9. CASE tree[k.node].kind = "loop"
  <2>1. AfterAt(tree, k) = 0 /\ RegionAt(tree, k) = k.node /\ k.position = 0
    BY <1>7, <1>9 DEF AfterAt, RegionAt
  <2>2. k.node \in 0 .. i - 1
    BY <2>1, RegionsEntered
  <2>3. k.node \in Activated(tree, i)
    BY <1>2, <1>9, <2>2 DEF Activated
  <2>4. QED
    BY <1>2, <1>6, <2>1, <2>3
<1>10. CASE tree[k.node].kind = "variable"
  <2>1. /\ RegionAt(tree, k) = Inner(tree, k.node) /\ KindAt(tree, k) = "variable"
        /\ k.position = 0
    BY <1>7, <1>10 DEF RegionAt, KindAt
  <2>2. CASE Inner(tree, k.node) = Program
    <3>1. AfterAt(tree, k) = 0
      BY <2>2 DEF AfterAt
    <3>2. QED
      BY <1>2, <1>6, <2>1, <2>2, <3>1
  <2>3. CASE Inner(tree, k.node) # Program
    <3>1. AfterAt(tree, k) = k.node
      BY <1>10, <2>3 DEF AfterAt
    <3>2. k.node \in Activated(tree, i) <=> k.node \in 1 .. i - 1
      BY <1>10, <2>3 DEF Activated
    <3>3. k.node \in 1 .. i - 1 <=> i > k.node
      BY <1>2
    <3>4. QED
      BY <1>6, <2>1, <2>3, <3>1, <3>2, <3>3
  <2>4. QED
    BY <2>2, <2>3
<1>11. QED
  BY <1>7, <1>8, <1>9, <1>10

\* Key k is what the name may mean in node i, and no other is further inside.
May(name, i, k) ==
    /\ k \in Keys(tree) /\ NameAt(tree, k) = name /\ RegionAt(tree, k) \in Regions(tree, i)
    /\ i > AfterAt(tree, k)
Innermost(name, i, k) ==
    May(name, i, k) /\ \A l : May(name, i, l) => RegionAt(tree, l) <= RegionAt(tree, k)

\* The innermost declaration of a name that may be meant is its meaning.
LEMMA MeaningIs ==
    ASSUME Ready, NEW i \in 1 .. Len(tree) + 1, NEW name
    PROVE  /\ Meanings(name, i) # {} => \E k : Innermost(name, i, k)
           /\ \A k : May(name, i, k) => Meanings(name, i) # {}
           /\ \A k : Innermost(name, i, k) => Meaning(name, i) = DeclAt(k)
           /\ Known(name, i) # {} <=>
                  \E k \in Keys(tree) : NameAt(tree, k) = name
                                        /\ RegionAt(tree, k) \in Regions(tree, i)
<1>1. /\ tree \in Seq(Nodes) /\ Outward(Region(i)) = Regions(tree, i) /\ i \in Nat \ {0}
      /\ \A k, l \in Keys(tree) : Clash(tree, k, l) => k = l
  BY OneEach, RegionsEntered
<1>2. \A k \in Keys(tree) :
          /\ DeclAt(k) \in Declarations /\ DeclAt(k).declaration = k
          /\ DeclAt(k).name = NameAt(tree, k) /\ DeclAt(k).region = RegionAt(tree, k)
          /\ DeclAt(k).after = AfterAt(tree, k) /\ RegionAt(tree, k) \in Nat
  BY <1>1, KeysDeclare, DeclFields, KeyFacts
<1>3. \A d \in Declarations : \E k \in Keys(tree) : d = DeclAt(k)
  BY <1>1, DeclaredKeys
<1>4. \A k \in Keys(tree) : DeclAt(k) \in Meanings(name, i) <=> May(name, i, k)
  BY <1>1, <1>2 DEF Meanings, Known, May
<1>5. \A d \in Meanings(name, i) : \E k \in Keys(tree) : d = DeclAt(k) /\ May(name, i, k)
  BY <1>3, <1>4 DEF Meanings, Known
<1>6. ASSUME Meanings(name, i) # {} PROVE \E k : Innermost(name, i, k)
  <2>1. PICK S : S = {RegionAt(tree, k) : k \in {l \in Keys(tree) : May(name, i, l)}}
    OBVIOUS
  <2>2. S \subseteq Regions(tree, i) /\ S # {}
    BY <1>5, <1>6, <2>1 DEF May
  <2>3. S \subseteq 0 .. i - 1 /\ i - 1 \in Nat
    BY <1>1, <2>2, RegionsEntered
  <2>4. PICK m \in S : \A q \in S : q <= m
    <3>1. Max(S) \in S /\ \A q \in S : q <= Max(S)
      BY <2>2, <2>3, Greatest
    <3>2. QED
      BY <3>1
  <2>5. PICK k \in Keys(tree) : May(name, i, k) /\ RegionAt(tree, k) = m
    BY <2>1
  <2>6. \A l : May(name, i, l) => RegionAt(tree, l) \in S
    BY <2>1 DEF May
  <2>7. Innermost(name, i, k)
    BY <2>4, <2>5, <2>6 DEF Innermost
  <2>8. QED
    BY <2>7
<1>7. ASSUME NEW k, May(name, i, k) PROVE Meanings(name, i) # {}
  BY <1>4, <1>7 DEF May
<1>8. ASSUME NEW k, Innermost(name, i, k) PROVE Meaning(name, i) = DeclAt(k)
  <2>1. May(name, i, k) /\ k \in Keys(tree) /\ DeclAt(k) \in Meanings(name, i)
    BY <1>4, <1>8 DEF Innermost, May
  <2>2. \A e \in Meanings(name, i) : e.region <= DeclAt(k).region
    <3>1. ASSUME NEW e \in Meanings(name, i) PROVE e.region <= DeclAt(k).region
      <4>1. PICK l \in Keys(tree) : e = DeclAt(l) /\ May(name, i, l)
        BY <1>5
      <4>2. RegionAt(tree, l) <= RegionAt(tree, k)
        BY <1>8, <4>1 DEF Innermost
      <4>3. QED
        BY <1>2, <2>1, <4>1, <4>2
    <3>2. QED
      BY <3>1
  <2>3. ASSUME NEW d \in Meanings(name, i), \A e \in Meanings(name, i) : e.region <= d.region
        PROVE  d = DeclAt(k)
    <3>1. PICK l \in Keys(tree) : d = DeclAt(l) /\ May(name, i, l)
      BY <1>5
    <3>2. RegionAt(tree, l) <= RegionAt(tree, k)
      BY <1>8, <3>1 DEF Innermost
    <3>3. RegionAt(tree, k) <= RegionAt(tree, l)
      BY <1>2, <2>1, <2>3, <3>1
    <3>4. RegionAt(tree, k) = RegionAt(tree, l)
      BY <1>2, <2>1, <3>2, <3>3
    <3>5. Clash(tree, k, l)
      BY <2>1, <3>1, <3>4 DEF Clash, May
    <3>6. QED
      BY <1>1, <2>1, <3>1, <3>5
  <2>4. PICK meanings : meanings = Meanings(name, i)
    OBVIOUS
  <2>5. Meaning(name, i) = CHOOSE d \in meanings : \A e \in meanings : e.region <= d.region
    BY <2>4 DEF Meaning
  <2>6. QED
    BY <2>1, <2>2, <2>3, <2>4, <2>5
<1>9. Known(name, i) # {} <=>
          \E k \in Keys(tree) : NameAt(tree, k) = name /\ RegionAt(tree, k) \in Regions(tree, i)
  BY <1>1, <1>2, <1>3 DEF Known
<1>10. QED
  BY <1>6, <1>7, <1>8, <1>9

\* What the walk meets in the regions around node i.
LEMMA HitIs ==
    ASSUME Ready, NEW i \in 1 .. Len(tree) + 1, ActiveAt(i), NEW name \in Names
    PROVE  /\ \A k : May(name, i, k) =>
                  /\ Hit(name, RegionAt(tree, k))
                  /\ Local(name, RegionAt(tree, k)) = symbolOf[k]
           /\ \A q \in Regions(tree, i) : Hit(name, q) =>
                  \E k : May(name, i, k) /\ RegionAt(tree, k) = q
           /\ (\E q \in Regions(tree, i) : Local(name, q) # NoSymbol) <=> Known(name, i) # {}
<1>1. /\ tree \in Seq(Nodes)
      /\ \A k \in Keys(tree) : /\ symbolOf[k] = Local(NameAt(tree, k), RegionAt(tree, k))
                               /\ symbolOf[k] # NoSymbol
      /\ \A r \in {Program} \cup DOMAIN scopeOf, n \in Names : Local(n, r) # NoSymbol =>
             \E k \in Keys(tree) : /\ RegionAt(tree, k) = r /\ NameAt(tree, k) = n
                                   /\ Local(n, r) = symbolOf[k]
  BY OneEach
<1>2. /\ Regions(tree, i) \subseteq {Program} \cup DOMAIN scopeOf
      /\ \A r \in {Program} \cup DOMAIN scopeOf : ScopeAt(scopeOf, r) # NoScope
  BY RegionsEntered, ScopeChain DEF Ready
<1>3. \A q \in Regions(tree, i) :
          Hit(name, q) <=> Local(name, q) # NoSymbol /\ Visible(Local(name, q), ScopeAt(scopeOf, q))
  BY <1>2 DEF Hit, Stops, Local
<1>4. \A k \in Keys(tree) : RegionAt(tree, k) \in Regions(tree, i) =>
          (Visible(symbolOf[k], ScopeAt(scopeOf, RegionAt(tree, k))) <=> i > AfterAt(tree, k))
  BY VisibleIs
<1>5. ASSUME NEW k, May(name, i, k)
      PROVE  /\ Hit(name, RegionAt(tree, k)) /\ Local(name, RegionAt(tree, k)) = symbolOf[k]
  BY <1>1, <1>3, <1>4, <1>5 DEF May
<1>6. ASSUME NEW q \in Regions(tree, i), Hit(name, q)
      PROVE  \E k : May(name, i, k) /\ RegionAt(tree, k) = q
  <2>1. Local(name, q) # NoSymbol /\ Visible(Local(name, q), ScopeAt(scopeOf, q))
    BY <1>3, <1>6
  <2>2. PICK k \in Keys(tree) : /\ RegionAt(tree, k) = q /\ NameAt(tree, k) = name
                                /\ Local(name, q) = symbolOf[k]
    BY <1>1, <1>2, <2>1
  <2>3. May(name, i, k)
    BY <1>4, <2>1, <2>2 DEF May
  <2>4. QED
    BY <2>2, <2>3
<1>7. (\E q \in Regions(tree, i) : Local(name, q) # NoSymbol) <=> Known(name, i) # {}
  <2>1. Known(name, i) # {} <=>
            \E k \in Keys(tree) : NameAt(tree, k) = name /\ RegionAt(tree, k) \in Regions(tree, i)
    BY MeaningIs
  <2>2. QED
    BY <1>1, <1>2, <2>1
<1>8. QED
  BY <1>5, <1>6, <1>7

\* The function around a region.
LEMMA FunctionFacts ==
    ASSUME NEW t, NEW r \in Nat
    PROVE  /\ FunctionAround(t, r) \in Out(t, r) /\ FunctionAround(t, r) \in Nat
           /\ FunctionAround(t, r) # Program => t[FunctionAround(t, r)].kind = "function"
           /\ \A j \in Out(t, r) : j # Program /\ t[j].kind = "function" =>
                  j <= FunctionAround(t, r)
           /\ FunctionAround(t, Program) = Program
<1>1. ASSUME NEW s \in Nat
      PROVE  {j \in {s} \cup Regions(t, s) : j # Program /\ t[j].kind = "function"}
                 = {j \in Out(t, s) : j # Program /\ t[j].kind = "function"}
  <2>1. CASE s = Program
    <3>1. Regions(t, s) = {Program}
      BY <2>1 DEF Regions, Program
    <3>2. QED
      BY <2>1, <3>1 DEF Out
  <2>2. CASE s # Program
    BY <2>2 DEF Out
  <2>3. QED
    BY <2>1, <2>2
<1>2. PICK S : S = {Program} \cup {j \in Out(t, r) : j # Program /\ t[j].kind = "function"}
  OBVIOUS
<1>3. FunctionAround(t, r) = Max(S)
  BY <1>1, <1>2 DEF FunctionAround
<1>4. Out(t, r) \subseteq 0 .. r /\ Program \in Out(t, r)
  BY OutNext
<1>5. S \subseteq 0 .. r /\ S # {}
  BY <1>2, <1>4
<1>6. Max(S) \in S /\ Max(S) \in Nat /\ \A j \in S : j <= Max(S)
  BY <1>5, Greatest
<1>7. FunctionAround(t, Program) = Program
  <2>1. PICK P : P = {Program} \cup {j \in Out(t, Program) : j # Program /\ t[j].kind = "function"}
    OBVIOUS
  <2>2. FunctionAround(t, Program) = Max(P)
    BY <1>1, <2>1 DEF FunctionAround, Program
  <2>3. P = {0}
    BY <2>1, OutNext DEF Program
  <2>4. 0 \in Nat /\ P \subseteq 0 .. 0 /\ P # {}
    BY <2>3
  <2>5. Max(P) \in P
    BY <2>4, Greatest
  <2>6. QED
    BY <2>2, <2>3, <2>5 DEF Program
<1>8. QED
  BY <1>2, <1>3, <1>4, <1>6, <1>7

\* The walk from the region of node i to region q leaves the function.
LEMMA CrossedIs ==
    ASSUME Ready, NEW i \in 1 .. Len(tree) + 1, NEW q \in Regions(tree, i)
    PROVE  (\E p \in Regions(tree, i) :
                q < p /\ ScopeAt(scopeOf, p) = Frame(tree, scopeOf, Inner(tree, i)).function)
               <=> FunctionAround(tree, q) # FunctionAround(tree, Inner(tree, i))
<1>1. PICK I : I = Inner(tree, i)
  OBVIOUS
<1>2. /\ Out(tree, I) = Regions(tree, i) /\ I \in Nat
      /\ Regions(tree, i) \subseteq {Program} \cup DOMAIN scopeOf
      /\ Regions(tree, i) \subseteq 0 .. i - 1 /\ i \in Nat \ {0}
  BY <1>1, RegionsEntered
<1>3. PICK F : F = FunctionAround(tree, I)
  OBVIOUS
<1>4. PICK G : G = FunctionAround(tree, q)
  OBVIOUS
<1>5. q \in Nat /\ Out(tree, q) = {p \in Regions(tree, i) : p <= q}
  BY <1>2, OutNext
<1>6. /\ F \in Regions(tree, i) /\ F \in Nat /\ (F # Program => tree[F].kind = "function")
      /\ \A j \in Regions(tree, i) : j # Program /\ tree[j].kind = "function" => j <= F
      /\ I = Program => F = Program
  <2>1. /\ F \in Out(tree, I) /\ F \in Nat /\ (F # Program => tree[F].kind = "function")
        /\ \A j \in Out(tree, I) : j # Program /\ tree[j].kind = "function" => j <= F
        /\ I = Program => F = Program
    BY <1>2, <1>3, FunctionFacts
  <2>2. QED
    BY <1>2, <2>1
<1>7. /\ G \in Out(tree, q) /\ G \in Nat /\ (G # Program => tree[G].kind = "function")
      /\ \A j \in Out(tree, q) : j # Program /\ tree[j].kind = "function" => j <= G
  BY <1>4, <1>5, FunctionFacts
<1>8. G # F <=> q < F
  <2>1. CASE q < F
    <3>1. G <= q
      BY <1>5, <1>7
    <3>2. QED
      BY <1>5, <1>6, <1>7, <2>1, <3>1
  <2>2. CASE ~(q < F)
    <3>1. F <= q /\ F \in Out(tree, q)
      BY <1>5, <1>6, <2>2
    <3>2. CASE F = Program
      <4>1. G \in Regions(tree, i) /\ (G # Program => G <= F)
        BY <1>5, <1>6, <1>7
      <4>2. G = Program
        BY <1>7, <3>2, <4>1 DEF Program
      <4>3. QED
        BY <2>2, <3>2, <4>2
    <3>3. CASE F # Program
      <4>1. F <= G
        BY <1>6, <1>7, <3>1, <3>3
      <4>2. G # Program
        BY <1>6, <1>7, <3>3, <4>1 DEF Program
      <4>3. G <= F
        BY <1>5, <1>6, <1>7, <4>2
      <4>4. QED
        BY <1>6, <1>7, <2>2, <4>1, <4>3
    <3>4. QED
      BY <3>2, <3>3
  <2>3. QED
    BY <2>1, <2>2
<1>9. PICK function : function = Frame(tree, scopeOf, I).function
  OBVIOUS
<1>10. function = IF F = Program THEN NoScope ELSE ScopeAt(scopeOf, F)
  <2>1. function = IF I = Program \/ F = Program THEN NoScope ELSE scopeOf[F]
    BY <1>3, <1>9 DEF Frame
  <2>2. QED
    BY <1>6, <2>1 DEF ScopeAt
<1>11. \A p \in Regions(tree, i) : ScopeAt(scopeOf, p) = function <=> F # Program /\ p = F
  <2>1. ASSUME NEW p \in Regions(tree, i)
        PROVE  /\ ScopeAt(scopeOf, p) # NoScope
               /\ ScopeAt(scopeOf, p) = ScopeAt(scopeOf, F) => p = F
    <3>1. p \in {Program} \cup DOMAIN scopeOf /\ F \in {Program} \cup DOMAIN scopeOf
      BY <1>2, <1>6
    <3>2. QED
      BY <3>1, ScopeChain DEF Ready
  <2>2. QED
    BY <1>10, <2>1
<1>12. q < F => F # Program
  BY <1>5 DEF Program
<1>13. (\E p \in Regions(tree, i) : q < p /\ ScopeAt(scopeOf, p) = function) <=> q < F
  BY <1>6, <1>11, <1>12
<1>14. QED
  BY <1>1, <1>3, <1>4, <1>8, <1>9, <1>13

\* A use captures when the declaration it means is local to another function.
LEMMA CapturedIs ==
    ASSUME Ready, NEW i \in 1 .. Len(tree) + 1, NEW name, NEW k, Innermost(name, i, k)
    PROVE  Captured(name, i) <=>
               /\ LocalAt(tree, k)
               /\ FunctionAround(tree, RegionAt(tree, k)) # FunctionAround(tree, Inner(tree, i))
<1>1. k \in Keys(tree) /\ May(name, i, k) /\ tree \in Seq(Nodes)
  BY OneEach DEF Innermost, May
<1>2. Meanings(name, i) # {} /\ Meaning(name, i) = DeclAt(k)
  BY <1>1, MeaningIs
<1>3. DeclAt(k).local = LocalAt(tree, k) /\ DeclAt(k).region = RegionAt(tree, k)
  BY <1>1, DeclFields
<1>4. RegionAt(tree, k) \in Nat
  BY <1>1, KeyFacts
<1>5. Region(i) = Inner(tree, i) /\ Inner(tree, i) \in Nat
  BY RegionsEntered, RegionsAre
<1>6. /\ FunctionOf(RegionAt(tree, k)) = FunctionAround(tree, RegionAt(tree, k))
      /\ FunctionOf(Region(i)) = FunctionAround(tree, Inner(tree, i))
  BY <1>4, <1>5, OutwardIs
<1>7. QED
  BY <1>2, <1>3, <1>6 DEF Captured

\* What the resolver finds for a name in node i.
Finds(name, i, result) ==
    /\ result.error = Verdict(name, i) /\ result.note \in Nat
    /\ IF Meanings(name, i) # {} \/ name \in Builtins
       THEN \E x : result.target = {x} /\ Means(name, i, x)
       ELSE result.target = {}

\* Resolve() finds the meaning of the name, and says what is wrong with the use.
LEMMA ResolveFinds ==
    ASSUME Ready, NEW i \in 1 .. Len(tree) + 1, ActiveAt(i), NEW name \in Names,
           NEW frame, frame = Frame(tree, scopeOf, Inner(tree, i))
    PROVE  Finds(name, i, Resolve(name, frame.scope, frame.function))
<1>1. PICK r : r = Inner(tree, i)
  OBVIOUS
<1>2. /\ r \in Regions(tree, i) /\ Out(tree, r) = Regions(tree, i)
      /\ r \in {Program} \cup DOMAIN scopeOf
      /\ Regions(tree, i) \subseteq {Program} \cup DOMAIN scopeOf
  BY <1>1, RegionsEntered
<1>3. PICK s, function : s = ScopeAt(scopeOf, r) /\ function = frame.function
  OBVIOUS
<1>4. frame.scope = s
  BY <1>1, <1>3 DEF Frame
<1>5. PICK g : /\ \A z : Resolve(name, z, function) = Outcome(name, g[z])
               /\ \A z \in {Program} \cup DOMAIN scopeOf :
                      WalkFits(name, function, z, g[ScopeAt(scopeOf, z)])
  BY WalkIs DEF Ready
<1>6. PICK way : way = g[s]
  OBVIOUS
<1>7. PICK result : result = Outcome(name, way)
  OBVIOUS
<1>8. Resolve(name, frame.scope, frame.function) = result
  BY <1>3, <1>4, <1>5, <1>6, <1>7
<1>9. WalkFits(name, function, r, way)
  BY <1>2, <1>3, <1>5, <1>6
<1>10. CASE Meanings(name, i) # {}
  <2>1. PICK k : Innermost(name, i, k)
    BY <1>10, MeaningIs
  <2>2. May(name, i, k) /\ k \in Keys(tree) /\ NameAt(tree, k) = name
        /\ RegionAt(tree, k) \in Regions(tree, i)
    BY <2>1 DEF Innermost, May
  <2>3. PICK q : q = RegionAt(tree, k)
    OBVIOUS
  <2>4. Hit(name, q) /\ Local(name, q) = symbolOf[k]
    BY <2>2, <2>3, HitIs
  <2>5. \A p \in Regions(tree, i) : q < p => ~Hit(name, p)
    <3>1. ASSUME NEW p \in Regions(tree, i), q < p, Hit(name, p) PROVE FALSE
      <4>1. PICK l : May(name, i, l) /\ RegionAt(tree, l) = p
        BY <3>1, HitIs
      <4>2. p <= q
        BY <2>1, <2>3, <4>1 DEF Innermost
      <4>3. p \in Nat /\ q \in Nat
        BY <2>2, <2>3, RegionsEntered
      <4>4. QED
        BY <3>1, <4>2, <4>3
    <3>2. QED
      BY <3>1
  <2>6. /\ way.scope = ScopeAt(scopeOf, q)
        /\ way.crossed <=> \E p \in Regions(tree, i) : q < p /\ ScopeAt(scopeOf, p) = function
    BY <1>2, <1>9, <2>2, <2>3, <2>4, <2>5 DEF WalkFits
  <2>7. way.crossed <=> FunctionAround(tree, q) # FunctionAround(tree, Inner(tree, i))
    <3>1. (\E p \in Regions(tree, i) :
               q < p /\ ScopeAt(scopeOf, p) = Frame(tree, scopeOf, Inner(tree, i)).function)
              <=> FunctionAround(tree, q) # FunctionAround(tree, Inner(tree, i))
      BY <2>2, <2>3, CrossedIs
    <3>2. QED
      BY <1>3, <2>6, <3>1
  <2>8. way.scope # NoScope /\ (way.scope # GlobalScope <=> q # Program)
    BY <1>2, <2>2, <2>3, <2>6, ScopeChain DEF Ready
  <2>9. PICK found : found = LookupLocal(way.scope, name)
    OBVIOUS
  <2>10. found = symbolOf[k]
    BY <2>4, <2>6, <2>9 DEF Local
  <2>11. /\ found \in 1 .. Len(symbols) /\ found \in Nat \ {0}
         /\ symbols[found].declaration = k /\ symbols[found].kind = KindAt(tree, k)
    BY <2>2, <2>10, OneEach
  <2>12. /\ result.target = {found} /\ result.note = found
         /\ result.error = IF /\ way.crossed /\ way.scope # GlobalScope
                              /\ symbols[found].kind \in {"variable", "parameter"}
                           THEN "capture" ELSE "none"
    BY <1>7, <2>8, <2>9 DEF Outcome
  <2>13. symbols[found].kind \in {"variable", "parameter"} <=> KindAt(tree, k) # "function"
    BY <2>11 DEF KindAt
  <2>14. Captured(name, i) <=>
             /\ LocalAt(tree, k)
             /\ FunctionAround(tree, q) # FunctionAround(tree, Inner(tree, i))
    BY <2>1, <2>3, CapturedIs
  <2>15. LocalAt(tree, k) <=> KindAt(tree, k) # "function" /\ q # Program
    BY <2>3 DEF LocalAt
  <2>16. result.error = IF Captured(name, i) THEN "capture" ELSE "none"
    BY <2>7, <2>8, <2>12, <2>13, <2>14, <2>15
  <2>17. result.error = Verdict(name, i)
    BY <1>10, <2>16 DEF Verdict
  <2>18. Means(name, i, found)
    <3>1. Meaning(name, i).declaration = k
      <4>1. Meaning(name, i) = DeclAt(k)
        BY <2>1, MeaningIs
      <4>2. DeclAt(k).declaration = k
        BY <2>2, OneEach, DeclFields
      <4>3. QED
        BY <4>1, <4>2
    <3>2. QED
      BY <1>10, <2>11, <3>1 DEF Means
  <2>19. Finds(name, i, result)
    BY <1>10, <2>11, <2>12, <2>17, <2>18 DEF Finds
  <2>20. QED
    BY <1>8, <2>19
<1>11. CASE Meanings(name, i) = {}
  <2>1. \A q \in Regions(tree, i) : ~Hit(name, q)
    BY <1>11, HitIs, MeaningIs
  <2>2. /\ way.scope = NoScope /\ way.later \in Nat
        /\ way.later # NoSymbol <=> Known(name, i) # {}
    <3>1. /\ way.scope = NoScope /\ way.later \in Nat
          /\ way.later # NoSymbol <=> \E q \in Regions(tree, i) : Local(name, q) # NoSymbol
      BY <1>2, <1>9, <2>1 DEF WalkFits
    <3>2. QED
      BY <3>1, HitIs
  <2>3. CASE name \in Builtins
    <3>1. result.target = {BuiltinTarget} /\ result.error = "none" /\ result.note = NoSymbol
      BY <1>7, <2>2, <2>3 DEF Outcome
    <3>2. Verdict(name, i) = "none" /\ Means(name, i, BuiltinTarget) /\ NoSymbol \in Nat
      BY <1>11, <2>3 DEF Verdict, Means, NoSymbol
    <3>3. Finds(name, i, result)
      BY <2>3, <3>1, <3>2 DEF Finds
    <3>4. QED
      BY <1>8, <3>3
  <2>4. CASE name \notin Builtins
    <3>1. /\ result.target = {} /\ result.note = way.later
          /\ result.error = IF way.later # NoSymbol THEN "before declaration" ELSE "unknown"
      BY <1>7, <2>2, <2>4 DEF Outcome
    <3>2. Verdict(name, i) = IF Known(name, i) # {} THEN "before declaration" ELSE "unknown"
      BY <1>11, <2>4 DEF Verdict
    <3>3. Finds(name, i, result)
      BY <1>11, <2>2, <2>4, <3>1, <3>2 DEF Finds
    <3>4. QED
      BY <1>8, <3>3
  <2>5. QED
    BY <2>3, <2>4
<1>12. QED
  BY <1>10, <1>11

-----------------------------------------------------------------------------
(* The resolver leaves the tree alone, and with it what names mean *)

\* What a name means depends on the tree alone.
LEMMA MeaningsStay ==
    ASSUME tree' = tree
    PROVE  /\ \A name, i : /\ Meanings(name, i)' = Meanings(name, i)
                           /\ Known(name, i)' = Known(name, i)
                           /\ Captured(name, i)' = Captured(name, i)
                           /\ Meaning(name, i)' = Meaning(name, i)
                           /\ Verdict(name, i)' = Verdict(name, i)
           /\ \A use : NameOf(use)' = NameOf(use)
           /\ \A n, r : Passed(n, r)' = Passed(n, r)
           /\ Uses' = Uses
           /\ Redeclared' = Redeclared /\ HasEntryPoint' = HasEntryPoint
<1>1. \A j, i : Encloses(j, i)' = Encloses(j, i)
  BY DEF Encloses, Ended, Ends, HasBody, Quantify
<1>2. \A i : RegionsAround(i)' = RegionsAround(i)
  BY <1>1 DEF RegionsAround
<1>3. \A i : Region(i)' = Region(i)
  BY <1>2 DEF Region
<1>4. \A r : Outward(r)' = Outward(r)
  BY <1>2 DEF Outward
<1>5. \A r : FunctionOf(r)' = FunctionOf(r)
  BY <1>4 DEF FunctionOf
<1>6. \A kind : OfKind(kind)' = OfKind(kind)
  BY DEF OfKind, Positions
<1>7. Declarations' = Declarations
  BY <1>3, <1>6 DEF Declarations, Declared
<1>8. \A name, i : Known(name, i)' = Known(name, i)
  BY <1>3, <1>4, <1>7 DEF Known
<1>9. \A name, i : Meanings(name, i)' = Meanings(name, i)
  BY <1>8 DEF Meanings
<1>10. \A name, i : Meaning(name, i)' = Meaning(name, i)
  BY <1>9 DEF Meaning
<1>11. \A name, i : Captured(name, i)' = Captured(name, i)
  BY <1>3, <1>5, <1>9, <1>10 DEF Captured
<1>12. \A name, i : Verdict(name, i)' = Verdict(name, i)
  BY <1>8, <1>9, <1>11 DEF Verdict
<1>13. \A use : NameOf(use)' = NameOf(use)
  BY DEF NameOf
<1>14. Uses' = Uses
  BY DEF Uses, Positions
<1>15. \A n, r : Passed(n, r)' = Passed(n, r)
  BY <1>14 DEF Passed
<1>16. Redeclared' = Redeclared
  BY <1>7 DEF Redeclared, Earlier
<1>17. HasEntryPoint' = HasEntryPoint
  BY <1>3, <1>6 DEF HasEntryPoint
<1>18. QED
  BY <1>8, <1>9, <1>10, <1>11, <1>12, <1>13, <1>14, <1>15, <1>16, <1>17

-----------------------------------------------------------------------------
(* The uses that are passed *)

\* The names a node uses.
LEMMA ReadsFacts ==
    ASSUME tree \in Seq(Nodes), NEW n \in 1 .. Len(tree)
    PROVE  /\ Reads(tree[n]) \in Seq(Names)
           /\ DOMAIN Reads(tree[n]) = 1 .. Len(Reads(tree[n])) /\ Len(Reads(tree[n])) \in Nat
<1>1. tree[n] \in Nodes
  BY NodeFacts
<1>2. Reads(tree[n]) \in Seq(Names)
  BY <1>1, NodeAssumption DEF Reads
<1>3. QED
  BY <1>2

\* What uses are.
LEMMA UseFacts ==
    ASSUME tree \in Seq(Nodes)
    PROVE  /\ \A use \in Uses :
                  /\ use[1] \in 1 .. Len(tree) /\ use[2] \in 1 .. Len(Reads(tree[use[1]]))
                  /\ use = <<use[1], use[2]>> /\ NameOf(use) \in Names
                  /\ use[1] \in Nat /\ use[2] \in Nat
           /\ \A n \in 1 .. Len(tree) : \A r \in 1 .. Len(Reads(tree[n])) : <<n, r>> \in Uses
<1>1. Positions = 1 .. Len(tree) /\ Len(tree) \in Nat
  BY DEF Positions
<1>2. ASSUME NEW use \in Uses
      PROVE  /\ use[1] \in 1 .. Len(tree) /\ use[2] \in 1 .. Len(Reads(tree[use[1]]))
             /\ use = <<use[1], use[2]>> /\ NameOf(use) \in Names
             /\ use[1] \in Nat /\ use[2] \in Nat
  <2>1. PICK i \in Positions : use \in {<<i, k>> : k \in DOMAIN Reads(tree[i])}
    BY DEF Uses
  <2>2. PICK k \in DOMAIN Reads(tree[i]) : use = <<i, k>>
    BY <2>1
  <2>3. i \in 1 .. Len(tree) /\ i \in Nat
    BY <1>1
  <2>4. /\ Reads(tree[i]) \in Seq(Names) /\ k \in 1 .. Len(Reads(tree[i]))
        /\ Len(Reads(tree[i])) \in Nat
    BY <2>2, <2>3, ReadsFacts
  <2>5. use[1] = i /\ use[2] = k
    BY <2>2
  <2>6. Reads(tree[i])[k] \in Names
    BY <2>4
  <2>7. k \in Nat
    BY <2>4
  <2>8. QED
    BY <2>2, <2>3, <2>4, <2>5, <2>6, <2>7 DEF NameOf
<1>3. ASSUME NEW n \in 1 .. Len(tree), NEW r \in 1 .. Len(Reads(tree[n])) PROVE <<n, r>> \in Uses
  <2>1. r \in DOMAIN Reads(tree[n]) /\ n \in Positions
    BY <1>1, ReadsFacts
  <2>2. <<n, r>> \in {<<n, k>> : k \in DOMAIN Reads(tree[n])}
    BY <2>1
  <2>3. QED
    BY <2>1, <2>2 DEF Uses
<1>4. QED
  BY <1>2, <1>3

\* One more use is passed, or none is left in the node, or in the tree.
LEMMA PassedNext ==
    ASSUME tree \in Seq(Nodes), NEW n \in Nat, NEW r \in Nat
    PROVE  /\ Passed(1, 1) = {}
           /\ Passed(Len(tree) + 1, 1) = Uses
           /\ n \in 1 .. Len(tree) /\ r \in 1 .. Len(Reads(tree[n])) =>
                  /\ Passed(n, r + 1) = Passed(n, r) \cup {<<n, r>>}
                  /\ <<n, r>> \notin Passed(n, r)
           /\ n \in 1 .. Len(tree) /\ r > Len(Reads(tree[n])) => Passed(n + 1, 1) = Passed(n, r)
<1>1. \A use \in Uses :
          /\ use[1] \in 1 .. Len(tree) /\ use[2] \in 1 .. Len(Reads(tree[use[1]]))
          /\ use = <<use[1], use[2]>> /\ use[1] \in Nat /\ use[2] \in Nat
  BY UseFacts
<1>2. \A i \in 1 .. Len(tree) : Len(Reads(tree[i])) \in Nat
  BY ReadsFacts
<1>3. Len(tree) \in Nat
  OBVIOUS
<1>4. Passed(1, 1) = {}
  BY <1>1, <1>2, <1>3 DEF Passed
<1>5. Passed(Len(tree) + 1, 1) = Uses
  <2>1. \A use \in Uses : use[1] < Len(tree) + 1
    BY <1>1, <1>3
  <2>2. QED
    BY <2>1 DEF Passed
<1>6. ASSUME n \in 1 .. Len(tree), r \in 1 .. Len(Reads(tree[n]))
      PROVE  Passed(n, r + 1) = Passed(n, r) \cup {<<n, r>>} /\ <<n, r>> \notin Passed(n, r)
  <2>1. <<n, r>> \in Uses /\ <<n, r>>[1] = n /\ <<n, r>>[2] = r
    BY <1>6, UseFacts
  <2>2. \A use \in Uses :
            use[1] < n \/ (use[1] = n /\ use[2] < r + 1)
                <=> use[1] < n \/ (use[1] = n /\ use[2] < r) \/ use = <<n, r>>
    BY <1>1
  <2>3. QED
    BY <2>1, <2>2 DEF Passed
<1>7. ASSUME n \in 1 .. Len(tree), r > Len(Reads(tree[n]))
      PROVE  Passed(n + 1, 1) = Passed(n, r)
  <2>1. \A use \in Uses : use[1] < n + 1 \/ (use[1] = n + 1 /\ use[2] < 1)
            <=> use[1] < n \/ (use[1] = n /\ use[2] < r)
    <3>1. ASSUME NEW use \in Uses
          PROVE  use[1] < n + 1 \/ (use[1] = n + 1 /\ use[2] < 1)
                     <=> use[1] < n \/ (use[1] = n /\ use[2] < r)
      <4>1. PICK a, b : a = use[1] /\ b = use[2]
        OBVIOUS
      <4>2. PICK m : m = Len(Reads(tree[n]))
        OBVIOUS
      <4>3. /\ a \in Nat /\ b \in Nat /\ b >= 1 /\ (a = n => b <= m) /\ m \in Nat /\ r > m
        BY <1>1, <1>2, <1>7, <4>1, <4>2
      <4>4. a < n + 1 \/ (a = n + 1 /\ b < 1) <=> a < n \/ (a = n /\ b < r)
        BY ONLY <4>3, n \in Nat, r \in Nat
      <4>5. QED
        BY <4>1, <4>4
    <3>2. QED
      BY <3>1
  <2>2. QED
    BY <2>1 DEF Passed
<1>8. QED
  BY <1>4, <1>5, <1>6, <1>7

-----------------------------------------------------------------------------
(* The steps of the resolver *)

\* What has been resolved stays so while nothing is added.
LEMMA ResolvedStays ==
    ASSUME tree' = tree, symbols' = symbols, resolution' = resolution, reports' = reports,
           NEW n, NEW r, NEW n2, NEW r2, Passed(n2, r2) = Passed(n, r), Resolved(n, r)
    PROVE  Resolved(n2, r2)'
<1>1. /\ \A name, i : /\ Meanings(name, i)' = Meanings(name, i)
                      /\ Meaning(name, i)' = Meaning(name, i)
                      /\ Verdict(name, i)' = Verdict(name, i)
      /\ \A use : NameOf(use)' = NameOf(use)
      /\ Passed(n2, r2)' = Passed(n, r)
  BY MeaningsStay
<1>2. \A name, i, x : Means(name, i, x)' <=> Means(name, i, x)
  BY <1>1 DEF Means
<1>3. QED
  BY <1>1, <1>2 DEF Resolved

\* What follows when the use is added to those that are passed.
LEMMA ReadResolves ==
    ASSUME Ready, ResolverInv, ResolveRead, UNCHANGED collectorVars
    PROVE  ResolverInv'
<1>1. PICK n, r : n = at /\ r = read
  OBVIOUS
<1>2. /\ tree \in Seq(Nodes) /\ n \in 1 .. Len(tree) + 1 /\ r \in Nat \ {0} /\ n \in Nat
      /\ n \in 1 .. Len(tree) /\ r \in 1 .. Len(Reads(tree[n]))
      /\ Len(Reads(tree[n])) \in Nat
  <2>1. tree \in Seq(Nodes) /\ Len(tree) \in Nat
    BY OneEach
  <2>2. n \in 1 .. Len(tree) + 1 /\ r \in Nat \ {0} /\ n <= Len(tree)
    BY <1>1 DEF ResolverInv, ResolveRead
  <2>3. n \in 1 .. Len(tree) /\ n \in Nat
    BY <2>1, <2>2
  <2>4. Len(Reads(tree[n])) \in Nat /\ r <= Len(Reads(tree[n]))
    BY <1>1, <2>1, <2>3, ReadsFacts DEF ResolveRead, Current
  <2>5. QED
    BY <2>1, <2>2, <2>3, <2>4
<1>3. PICK use : use = <<n, r>>
  OBVIOUS
<1>4. /\ Passed(n, r + 1) = Passed(n, r) \cup {use} /\ use \notin Passed(n, r)
      /\ use[1] = n /\ use[2] = r
  BY <1>2, <1>3, PassedNext
<1>5. PICK name : name = Reads(tree[n])[r]
  OBVIOUS
<1>6. name \in Names /\ NameOf(use) = name
  <2>1. Reads(tree[n]) \in Seq(Names)
    BY <1>2, ReadsFacts
  <2>2. QED
    BY <1>2, <1>4, <1>5, <2>1 DEF NameOf
<1>7. PICK frame : frame = Frame(tree, scopeOf, Inner(tree, n))
  OBVIOUS
<1>8. Around = frame
  BY <1>1, <1>7 DEF ResolverInv, InsideFits, Around, Last
<1>9. PICK result : result = Resolve(name, frame.scope, frame.function)
  OBVIOUS
<1>10. Finds(name, n, result)
  <2>1. ActiveAt(n)
    BY <1>1 DEF ResolverInv, ActiveAt
  <2>2. QED
    BY <1>2, <1>6, <1>7, <1>9, <2>1, ResolveFinds
<1>11. /\ resolution' = IF result.target = {} THEN resolution
                        ELSE Emplace(resolution, use, CHOOSE t \in result.target : TRUE)
       /\ reports' = reports \cup IF result.error = "none" THEN {}
                                  ELSE {<<n, r, result.error, result.note>>}
       /\ read' = r + 1 /\ at' = n /\ inside' = inside /\ active' = active
  BY <1>1, <1>3, <1>5, <1>8, <1>9 DEF ResolveRead, Current
<1>12. /\ tree' = tree /\ symbols' = symbols /\ scopeOf' = scopeOf /\ symbolOf' = symbolOf
  BY DEF collectorVars, tableVars, infoVars
<1>13. Resolved(n, r)
  BY <1>1 DEF ResolverInv
<1>14. PICK bound : bound <=> Meanings(name, n) # {} \/ name \in Builtins
  OBVIOUS
<1>15. /\ DOMAIN resolution' = DOMAIN resolution \cup IF bound THEN {use} ELSE {}
       /\ \A u \in DOMAIN resolution : resolution'[u] = resolution[u]
       /\ bound => Means(name, n, resolution'[use])
  <2>1. use \notin DOMAIN resolution
    BY <1>4, <1>13 DEF Resolved
  <2>2. CASE bound
    <3>1. PICK x : result.target = {x} /\ Means(name, n, x)
      BY <1>10, <1>14, <2>2 DEF Finds
    <3>2. (CHOOSE t \in result.target : TRUE) = x /\ result.target # {}
      BY <3>1
    <3>3. resolution' = Emplace(resolution, use, x)
      BY <1>11, <3>2
    <3>4. QED
      BY <2>1, <2>2, <3>1, <3>3 DEF Emplace
  <2>3. CASE ~bound
    <3>1. result.target = {}
      BY <1>10, <1>14, <2>3 DEF Finds
    <3>2. QED
      BY <1>11, <2>3, <3>1
  <2>4. QED
    BY <2>2, <2>3
<1>16. PICK passed : passed = Passed(n, r)
  OBVIOUS
<1>17. /\ result.error = Verdict(name, n) /\ result.note \in Nat
  BY <1>10 DEF Finds
<1>18. /\ \A a, i : /\ Meanings(a, i)' = Meanings(a, i)
                    /\ Meaning(a, i)' = Meaning(a, i)
                    /\ Verdict(a, i)' = Verdict(a, i)
       /\ \A u : NameOf(u)' = NameOf(u)
       /\ Passed(n, r + 1)' = passed \cup {use}
  BY <1>4, <1>12, <1>16, MeaningsStay
<1>19. \A a, i, x : Means(a, i, x)' <=> Means(a, i, x)
  BY <1>12, <1>18 DEF Means
<1>20. DOMAIN resolution' = {u \in passed \cup {use} :
                                 Meanings(NameOf(u), u[1]) # {} \/ NameOf(u) \in Builtins}
  <2>1. DOMAIN resolution =
            {u \in passed : Meanings(NameOf(u), u[1]) # {} \/ NameOf(u) \in Builtins}
    BY <1>13, <1>16 DEF Resolved
  <2>2. bound <=> Meanings(NameOf(use), use[1]) # {} \/ NameOf(use) \in Builtins
    BY <1>4, <1>6, <1>14
  <2>3. QED
    BY <1>15, <2>1, <2>2
<1>21. \A u \in DOMAIN resolution' : Means(NameOf(u), u[1], resolution'[u])
  <2>1. \A u \in DOMAIN resolution : Means(NameOf(u), u[1], resolution[u])
    BY <1>13 DEF Resolved
  <2>2. QED
    BY <1>4, <1>6, <1>15, <2>1
<1>22. \A report \in reports' : \E u \in passed \cup {use}, note \in Nat :
           /\ report = <<u[1], u[2], Verdict(NameOf(u), u[1]), note>>
           /\ Verdict(NameOf(u), u[1]) # "none"
  <2>1. \A report \in reports : \E u \in passed, note \in Nat :
            /\ report = <<u[1], u[2], Verdict(NameOf(u), u[1]), note>>
            /\ Verdict(NameOf(u), u[1]) # "none"
    BY <1>13, <1>16 DEF Resolved
  <2>2. ASSUME NEW report \in reports' \ reports
        PROVE  \E u \in passed \cup {use}, note \in Nat :
                   /\ report = <<u[1], u[2], Verdict(NameOf(u), u[1]), note>>
                   /\ Verdict(NameOf(u), u[1]) # "none"
    <3>1. report = <<n, r, result.error, result.note>> /\ result.error # "none"
      BY <1>11, <2>2
    <3>2. report = <<use[1], use[2], Verdict(NameOf(use), use[1]), result.note>>
      BY <1>4, <1>6, <1>17, <3>1
    <3>3. Verdict(NameOf(use), use[1]) # "none"
      BY <1>4, <1>6, <1>17, <3>1
    <3>4. QED
      BY <1>17, <3>2, <3>3
  <2>3. QED
    BY <2>1, <2>2
<1>23. \A u \in passed \cup {use} : Verdict(NameOf(u), u[1]) # "none" =>
           \E report \in reports' : report[1] = u[1] /\ report[2] = u[2]
  <2>1. \A u \in passed : Verdict(NameOf(u), u[1]) # "none" =>
            \E report \in reports : report[1] = u[1] /\ report[2] = u[2]
    BY <1>13, <1>16 DEF Resolved
  <2>2. reports \subseteq reports'
    BY <1>11
  <2>3. ASSUME Verdict(name, n) # "none"
        PROVE  \E report \in reports' : report[1] = use[1] /\ report[2] = use[2]
    <3>1. <<n, r, result.error, result.note>> \in reports'
      BY <1>11, <1>17, <2>3
    <3>2. QED
      BY <1>4, <3>1
  <2>4. QED
    BY <1>4, <1>6, <2>1, <2>2, <2>3
<1>24. Resolved(n, r + 1)'
  BY <1>18, <1>19, <1>20, <1>21, <1>22, <1>23 DEF Resolved
<1>25. Resolved(at, read)'
  BY <1>11, <1>24 DEF Resolved, Passed, Uses
<1>26. /\ at' \in 1 .. Len(tree') + 1 /\ read' \in Nat \ {0} /\ at' <= Len(tree')
       /\ read' <= Len(Reads(tree'[at'])) + 1
  BY <1>2, <1>11, <1>12
<1>27. InsideFits(tree', scopeOf', at', inside')
  BY <1>1, <1>11, <1>12 DEF ResolverInv
<1>28. active' = {symbolOf'[Own(j)] : j \in Activated(tree', at')}
  <2>1. active = {symbolOf[Own(j)] : j \in Activated(tree, n)}
    BY <1>1 DEF ResolverInv
  <2>2. QED
    BY <1>11, <1>12, <2>1
<1>29. ~(at' > Len(tree'))
  BY <1>2, <1>11, <1>12
<1>30. QED
  BY <1>25, <1>26, <1>27, <1>28, <1>29 DEF ResolverInv

\* The visit goes on to the next node.
LEMMA MoveResolves ==
    ASSUME Ready, ResolverInv, UNCHANGED collectorVars, NEW n, n = at,
           ReadsDone(tree[n].kind), reports' = reports,
           InsideFits(tree, scopeOf, n + 1, inside'),
           active' = {symbolOf[Own(j)] : j \in Activated(tree, n + 1)}
    PROVE  ResolverInv'
<1>1. PICK r : r = read
  OBVIOUS
<1>2. /\ n <= Len(tree) /\ r > Len(Reads(tree[n])) /\ at' = n + 1 /\ read' = 1
      /\ resolution' = resolution
  BY <1>1 DEF ReadsDone, Current
<1>3. /\ tree \in Seq(Nodes) /\ n \in 1 .. Len(tree) /\ n \in Nat /\ r \in Nat
      /\ Len(tree) \in Nat
  <2>1. tree \in Seq(Nodes) /\ Len(tree) \in Nat
    BY OneEach
  <2>2. n \in 1 .. Len(tree) + 1 /\ r \in Nat
    BY <1>1 DEF ResolverInv
  <2>3. QED
    BY <1>2, <2>1, <2>2
<1>4. /\ tree' = tree /\ symbols' = symbols /\ scopeOf' = scopeOf /\ symbolOf' = symbolOf
  BY DEF collectorVars, tableVars, infoVars
<1>5. Passed(n + 1, 1) = Passed(n, r) /\ Resolved(n, r)
  BY <1>1, <1>2, <1>3, PassedNext DEF ResolverInv
<1>6. Resolved(n + 1, 1)'
  BY <1>2, <1>4, <1>5, ResolvedStays
<1>7. Resolved(at, read)'
  BY <1>2, <1>6 DEF Resolved, Passed, Uses
<1>8. at' \in 1 .. Len(tree') + 1 /\ read' \in Nat \ {0}
  BY <1>2, <1>3, <1>4
<1>9. at' <= Len(tree') => read' <= Len(Reads(tree'[at'])) + 1
  <2>1. ASSUME n + 1 <= Len(tree) PROVE 1 <= Len(Reads(tree[n + 1])) + 1
    <3>1. n + 1 \in 1 .. Len(tree)
      BY <1>3, <2>1
    <3>2. Len(Reads(tree[n + 1])) \in Nat
      BY <1>3, <3>1, ReadsFacts
    <3>3. QED
      BY <3>2
  <2>2. QED
    BY <1>2, <1>4, <2>1
<1>10. InsideFits(tree', scopeOf', at', inside')
  BY <1>2, <1>4
<1>11. active' = {symbolOf'[Own(j)] : j \in Activated(tree', at')}
  BY <1>2, <1>4
<1>12. QED
  BY <1>2, <1>7, <1>8, <1>9, <1>10, <1>11 DEF ResolverInv

\* The declarations that are activated: loops and local variables.
LEMMA ActivatedNext ==
    ASSUME NEW t, NEW n \in Nat \ {0}
    PROVE  Activated(t, n + 1) =
               Activated(t, n) \cup IF t[n].kind = "loop"
                                       \/ (t[n].kind = "variable" /\ Inner(t, n) # Program)
                                    THEN {n} ELSE {}
<1>1. 1 .. n + 1 - 1 = (1 .. n - 1) \cup {n}
  OBVIOUS
<1>2. QED
  BY <1>1 DEF Activated

\* The function around a body.
LEMMA FunctionNext ==
    ASSUME NEW t, NEW n \in Nat \ {0}
    PROVE  /\ t[n].kind = "function" => FunctionAround(t, n) = n
           /\ t[n].kind # "function" => FunctionAround(t, n) = FunctionAround(t, Inner(t, n))
<1>1. PICK I : I = Inner(t, n)
  OBVIOUS
<1>2. n # Program /\ n \in Nat
  BY DEF Program
<1>3. /\ Out(t, n) = {n} \cup Out(t, I) /\ I \in 0 .. n - 1 /\ Out(t, n) \subseteq 0 .. n
      /\ I \in Nat
  BY <1>1, <1>2, OutNext
<1>4. PICK F, G : F = FunctionAround(t, n) /\ G = FunctionAround(t, I)
  OBVIOUS
<1>5. /\ F \in Out(t, n) /\ F \in Nat /\ (F # Program => t[F].kind = "function")
      /\ \A j \in Out(t, n) : j # Program /\ t[j].kind = "function" => j <= F
  BY <1>2, <1>4, FunctionFacts
<1>6. /\ G \in Out(t, I) /\ G \in Nat /\ (G # Program => t[G].kind = "function")
      /\ \A j \in Out(t, I) : j # Program /\ t[j].kind = "function" => j <= G
  BY <1>3, <1>4, FunctionFacts
<1>7. CASE t[n].kind = "function"
  <2>1. n <= F
    BY <1>2, <1>3, <1>5, <1>7
  <2>2. F <= n
    BY <1>3, <1>5
  <2>3. QED
    BY <1>2, <1>4, <1>5, <1>7, <2>1, <2>2
<1>8. CASE t[n].kind # "function"
  <2>1. F # n
    BY <1>2, <1>5, <1>8
  <2>2. F \in Out(t, I)
    BY <1>3, <1>5, <2>1
  <2>3. CASE F = Program
    <3>1. G = Program
      <4>1. G # Program => G <= F
        BY <1>3, <1>5, <1>6
      <4>2. QED
        BY <1>6, <2>3, <4>1 DEF Program
    <3>2. QED
      BY <1>1, <1>4, <1>8, <2>3, <3>1
  <2>4. CASE F # Program
    <3>1. F <= G
      BY <1>5, <1>6, <2>2, <2>4
    <3>2. G # Program
      BY <1>5, <1>6, <2>4, <3>1 DEF Program
    <3>3. G <= F
      BY <1>3, <1>5, <1>6, <3>2
    <3>4. F = G
      BY <1>5, <1>6, <3>1, <3>3
    <3>5. QED
      BY <1>1, <1>4, <1>8, <3>4
  <2>5. QED
    BY <2>3, <2>4
<1>9. QED
  BY <1>7, <1>8

\* The visit of a body, and its end.
Entering(t, scopes, n, function, stack, stack2) ==
    /\ n \in DOMAIN scopes /\ scopes[n] \in Nat /\ function \in Nat /\ Opens(t, n)
    /\ stack2 = Append(stack, [scope |-> scopes[n], function |-> function])
    /\ function = IF t[n].kind = "function" THEN scopes[n] ELSE stack[Len(stack)].function

\* A body that is entered is the innermost one at the next node.
LEMMA InsideEnters ==
    ASSUME NEW t, NEW scopes, NEW n \in Nat \ {0}, NEW stack, NEW stack2, NEW function,
           InsideFits(t, scopes, n, stack), Entering(t, scopes, n, function, stack, stack2)
    PROVE  InsideFits(t, scopes, n + 1, stack2)
<1>0. /\ n \in DOMAIN scopes /\ scopes[n] \in Nat /\ function \in Nat /\ Opens(t, n)
      /\ stack2 = Append(stack, [scope |-> scopes[n], function |-> function])
      /\ function = IF t[n].kind = "function" THEN scopes[n] ELSE stack[Len(stack)].function
  BY DEF Entering
<1>1. n # Program /\ ~Shuts(t, n) /\ Inner(t, n) \in 0 .. n - 1
  BY <1>0, InnerFacts DEF Program, Opens, Shuts
<1>2. Inner(t, n + 1) = n
  BY <1>0, <1>1, RegionsStay
<1>3. /\ stack \in Seq([scope : Nat, function : Nat]) /\ stack # <<>>
      /\ stack[1] = Frame(t, scopes, Program)
      /\ stack[Len(stack)] = Frame(t, scopes, Inner(t, n))
      /\ \A k \in 2 .. Len(stack) : \E r \in DOMAIN scopes :
            stack[k] = Frame(t, scopes, r) /\ stack[k - 1] = Frame(t, scopes, Inner(t, r))
  BY DEF InsideFits
<1>4. PICK frame : frame = [scope |-> scopes[n], function |-> function]
  OBVIOUS
<1>5. frame = Frame(t, scopes, n)
  <2>1. ScopeAt(scopes, n) = scopes[n]
    BY <1>1 DEF ScopeAt
  <2>2. function = IF FunctionAround(t, n) = Program THEN NoScope ELSE scopes[FunctionAround(t, n)]
    <3>1. CASE t[n].kind = "function"
      <4>1. FunctionAround(t, n) = n
        BY <1>0, <3>1, FunctionNext
      <4>2. QED
        BY <1>0, <1>1, <3>1, <4>1
    <3>2. CASE t[n].kind # "function"
      <4>1. FunctionAround(t, n) = FunctionAround(t, Inner(t, n))
        BY <1>0, <3>2, FunctionNext
      <4>2. function = Frame(t, scopes, Inner(t, n)).function
        BY <1>0, <1>3, <3>2
      <4>3. Inner(t, n) = Program => FunctionAround(t, Inner(t, n)) = Program
        <5>1. Program \in Nat
          BY DEF Program
        <5>2. QED
          BY <5>1, FunctionFacts
      <4>4. QED
        BY <4>1, <4>2, <4>3 DEF Frame
    <3>3. QED
      BY <3>1, <3>2
  <2>3. QED
    BY <1>1, <1>4, <2>1, <2>2 DEF Frame
<1>6. PICK m : m = Len(stack)
  OBVIOUS
<1>7. /\ m \in Nat \ {0} /\ stack2 = Append(stack, frame) /\ Len(stack2) = m + 1
      /\ \A k \in 1 .. m : stack2[k] = stack[k]
      /\ stack2[m + 1] = frame
      /\ stack2 \in Seq([scope : Nat, function : Nat]) /\ stack2 # <<>>
  <2>1. stack2 = Append(stack, frame) /\ m \in Nat \ {0}
    BY <1>0, <1>3, <1>4, <1>6
  <2>2. frame \in [scope : Nat, function : Nat]
    BY <1>0, <1>4
  <2>3. stack2 \in Seq([scope : Nat, function : Nat])
    BY <1>3, <2>1, <2>2
  <2>4. QED
    BY <1>3, <1>6, <2>1, <2>3
<1>8. /\ stack2[1] = Frame(t, scopes, Program)
      /\ stack2[Len(stack2)] = Frame(t, scopes, Inner(t, n + 1))
  BY <1>2, <1>3, <1>5, <1>7
<1>9. ASSUME NEW k \in 2 .. Len(stack2)
      PROVE  \E r \in DOMAIN scopes :
                 stack2[k] = Frame(t, scopes, r) /\ stack2[k - 1] = Frame(t, scopes, Inner(t, r))
  <2>1. CASE k <= m
    <3>1. k \in 2 .. m /\ k \in 1 .. m /\ k - 1 \in 1 .. m
      BY <1>7, <2>1
    <3>2. QED
      BY <1>3, <1>6, <1>7, <3>1
  <2>2. CASE ~(k <= m)
    <3>1. k = m + 1 /\ k - 1 = m /\ m \in 1 .. m
      BY <1>7, <2>2
    <3>2. QED
      BY <1>0, <1>3, <1>5, <1>6, <1>7, <3>1
  <2>3. QED
    BY <2>1, <2>2
<1>10. QED
  BY <1>7, <1>8, <1>9 DEF InsideFits

\* An end leaves the innermost body.
LEMMA InsideLeaves ==
    ASSUME Ready, NEW n \in 1 .. Len(tree), Shuts(tree, n), NEW stack, NEW stack2,
           InsideFits(tree, scopeOf, n, stack), stack2 = Front(stack)
    PROVE  InsideFits(tree, scopeOf, n + 1, stack2)
<1>1. Whole(tree)
  BY DEF Ready, CollectorInv
<1>2. PICK I : I = Inner(tree, n)
  OBVIOUS
<1>3. I # Program /\ Inner(tree, n + 1) = Inner(tree, I)
  BY <1>1, <1>2, EndLeaves
<1>4. I \in {Program} \cup DOMAIN scopeOf
  <2>1. n \in 1 .. Len(tree) + 1
    BY <1>1 DEF Whole
  <2>2. QED
    BY <1>2, <2>1, RegionsEntered
<1>5. /\ stack \in Seq([scope : Nat, function : Nat]) /\ stack # <<>>
      /\ stack[1] = Frame(tree, scopeOf, Program)
      /\ stack[Len(stack)] = Frame(tree, scopeOf, I)
      /\ \A k \in 2 .. Len(stack) : \E r \in DOMAIN scopeOf :
            /\ stack[k] = Frame(tree, scopeOf, r)
            /\ stack[k - 1] = Frame(tree, scopeOf, Inner(tree, r))
  BY <1>2 DEF InsideFits
<1>6. \A q, r \in {Program} \cup DOMAIN scopeOf :
          Frame(tree, scopeOf, q) = Frame(tree, scopeOf, r) => q = r
  <2>1. \A r : Frame(tree, scopeOf, r).scope = ScopeAt(scopeOf, r)
    BY DEF Frame
  <2>2. \A q, r \in {Program} \cup DOMAIN scopeOf :
            ScopeAt(scopeOf, q) = ScopeAt(scopeOf, r) => q = r
    BY ScopeChain DEF Ready
  <2>3. QED
    BY <2>1, <2>2
<1>7. PICK m : m = Len(stack)
  OBVIOUS
<1>8. m \in Nat /\ m >= 2
  <2>1. m \in Nat /\ m >= 1
    BY <1>5, <1>7
  <2>2. m # 1
    BY <1>3, <1>4, <1>5, <1>6, <1>7
  <2>3. QED
    BY <2>1, <2>2
<1>9. /\ stack2 \in Seq([scope : Nat, function : Nat]) /\ Len(stack2) = m - 1
      /\ \A k \in 1 .. m - 1 : stack2[k] = stack[k]
  <2>1. PICK l : l = m - 1
    OBVIOUS
  <2>2. l \in Nat \ {0} /\ l <= Len(stack) /\ stack2 = SubSeq(stack, 1, l)
    BY <1>7, <1>8, <2>1 DEF Front
  <2>3. PICK S : S = [scope : Nat, function : Nat]
    OBVIOUS
  <2>4. stack \in Seq(S)
    BY <1>5, <2>3
  <2>5. /\ stack2 \in Seq(S) /\ Len(stack2) = l
        /\ \A k \in 1 .. l : stack2[k] = stack[k]
    BY ONLY <2>2, <2>4
  <2>6. QED
    BY <2>1, <2>3, <2>5
<1>10. stack[m - 1] = Frame(tree, scopeOf, Inner(tree, I))
  <2>1. m \in 2 .. Len(stack)
    BY <1>7, <1>8
  <2>2. PICK r \in DOMAIN scopeOf : /\ stack[m] = Frame(tree, scopeOf, r)
                                    /\ stack[m - 1] = Frame(tree, scopeOf, Inner(tree, r))
    BY <1>5, <2>1
  <2>3. r = I
    BY <1>4, <1>5, <1>6, <1>7, <2>2
  <2>4. QED
    BY <2>2, <2>3
<1>11. stack2 # <<>> /\ 1 \in 1 .. m - 1 /\ m - 1 \in 1 .. m - 1
  BY <1>8, <1>9
<1>12. /\ stack2[1] = Frame(tree, scopeOf, Program)
       /\ stack2[Len(stack2)] = Frame(tree, scopeOf, Inner(tree, n + 1))
  BY <1>3, <1>5, <1>9, <1>10, <1>11
<1>13. ASSUME NEW k \in 2 .. Len(stack2)
       PROVE  \E r \in DOMAIN scopeOf : /\ stack2[k] = Frame(tree, scopeOf, r)
                                        /\ stack2[k - 1] = Frame(tree, scopeOf, Inner(tree, r))
  <2>1. k \in 2 .. m /\ k \in 1 .. m - 1 /\ k - 1 \in 1 .. m - 1
    BY <1>8, <1>9
  <2>2. QED
    BY <1>5, <1>7, <1>9, <2>1
<1>14. QED
  BY <1>9, <1>11, <1>12, <1>13 DEF InsideFits

\* Where the visit is.
LEMMA VisitFacts ==
    ASSUME Ready, ResolverInv, NEW n, n = at, n <= Len(tree)
    PROVE  /\ tree \in Seq(Nodes) /\ n \in 1 .. Len(tree) /\ n \in Nat \ {0}
           /\ n \in 1 .. Len(tree) + 1 /\ Len(tree) \in Nat
           /\ tree[n].kind \in Kinds
           /\ InsideFits(tree, scopeOf, n, inside)
           /\ Around = Frame(tree, scopeOf, Inner(tree, n)) /\ Around = inside[Len(inside)]
           /\ Around.function \in Nat
           /\ Around.scope = GlobalScope <=> Inner(tree, n) = Program
           /\ active = {symbolOf[Own(j)] : j \in Activated(tree, n)}
           /\ Opens(tree, n) => n \in DOMAIN scopeOf /\ scopeOf[n] \in Nat
           /\ tree[n].kind \in {"variable", "loop"} => Own(n) \in DOMAIN symbolOf
<1>1. /\ tree \in Seq(Nodes) /\ Len(tree) \in Nat /\ n \in 1 .. Len(tree) + 1
      /\ InsideFits(tree, scopeOf, n, inside)
      /\ active = {symbolOf[Own(j)] : j \in Activated(tree, n)}
  BY OneEach DEF ResolverInv
<1>2. n \in 1 .. Len(tree) /\ n \in Nat \ {0}
  BY <1>1
<1>3. tree[n] \in Nodes /\ tree[n].kind \in Kinds
  BY <1>1, <1>2, NodeFacts
<1>4. /\ inside \in Seq([scope : Nat, function : Nat]) /\ inside # <<>>
      /\ inside[Len(inside)] = Frame(tree, scopeOf, Inner(tree, n))
  BY <1>1 DEF InsideFits
<1>5. Around = inside[Len(inside)]
  BY DEF Around, Last
<1>6. Around.function \in Nat
  <2>1. PICK S, m : S = [scope : Nat, function : Nat] /\ m = Len(inside)
    OBVIOUS
  <2>2. inside \in Seq(S) /\ inside # <<>>
    BY <1>4, <2>1
  <2>3. m \in 1 .. Len(inside)
    BY ONLY <2>1, <2>2
  <2>4. inside[m] \in S
    BY <2>2, <2>3
  <2>5. QED
    BY <1>5, <2>1, <2>4
<1>7. Around.scope = GlobalScope <=> Inner(tree, n) = Program
  <2>1. Inner(tree, n) \in {Program} \cup DOMAIN scopeOf
    BY <1>1, RegionsEntered
  <2>2. ScopeAt(scopeOf, Inner(tree, n)) = GlobalScope <=> Inner(tree, n) = Program
    BY <2>1, ScopeChain DEF Ready
  <2>3. Around.scope = ScopeAt(scopeOf, Inner(tree, n))
    BY <1>4, <1>5 DEF Frame
  <2>4. QED
    BY <2>2, <2>3
<1>8. ASSUME Opens(tree, n) PROVE n \in DOMAIN scopeOf /\ scopeOf[n] \in Nat
  <2>1. n \in DOMAIN scopeOf
    BY <1>2, <1>8, ScopeChain DEF Ready
  <2>2. ScopeAt(scopeOf, n) \in 1 .. Len(parent)
    BY <2>1, ScopeChain DEF Ready
  <2>3. ScopeAt(scopeOf, n) = scopeOf[n]
    BY <1>2 DEF ScopeAt, Program
  <2>4. QED
    BY <2>1, <2>2, <2>3
<1>9. ASSUME tree[n].kind \in {"variable", "loop"} PROVE Own(n) \in DOMAIN symbolOf
  <2>1. Own(n) \in [node : 1 .. Len(tree), position : 0 .. MaxParameters]
    BY <1>2, NodeAssumption DEF Own
  <2>2. Own(n).node = n /\ Own(n).position = 0
    BY DEF Own
  <2>3. Own(n) \in Keys(tree)
    BY <1>9, <2>1, <2>2 DEF Keys
  <2>4. QED
    BY <2>3, OneEach
<1>10. QED
  BY <1>1, <1>2, <1>3, <1>4, <1>5, <1>6, <1>7, <1>8, <1>9

\* The declaration of the node becomes active.
LEMMA ActivateAdds ==
    ASSUME Ready, ResolverInv, NEW n, n = at, n <= Len(tree), Activate(Own(n)),
           tree[n].kind = "loop" \/ (tree[n].kind = "variable" /\ Inner(tree, n) # Program)
    PROVE  /\ active' = {symbolOf[Own(j)] : j \in Activated(tree, n + 1)}
           /\ reports' = reports
<1>1. /\ Own(n) \in DOMAIN symbolOf /\ n \in Nat \ {0}
      /\ active = {symbolOf[Own(j)] : j \in Activated(tree, n)}
  BY VisitFacts
<1>2. active' = active \cup {symbolOf[Own(n)]} /\ reports' = reports
  BY <1>1 DEF Activate
<1>3. Activated(tree, n + 1) = Activated(tree, n) \cup {n}
  BY <1>1, ActivatedNext
<1>4. QED
  BY <1>1, <1>2, <1>3

\* Other nodes activate nothing.
LEMMA ActiveStays ==
    ASSUME Ready, ResolverInv, NEW n, n = at, n <= Len(tree), active' = active,
           ~(tree[n].kind = "loop" \/ (tree[n].kind = "variable" /\ Inner(tree, n) # Program))
    PROVE  active' = {symbolOf[Own(j)] : j \in Activated(tree, n + 1)}
<1>1. n \in Nat \ {0} /\ active = {symbolOf[Own(j)] : j \in Activated(tree, n)}
  BY VisitFacts
<1>2. Activated(tree, n + 1) = Activated(tree, n)
  <2>1. PICK t : t = tree
    OBVIOUS
  <2>2. ~(t[n].kind = "loop" \/ (t[n].kind = "variable" /\ Inner(t, n) # Program))
    BY <2>1
  <2>3. Activated(t, n + 1) =
            Activated(t, n) \cup IF t[n].kind = "loop"
                                    \/ (t[n].kind = "variable" /\ Inner(t, n) # Program)
                                 THEN {n} ELSE {}
    BY <1>1, ActivatedNext
  <2>4. Activated(t, n + 1) = Activated(t, n) \cup {}
    BY ONLY <2>2, <2>3
  <2>5. QED
    BY <2>1, <2>4
<1>3. QED
  BY <1>1, <1>2

\* The visit stays in the region, or enters the body of the node.
LEMMA InsideStays ==
    ASSUME Ready, ResolverInv, NEW n, n = at, n <= Len(tree), inside' = inside,
           ~Opens(tree, n), ~Shuts(tree, n)
    PROVE  InsideFits(tree, scopeOf, n + 1, inside')
<1>1. n \in Nat \ {0} /\ InsideFits(tree, scopeOf, n, inside)
  BY VisitFacts
<1>2. Inner(tree, n + 1) = Inner(tree, n)
  BY <1>1, RegionsStay
<1>3. QED
  BY <1>1, <1>2 DEF InsideFits

\* The visit enters the body of the node.
LEMMA EnterFits ==
    ASSUME Ready, ResolverInv, NEW n, n = at, n <= Len(tree), Opens(tree, n), NEW function,
           Enter(function),
           function = IF tree[n].kind = "function" THEN scopeOf[n] ELSE Around.function
    PROVE  InsideFits(tree, scopeOf, n + 1, inside')
<1>1. /\ n \in Nat \ {0} /\ InsideFits(tree, scopeOf, n, inside)
      /\ n \in DOMAIN scopeOf /\ scopeOf[n] \in Nat
      /\ Around = inside[Len(inside)] /\ Around.function \in Nat
  BY VisitFacts
<1>2. PICK stack, stack2 : stack = inside /\ stack2 = inside'
  OBVIOUS
<1>3. /\ stack2 = Append(stack, [scope |-> scopeOf[n], function |-> function])
      /\ InsideFits(tree, scopeOf, n, stack)
      /\ function = IF tree[n].kind = "function" THEN scopeOf[n] ELSE stack[Len(stack)].function
  BY <1>1, <1>2 DEF Enter
<1>4. function \in Nat
  BY <1>1
<1>5. PICK scopes, t : scopes = scopeOf /\ t = tree
  OBVIOUS
<1>6. InsideFits(t, scopes, n + 1, stack2)
  <2>1. InsideFits(t, scopes, n, stack) /\ Entering(t, scopes, n, function, stack, stack2)
    BY <1>1, <1>3, <1>4, <1>5 DEF Entering
  <2>2. n \in Nat \ {0}
    BY <1>1
  <2>3. QED
    BY ONLY <2>1, <2>2, InsideEnters
<1>7. QED
  BY <1>2, <1>5, <1>6

\* Every step of the resolver keeps its invariant.
LEMMA ResolverKeeps ==
    ASSUME Ready, ResolverInv, ResolverNext, UNCHANGED collectorVars
    PROVE  ResolverInv'
<1>1. PICK n : n = at
  OBVIOUS
<1>2. ASSUME NEW kind, ReadsDone(kind)
      PROVE  n <= Len(tree) /\ tree[n].kind = kind /\ ReadsDone(tree[n].kind)
  BY <1>1, <1>2 DEF ReadsDone, Current
<1>3. CASE ResolveRead
  BY <1>3, ReadResolves
<1>4. CASE ResolveVariable
  <2>1. /\ n <= Len(tree) /\ tree[n].kind = "variable" /\ ReadsDone(tree[n].kind)
        /\ inside' = inside
    BY <1>2, <1>4 DEF ResolveVariable
  <2>2. ~Opens(tree, n) /\ ~Shuts(tree, n)
    BY <2>1 DEF Opens, Shuts
  <2>3. InsideFits(tree, scopeOf, n + 1, inside')
    BY <1>1, <2>1, <2>2, InsideStays
  <2>4. Around.scope = GlobalScope <=> Inner(tree, n) = Program
    BY <1>1, <2>1, VisitFacts
  <2>5. /\ active' = {symbolOf[Own(j)] : j \in Activated(tree, n + 1)}
        /\ reports' = reports
    <3>1. CASE Around.scope = GlobalScope
      <4>1. active' = active /\ reports' = reports
        BY <1>4, <3>1 DEF ResolveVariable
      <4>2. QED
        BY <1>1, <2>1, <2>4, <3>1, <4>1, ActiveStays
    <3>2. CASE Around.scope # GlobalScope
      <4>1. Activate(Own(n))
        BY <1>1, <1>4, <3>2 DEF ResolveVariable
      <4>2. QED
        BY <1>1, <2>1, <2>4, <3>2, <4>1, ActivateAdds
    <3>3. QED
      BY <3>1, <3>2
  <2>6. QED
    BY <1>1, <2>1, <2>3, <2>5, MoveResolves
<1>5. CASE ResolveStatement
  <2>1. /\ n <= Len(tree) /\ tree[n].kind = "statement" /\ ReadsDone(tree[n].kind)
        /\ inside' = inside /\ active' = active /\ reports' = reports
    BY <1>2, <1>5 DEF ResolveStatement
  <2>2. ~Opens(tree, n) /\ ~Shuts(tree, n)
    BY <2>1 DEF Opens, Shuts
  <2>3. InsideFits(tree, scopeOf, n + 1, inside')
    BY <1>1, <2>1, <2>2, InsideStays
  <2>4. active' = {symbolOf[Own(j)] : j \in Activated(tree, n + 1)}
    BY <1>1, <2>1, ActiveStays
  <2>5. QED
    BY <1>1, <2>1, <2>3, <2>4, MoveResolves
<1>6. CASE ResolveLoop
  <2>1. /\ n <= Len(tree) /\ tree[n].kind = "loop" /\ ReadsDone(tree[n].kind)
        /\ Activate(Own(n)) /\ Enter(Around.function)
    BY <1>1, <1>2, <1>6 DEF ResolveLoop
  <2>2. Opens(tree, n)
    BY <2>1 DEF Opens
  <2>3. InsideFits(tree, scopeOf, n + 1, inside')
    BY <1>1, <2>1, <2>2, EnterFits
  <2>4. /\ active' = {symbolOf[Own(j)] : j \in Activated(tree, n + 1)}
        /\ reports' = reports
    BY <1>1, <2>1, ActivateAdds
  <2>5. QED
    BY <1>1, <2>1, <2>3, <2>4, MoveResolves
<1>7. CASE ResolveChildBlock
  <2>1. /\ n <= Len(tree) /\ tree[n].kind = "block" /\ ReadsDone(tree[n].kind)
        /\ Enter(Around.function) /\ active' = active /\ reports' = reports
    BY <1>1, <1>2, <1>7 DEF ResolveChildBlock
  <2>2. Opens(tree, n)
    BY <2>1 DEF Opens
  <2>3. InsideFits(tree, scopeOf, n + 1, inside')
    BY <1>1, <2>1, <2>2, EnterFits
  <2>4. active' = {symbolOf[Own(j)] : j \in Activated(tree, n + 1)}
    BY <1>1, <2>1, ActiveStays
  <2>5. QED
    BY <1>1, <2>1, <2>3, <2>4, MoveResolves
<1>8. CASE ResolveFunction
  <2>1. /\ n <= Len(tree) /\ tree[n].kind = "function" /\ ReadsDone(tree[n].kind)
        /\ Enter(scopeOf[n]) /\ active' = active /\ reports' = reports
    BY <1>1, <1>2, <1>8 DEF ResolveFunction
  <2>2. Opens(tree, n)
    BY <2>1 DEF Opens
  <2>3. InsideFits(tree, scopeOf, n + 1, inside')
    BY <1>1, <2>1, <2>2, EnterFits
  <2>4. active' = {symbolOf[Own(j)] : j \in Activated(tree, n + 1)}
    BY <1>1, <2>1, ActiveStays
  <2>5. QED
    BY <1>1, <2>1, <2>3, <2>4, MoveResolves
<1>9. CASE ResolveEnd
  <2>1. /\ n <= Len(tree) /\ tree[n].kind = "end" /\ ReadsDone(tree[n].kind)
        /\ inside' = Front(inside) /\ active' = active /\ reports' = reports
    BY <1>2, <1>9 DEF ResolveEnd
  <2>2. Shuts(tree, n) /\ n \in 1 .. Len(tree) /\ InsideFits(tree, scopeOf, n, inside)
    BY <1>1, <2>1, VisitFacts DEF Shuts
  <2>3. InsideFits(tree, scopeOf, n + 1, inside')
    BY <2>1, <2>2, InsideLeaves
  <2>4. active' = {symbolOf[Own(j)] : j \in Activated(tree, n + 1)}
    BY <1>1, <2>1, ActiveStays
  <2>5. QED
    BY <1>1, <2>1, <2>3, <2>4, MoveResolves
<1>10. QED
  BY <1>3, <1>4, <1>5, <1>6, <1>7, <1>8, <1>9 DEF ResolverNext

-----------------------------------------------------------------------------
(* The passes *)

\* The resolver begins where its invariant holds.
LEMMA ResolverStarts ==
    ASSUME Ready, ResolverInit
    PROVE  ResolverInv
<1>1. /\ at = 1 /\ read = 1 /\ active = {} /\ resolution = <<>> /\ reports = {}
      /\ inside = <<[scope |-> GlobalScope, function |-> NoScope]>>
  BY DEF ResolverInit
<1>2. tree \in Seq(Nodes) /\ Len(tree) \in Nat
  BY OneEach
<1>3. Passed(1, 1) = {}
  BY <1>2, PassedNext
<1>4. Resolved(at, read)
  <2>1. DOMAIN resolution = {}
    BY <1>1
  <2>2. QED
    BY <1>1, <1>3, <2>1 DEF Resolved
<1>5. Activated(tree, 1) = {}
  BY DEF Activated
<1>6. active = {symbolOf[Own(j)] : j \in Activated(tree, at)}
  BY <1>1, <1>5
<1>7. InsideFits(tree, scopeOf, at, inside)
  <2>1. Inner(tree, 1) = Program
    <3>1. Inner(tree, 1) \in 0 .. 1 - 1
      BY InnerFacts
    <3>2. QED
      BY <3>1 DEF Program
  <2>2. Frame(tree, scopeOf, Program) = [scope |-> GlobalScope, function |-> NoScope]
    BY DEF Frame, ScopeAt
  <2>3. [scope |-> GlobalScope, function |-> NoScope] \in [scope : Nat, function : Nat]
    BY DEF GlobalScope, NoScope
  <2>4. PICK frame, S : /\ frame = [scope |-> GlobalScope, function |-> NoScope]
                        /\ S = [scope : Nat, function : Nat]
    OBVIOUS
  <2>5. /\ inside = <<frame>> /\ frame \in S /\ Frame(tree, scopeOf, Program) = frame
    BY <1>1, <2>2, <2>3, <2>4
  <2>6. inside \in Seq(S) /\ Len(inside) = 1 /\ inside[1] = frame /\ inside # <<>>
    BY ONLY <2>5
  <2>7. 2 .. Len(inside) = {}
    BY <2>6
  <2>8. QED
    BY <1>1, <2>1, <2>4, <2>5, <2>6, <2>7 DEF InsideFits
<1>8. at \in 1 .. Len(tree) + 1 /\ read \in Nat \ {0}
  BY <1>1, <1>2
<1>9. at <= Len(tree) => read <= Len(Reads(tree[at])) + 1
  <2>1. ASSUME 1 <= Len(tree) PROVE 1 <= Len(Reads(tree[1])) + 1
    <3>1. 1 \in 1 .. Len(tree)
      BY <1>2, <2>1
    <3>2. Len(Reads(tree[1])) \in Nat
      BY <1>2, <3>1, ReadsFacts
    <3>3. QED
      BY <3>2
  <2>2. QED
    BY <1>1, <2>1
<1>10. QED
  BY <1>1, <1>4, <1>6, <1>7, <1>8, <1>9 DEF ResolverInv

\* The entry point is found as lexical scoping says.
LEMMA EntryPointFound ==
    ASSUME Ready, ValidateEntryPoint
    PROVE  phase' = IF HasEntryPoint THEN "resolve" ELSE "rejected"
<1>1. PICK mains : mains = {i \in OfKind("function") : tree[i].name = Main /\ Region(i) = Program}
  OBVIOUS
<1>2. /\ tree \in Seq(Nodes) /\ DOMAIN symbolOf = Keys(tree)
      /\ \A k \in Keys(tree) : symbols[symbolOf[k]].kind = KindAt(tree, k)
      /\ \A k, l \in Keys(tree) : Clash(tree, k, l) => k = l
  BY OneEach
<1>3. ASSUME NEW i \in mains
      PROVE  /\ i \in Nat /\ Own(i) \in Keys(tree) /\ KindAt(tree, Own(i)) = "function"
             /\ NameAt(tree, Own(i)) = Main /\ RegionAt(tree, Own(i)) = Program
  <2>1. /\ i \in DOMAIN tree /\ tree[i].kind = "function" /\ tree[i].name = Main
        /\ Region(i) = Program
    BY <1>1 DEF OfKind, Positions
  <2>2. i \in 1 .. Len(tree) /\ i \in Nat \ {0}
    BY <1>2, <2>1
  <2>3. tree[i] \in Nodes
    BY <1>2, <2>2, NodeFacts
  <2>4. Len(tree[i].parameters) \in Nat
    <3>1. tree[i].parameters \in Seq(Names)
      BY <2>1, <2>3, NodeAssumption
    <3>2. QED
      BY <3>1
  <2>5. Own(i).node = i /\ Own(i).position = 0
    BY DEF Own
  <2>6. Own(i) \in [node : 1 .. Len(tree), position : 0 .. MaxParameters]
    BY <2>2, NodeAssumption DEF Own
  <2>7. Own(i) \in Keys(tree)
    <3>1. 0 \in 0 .. Len(tree[i].parameters)
      BY <2>4
    <3>2. QED
      BY <2>1, <2>5, <2>6, <3>1 DEF Keys
  <2>8. Inner(tree, i) = Program
    BY <2>1, <2>2, RegionsAre
  <2>9. QED
    BY <2>1, <2>2, <2>5, <2>7, <2>8 DEF KindAt, NameAt, RegionAt
<1>4. ASSUME NEW i \in mains, NEW j \in mains PROVE i = j
  <2>1. Clash(tree, Own(i), Own(j)) /\ Own(i) \in Keys(tree) /\ Own(j) \in Keys(tree)
    BY <1>3 DEF Clash
  <2>2. Own(i) = Own(j)
    BY <1>2, <2>1
  <2>3. Own(i).node = i /\ Own(j).node = j
    BY DEF Own
  <2>4. QED
    BY <2>2, <2>3
<1>5. PICK first : first = Min(mains)
  OBVIOUS
<1>6. phase' = IF /\ mains # {}
                  /\ Own(first) \in DOMAIN symbolOf
                  /\ symbols[symbolOf[Own(first)]].kind = "function"
                  /\ tree[first].type = "int"
                  /\ tree[first].parameters = <<>>
               THEN "resolve" ELSE "rejected"
  BY <1>1, <1>5 DEF ValidateEntryPoint, TopLevel
<1>7. HasEntryPoint <=>
          mains # {} /\ \A i \in mains : tree[i].type = "int" /\ tree[i].parameters = <<>>
  BY <1>1 DEF HasEntryPoint
<1>8. CASE mains = {}
  BY <1>6, <1>7, <1>8
<1>9. CASE mains # {}
  <2>1. PICK m : m \in mains
    BY <1>9
  <2>2. m \in Nat /\ \A j \in mains : j = m
    BY <1>3, <1>4, <2>1
  <2>3. first = m
    <3>1. \A y \in mains : m <= y
      BY <2>2
    <3>2. Min(mains) \in mains
      BY <2>1, <3>1 DEF Min
    <3>3. QED
      BY <1>5, <2>2, <3>2
  <2>4. Own(m) \in DOMAIN symbolOf /\ symbols[symbolOf[Own(m)]].kind = "function"
    BY <1>2, <1>3, <2>1
  <2>5. HasEntryPoint <=> tree[m].type = "int" /\ tree[m].parameters = <<>>
    BY <1>7, <2>1, <2>2
  <2>6. QED
    BY <1>6, <1>9, <2>3, <2>4, <2>5
<1>10. QED
  BY <1>8, <1>9

\* The invariant of the passes holds at the start.
LEMMA NameStarts == Init => TableInv /\ NameInv
<1> SUFFICES ASSUME Init PROVE TableInv /\ NameInv
  OBVIOUS
<1>1. TableInv /\ CollectorInv
  BY CollectorStarts, EmptyTable DEF Init, CollectorInit
<1>2. phase = "collect" /\ ResolverInit
  BY DEF Init
<1>3. QED
  BY <1>1, <1>2 DEF NameInv

\* Where the resolver begins is where it stays before its turn.
LEMMA StartStays ==
    ASSUME ResolverInit, UNCHANGED resolverVars
    PROVE  ResolverInit'
BY DEF ResolverInit, resolverVars

\* What the collector has made stays while the tables and the tree do.
LEMMA CollectorStays ==
    ASSUME TableInv, CollectorInv, UNCHANGED collectorVars
    PROVE  /\ TableInv' /\ CollectorInv'
           /\ step' = step /\ duplicates' = duplicates /\ tree' = tree
           /\ HasEntryPoint' = HasEntryPoint
<1>1. /\ tree' = tree /\ open' = open /\ step' = step /\ parameter' = parameter
      /\ symbolOf' = symbolOf /\ scopeOf' = scopeOf /\ duplicates' = duplicates
      /\ parent' = parent /\ binding' = binding /\ symbols' = symbols /\ UNCHANGED tableVars
  BY DEF collectorVars, tableVars, infoVars
<1>2. TableInv'
  BY <1>1, TableStays
<1>3. CollectorInv'
  BY <1>1 DEF CollectorInv
<1>4. QED
  BY <1>1, <1>2, <1>3, MeaningsStay

\* So does what the resolver has made.
LEMMA ResolverStays ==
    ASSUME ResolverInv, UNCHANGED collectorVars, UNCHANGED resolverVars
    PROVE  ResolverInv' /\ at' = at /\ reports' = reports
<1>1. /\ tree' = tree /\ symbolOf' = symbolOf /\ scopeOf' = scopeOf /\ symbols' = symbols
      /\ at' = at /\ read' = read /\ inside' = inside /\ active' = active
      /\ resolution' = resolution /\ reports' = reports
  BY DEF collectorVars, tableVars, infoVars, resolverVars
<1>2. PICK n, r : n = at /\ r = read
  OBVIOUS
<1>3. Resolved(n, r)'
  BY <1>1, <1>2, ResolvedStays DEF ResolverInv
<1>4. Resolved(at, read)'
  BY <1>1, <1>2, <1>3 DEF Resolved, Passed, Uses
<1>5. QED
  BY <1>1, <1>4 DEF ResolverInv

\* Every step of the passes keeps the invariant.
LEMMA NameKeeps ==
    ASSUME TableInv, NameInv, [Next]_vars
    PROVE  TableInv' /\ NameInv'
<1>1. CollectorInv
  BY DEF NameInv
<1>2. CASE Collect
  <2>1. phase = "collect" /\ phase' = "collect" /\ CollectorNext /\ UNCHANGED resolverVars
    BY <1>2 DEF Collect
  <2>2. TableInv' /\ CollectorInv'
    BY <1>1, <2>1, CollectorKeeps
  <2>3. ResolverInit'
    BY <2>1, StartStays DEF NameInv
  <2>4. QED
    BY <2>1, <2>2, <2>3 DEF NameInv
<1>3. CASE CollectReturns
  <2>1. /\ phase = "collect" /\ step = "node" /\ UNCHANGED collectorVars /\ UNCHANGED resolverVars
        /\ phase' = IF duplicates = {} THEN "validate" ELSE "rejected"
    BY <1>3 DEF CollectReturns
  <2>2. /\ TableInv' /\ CollectorInv' /\ step' = "node" /\ duplicates' = duplicates
    BY <1>1, <2>1, CollectorStays
  <2>3. ResolverInit'
    BY <2>1, StartStays DEF NameInv
  <2>4. QED
    BY <2>1, <2>2, <2>3 DEF NameInv
<1>4. CASE ValidateEntryPoint
  <2>1. /\ phase = "validate" /\ UNCHANGED collectorVars /\ UNCHANGED resolverVars
    BY <1>4 DEF ValidateEntryPoint
  <2>2. Ready /\ ResolverInit
    BY <1>1, <2>1 DEF NameInv, Ready
  <2>3. phase' = IF HasEntryPoint THEN "resolve" ELSE "rejected"
    BY <1>4, <2>2, EntryPointFound
  <2>4. /\ TableInv' /\ CollectorInv' /\ step' = "node" /\ duplicates' = {}
        /\ HasEntryPoint' = HasEntryPoint
    BY <1>1, <2>1, <2>2, CollectorStays DEF Ready
  <2>5. ResolverInit' /\ ResolverInv'
    BY <2>1, <2>2, StartStays, ResolverStarts, ResolverStays
  <2>6. QED
    BY <2>3, <2>4, <2>5 DEF NameInv
<1>5. CASE Resolving
  <2>1. phase = "resolve" /\ phase' = "resolve" /\ ResolverNext /\ UNCHANGED collectorVars
    BY <1>5 DEF Resolving
  <2>2. Ready /\ ResolverInv /\ HasEntryPoint
    BY <1>1, <2>1 DEF NameInv, Ready
  <2>3. ResolverInv'
    BY <2>1, <2>2, ResolverKeeps
  <2>4. /\ TableInv' /\ CollectorInv' /\ step' = "node" /\ duplicates' = {}
        /\ HasEntryPoint' = HasEntryPoint
    BY <1>1, <2>1, <2>2, CollectorStays DEF Ready
  <2>5. QED
    BY <2>1, <2>2, <2>3, <2>4 DEF NameInv
<1>6. CASE ResolveReturns
  <2>1. /\ phase = "resolve" /\ at > Len(tree) /\ UNCHANGED collectorVars /\ UNCHANGED resolverVars
        /\ phase' = IF reports = {} THEN "accepted" ELSE "rejected"
    BY <1>6 DEF ResolveReturns
  <2>2. Ready /\ ResolverInv /\ HasEntryPoint
    BY <1>1, <2>1 DEF NameInv, Ready
  <2>3. ResolverInv' /\ at' = at /\ reports' = reports
    BY <2>1, <2>2, ResolverStays
  <2>4. /\ TableInv' /\ CollectorInv' /\ step' = "node" /\ duplicates' = {} /\ tree' = tree
        /\ HasEntryPoint' = HasEntryPoint
    BY <1>1, <2>1, <2>2, CollectorStays DEF Ready
  <2>5. at' > Len(tree')
    BY <2>1, <2>3, <2>4
  <2>6. QED
    BY <2>1, <2>2, <2>3, <2>4, <2>5 DEF NameInv
<1>7. CASE UNCHANGED vars
  <2>1. phase' = phase /\ UNCHANGED collectorVars /\ UNCHANGED resolverVars
    BY <1>7 DEF vars
  <2>2. /\ TableInv' /\ CollectorInv' /\ step' = step /\ duplicates' = duplicates /\ tree' = tree
        /\ HasEntryPoint' = HasEntryPoint
    BY <1>1, <2>1, CollectorStays
  <2>3. ResolverInit => ResolverInit'
    BY <2>1, StartStays
  <2>4. /\ ResolverInv => ResolverInv'
        /\ at' = at /\ reports' = reports
    <3>1. at' = at /\ reports' = reports
      BY <2>1 DEF resolverVars
    <3>2. QED
      BY <2>1, <3>1, ResolverStays
  <2>5. at' > Len(tree') <=> at > Len(tree)
    BY <2>2, <2>4
  <2>6. /\ phase \in {"collect", "validate", "resolve", "accepted", "rejected"}
        /\ phase # "collect" => step = "node"
        /\ phase \in {"collect", "validate"} => ResolverInit
        /\ phase \in {"validate", "resolve", "accepted"} => duplicates = {}
        /\ phase \in {"resolve", "accepted"} => HasEntryPoint /\ ResolverInv
        /\ phase = "accepted" => at > Len(tree) /\ reports = {}
        /\ phase = "rejected" =>
              \/ ResolverInit /\ (duplicates # {} \/ ~HasEntryPoint)
              \/ ResolverInv /\ duplicates = {} /\ at > Len(tree) /\ reports # {}
    BY DEF NameInv
  <2>7. /\ phase' \in {"collect", "validate", "resolve", "accepted", "rejected"}
        /\ phase' # "collect" => step' = "node"
        /\ phase' \in {"collect", "validate"} => ResolverInit'
        /\ phase' \in {"validate", "resolve", "accepted"} => duplicates' = {}
        /\ phase' \in {"resolve", "accepted"} => HasEntryPoint' /\ ResolverInv'
        /\ phase' = "accepted" => at' > Len(tree') /\ reports' = {}
    BY <2>1, <2>2, <2>3, <2>4, <2>5, <2>6
  <2>8. phase' = "rejected" =>
              \/ ResolverInit' /\ (duplicates' # {} \/ ~HasEntryPoint')
              \/ ResolverInv' /\ duplicates' = {} /\ at' > Len(tree') /\ reports' # {}
    BY <2>1, <2>2, <2>3, <2>4, <2>5, <2>6
  <2>9. QED
    BY <2>2, <2>7, <2>8 DEF NameInv
<1>8. QED
  BY <1>2, <1>3, <1>4, <1>5, <1>6, <1>7 DEF Next, Finished

(***************************************************************************)
(* In every state of the passes the table, the records of the collector and *)
(* those of the resolver say of the part of the tree that is visited what  *)
(* the scoping rules say of it.                                            *)
(***************************************************************************)
THEOREM NamesInvariant == Spec => [](TableInv /\ NameInv)
<1>1. (TableInv /\ NameInv) /\ [Next]_vars => (TableInv /\ NameInv)'
  BY NameKeeps
<1>2. QED
  BY <1>1, NameStarts, PTL DEF Spec

(***************************************************************************)
(* The passes use the symbol table as any caller may: everything that is   *)
(* proved of TableSpec is true of them.                                    *)
(***************************************************************************)
THEOREM PassesUseTable == Spec => TableSpec
<1>1. Init => TableInit
  BY DEF Init, CollectorInit
<1>2. (TableInv /\ NameInv) /\ [Next]_vars => [TableNext]_tableVars
  <2> SUFFICES ASSUME TableInv, NameInv, [Next]_vars PROVE [TableNext]_tableVars
    OBVIOUS
  <2>1. CASE Collect
    <3>1. CollectorInv /\ CollectorNext
      BY <2>1 DEF Collect, NameInv
    <3>2. QED
      BY <3>1, CollectorUsesTable
  <2>2. CASE CollectReturns \/ ValidateEntryPoint \/ Resolving \/ ResolveReturns \/ UNCHANGED vars
    <3>1. UNCHANGED collectorVars
      BY <2>2 DEF CollectReturns, ValidateEntryPoint, Resolving, ResolveReturns, vars
    <3>2. QED
      BY <3>1 DEF collectorVars
  <2>3. QED
    BY <2>1, <2>2 DEF Next, Finished
<1>3. QED
  BY <1>1, <1>2, NamesInvariant, PTL DEF Spec, TableSpec

\* When the passes have decided, the resolver has not begun or has passed every use.
LEMMA DecidedFacts ==
    ASSUME TableInv, NameInv, Decided
    PROVE  /\ CollectorInv /\ step = "node" /\ tree \in Seq(Nodes)
           /\ \/ ResolverInit /\ phase = "rejected" /\ (duplicates # {} \/ ~HasEntryPoint)
              \/ /\ Ready /\ (phase = "accepted" => HasEntryPoint)
                 /\ Resolved(at, read) /\ Passed(at, read) = Uses
                 /\ phase = "accepted" <=> reports = {}
<1>1. CollectorInv /\ step = "node" /\ tree \in Seq(Nodes)
  BY DEF NameInv, Decided, CollectorInv, Whole
<1>2. ASSUME ResolverInv, at > Len(tree) PROVE Passed(at, read) = Uses /\ Resolved(at, read)
  <2>1. at \in 1 .. Len(tree) + 1 /\ read = 1 /\ Len(tree) \in Nat
    BY <1>1, <1>2 DEF ResolverInv
  <2>2. at = Len(tree) + 1
    BY <1>2, <2>1
  <2>3. Passed(Len(tree) + 1, 1) = Uses
    BY <1>1, <2>1, PassedNext
  <2>4. QED
    BY <1>2, <2>1, <2>2, <2>3 DEF ResolverInv
<1>3. CASE phase = "accepted"
  <2>1. /\ duplicates = {} /\ HasEntryPoint /\ ResolverInv /\ at > Len(tree) /\ reports = {}
    BY <1>3 DEF NameInv
  <2>2. QED
    BY <1>1, <1>2, <1>3, <2>1 DEF Ready
<1>4. CASE phase = "rejected"
  <2>1. \/ ResolverInit /\ (duplicates # {} \/ ~HasEntryPoint)
        \/ ResolverInv /\ duplicates = {} /\ at > Len(tree) /\ reports # {}
    BY <1>4 DEF NameInv
  <2>2. QED
    BY <1>1, <1>2, <1>4, <2>1 DEF Ready
<1>5. QED
  BY <1>3, <1>4 DEF Decided

\* The invariant says of the duplicates what DuplicatesReported does.
LEMMA DuplicatesShown == TableInv /\ NameInv => DuplicatesReported
<1> SUFFICES ASSUME TableInv, NameInv, Decided
             PROVE  /\ {x[1] : x \in duplicates} = {d.declaration : d \in Redeclared}
                    /\ \A x \in duplicates, d, e \in Declarations :
                          d.declaration = x[1] /\ symbols[x[2]].declaration = e.declaration =>
                              Earlier(e, d) /\ e \notin Redeclared
  BY DEF DuplicatesReported
<1>1. CollectorInv /\ step = "node"
  BY DecidedFacts
<1>2. QED
  BY <1>1, CollectedReports

(***************************************************************************)
(* For trees of any size: every redeclaration is reported, and nothing else *)
(* is, and the note points to the first declaration of the name.           *)
(***************************************************************************)
THEOREM DuplicatesAreReported == Spec => []DuplicatesReported
  BY NamesInvariant, DuplicatesShown, PTL

\* The invariant says of what is bound what ResolutionIsLexical does.
LEMMA ResolvedLexically == TableInv /\ NameInv => ResolutionIsLexical
<1> SUFFICES ASSUME TableInv, NameInv, Decided, NEW use \in DOMAIN resolution
             PROVE  IF Meanings(NameOf(use), use[1]) = {}
                    THEN resolution[use] = BuiltinTarget /\ NameOf(use) \in Builtins
                    ELSE /\ resolution[use] # BuiltinTarget
                         /\ symbols[resolution[use]].declaration =
                                Meaning(NameOf(use), use[1]).declaration
  BY DEF ResolutionIsLexical
<1>1. ~ResolverInit
  BY DEF ResolverInit
<1>2. Resolved(at, read)
  BY <1>1, DecidedFacts
<1>3. Means(NameOf(use), use[1], resolution[use])
  BY <1>2 DEF Resolved
<1>4. resolution[use] \in 1 .. Len(symbols) => resolution[use] # BuiltinTarget
  BY DEF BuiltinTarget, NoSymbol
<1>5. QED
  BY <1>3, <1>4 DEF Means

(***************************************************************************)
(* For trees of any size: every name that is bound leads to the declaration *)
(* that lexical scoping gives it, or to a builtin when there is none.      *)
(***************************************************************************)
THEOREM ResolutionFollowsScopes == Spec => []ResolutionIsLexical
  BY NamesInvariant, ResolvedLexically, PTL

\* The invariant says of the reports what ReportsExplain does.
LEMMA ReportsKinds == TableInv /\ NameInv => ReportsExplain
<1> SUFFICES ASSUME TableInv, NameInv, Decided, NEW report \in reports
             PROVE  LET i == report[1]
                        name == NameOf(<<i, report[2]>>) IN
                    CASE report[3] = "capture" -> Captured(name, i)
                      [] report[3] = "before declaration" ->
                            Meanings(name, i) = {} /\ Known(name, i) # {}
                      [] report[3] = "unknown" -> Known(name, i) = {}
                      [] report[3] = "missing" -> FALSE
  BY DEF ReportsExplain
<1>1. ~ResolverInit
  BY DEF ResolverInit
<1>2. Resolved(at, read) /\ Passed(at, read) = Uses /\ tree \in Seq(Nodes)
  BY <1>1, DecidedFacts
<1>3. PICK use \in Uses : \E note \in Nat :
          /\ report = <<use[1], use[2], Verdict(NameOf(use), use[1]), note>>
          /\ Verdict(NameOf(use), use[1]) # "none"
  BY <1>2 DEF Resolved
<1>4. PICK i, name : i = use[1] /\ name = NameOf(use)
  OBVIOUS
<1>5. PICK note \in Nat : /\ report = <<use[1], use[2], Verdict(name, i), note>>
                          /\ Verdict(name, i) # "none"
  BY <1>3, <1>4
<1>6. report[1] = i /\ report[2] = use[2] /\ report[3] = Verdict(name, i)
  BY <1>4, <1>5
<1>7. use = <<use[1], use[2]>>
  BY <1>2, UseFacts
<1>8. NameOf(<<report[1], report[2]>>) = name
  BY <1>4, <1>6, <1>7
<1>9. Known(name, i) = {} => Meanings(name, i) = {}
  BY DEF Meanings
<1>10. \/ report[3] = "capture" /\ Captured(name, i)
       \/ report[3] = "before declaration" /\ Meanings(name, i) = {} /\ Known(name, i) # {}
       \/ report[3] = "unknown" /\ Known(name, i) = {}
  BY <1>5, <1>6 DEF Verdict
<1>11. QED
  BY <1>6, <1>8, <1>10

(***************************************************************************)
(* For trees of any size: the kind of an error says what is wrong with the *)
(* name, and the resolver never misses what the collector left for it.     *)
(***************************************************************************)
THEOREM ReportsAreExplained == Spec => []ReportsExplain
  BY NamesInvariant, ReportsKinds, PTL

\* The invariant says of the decision what AcceptsWellScoped does.
LEMMA WellScopedAccepted == TableInv /\ NameInv => AcceptsWellScoped
<1> SUFFICES ASSUME TableInv, NameInv, Decided
             PROVE  /\ phase = "accepted" => WellScoped /\ DOMAIN resolution = Uses
                    /\ phase = "rejected" => ~WellScoped
  BY DEF AcceptsWellScoped, Decided
<1>1. CollectorInv /\ step = "node" /\ tree \in Seq(Nodes)
  BY DecidedFacts
<1>2. duplicates = {} <=> Redeclared = {}
  BY <1>1, CollectedReports
<1>3. \A name, i : /\ Verdict(name, i) = "none" <=>
                          /\ Meanings(name, i) # {} \/ name \in Builtins
                          /\ ~Captured(name, i)
  <2>1. \A name, i : Captured(name, i) => Meanings(name, i) # {}
    BY DEF Captured
  <2>2. QED
    BY <2>1 DEF Verdict
<1>4. CASE phase = "accepted"
  <2>1. /\ Resolved(at, read) /\ Passed(at, read) = Uses /\ reports = {} /\ HasEntryPoint
        /\ duplicates = {}
    BY <1>4, DecidedFacts DEF Ready
  <2>2. \A use \in Uses : Verdict(NameOf(use), use[1]) = "none"
    BY <2>1 DEF Resolved
  <2>3. \A use \in Uses : /\ Meanings(NameOf(use), use[1]) # {} \/ NameOf(use) \in Builtins
                          /\ ~Captured(NameOf(use), use[1])
    BY <1>3, <2>2
  <2>4. DOMAIN resolution = Uses
    BY <2>1, <2>3 DEF Resolved
  <2>5. QED
    BY <1>2, <1>4, <2>1, <2>3, <2>4 DEF WellScoped
<1>5. CASE phase = "rejected"
  <2>1. CASE duplicates # {} \/ ~HasEntryPoint
    BY <1>2, <1>5, <2>1 DEF WellScoped
  <2>2. CASE /\ Resolved(at, read) /\ Passed(at, read) = Uses /\ reports # {}
    <3>1. PICK use \in Uses : Verdict(NameOf(use), use[1]) # "none"
      BY <2>2 DEF Resolved
    <3>2. ~(/\ Meanings(NameOf(use), use[1]) # {} \/ NameOf(use) \in Builtins
            /\ ~Captured(NameOf(use), use[1]))
      BY <1>3, <3>1
    <3>3. QED
      BY <1>5, <3>2 DEF WellScoped
  <2>3. QED
    BY <1>5, <2>1, <2>2, DecidedFacts
<1>6. QED
  BY <1>4, <1>5 DEF Decided

(***************************************************************************)
(* For trees of any size: the collector, the entry point validator and the *)
(* resolver accept exactly the well scoped programs, and bind every use of *)
(* those.                                                                  *)
(***************************************************************************)
THEOREM AcceptsExactlyWellScoped == Spec => []AcceptsWellScoped
  BY NamesInvariant, WellScopedAccepted, PTL
===============================================================================
