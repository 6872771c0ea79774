------------------------------ MODULE TypeContext ------------------------------
(***************************************************************************)
(* TypeContext: the types of one compilation, as any caller may use it.    *)
(* Type ids are positions in the vector of the code, counted from 1.       *)
(***************************************************************************)
EXTENDS Naturals, Sequences

VARIABLES
    types  \* type id -> PrimitiveTypeKind, or a vector and its element type

NoType == 0
Primitive(kind) == [kind |-> kind, element |-> NoType]
Vector(element) == [kind |-> "vector", element |-> element]

PrimitiveKinds == <<"int", "bool", "char", "string", "void">>
IntegerType == 1
VoidTypeId == 5

TypeIds == DOMAIN types

TypeContextInit == types = [id \in 1 .. 5 |-> Primitive(PrimitiveKinds[id])]

\* lookup() succeeds for it, and it is not void.
IsElement(ts, id) == id \in DOMAIN ts /\ ts[id] # Primitive("void")

Interned(ts, element) == {id \in DOMAIN ts : ts[id] = Vector(element)}

\* Mutant: vectors of vectors are not looked up.
AlwaysAppended(ts, element) ==
    IF ~IsElement(ts, element) THEN [types |-> ts, id |-> NoType]
    ELSE IF Interned(ts, element) # {} /\ ts[element].kind # "vector"
         THEN [types |-> ts, id |-> CHOOSE id \in Interned(ts, element) : TRUE]
    ELSE [types |-> Append(ts, Vector(element)), id |-> Len(ts) + 1]

\* Mutant: a vector type is stored next to its element type.
StoredSorted(ts, element) ==
    IF ~IsElement(ts, element) THEN [types |-> ts, id |-> NoType]
    ELSE IF Interned(ts, element) # {}
         THEN [types |-> ts, id |-> CHOOSE id \in Interned(ts, element) : TRUE]
    ELSE LET at == IF element < 5 THEN 6 ELSE element + 1 IN
         [types |-> SubSeq(ts, 1, at - 1) \o <<Vector(element)>> \o SubSeq(ts, at, Len(ts)),
          id |-> at]

\* The types after a call of vector_type(), and its result.
WithVector(ts, element) ==
    IF ~IsElement(ts, element) THEN [types |-> ts, id |-> NoType]
    ELSE IF Interned(ts, element) # {}
         THEN [types |-> ts, id |-> CHOOSE id \in Interned(ts, element) :
                                        \A other \in Interned(ts, element) : id <= other]
    ELSE [types |-> Append(ts, Vector(element)), id |-> Len(ts) + 1]

VectorType(element) == types' = WithVector(types, element).types

TypeContextNext == \E element \in Nat : VectorType(element)

TypeContextSpec == TypeContextInit /\ [][TypeContextNext]_types

--------------------------------------------------------------------------------
(* Properties *)

\* Types; an element type is older than its vector, so that every walk through
\* element types ends, at a type that is not void.
TypesWellFounded ==
    /\ types \in Seq([kind : {"vector", "int", "bool", "char", "string", "void"},
                      element : Nat])
    /\ Len(types) >= 5
    /\ \A id \in 1 .. 5 : types[id] = Primitive(PrimitiveKinds[id])
    /\ \A id \in TypeIds : id > 5 =>
           /\ types[id] = Vector(types[id].element)
           /\ types[id].element \in 1 .. id - 1
           /\ types[id].element # VoidTypeId

\* Types are equal exactly if their ids are: the type checker compares ids.
IdsCanonical == \A id, other \in TypeIds : types[id] = types[other] => id = other

\* "Type IDs are stable within one context."
TypeIdsStable ==
    [][\A id \in TypeIds : id \in TypeIds' /\ types'[id] = types[id]]_types
================================================================================
