------------------------------- MODULE AstTypes --------------------------------
(***************************************************************************)
(* type_id_for(): the ids of the types that a program writes.  A type that *)
(* is written is a scalar type, or void, under a number of vectors.        *)
(***************************************************************************)
EXTENDS TypeContext

Scalars == {"int", "bool", "char", "string"}
Written(base, depth) == [base |-> base, depth |-> depth]

PrimitiveTypeId(kind) == CHOOSE id \in 1 .. 5 : PrimitiveKinds[id] = kind

\* The types after the recursion through the element types, and its result.
TypeIdFor(ts, type) ==
    LET result[depth \in 0 .. type.depth] ==
            IF depth = 0 THEN [types |-> ts, id |-> PrimitiveTypeId(type.base)]
            ELSE WithVector(result[depth - 1].types, result[depth - 1].id)
    IN  result[type.depth]

\* What the ids mean: the scalar type each ends at and the vectors around that.
Denotes(ts) ==
    LET meaning[id \in DOMAIN ts] ==
            IF ts[id].kind # "vector" THEN Written(ts[id].kind, 0)
            ELSE [meaning[ts[id].element] EXCEPT !.depth = @ + 1]
    IN  meaning
================================================================================
