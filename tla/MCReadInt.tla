-------------------------------- MODULE MCReadInt --------------------------------
(* ReadInt for integers of eight bits and every token of up to four characters. *)
EXTENDS ReadInt

MCTokens == UNION {[1 .. n -> Characters] : n \in 0 .. 4}
================================================================================
