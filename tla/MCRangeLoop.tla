------------------------------ MODULE MCRangeLoop ------------------------------
(* RangeLoop for integers of three bits. *)
EXTENDS RangeLoop

MCMinInt == -4
================================================================================
