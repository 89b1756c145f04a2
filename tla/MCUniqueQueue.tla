----------------------------- MODULE MCUniqueQueue -----------------------------
(* Instances of UniqueQueue for TLC.                                       *)
EXTENDS UniqueQueue

NumberLess(a, b) == a < b
===============================================================================
