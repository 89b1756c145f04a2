---------------------------- MODULE MCCacheGuards ----------------------------
(* Two shell requests, the crawler and a command on a directory r and its   *)
(* child s.                                                                 *)
EXTENDS CacheGuards, TLC

CONSTANTS c1, c2, k, m, r, s

MCUnder == [p \in {r, s} |-> IF p = r THEN {r, s} ELSE {s}]
Symmetry == Permutations({c1, c2})
===============================================================================
