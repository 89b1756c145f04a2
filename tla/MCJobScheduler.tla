---------------------------- MODULE MCJobScheduler ----------------------------
(* The default scheduler, which only borrows threads, and one with a thread  *)
(* of its own; each may borrow the whole of the shared pool.                 *)
EXTENDS JobScheduler, TLC

CONSTANTS s1, s2, i1, i2, i3, c1, c2

MCThreadCount == (s1 :> 0) @@ (s2 :> 1)
MCSharedThreads == (s1 :> 2) @@ (s2 :> 2)
MCMaxJobs == (s1 :> 2) @@ (s2 :> 3)
Symmetry == Permutations({i1, i2, i3}) \cup Permutations(Client)
===============================================================================
