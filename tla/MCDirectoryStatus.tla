--------------------------- MODULE MCDirectoryStatus ---------------------------
(* A working tree r with one folder s in it. *)
EXTENDS DirectoryStatus, TLC

CONSTANTS r, s

MCParent == (r :> NoDir) @@ (s :> r)
===============================================================================
