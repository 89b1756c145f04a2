------------------------ MODULE MCDirectoryWatcher ------------------------
(* A tree r = C:\d\r, its folder a = C:\d\r\a, and another tree x = C:\d\r-x,
   whose name sorts between them. *)
EXTENDS DirectoryWatcher

MCDir == {"r", "a", "x"}
MCUnder == [r |-> {"r", "a"}, a |-> {"a"}, x |-> {"x"}]
MCSorted == <<"r", "x", "a">>
MCRoot ==
  [p \in MCDir |-> [w \in MCDir |->
     IF p # w /\ "a" \in {p, w} THEN "r" ELSE NoDir]]
MCLoaded == {<<>>, <<"a", "x">>}

=============================================================================
