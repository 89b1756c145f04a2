---------------------------- MODULE UniqueQueueSpec ----------------------------
(***************************************************************************)
(* What UniqueQueue promises (Utils/UniqueQueue.h): a queue that holds a   *)
(* value once; a value that is pushed again moves to the end.              *)
(***************************************************************************)
EXTENDS Naturals, Sequences

CONSTANT Value

VARIABLE items

Init == items = <<>>

\* What is left of a sequence without its i-th element.
Without(s, i) == SubSeq(s, 1, i - 1) \o SubSeq(s, i + 1, Len(s))

Push(v) == \/ /\ \A i \in DOMAIN items : items[i] # v
              /\ items' = Append(items, v)
           \/ \E i \in DOMAIN items : /\ items[i] = v
                                      /\ items' = Append(Without(items, i), v)

Pop == items # <<>> /\ items' = Tail(items)

Erase(v) == \E i \in DOMAIN items : items[i] = v /\ items' = Without(items, i)

Next == Pop \/ \E v \in Value : Push(v) \/ Erase(v)

Spec == Init /\ [][Next]_items
===============================================================================
