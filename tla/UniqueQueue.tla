------------------------------ MODULE UniqueQueue ------------------------------
(***************************************************************************)
(* UniqueQueue (Utils/UniqueQueue.h): a deque of values with a priority    *)
(* each, and a map from the values in it to their priorities by which an   *)
(* entry is found again.  The next priority is a counter of fixed width.   *)
(***************************************************************************)
EXTENDS Naturals, Sequences, FiniteSets

CONSTANTS Value,
          Less(_, _),    \* the order in which a std::map has the values
          Priorities     \* 2^w: how many values a size_t has

ASSUME PrioritiesAssumption == Priorities \in Nat \ {0}
ASSUME LessAssumption ==
    /\ \A u, v \in Value : Less(u, v) \in BOOLEAN
    /\ \A v \in Value : ~Less(v, v)
    /\ \A u, v \in Value : u # v => Less(u, v) \/ Less(v, u)
    /\ \A u, v, w \in Value : Less(u, v) /\ Less(v, w) => Less(u, w)

VARIABLES map,      \* m_QueueTMap
          queue,    \* m_Queue
          highest   \* m_highestValue

vars == <<map, queue, highest>>

Priority == 0 .. Priorities - 1
Entry == [value : Value, priority : Priority]

Init == map = [v \in {} |-> 0] /\ queue = <<>> /\ highest = 0

Succ(p) == (p + 1) % Priorities

\* How many of the values a walk through the map meets before v, and the i-th that it meets.
Place(values, v) == Cardinality({u \in values : Less(u, v)})
ValueAt(values, i) == CHOOSE v \in values : Place(values, v) = i - 1

Without(s, i) == SubSeq(s, 1, i - 1) \o SubSeq(s, i + 1, Len(s))

\* Fault for the mutation runs: the search by priority takes the entry after the one it is looking for.
RemoveNext(p) ==
    IF \E i \in DOMAIN queue : queue[i].priority > p
    THEN Without(queue, CHOOSE i \in DOMAIN queue :
                            /\ queue[i].priority > p
                            /\ \A k \in 1 .. i - 1 : queue[k].priority <= p)
    ELSE queue

\* The deque without its first entry of priority p.
Remove(p) ==
    IF \E i \in DOMAIN queue : queue[i].priority = p
    THEN Without(queue, CHOOSE i \in DOMAIN queue :
                            /\ queue[i].priority = p
                            /\ \A k \in 1 .. i - 1 : queue[k].priority # p)
    ELSE queue

-------------------------------------------------------------------------------
(* Faults for the mutation runs.                                           *)

\* The map keeps the old priority of a value that moves.
MoveLeavesMap(v) ==
    /\ v \in DOMAIN map
    /\ queue' = Append(Remove(map[v]), [value |-> v, priority |-> highest])
    /\ highest' = Succ(highest)
    /\ UNCHANGED map

\* The rebuilt queue starts to count where it is, without an increment.
RebuildWithoutIncrement(values) ==
    /\ map' = [v \in values |-> 0]
    /\ queue' = [i \in 1 .. Cardinality(values) |-> [value |-> ValueAt(values, i), priority |-> 0]]
    /\ highest' = Cardinality(values) % Priorities

-------------------------------------------------------------------------------
Move(v) ==
    /\ v \in DOMAIN map
    /\ queue' = Append(Remove(map[v]), [value |-> v, priority |-> highest])
    /\ map' = [map EXCEPT ![v] = highest]
    /\ highest' = Succ(highest)

\* The counter has wrapped: the queue is built again, in the order of the map.
Rebuild(values) ==
    /\ map' = [v \in values |-> Place(values, v) % Priorities]
    /\ queue' = [i \in 1 .. Cardinality(values) |->
                    [value |-> ValueAt(values, i), priority |-> (i - 1) % Priorities]]
    /\ highest' = Cardinality(values) % Priorities

Insert(v) ==
    /\ v \notin DOMAIN map
    /\ IF Succ(highest) = 0
       THEN Rebuild(DOMAIN map \cup {v})
       ELSE /\ map' = [u \in DOMAIN map \cup {v} |-> IF u = v THEN highest ELSE map[u]]
            /\ queue' = Append(queue, [value |-> v, priority |-> highest])
            /\ highest' = Succ(highest)

Push(v) == Move(v) \/ Insert(v)

Pop ==
    /\ queue # <<>>
    /\ queue' = Tail(queue)
    /\ map' = [v \in DOMAIN map \ {queue[1].value} |-> map[v]]
    /\ highest' = IF Tail(queue) = <<>> THEN 0 ELSE highest

Erase(v) ==
    /\ v \in DOMAIN map
    /\ queue' = Remove(map[v])
    /\ map' = [u \in DOMAIN map \ {v} |-> map[u]]
    /\ UNCHANGED highest

Next == Pop \/ \E v \in Value : Push(v) \/ Erase(v)

Spec == Init /\ [][Next]_vars

(* The counter wraps only under an insertion, which rebuilds the queue; no *)
(* queue has as many entries as a size_t has values ...                    *)
InsertWraps == (\E v \in Value : Move(v)) => highest' # 0
Fits == Cardinality(DOMAIN map) < Priorities
SpecInsertWraps == Init /\ [][Next /\ InsertWraps /\ Fits']_vars

(* ... or not at all.                                                      *)
NoWrap == (\E v \in Value : Push(v)) => Succ(highest) # 0
SpecNoWrap == Init /\ [][Next /\ NoWrap]_vars

-------------------------------------------------------------------------------
TypeOK == /\ DOMAIN map \subseteq Value /\ map \in [DOMAIN map -> Priority]
          /\ queue \in Seq(Entry)
          /\ highest \in Priority

(* The map and the deque are one queue: every entry is found under its     *)
(* value and every value in the map has its entry, whatever moves and      *)
(* erasures came before.                                                   *)
MapMatchesQueue ==
    /\ DOMAIN map = {queue[i].value : i \in DOMAIN queue}
    /\ \A i \in DOMAIN queue : map[queue[i].value] = queue[i].priority

(* Priorities grow from the front to the back and stay below the next one, *)
(* so a search by priority ends at one entry.                              *)
PrioritiesGrow ==
    /\ \A i, k \in DOMAIN queue : i < k => queue[i].priority < queue[k].priority
    /\ \A i \in DOMAIN queue : queue[i].priority < highest

(* Without the priorities the deque is the queue of UniqueQueueSpec, as    *)
(* long as the counter does not wrap: a new value goes to the end, and a   *)
(* value that is in the queue moves there.                                 *)
Values(q) == [i \in DOMAIN q |-> q[i].value]

Abstract == INSTANCE UniqueQueueSpec WITH items <- Values(queue)
ImplementsQueue == Abstract!Init /\ [][NoWrap => [Abstract!Next]_(Values(queue))]_vars
===============================================================================
