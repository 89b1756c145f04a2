--------------------------- MODULE UniqueQueueProofs ---------------------------
(***************************************************************************)
(* UniqueQueue is a queue without duplicates for every set of values, also *)
(* when an insertion wraps the counter of priorities.                      *)
(***************************************************************************)
EXTENDS UniqueQueue, SequenceTheorems, FiniteSetTheorems, TLAPS

(* The inductive invariant: a search by priority needs both that an entry  *)
(* has the priority the map says and that no other entry has it.           *)
IInv == TypeOK /\ MapMatchesQueue /\ PrioritiesGrow

-------------------------------------------------------------------------------
(* What Without does to a sequence.                                        *)
LEMMA WithoutProperties ==
    ASSUME NEW S, NEW s \in Seq(S), NEW i \in 1 .. Len(s)
    PROVE  /\ Without(s, i) \in Seq(S)
           /\ Len(Without(s, i)) = Len(s) - 1
           /\ \A k \in 1 .. Len(s) - 1 :
                  Without(s, i)[k] = IF k < i THEN s[k] ELSE s[k + 1]
<1> DEFINE a == SubSeq(s, 1, i - 1)
           b == SubSeq(s, i + 1, Len(s))
<1>0. Len(s) \in Nat
  OBVIOUS
<1>1. /\ a \in Seq(S) /\ Len(a) = i - 1
      /\ \A k \in 1 .. i - 1 : a[k] = s[k]
  BY <1>0, SubSeqProperties
<1>2. /\ b \in Seq(S) /\ Len(b) = Len(s) - i
      /\ \A k \in 1 .. Len(s) - i : b[k] = s[i + k]
  BY <1>0, SubSeqProperties
<1> HIDE DEF a, b
<1>3. /\ a \o b \in Seq(S)
      /\ Len(a \o b) = Len(a) + Len(b)
      /\ \A k \in 1 .. Len(a) + Len(b) :
             (a \o b)[k] = IF k <= Len(a) THEN a[k] ELSE b[k - Len(a)]
  BY <1>1, <1>2, ConcatProperties
<1>4. Without(s, i) = a \o b
  BY DEF Without, a, b
<1>5. Len(a) + Len(b) = Len(s) - 1
  BY <1>0, <1>1, <1>2
<1>6. ASSUME NEW k \in 1 .. Len(s) - 1
      PROVE  (a \o b)[k] = IF k < i THEN s[k] ELSE s[k + 1]
  <2>1. CASE k < i
    BY <2>1, <1>0, <1>1, <1>3, <1>5
  <2>2. CASE ~(k < i)
    <3>1. k - (i - 1) \in 1 .. Len(s) - i /\ i + (k - (i - 1)) = k + 1
      BY <2>2, <1>0
    <3>2. b[k - (i - 1)] = s[k + 1]
      BY <3>1, <1>2
    <3>3. (a \o b)[k] = b[k - (i - 1)]
      BY <2>2, <1>0, <1>1, <1>3, <1>5
    <3> QED
      BY <3>2, <3>3, <2>2
  <2> QED
    BY <2>1, <2>2
<1> QED
  BY <1>3, <1>4, <1>5, <1>6

(* A counter that does not wrap counts.                                    *)
LEMMA SuccCounts ==
    ASSUME NEW p \in Priority, Succ(p) # 0
    PROVE  p \in Nat /\ Succ(p) = p + 1 /\ p + 1 \in Priority
<1>1. p \in Nat /\ p < Priorities /\ Priorities \in Nat \ {0}
  BY PrioritiesAssumption DEF Priority
<1>2. CASE p + 1 = Priorities
  BY <1>1, <1>2 DEF Succ
<1>3. CASE p + 1 < Priorities
  BY <1>1, <1>3 DEF Succ, Priority
<1> QED
  BY <1>1, <1>2, <1>3

(* What an entry is made of.                                               *)
LEMMA EntryParts ==
    ASSUME NEW e \in Entry
    PROVE  e.value \in Value /\ e.priority \in Nat
BY PrioritiesAssumption DEF Entry, Priority

(* In a queue with growing priorities Remove takes out the entry that the  *)
(* map stands for, and no other.                                           *)
LEMMA RemoveFinds ==
    ASSUME IInv, NEW v \in DOMAIN map
    PROVE  \E i \in 1 .. Len(queue) :
               queue[i].value = v /\ Remove(map[v]) = Without(queue, i)
<1>1. PICK i \in 1 .. Len(queue) : queue[i].value = v
  BY DEF IInv, TypeOK, MapMatchesQueue
<1>2. queue[i].priority = map[v]
  BY <1>1 DEF IInv, TypeOK, MapMatchesQueue
<1>3. \A k \in 1 .. Len(queue) : queue[k].priority = map[v] => k = i
  BY <1>2 DEF IInv, TypeOK, PrioritiesGrow, Entry, Priority
<1>4. Remove(map[v]) = Without(queue, i)
  BY <1>2, <1>3 DEF Remove, IInv, TypeOK
<1> QED
  BY <1>1, <1>4

(* Taking one entry out keeps the rest in order.                           *)
LEMMA WithoutKeepsOrder ==
    ASSUME IInv, NEW i \in 1 .. Len(queue)
    PROVE  LET w == Without(queue, i) IN
           /\ w \in Seq(Entry) /\ DOMAIN w = 1 .. Len(w)
           /\ \A k, l \in DOMAIN w : k < l => w[k].priority < w[l].priority
           /\ \A k \in DOMAIN w : w[k].priority < highest
           /\ \A k \in DOMAIN w : map[w[k].value] = w[k].priority
           /\ {w[k].value : k \in DOMAIN w} = DOMAIN map \ {queue[i].value}
<1> DEFINE w == Without(queue, i)
           n == Len(queue)
           up(k) == IF k < i THEN k ELSE k + 1
<1>0. queue \in Seq(Entry) /\ n \in Nat /\ DOMAIN queue = 1 .. n /\ highest \in Nat
  BY PrioritiesAssumption DEF IInv, TypeOK, Priority
<1>1. /\ w \in Seq(Entry) /\ Len(w) = n - 1 /\ DOMAIN w = 1 .. n - 1
      /\ \A k \in 1 .. n - 1 : w[k] = queue[up(k)]
  <2>1. /\ w \in Seq(Entry) /\ Len(w) = n - 1
        /\ \A k \in 1 .. n - 1 : w[k] = IF k < i THEN queue[k] ELSE queue[k + 1]
    BY <1>0, WithoutProperties
  <2> HIDE DEF w
  <2> QED
    BY <1>0, <2>1
<1> HIDE DEF w
<1>2. \A k \in 1 .. n - 1 : up(k) \in 1 .. n /\ up(k) # i
  BY <1>0
<1>3. \A k, l \in 1 .. n - 1 : k < l => up(k) < up(l)
  BY <1>0
<1>4. \A m \in 1 .. n : m # i => \E k \in 1 .. n - 1 : up(k) = m
  <2> SUFFICES ASSUME NEW m \in 1 .. n, m # i
               PROVE  \E k \in 1 .. n - 1 : up(k) = m
    OBVIOUS
  <2>1. CASE m < i
    <3>1. m \in 1 .. n - 1 /\ up(m) = m
      BY <2>1, <1>0
    <3> QED
      BY <3>1
  <2>2. CASE ~(m < i)
    <3>1. m - 1 \in 1 .. n - 1 /\ up(m - 1) = m
      BY <2>2, <1>0
    <3> QED
      BY <3>1
  <2> QED
    BY <2>1, <2>2
<1> HIDE DEF up
<1>5. \A k, l \in DOMAIN w : k < l => w[k].priority < w[l].priority
  BY <1>0, <1>1, <1>2, <1>3 DEF IInv, PrioritiesGrow
<1>6. \A k \in DOMAIN w : w[k].priority < highest
  BY <1>0, <1>1, <1>2 DEF IInv, PrioritiesGrow
<1>7. \A k \in DOMAIN w : map[w[k].value] = w[k].priority
  <2>1. \A m \in 1 .. n : map[queue[m].value] = queue[m].priority
    BY <1>0 DEF IInv, MapMatchesQueue
  <2> QED
    BY <1>1, <1>2, <2>1
<1>8. \A m, l \in 1 .. n : m # l => queue[m].value # queue[l].value
  <2>1. \A m, l \in 1 .. n : m < l => queue[m].priority # queue[l].priority
    <3>1. \A m \in 1 .. n : queue[m].priority \in Nat
      BY <1>0, EntryParts
    <3> QED
      BY <1>0, <3>1 DEF IInv, PrioritiesGrow
  <2>2. \A m, l \in 1 .. n : m < l => queue[m].value # queue[l].value
    BY <1>0, <2>1 DEF IInv, MapMatchesQueue
  <2> QED
    BY <1>0, <2>2
<1>9. {w[k].value : k \in DOMAIN w} = DOMAIN map \ {queue[i].value}
  <2>1. DOMAIN map = {queue[m].value : m \in 1 .. n}
    BY <1>0 DEF IInv, MapMatchesQueue
  <2>2. ASSUME NEW x \in {w[k].value : k \in DOMAIN w}
        PROVE  x \in DOMAIN map \ {queue[i].value}
    <3>1. PICK k \in 1 .. n - 1 : x = queue[up(k)].value
      BY <1>1, <2>2
    <3> QED
      BY <1>2, <1>8, <2>1, <3>1
  <2>3. ASSUME NEW x \in DOMAIN map \ {queue[i].value}
        PROVE  x \in {w[k].value : k \in DOMAIN w}
    <3>1. PICK m \in 1 .. n : x = queue[m].value
      BY <2>1, <2>3
    <3>2. PICK k \in 1 .. n - 1 : up(k) = m
      BY <1>4, <3>1
    <3>3. k \in DOMAIN w /\ w[k] = queue[m]
      BY <1>1, <3>2
    <3> QED
      BY <3>1, <3>3
  <2> QED
    BY <2>2, <2>3
<1> QED
  BY <1>1, <1>5, <1>6, <1>7, <1>9 DEF w

-------------------------------------------------------------------------------
(* An entry with the highest priority goes to the end.                     *)
LEMMA AppendGrows ==
    ASSUME NEW w, NEW n \in Nat, highest \in Nat, highest' = highest + 1,
           \A k \in 1 .. n : w[k].priority \in Nat /\ w[k].priority < highest,
           \A k, l \in 1 .. n : k < l => w[k].priority < w[l].priority,
           DOMAIN queue' = 1 .. n + 1,
           \A k \in 1 .. n : queue'[k] = w[k],
           queue'[n + 1].priority = highest
    PROVE  PrioritiesGrow'
<1>1. \A k \in 1 .. n + 1 : k \in 1 .. n \/ k = n + 1
  OBVIOUS
<1>2. ASSUME NEW k \in 1 .. n + 1, NEW l \in 1 .. n + 1, k < l
      PROVE  queue'[k].priority < queue'[l].priority
  <2>1. k \in 1 .. n
    BY <1>2
  <2>2. CASE l \in 1 .. n
    BY <1>2, <2>1, <2>2
  <2>3. CASE l = n + 1
    BY <2>1, <2>3
  <2> QED
    BY <1>1, <2>2, <2>3
<1>3. \A k \in 1 .. n + 1 : queue'[k].priority < highest'
  BY <1>1
<1> QED
  BY <1>2, <1>3 DEF PrioritiesGrow

(* An empty queue is consistent.                                           *)
LEMMA InitIInv == Init => IInv
BY PrioritiesAssumption
   DEF Init, IInv, TypeOK, MapMatchesQueue, PrioritiesGrow, Priority, Entry

(* A push that moves its value: out of the middle, to the end, with the    *)
(* highest priority of all.                                                *)
LEMMA MoveIInv ==
    ASSUME IInv, NEW v \in Value, Move(v), Succ(highest) # 0
    PROVE  IInv'
<1>1. PICK i \in 1 .. Len(queue) :
          queue[i].value = v /\ Remove(map[v]) = Without(queue, i)
  BY RemoveFinds DEF Move
<1> DEFINE w == Without(queue, i)
           e == [value |-> v, priority |-> highest]
<1>2. highest \in Nat /\ highest' = highest + 1 /\ highest' \in Priority
  BY SuccCounts DEF Move, IInv, TypeOK
<1>3. /\ w \in Seq(Entry) /\ DOMAIN w = 1 .. Len(w)
      /\ \A k, l \in DOMAIN w : k < l => w[k].priority < w[l].priority
      /\ \A k \in DOMAIN w : w[k].priority < highest
      /\ \A k \in DOMAIN w : map[w[k].value] = w[k].priority
      /\ {w[k].value : k \in DOMAIN w} = DOMAIN map \ {v}
  BY <1>1, WithoutKeepsOrder
<1> HIDE DEF w
<1>4. queue' = Append(w, e) /\ map' = [map EXCEPT ![v] = highest] /\ v \in DOMAIN map
  BY <1>1 DEF Move, w
<1>5. e \in Entry /\ Len(w) \in Nat
  BY <1>3 DEF Entry, IInv, TypeOK
<1>6. /\ queue' \in Seq(Entry) /\ DOMAIN queue' = 1 .. Len(w) + 1
      /\ \A k \in 1 .. Len(w) : queue'[k] = w[k]
      /\ queue'[Len(w) + 1] = e
  BY <1>3, <1>4, <1>5
<1>7. \A k \in 1 .. Len(w) : w[k].priority \in Nat /\ w[k].value # v
  <2>1. \A k \in 1 .. Len(w) : w[k].priority \in Nat
    BY <1>3, EntryParts
  <2>2. \A k \in 1 .. Len(w) : w[k].value \in DOMAIN map \ {v}
    BY <1>3
  <2> QED
    BY <2>1, <2>2
<1>8. TypeOK'
  BY <1>2, <1>4, <1>6 DEF IInv, TypeOK
<1>9. PrioritiesGrow'
  <2>1. \A k \in 1 .. Len(w) : w[k].priority \in Nat /\ w[k].priority < highest
    BY <1>3, <1>7
  <2>2. \A k, l \in 1 .. Len(w) : k < l => w[k].priority < w[l].priority
    BY <1>3
  <2>3. queue'[Len(w) + 1].priority = highest
    BY <1>6
  <2> HIDE DEF e
  <2>4. Len(w) \in Nat
    BY <1>5
  <2> QED
    BY <1>2, <1>6, <2>1, <2>2, <2>3, <2>4, AppendGrows
<1>10. \A k \in DOMAIN queue' : map'[queue'[k].value] = queue'[k].priority
  <2>1. \A k \in 1 .. Len(w) : map'[w[k].value] = w[k].priority
    BY <1>3, <1>4, <1>7
  <2> QED
    BY <1>3, <1>4, <1>5, <1>6, <2>1
<1>11. DOMAIN map' = {queue'[k].value : k \in DOMAIN queue'}
  <2>1. {queue'[k].value : k \in DOMAIN queue'} = {w[k].value : k \in DOMAIN w} \cup {v}
    BY <1>3, <1>5, <1>6
  <2> QED
    BY <1>3, <1>4, <2>1
<1> QED
  BY <1>8, <1>9, <1>10, <1>11 DEF IInv, MapMatchesQueue

(* A push of a new value.                                                  *)
LEMMA InsertIInv ==
    ASSUME IInv, NEW v \in Value, Insert(v), Succ(highest) # 0
    PROVE  IInv'
<1> DEFINE e == [value |-> v, priority |-> highest]
           n == Len(queue)
<1>1. /\ v \notin DOMAIN map
      /\ map' = [u \in DOMAIN map \cup {v} |-> IF u = v THEN highest ELSE map[u]]
      /\ queue' = Append(queue, e) /\ highest' = Succ(highest)
  BY DEF Insert
<1>2. highest \in Nat /\ highest \in Priority /\ highest' = highest + 1 /\ highest' \in Priority
  BY <1>1, SuccCounts DEF IInv, TypeOK
<1>3. queue \in Seq(Entry) /\ n \in Nat /\ DOMAIN queue = 1 .. n /\ e \in Entry
  BY <1>2 DEF Entry, IInv, TypeOK
<1>4. /\ queue' \in Seq(Entry) /\ DOMAIN queue' = 1 .. n + 1
      /\ \A k \in 1 .. n : queue'[k] = queue[k]
      /\ queue'[n + 1] = e
  BY <1>1, <1>3
<1>5. \A k \in 1 .. n : queue[k].priority \in Nat /\ queue[k].value \in DOMAIN map
  <2>1. \A k \in 1 .. n : queue[k].priority \in Nat
    BY <1>3, EntryParts
  <2>2. DOMAIN map = {queue[k].value : k \in 1 .. n}
    BY <1>3 DEF IInv, MapMatchesQueue
  <2> QED
    BY <2>1, <2>2
<1>6. TypeOK'
  <2>1. \A u \in DOMAIN map : map[u] \in Priority
    BY DEF IInv, TypeOK
  <2>2. DOMAIN map' \subseteq Value /\ map' \in [DOMAIN map' -> Priority]
    BY <1>1, <1>2, <2>1 DEF IInv, TypeOK
  <2> QED
    BY <1>2, <1>4, <2>2 DEF TypeOK
<1>7. PrioritiesGrow'
  <2>1. \A k \in 1 .. n : queue[k].priority \in Nat /\ queue[k].priority < highest
    BY <1>3, <1>5 DEF IInv, PrioritiesGrow
  <2>2. \A k, l \in 1 .. n : k < l => queue[k].priority < queue[l].priority
    BY <1>3 DEF IInv, PrioritiesGrow
  <2>3. queue'[n + 1].priority = highest
    BY <1>4
  <2> HIDE DEF e, n
  <2>4. n \in Nat
    BY <1>3
  <2> QED
    BY <1>2, <1>4, <2>1, <2>2, <2>3, <2>4, AppendGrows
<1>8. \A k \in DOMAIN queue' : map'[queue'[k].value] = queue'[k].priority
  <2>1. \A k \in 1 .. n : map'[queue[k].value] = queue[k].priority
    BY <1>1, <1>3, <1>5 DEF IInv, MapMatchesQueue
  <2> QED
    <3>1. map'[v] = highest /\ queue'[n + 1].value = v /\ queue'[n + 1].priority = highest
      BY <1>1, <1>4
    <3>2. \A k \in 1 .. n + 1 : k \in 1 .. n \/ k = n + 1
      BY <1>3
    <3> QED
      BY <1>4, <2>1, <3>1, <3>2
<1>9. DOMAIN map' = {queue'[k].value : k \in DOMAIN queue'}
  <2>1. {queue'[k].value : k \in DOMAIN queue'} = {queue[k].value : k \in DOMAIN queue} \cup {v}
    BY <1>3, <1>4
  <2> QED
    BY <1>1, <2>1 DEF IInv, MapMatchesQueue
<1> QED
  BY <1>6, <1>7, <1>8, <1>9 DEF IInv, MapMatchesQueue

(* The values of a finite set have the places below its size, each of them *)
(* one place: a walk through the map meets all of them once.               *)
LEMMA PlacesCount ==
    ASSUME NEW S \in SUBSET Value, IsFiniteSet(S)
    PROVE  /\ Cardinality(S) \in Nat
           /\ \A v \in S : Place(S, v) \in Nat /\ Place(S, v) < Cardinality(S)
           /\ \A u, v \in S : Place(S, u) = Place(S, v) => u = v
           /\ \A i \in 1 .. Cardinality(S) : \E v \in S : Place(S, v) = i - 1
<1> DEFINE n == Cardinality(S)
           below(v) == {u \in S : Less(u, v)}
<1>1. n \in Nat
  BY FS_CardinalityType
<1>2. ASSUME NEW v \in S
      PROVE  Place(S, v) \in Nat /\ Place(S, v) < n
  <2>1. below(v) \in SUBSET S /\ v \notin below(v)
    BY LessAssumption
  <2>2. IsFiniteSet(below(v)) /\ Cardinality(below(v)) <= n /\ Cardinality(below(v)) # n
    BY <2>1, FS_Subset
  <2>3. Cardinality(below(v)) \in Nat
    BY <2>2, FS_CardinalityType
  <2>4. Place(S, v) = Cardinality(below(v))
    BY DEF Place
  <2> HIDE DEF below, n
  <2> QED
    BY <1>1, <2>2, <2>3, <2>4
<1>3. ASSUME NEW u \in S, NEW v \in S, Less(u, v)
      PROVE  Place(S, u) # Place(S, v)
  <2>1. below(u) \in SUBSET below(v) /\ u \in below(v) /\ u \notin below(u)
    BY <1>3, LessAssumption
  <2>2. IsFiniteSet(below(v))
    BY FS_Subset
  <2>3. Cardinality(below(v)) # Cardinality(below(u))
    BY <2>1, <2>2, FS_Subset
  <2> QED
    BY <2>3 DEF Place
<1>4. \A u, v \in S : Place(S, u) = Place(S, v) => u = v
  BY <1>3, LessAssumption
<1>5. \A i \in 1 .. n : \E v \in S : Place(S, v) = i - 1
  <2> DEFINE f == [v \in S |-> Place(S, v) + 1]
  <2>1. f \in Injection(S, 1 .. n)
    <3>1. \A v \in S : Place(S, v) + 1 \in 1 .. n
      BY <1>1, <1>2
    <3>2. \A u, v \in S : f[u] = f[v] => u = v
      BY <1>2, <1>4
    <3> QED
      BY <3>1, <3>2 DEF Injection, IsInjective
  <2>2. IsFiniteSet(1 .. n) /\ Cardinality(1 .. n) = n
    BY <1>1, FS_Interval
  <2>3. f \in Surjection(S, 1 .. n)
    BY <2>1, <2>2, FS_Injection
  <2>4. ASSUME NEW i \in 1 .. n
        PROVE  \E v \in S : Place(S, v) = i - 1
    <3>1. PICK v \in S : f[v] = i
      BY <2>3 DEF Surjection
    <3> QED
      BY <3>1, <1>2
  <2> QED
    BY <2>4
<1> QED
  BY <1>1, <1>2, <1>4, <1>5

(* The map of a queue is finite: every value in it has an entry.           *)
LEMMA MapFinite == ASSUME IInv PROVE IsFiniteSet(DOMAIN map)
<1> DEFINE f == [i \in 1 .. Len(queue) |-> queue[i].value]
<1>1. DOMAIN queue = 1 .. Len(queue) /\ Len(queue) \in Nat
  BY DEF IInv, TypeOK
<1>2. f \in Surjection(1 .. Len(queue), DOMAIN map)
  BY <1>1 DEF IInv, MapMatchesQueue, Surjection
<1> QED
  BY <1>1, <1>2, FS_Interval, FS_Surjection

(* A queue that is built again is consistent, whatever it was before: it   *)
(* counts through the values in the order of the map.                      *)
LEMMA RebuildIInv ==
    ASSUME NEW S \in SUBSET Value, IsFiniteSet(S), Cardinality(S) < Priorities, Rebuild(S)
    PROVE  IInv'
<1> DEFINE n == Cardinality(S)
<1>1. /\ n \in Nat /\ n < Priorities /\ Priorities \in Nat
      /\ \A v \in S : Place(S, v) \in Nat /\ Place(S, v) < n
      /\ \A u, v \in S : Place(S, u) = Place(S, v) => u = v
      /\ \A i \in 1 .. n : \E v \in S : Place(S, v) = i - 1
  BY PlacesCount, PrioritiesAssumption
<1>2. \A i \in 1 .. n : ValueAt(S, i) \in S /\ Place(S, ValueAt(S, i)) = i - 1
  BY <1>1 DEF ValueAt
<1>3. \A v \in S : Place(S, v) + 1 \in 1 .. n /\ ValueAt(S, Place(S, v) + 1) = v
  <2>1. \A v \in S : Place(S, v) + 1 \in 1 .. n /\ (Place(S, v) + 1) - 1 = Place(S, v)
    BY <1>1
  <2> QED
    BY <1>1, <1>2, <2>1
<1>4. n % Priorities = n /\ \A k \in 0 .. n : k % Priorities = k /\ k \in Priority
  BY <1>1 DEF Priority
<1>5. DOMAIN map' = S /\ highest' = n /\ \A v \in S : map'[v] = Place(S, v)
  BY <1>1, <1>4 DEF Rebuild
<1>6. /\ DOMAIN queue' = 1 .. n
      /\ \A i \in 1 .. n : queue'[i] = [value |-> ValueAt(S, i), priority |-> i - 1]
  <2>1. \A i \in 1 .. n : i - 1 \in 0 .. n
    BY <1>1
  <2> QED
    BY <1>4, <2>1 DEF Rebuild
<1>7. TypeOK'
  <2>1. map' \in [S -> Priority]
    <3>1. \A v \in S : Place(S, v) \in Priority
      BY <1>1, <1>4
    <3> QED
      BY <1>4, <1>5, <3>1 DEF Rebuild
  <2>2. queue' \in Seq(Entry)
    <3>1. \A i \in 1 .. n : i - 1 \in Priority
      BY <1>1, <1>4
    <3>2. \A i \in 1 .. n : queue'[i] \in Entry
      BY <1>2, <1>6, <3>1 DEF Entry
    <3>3. queue' \in [1 .. n -> Entry]
      BY <1>6, <3>2 DEF Rebuild
    <3> QED
      BY <1>1, <3>3
  <2>3. highest' \in Priority
    BY <1>1, <1>4, <1>5
  <2> QED
    BY <1>5, <2>1, <2>2, <2>3 DEF TypeOK
<1>8. MapMatchesQueue'
  <2>1. \A i \in 1 .. n : map'[queue'[i].value] = queue'[i].priority
    BY <1>2, <1>5, <1>6
  <2>2. S = {queue'[i].value : i \in 1 .. n}
    BY <1>2, <1>3, <1>6
  <2> QED
    BY <1>5, <1>6, <2>1, <2>2 DEF MapMatchesQueue
<1>9. PrioritiesGrow'
  <2>1. \A i \in 1 .. n : queue'[i].priority = i - 1
    BY <1>6
  <2> HIDE DEF n
  <2> QED
    BY <1>1, <1>5, <1>6, <2>1 DEF PrioritiesGrow
<1> QED
  BY <1>7, <1>8, <1>9 DEF IInv

(* Erasing the i-th entry together with its value keeps the invariant; the *)
(* counter may start again if nothing is left.                             *)
LEMMA RemovalIInv ==
    ASSUME IInv, NEW i \in 1 .. Len(queue),
           queue' = Without(queue, i),
           map' = [u \in DOMAIN map \ {queue[i].value} |-> map[u]],
           highest' = highest \/ (highest' = 0 /\ queue' = <<>>)
    PROVE  IInv'
<1> DEFINE w == Without(queue, i)
           v == queue[i].value
<1>1. /\ w \in Seq(Entry) /\ DOMAIN w = 1 .. Len(w)
      /\ \A k, l \in DOMAIN w : k < l => w[k].priority < w[l].priority
      /\ \A k \in DOMAIN w : w[k].priority < highest
      /\ \A k \in DOMAIN w : map[w[k].value] = w[k].priority
      /\ {w[k].value : k \in DOMAIN w} = DOMAIN map \ {v}
  BY WithoutKeepsOrder
<1> HIDE DEF w
<1>2. queue' = w
  BY DEF w
<1>3. TypeOK'
  <2>1. DOMAIN map' \subseteq Value /\ map' \in [DOMAIN map' -> Priority]
    BY DEF IInv, TypeOK
  <2>2. highest' \in Priority
    BY PrioritiesAssumption DEF IInv, TypeOK, Priority
  <2> QED
    BY <1>1, <1>2, <2>1, <2>2 DEF TypeOK
<1>4. PrioritiesGrow'
  <2>1. CASE highest' = highest
    BY <2>1, <1>1, <1>2 DEF PrioritiesGrow
  <2>2. CASE highest' = 0 /\ queue' = <<>>
    BY <2>2 DEF PrioritiesGrow
  <2> QED
    BY <2>1, <2>2
<1>5. MapMatchesQueue'
  BY <1>1, <1>2 DEF MapMatchesQueue
<1> QED
  BY <1>3, <1>4, <1>5 DEF IInv

(* Taking the tail is taking out the first entry.                          *)
LEMMA TailIsWithout ==
    ASSUME NEW S, NEW s \in Seq(S), s # <<>>
    PROVE  1 \in 1 .. Len(s) /\ Tail(s) = Without(s, 1)
<1>1. Len(s) \in Nat \ {0}
  BY EmptySeq
<1>2. /\ Without(s, 1) \in Seq(S) /\ Len(Without(s, 1)) = Len(s) - 1
      /\ \A k \in 1 .. Len(s) - 1 : Without(s, 1)[k] = s[k + 1]
  BY <1>1, WithoutProperties
<1>3. /\ Tail(s) \in Seq(S) /\ Len(Tail(s)) = Len(s) - 1
      /\ \A k \in 1 .. Len(s) - 1 : Tail(s)[k] = s[k + 1]
  BY HeadTailProperties
<1>4. Tail(s) = Without(s, 1)
  BY <1>2, <1>3, SeqEqual
<1> QED
  BY <1>1, <1>4

(* A pop keeps the invariant.                                              *)
LEMMA PopIInv == ASSUME IInv, Pop PROVE IInv'
<1>1. 1 \in 1 .. Len(queue) /\ Tail(queue) = Without(queue, 1)
  BY TailIsWithout DEF Pop, IInv, TypeOK
<1>2. /\ queue' = Without(queue, 1)
      /\ map' = [u \in DOMAIN map \ {queue[1].value} |-> map[u]]
      /\ highest' = highest \/ (highest' = 0 /\ queue' = <<>>)
  BY <1>1 DEF Pop
<1> QED
  BY <1>1, <1>2, RemovalIInv

(* Erasing a value keeps the invariant.                                    *)
LEMMA EraseIInv == ASSUME IInv, NEW v \in Value, Erase(v) PROVE IInv'
<1>1. PICK i \in 1 .. Len(queue) :
          queue[i].value = v /\ Remove(map[v]) = Without(queue, i)
  BY RemoveFinds DEF Erase
<1>2. /\ queue' = Without(queue, i)
      /\ map' = [u \in DOMAIN map \ {queue[i].value} |-> map[u]]
      /\ highest' = highest
  BY <1>1 DEF Erase
<1> QED
  BY <1>2, RemovalIInv

-------------------------------------------------------------------------------
(* A step keeps the invariant if a move does not wrap the counter and an    *)
(* insertion that does leaves fewer entries than the counter has values.   *)
LEMMA StepIInv ==
    ASSUME IInv, Next,
           \A v \in Value : Move(v) => Succ(highest) # 0,
           \A v \in Value : Insert(v) => Succ(highest) # 0 \/ Fits'
    PROVE  IInv'
<1>1. CASE Pop
  BY <1>1, PopIInv
<1>2. ASSUME NEW v \in Value, Move(v)
      PROVE  IInv'
  BY <1>2, MoveIInv
<1>3. ASSUME NEW v \in Value, Insert(v)
      PROVE  IInv'
  <2>1. CASE Succ(highest) # 0
    BY <1>3, <2>1, InsertIInv
  <2>2. CASE Succ(highest) = 0
    <3> DEFINE S == DOMAIN map \cup {v}
    <3>1. Rebuild(S)
      BY <1>3, <2>2 DEF Insert
    <3>2. S \in SUBSET Value /\ IsFiniteSet(S)
      BY MapFinite, FS_AddElement DEF IInv, TypeOK
    <3>3. Cardinality(S) < Priorities
      BY <1>3, <2>2, <3>1 DEF Fits, Rebuild
    <3> HIDE DEF S
    <3> QED
      BY <3>1, <3>2, <3>3, RebuildIInv
  <2> QED
    BY <2>1, <2>2
<1>4. ASSUME NEW v \in Value, Erase(v)
      PROVE  IInv'
  BY <1>4, EraseIInv
<1> QED
  BY <1>1, <1>2, <1>3, <1>4 DEF Next, Push

(* A step that changes nothing keeps the invariant.                        *)
LEMMA StutterIInv == ASSUME IInv, UNCHANGED vars PROVE IInv'
BY DEF vars, IInv, TypeOK, MapMatchesQueue, PrioritiesGrow

(* The map and the deque are one queue, in the order of the priorities, as *)
(* long as the counter wraps only under an insertion, which rebuilds them. *)
THEOREM QueueInvariant == SpecInsertWraps => []IInv
<1>1. IInv /\ [Next /\ InsertWraps /\ Fits']_vars => IInv'
  <2> SUFFICES ASSUME IInv, Next, InsertWraps, Fits'
               PROVE  IInv'
    BY StutterIInv
  <2>1. \A v \in Value : Move(v) => Succ(highest) # 0
    BY DEF InsertWraps, Move
  <2> QED
    BY <2>1, StepIInv
<1> QED
  BY InitIInv, <1>1, PTL DEF SpecInsertWraps

(* If the counter does not wrap at all, this holds for a queue of any size. *)
THEOREM QueueInvariantNoWrap == SpecNoWrap => []IInv
<1>1. IInv /\ [Next /\ NoWrap]_vars => IInv'
  <2> SUFFICES ASSUME IInv, Next, NoWrap
               PROVE  IInv'
    BY StutterIInv
  <2>1. \A v \in Value : Push(v) => Succ(highest) # 0
    BY DEF NoWrap
  <2> QED
    BY <2>1, StepIInv DEF Push
<1> QED
  BY InitIInv, <1>1, PTL DEF SpecNoWrap

(* The members keep their types.                                           *)
THEOREM QueueTypes == SpecInsertWraps => []TypeOK
BY QueueInvariant, PTL DEF IInv

(* Every entry is found under its value, and every value has its entry.    *)
THEOREM QueueConsistent == SpecInsertWraps => []MapMatchesQueue
BY QueueInvariant, PTL DEF IInv

(* The deque is sorted by the priorities that it is searched by, before    *)
(* and after the counter wraps.                                            *)
THEOREM QueueSorted == SpecInsertWraps => []PrioritiesGrow
BY QueueInvariant, PTL DEF IInv

-------------------------------------------------------------------------------
(* Values turns the deque into the abstract queue.                         *)
LEMMA ValuesOf ==
    ASSUME NEW q \in Seq(Entry)
    PROVE  /\ Values(q) \in Seq(Value) /\ Len(Values(q)) = Len(q)
           /\ DOMAIN Values(q) = 1 .. Len(q)
           /\ \A i \in 1 .. Len(q) : Values(q)[i] = q[i].value
<1>1. DOMAIN q = 1 .. Len(q) /\ Len(q) \in Nat
  OBVIOUS
<1>2. \A i \in 1 .. Len(q) : q[i].value \in Value
  BY EntryParts
<1>3. Values(q) \in [1 .. Len(q) -> Value]
  BY <1>1, <1>2 DEF Values
<1> QED
  BY <1>1, <1>3 DEF Values

(* ... entry by entry, for an entry at the end ...                         *)
LEMMA ValuesOfAppend ==
    ASSUME NEW q \in Seq(Entry), NEW e \in Entry
    PROVE  Values(Append(q, e)) = Append(Values(q), e.value)
<1>1. /\ Append(q, e) \in Seq(Entry) /\ Len(Append(q, e)) = Len(q) + 1
      /\ \A i \in 1 .. Len(q) : Append(q, e)[i] = q[i]
      /\ Append(q, e)[Len(q) + 1] = e /\ Len(q) \in Nat
  OBVIOUS
<1>2. /\ Values(q) \in Seq(Value) /\ Len(Values(q)) = Len(q) /\ e.value \in Value
      /\ \A i \in 1 .. Len(q) : Values(q)[i] = q[i].value
  BY ValuesOf, EntryParts
<1>3. /\ Append(Values(q), e.value) \in Seq(Value)
      /\ Len(Append(Values(q), e.value)) = Len(q) + 1
      /\ \A i \in 1 .. Len(q) : Append(Values(q), e.value)[i] = q[i].value
      /\ Append(Values(q), e.value)[Len(q) + 1] = e.value
  BY <1>1, <1>2
<1>4. /\ Values(Append(q, e)) \in Seq(Value) /\ Len(Values(Append(q, e))) = Len(q) + 1
      /\ \A i \in 1 .. Len(q) + 1 : Values(Append(q, e))[i] = Append(q, e)[i].value
  BY <1>1, ValuesOf
<1>5. \A i \in 1 .. Len(q) + 1 : i \in 1 .. Len(q) \/ i = Len(q) + 1
  BY <1>1
<1>6. \A i \in 1 .. Len(q) + 1 : Values(Append(q, e))[i] = Append(Values(q), e.value)[i]
  BY <1>1, <1>3, <1>4, <1>5
<1> QED
  BY <1>3, <1>4, <1>6, SeqEqual

(* ... and for an entry taken out.                                         *)
LEMMA ValuesOfWithout ==
    ASSUME NEW q \in Seq(Entry), NEW i \in 1 .. Len(q)
    PROVE  Values(Without(q, i)) = Without(Values(q), i)
<1>1. /\ Values(q) \in Seq(Value) /\ Len(Values(q)) = Len(q) /\ Len(q) \in Nat
      /\ \A k \in 1 .. Len(q) : Values(q)[k] = q[k].value
  BY ValuesOf
<1>2. /\ Without(q, i) \in Seq(Entry) /\ Len(Without(q, i)) = Len(q) - 1
      /\ \A k \in 1 .. Len(q) - 1 : Without(q, i)[k] = IF k < i THEN q[k] ELSE q[k + 1]
  BY WithoutProperties
<1>3. /\ Without(Values(q), i) \in Seq(Value) /\ Len(Without(Values(q), i)) = Len(q) - 1
      /\ \A k \in 1 .. Len(q) - 1 :
             Without(Values(q), i)[k] = IF k < i THEN Values(q)[k] ELSE Values(q)[k + 1]
  BY <1>1, WithoutProperties
<1>4. /\ Values(Without(q, i)) \in Seq(Value) /\ Len(Values(Without(q, i))) = Len(q) - 1
      /\ \A k \in 1 .. Len(q) - 1 : Values(Without(q, i))[k] = Without(q, i)[k].value
  BY <1>2, ValuesOf
<1>5. ASSUME NEW k \in 1 .. Len(q) - 1
      PROVE  Values(Without(q, i))[k] = Without(Values(q), i)[k]
  <2>1. k \in 1 .. Len(q) /\ k + 1 \in 1 .. Len(q)
    BY <1>1
  <2>2. CASE k < i
    BY <1>1, <1>2, <1>3, <1>4, <2>1, <2>2
  <2>3. CASE ~(k < i)
    BY <1>1, <1>2, <1>3, <1>4, <2>1, <2>3
  <2> QED
    BY <2>2, <2>3
<1> QED
  BY <1>3, <1>4, <1>5, SeqEqual

(* Every step is one of the abstract queue: a push that finds its value in *)
(* the map moves it, any other push appends it, a search by priority takes *)
(* out the value that was asked for.                                       *)
LEMMA StepImplements ==
    ASSUME IInv, [Next]_vars, NoWrap
    PROVE  [Abstract!Next]_(Values(queue))
<1> SUFFICES Abstract!Next \/ Values(queue)' = Values(queue)
  OBVIOUS
<1>0. /\ queue \in Seq(Entry) /\ Values(queue) \in Seq(Value)
      /\ DOMAIN Values(queue) = 1 .. Len(queue) /\ Len(Values(queue)) = Len(queue)
      /\ \A i \in 1 .. Len(queue) : Values(queue)[i] = queue[i].value
  BY ValuesOf DEF IInv, TypeOK
<1>1. CASE Pop
  <2>1. 1 \in 1 .. Len(queue) /\ Tail(queue) = Without(queue, 1)
    BY <1>0, <1>1, TailIsWithout DEF Pop
  <2>2. Values(queue) # <<>>
    BY <1>0, <2>1
  <2>3. Tail(Values(queue)) = Without(Values(queue), 1)
    BY <1>0, <2>2, TailIsWithout
  <2>4. Values(queue') = Tail(Values(queue))
    BY <1>0, <1>1, <2>1, <2>3, ValuesOfWithout DEF Pop
  <2> QED
    BY <2>2, <2>4 DEF Abstract!Next, Abstract!Pop
<1>2. ASSUME NEW v \in Value, Move(v)
      PROVE  Abstract!Push(v)
  <2> DEFINE e == [value |-> v, priority |-> highest]
  <2>1. PICK i \in 1 .. Len(queue) :
            queue[i].value = v /\ Remove(map[v]) = Without(queue, i)
    BY <1>2, RemoveFinds DEF Move
  <2>2. Without(queue, i) \in Seq(Entry) /\ e \in Entry /\ e.value = v
    BY <1>0, WithoutProperties DEF Entry, IInv, TypeOK
  <2>3. queue' = Append(Without(queue, i), e)
    BY <1>2, <2>1 DEF Move
  <2> HIDE DEF e
  <2>4. Values(queue') = Append(Values(Without(queue, i)), v)
    BY <2>2, <2>3, ValuesOfAppend
  <2>5. Values(queue') = Append(Without(Values(queue), i), v)
    BY <1>0, <2>4, ValuesOfWithout
  <2>6. Values(queue)[i] = v /\ i \in DOMAIN Values(queue)
    BY <1>0, <2>1
  <2> QED
    BY <2>5, <2>6 DEF Abstract!Push, Abstract!Without, Without
<1>3. ASSUME NEW v \in Value, Insert(v), Succ(highest) # 0
      PROVE  Abstract!Push(v)
  <2> DEFINE e == [value |-> v, priority |-> highest]
  <2>1. queue' = Append(queue, e) /\ v \notin DOMAIN map
    BY <1>3 DEF Insert
  <2>2. e \in Entry /\ e.value = v
    BY DEF Entry, IInv, TypeOK
  <2> HIDE DEF e
  <2>3. Values(queue') = Append(Values(queue), v)
    BY <1>0, <2>1, <2>2, ValuesOfAppend
  <2>4. \A i \in DOMAIN Values(queue) : Values(queue)[i] # v
    <3>1. \A i \in 1 .. Len(queue) : queue[i].value \in DOMAIN map
      BY <1>0 DEF IInv, MapMatchesQueue
    <3> QED
      BY <1>0, <2>1, <3>1
  <2> QED
    BY <2>3, <2>4 DEF Abstract!Push
<1>4. ASSUME NEW v \in Value, Erase(v)
      PROVE  Abstract!Erase(v)
  <2>1. PICK i \in 1 .. Len(queue) :
            queue[i].value = v /\ Remove(map[v]) = Without(queue, i)
    BY <1>4, RemoveFinds DEF Erase
  <2>2. Values(queue') = Without(Values(queue), i)
    BY <1>0, <1>4, <2>1, ValuesOfWithout DEF Erase
  <2>3. Values(queue)[i] = v /\ i \in DOMAIN Values(queue)
    BY <1>0, <2>1
  <2> QED
    BY <2>2, <2>3 DEF Abstract!Erase, Abstract!Without, Without
<1>5. CASE UNCHANGED vars
  BY <1>5 DEF vars
<1> QED
  BY <1>1, <1>2, <1>3, <1>4, <1>5 DEF Next, NoWrap, Push, Abstract!Next

(* An empty queue is an empty abstract queue.                              *)
LEMMA InitImplements == Init => Abstract!Init
BY DEF Init, Abstract!Init, Values

(* The queue implements the abstract one as long as the counter does not   *)
(* wrap.                                                                   *)
THEOREM QueueImplements == SpecNoWrap => Abstract!Spec
<1>1. IInv /\ [Next /\ NoWrap]_vars => [Abstract!Next]_(Values(queue))
  <2>1. CASE Next /\ NoWrap
    BY <2>1, StepImplements
  <2>2. CASE UNCHANGED vars
    BY <2>2 DEF vars
  <2> QED
    BY <2>1, <2>2
<1> QED
  BY InitImplements, <1>1, QueueInvariantNoWrap, PTL DEF SpecNoWrap, Abstract!Spec

(* Where insertions wrap the counter, every step but such an insertion,    *)
(* which sorts the queue by value, is a step of the abstract queue: before *)
(* the first wrap and after any of them.                                   *)
THEOREM QueueImplementsAround == SpecInsertWraps => ImplementsQueue
<1>1. IInv /\ [Next /\ InsertWraps /\ Fits']_vars =>
          [NoWrap => [Abstract!Next]_(Values(queue))]_vars
  BY StepImplements
<1> QED
  BY InitImplements, <1>1, QueueInvariant, PTL DEF SpecInsertWraps, ImplementsQueue
===============================================================================
