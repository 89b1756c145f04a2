--------------------------- MODULE JobSchedulerProofs ---------------------------
(***************************************************************************)
(* No thread is lost or in two lists, the counters agree with the lists, a *)
(* starving scheduler is known to the pool, a lone waiter is woken, and    *)
(* only StopStarvation blocks, for every number of schedulers and threads. *)
(***************************************************************************)
EXTENDS JobScheduler, FiniteSetTheorems, SequenceTheorems, TLAPS

Types ==
    /\ pool \subseteq Info /\ IsFiniteSet(pool)
    /\ allocCount \in Int /\ poolToCreate \in Nat
    /\ starving \in Seq(Scheduler) /\ aggressive \subseteq Scheduler
    /\ mutex \in [Scheduler -> Thread \cup {Nobody}]
    /\ queue \in [Scheduler -> Nat] /\ emptyEvent \in [Scheduler -> BOOLEAN]
    /\ running \in [Scheduler -> SUBSET Info] /\ suspended \in [Scheduler -> SUBSET Info]
    /\ \A s \in Scheduler : IsFiniteSet(running[s]) /\ IsFiniteSet(suspended[s])
    /\ toCreate \in [Scheduler -> Nat] /\ fromShared \in [Scheduler -> Nat]
    /\ unused \in [Scheduler -> Int] /\ starved \in [Scheduler -> BOOLEAN]
    /\ stopCount \in [Scheduler -> 0..MaxStops]
    /\ at \in [Thread -> Control] /\ serves \in [Thread -> Scheduler \cup {NoScheduler}]
    /\ owner \in [Info -> Scheduler \cup {NoScheduler}]

\* A thread holds the mutex of serves[t] at Own; one of Info that goes through the list
\* of starving schedulers holds that of another scheduler, at Other.
Own   == {"schedule", "resume", "offer", "starve", "stop", "release"}
Other == {"select", "notify", "offer", "starve"}

Places ==
    /\ \A c \in Client : at[c] \in {"idle", "wait", "schedule", "resume", "starve"}
    /\ \A i \in Info : at[i] \in {"none", "asleep", "assign", "run", "stop", "release",
                                  "select", "notify", "offer", "starve"}
    /\ \A t \in Thread : at[t] \in {"wait", "notify", "schedule", "resume", "offer",
                                    "starve", "stop", "release"} => serves[t] \in Scheduler
    /\ \A t \in Thread : at[t] = "select" => serves[t] = NoScheduler

\* The lists say no more than the owner of a thread and where it is.
Lists ==
    /\ \A i \in Info, s \in Scheduler : i \in running[s] <=> owner[i] = s /\ at[i] # "asleep"
    /\ \A i \in Info, s \in Scheduler : i \in suspended[s] <=> owner[i] = s /\ at[i] = "asleep"
    /\ \A i \in Info : owner[i] = NoScheduler <=> i \in pool \/ at[i] = "none"
    /\ \A i \in Info : i \in pool => at[i] # "none"
    /\ \A i \in Info : at[i] \in {"assign", "run"} => owner[i] # NoScheduler
    /\ \A i \in Info : at[i] \in {"stop", "release"} => owner[i] = serves[i]

\* What the schedulers owe the pool, one by one.
Debts == {d \in Scheduler \X Nat : d[2] \in 1 .. fromShared[d[1]]}

Counters ==
    /\ CountersMatch
    /\ BorrowsOnlyInNeed
    /\ \A s \in Scheduler : fromShared[s] <= sharedThreads[s]
    /\ IsFiniteSet(Debts) /\ allocCount = Cardinality(Debts)
    /\ \A i \in Info : at[i] \in {"stop", "release"} => fromShared[serves[i]] > 0

Listed(s)    == \E n \in DOMAIN starving : starving[n] = s
Registers(t) == at[t] \in {"starve", "notify"}

\* A scheduler that starves is known to the pool in one way only.
Starvation ==
    /\ StarvedIsKnown
    /\ \A m, n \in DOMAIN starving : starving[m] = starving[n] => m = n
    /\ \A t \in Thread : Registers(t) => ~Listed(serves[t])
    /\ \A t, u \in Thread : Registers(t) /\ Registers(u) /\ serves[t] = serves[u] => t = u

\* Who holds a mutex; the scheduler that a returning thread holds does not starve.
Mutexes ==
    /\ \A t \in Thread : at[t] \in Own => mutex[serves[t]] = t
    /\ \A i \in Info : at[i] \in Other => \E s \in Scheduler : mutex[s] = i /\ s # serves[i]
    /\ \A s \in Scheduler : mutex[s] # Nobody =>
           IF serves[mutex[s]] = s THEN at[mutex[s]] \in Own
           ELSE mutex[s] \in Info /\ at[mutex[s]] \in Other /\ ~starved[s]
    /\ \A s, r \in Scheduler :
           mutex[s] # Nobody /\ mutex[s] = mutex[r]
               /\ serves[mutex[s]] # s /\ serves[mutex[s]] # r => s = r
    /\ \A i \in Info : at[i] = "release" => ~starved[serves[i]]

IInv == Types /\ Places /\ Lists /\ Counters /\ Starvation /\ Mutexes

-------------------------------------------------------------------------------
(* The list of starving schedulers.                                        *)

\* A sequence that holds a value once, and what is in it.
OnceIn(S, q) == q \in Seq(S) /\ \A m, n \in DOMAIN q : q[m] = q[n] => m = n
Has(q, v)    == \E n \in DOMAIN q : q[n] = v

\* What is left of a sequence without its i-th element.
LEMMA CutProperties ==
    ASSUME NEW S, NEW s \in Seq(S), NEW i \in 1 .. Len(s)
    PROVE  LET w == SubSeq(s, 1, i - 1) \o SubSeq(s, i + 1, Len(s)) IN
           /\ w \in Seq(S) /\ Len(w) = Len(s) - 1
           /\ \A k \in 1 .. Len(s) - 1 : w[k] = IF k < i THEN s[k] ELSE s[k + 1]
<1> DEFINE a == SubSeq(s, 1, i - 1)
           b == SubSeq(s, i + 1, Len(s))
<1>0. Len(s) \in Nat
  OBVIOUS
<1>1. /\ a \in Seq(S) /\ Len(a) = i - 1
      /\ \A k \in 1 .. i - 1 : a[k] = s[k]
  BY <1>0, SubSeqProperties
<1>2. /\ b \in Seq(S) /\ Len(b) = Len(s) - i
      /\ \A k \in 1 .. Len(s) - i : b[k] = s[i + k]
  BY <1>0, SubSeqProperties
<1> HIDE DEF a, b
<1>3. /\ a \o b \in Seq(S)
      /\ Len(a \o b) = Len(a) + Len(b)
      /\ \A k \in 1 .. Len(a) + Len(b) :
             (a \o b)[k] = IF k <= Len(a) THEN a[k] ELSE b[k - Len(a)]
  BY <1>1, <1>2, ConcatProperties
<1>5. Len(a) + Len(b) = Len(s) - 1
  BY <1>0, <1>1, <1>2
<1>6. ASSUME NEW k \in 1 .. Len(s) - 1
      PROVE  (a \o b)[k] = IF k < i THEN s[k] ELSE s[k + 1]
  <2>1. CASE k < i
    BY <2>1, <1>0, <1>1, <1>3, <1>5
  <2>2. CASE ~(k < i)
    <3>1. k - (i - 1) \in 1 .. Len(s) - i /\ i + (k - (i - 1)) = k + 1
      BY <2>2, <1>0
    <3>2. b[k - (i - 1)] = s[k + 1]
      BY <3>1, <1>2
    <3>3. (a \o b)[k] = b[k - (i - 1)]
      BY <2>2, <1>0, <1>1, <1>3, <1>5
    <3> QED
      BY <3>2, <3>3, <2>2
  <2> QED
    BY <2>1, <2>2
<1> QED
  BY <1>3, <1>5, <1>6 DEF a, b

\* An element less.
LEMMA WithoutOnce ==
    ASSUME NEW S, NEW q, OnceIn(S, q), NEW i \in DOMAIN q
    PROVE  LET w == SubSeq(q, 1, i - 1) \o SubSeq(q, i + 1, Len(q)) IN
           OnceIn(S, w) /\ \A p \in S : Has(w, p) <=> Has(q, p) /\ p # q[i]
<1> DEFINE n == Len(q)
           w == SubSeq(q, 1, i - 1) \o SubSeq(q, i + 1, Len(q))
           up(k) == IF k < i THEN k ELSE k + 1
<1>0. q \in Seq(S) /\ n \in Nat /\ DOMAIN q = 1 .. n /\ i \in 1 .. n
      /\ \A k, l \in 1 .. n : q[k] = q[l] => k = l
  BY DEF OnceIn
<1>1. /\ w \in Seq(S) /\ Len(w) = n - 1 /\ DOMAIN w = 1 .. n - 1
      /\ \A k \in 1 .. n - 1 : w[k] = q[up(k)]
  <2>1. /\ w \in Seq(S) /\ Len(w) = n - 1
        /\ \A k \in 1 .. n - 1 : w[k] = IF k < i THEN q[k] ELSE q[k + 1]
    BY <1>0, CutProperties
  <2> HIDE DEF w
  <2> QED BY <1>0, <2>1
<1> HIDE DEF w, n
<1>2. \A k \in 1 .. n - 1 : up(k) \in 1 .. n /\ up(k) # i
  BY <1>0
<1>3. \A k, l \in 1 .. n - 1 : up(k) = up(l) => k = l
  BY <1>0
<1>4. \A m \in 1 .. n : m # i => \E k \in 1 .. n - 1 : up(k) = m
  <2> SUFFICES ASSUME NEW m \in 1 .. n, m # i  PROVE \E k \in 1 .. n - 1 : up(k) = m
    OBVIOUS
  <2>1. CASE m < i
    <3>1. m \in 1 .. n - 1 /\ up(m) = m
      BY <1>0, <2>1
    <3> QED BY <3>1
  <2>2. CASE ~(m < i)
    <3>1. m - 1 \in 1 .. n - 1 /\ up(m - 1) = m
      BY <1>0, <2>2
    <3> QED BY <3>1
  <2> QED BY <2>1, <2>2
<1> HIDE DEF up
<1>5. \A k, l \in 1 .. n - 1 : w[k] = w[l] => k = l
  BY <1>0, <1>1, <1>2, <1>3
<1>6. \A p \in S : Has(w, p) <=> Has(q, p) /\ p # q[i]
  BY <1>0, <1>1, <1>2, <1>4 DEF Has
<1>7. OnceIn(S, w)
  BY <1>1, <1>5 DEF OnceIn
<1> QED BY <1>6, <1>7 DEF w

\* An element more.
LEMMA AppendOnce ==
    ASSUME NEW S, NEW q, OnceIn(S, q), NEW v \in S, ~Has(q, v)
    PROVE  OnceIn(S, Append(q, v)) /\ \A p \in S : Has(Append(q, v), p) <=> Has(q, p) \/ p = v
<1> DEFINE r == Append(q, v)
           n == Len(q)
<1>0. q \in Seq(S) /\ n \in Nat /\ DOMAIN q = 1 .. n
  BY DEF OnceIn
<1>1. /\ r \in Seq(S) /\ Len(r) = n + 1 /\ DOMAIN r = 1 .. n + 1
      /\ \A k \in 1 .. n : r[k] = q[k]
      /\ r[n + 1] = v
  BY <1>0, AppendProperties
<1> HIDE DEF r, n
<1>2. \A k \in 1 .. n + 1 : k = n + 1 \/ k \in 1 .. n
  BY <1>0
<1>3. \A k, l \in 1 .. n + 1 : r[k] = r[l] => k = l
  BY <1>0, <1>1, <1>2 DEF OnceIn, Has
<1>4. n + 1 \in 1 .. n + 1 /\ \A k \in 1 .. n : k \in 1 .. n + 1
  BY <1>0
<1>5. \A p \in S : Has(r, p) <=> Has(q, p) \/ p = v
  BY <1>0, <1>1, <1>2, <1>4 DEF Has
<1> QED BY <1>1, <1>3, <1>5 DEF OnceIn, r

\* The first element is the one that goes.
LEMMA TailOnce ==
    ASSUME NEW S, NEW q, OnceIn(S, q), q # <<>>
    PROVE  /\ Head(q) \in S /\ Has(q, Head(q)) /\ ~Has(Tail(q), Head(q))
           /\ OnceIn(S, Tail(q))
           /\ \A p \in S : Has(Tail(q), p) <=> Has(q, p) /\ p # Head(q)
<1> DEFINE n == Len(q)
           r == Tail(q)
<1>0. q \in Seq(S) /\ n \in Nat /\ n # 0 /\ DOMAIN q = 1 .. n /\ 1 \in 1 .. n
      /\ \A k, l \in 1 .. n : q[k] = q[l] => k = l
  BY EmptySeq, LenProperties DEF OnceIn
<1>1. /\ r \in Seq(S) /\ Len(r) = n - 1 /\ DOMAIN r = 1 .. n - 1
      /\ \A k \in 1 .. n - 1 : r[k] = q[k + 1]
      /\ Head(q) = q[1] /\ q[1] \in S
  BY <1>0, HeadTailProperties
<1> HIDE DEF r, n
<1>2. \A k \in 1 .. n - 1 : k + 1 \in 1 .. n /\ k + 1 # 1
  BY <1>0
<1>3. \A k, l \in 1 .. n - 1 : r[k] = r[l] => k = l
  BY <1>0, <1>1, <1>2
<1>4. \A k \in 1 .. n : k # 1 => k - 1 \in 1 .. n - 1 /\ r[k - 1] = q[k]
  <2> SUFFICES ASSUME NEW k \in 1 .. n, k # 1  PROVE k - 1 \in 1 .. n - 1 /\ r[k - 1] = q[k]
    OBVIOUS
  <2>1. k - 1 \in 1 .. n - 1 /\ (k - 1) + 1 = k
    BY <1>0
  <2> QED BY <1>1, <2>1
<1>5. ASSUME NEW p \in S  PROVE Has(r, p) <=> Has(q, p) /\ p # q[1]
  <2>1. ASSUME NEW k \in 1 .. n - 1  PROVE \E l \in 1 .. n : l # 1 /\ q[l] = r[k]
    BY <1>1, <1>2
  <2>2. ASSUME NEW l \in 1 .. n, l # 1  PROVE \E k \in 1 .. n - 1 : r[k] = q[l]
    BY <1>4, <2>2
  <2>3. ASSUME Has(r, p)  PROVE Has(q, p) /\ p # q[1]
    <3>1. PICK k \in 1 .. n - 1 : r[k] = p
      BY <1>1, <2>3 DEF Has
    <3>2. PICK l \in 1 .. n : l # 1 /\ q[l] = p
      BY <2>1, <3>1
    <3> QED BY <1>0, <3>2 DEF Has
  <2>4. ASSUME Has(q, p), p # q[1]  PROVE Has(r, p)
    <3>1. PICK l \in 1 .. n : q[l] = p
      BY <1>0, <2>4 DEF Has
    <3>2. PICK k \in 1 .. n - 1 : r[k] = p
      BY <2>2, <2>4, <3>1
    <3> QED BY <1>1, <3>2 DEF Has
  <2> QED BY <2>3, <2>4
<1>6. Has(q, q[1])
  BY <1>0 DEF Has
<1> QED BY <1>1, <1>3, <1>5, <1>6 DEF OnceIn, r

-------------------------------------------------------------------------------
(* What an action leaves alone.                                            *)

\* The counters do not change, nor does who is about to settle a debt.
LEMMA KeepCounters ==
    ASSUME Counters,
           UNCHANGED <<pool, allocCount, poolToCreate>>,
           UNCHANGED <<running, suspended, toCreate, fromShared, unused>>,
           \A i \in Info : at'[i] \in {"stop", "release"} => fromShared[serves'[i]] > 0
    PROVE  Counters'
<1>1. Debts' = Debts
  BY DEF Debts
<1>2. CountersMatch' /\ BorrowsOnlyInNeed'
  BY DEF Counters, CountersMatch, BorrowsOnlyInNeed, Active
<1> QED BY <1>1, <1>2 DEF Counters

\* No thread goes to sleep, wakes up, comes or goes.
LEMMA KeepLists ==
    ASSUME Lists,
           UNCHANGED <<pool, running, suspended, owner>>,
           \A i \in Info :
               /\ at'[i] = "asleep" <=> at[i] = "asleep"
               /\ at'[i] = "none" <=> at[i] = "none"
               /\ at'[i] \in {"assign", "run"} => owner[i] # NoScheduler
               /\ at'[i] \in {"stop", "release"} => owner[i] = serves'[i]
    PROVE  Lists'
BY DEF Lists

\* No scheduler begins or ceases to starve.
LEMMA KeepStarvation ==
    ASSUME Starvation,
           UNCHANGED <<starving, starved>>,
           \A t \in Thread :
               /\ at'[t] \in {"starve", "notify"} <=> at[t] \in {"starve", "notify"}
               /\ at[t] \in {"starve", "notify"} => serves'[t] = serves[t]
    PROVE  Starvation'
<1>1. StarvedIsKnown'
  BY DEF Starvation, StarvedIsKnown
<1> QED BY <1>1 DEF Starvation, Listed, Registers

\* Only threads that hold no mutex go on.
LEMMA KeepMutexes ==
    ASSUME Types, Mutexes,
           UNCHANGED <<mutex, starved>>,
           \A t \in Thread :
               \/ at'[t] = at[t] /\ serves'[t] = serves[t]
               \/ at[t] \notin Own \cup Other /\ at'[t] \notin Own \cup Other
    PROVE  Mutexes'
<1>1. \A s \in Scheduler : mutex[s] # Nobody =>
          mutex[s] \in Thread /\ at[mutex[s]] \in Own \cup Other
  BY DEF Types, Mutexes
<1>2. \A s \in Scheduler : mutex[s] # Nobody =>
          at'[mutex[s]] = at[mutex[s]] /\ serves'[mutex[s]] = serves[mutex[s]]
  BY <1>1
<1>3. \A i \in Info : i \in Thread
  BY DEF Thread
<1>4. \A t \in Thread : at'[t] \in Own \cup Other =>
          at'[t] = at[t] /\ serves'[t] = serves[t]
  OBVIOUS
<1>5. "release" \in Own
  BY DEF Own
<1> QED BY <1>2, <1>3, <1>4, <1>5 DEF Mutexes

-------------------------------------------------------------------------------
(* AssignJob.                                                              *)

\* A thread that is not asleep is in the list of its owner.
LEMMA Assigned ==
    ASSUME Types, Lists, NEW i \in Info, at[i] = "assign"
    PROVE  owner[i] \in Scheduler /\ i \in running[owner[i]] /\ i \in Thread
BY DEF Types, Lists, Thread

\* A thread takes a job: its place and the number of jobs change, no list.
LEMMA TakeJobStep == ASSUME IInv, NEW i \in Info, TakeJob(i)  PROVE IInv'
<1>0. owner[i] \in Scheduler /\ i \in Thread
  BY Assigned DEF IInv, TakeJob
<1>1. /\ at[i] = "assign" /\ at' = [at EXCEPT ![i] = "run"]
      /\ queue[owner[i]] > 0 /\ queue' = [queue EXCEPT ![owner[i]] = @ + (-1)]
      /\ UNCHANGED <<poolVars, lists, emptyEvent, stopCount, owner, serves, aggressive,
                     mutex, starved>>
  BY DEF TakeJob, Goto, Add
<1> USE <1>1 DEF poolVars, lists
<1>2. Types'
  <2>1. queue' \in [Scheduler -> Nat]
    BY <1>0, CountAssumption DEF IInv, Types
  <2>2. at' \in [Thread -> Control]
    BY <1>0 DEF IInv, Types, Control
  <2> QED BY <2>1, <2>2 DEF IInv, Types
<1>3. at \in [Thread -> Control]
  BY DEF IInv, Types
<1>4. Places'
  BY <1>0, <1>3, ThreadAssumption DEF IInv, Places
<1>5. Lists'
  BY <1>0, <1>3, KeepLists DEF IInv, Lists
<1>6. Counters'
  BY <1>0, <1>3, KeepCounters DEF IInv, Counters
<1>7. Starvation'
  BY <1>0, <1>3, KeepStarvation DEF IInv
<1>8. Mutexes'
  <2>1. \A t \in Thread : at'[t] = at[t] \/ (at[t] \notin Own \cup Other /\ at'[t] \notin Own \cup Other)
    BY <1>0, <1>3 DEF Own, Other
  <2> QED BY <2>1, KeepMutexes DEF IInv
<1> QED BY <1>2, <1>4, <1>5, <1>6, <1>7, <1>8 DEF IInv

\* A thread has run its job and may signal the empty queue.
LEMMA RunJobStep == ASSUME IInv, NEW i \in Info, RunJob(i)  PROVE IInv'
<1>1. /\ at[i] = "run" /\ at' = [at EXCEPT ![i] = "assign"]
      /\ UNCHANGED <<poolVars, lists, jobs, owner, serves, aggressive, mutex, starved>>
  BY DEF RunJob, Goto
<1>0. i \in Thread
  BY DEF Thread
<1> USE <1>1 DEF poolVars, lists, jobs
<1>2. Types'
  BY <1>0 DEF IInv, Types, Control
<1>3. at \in [Thread -> Control]
  BY DEF IInv, Types
<1>4. Places'
  BY <1>0, <1>3, ThreadAssumption DEF IInv, Places
<1>5. Lists'
  BY <1>0, <1>3, KeepLists DEF IInv, Lists
<1>6. Counters'
  BY <1>0, <1>3, KeepCounters DEF IInv, Counters
<1>7. Starvation'
  BY <1>0, <1>3, KeepStarvation DEF IInv
<1>8. Mutexes'
  <2>1. \A t \in Thread : at'[t] = at[t] \/ (at[t] \notin Own \cup Other /\ at'[t] \notin Own \cup Other)
    BY <1>0, <1>3 DEF Own, Other
  <2> QED BY <2>1, KeepMutexes DEF IInv
<1> QED BY <1>2, <1>4, <1>5, <1>6, <1>7, <1>8 DEF IInv

-------------------------------------------------------------------------------
(* The bookkeeping.                                                        *)

\* A thread that goes idle leaves the list.
LEMMA GoesIdleFacts ==
    ASSUME Types, NEW s \in Scheduler, NEW i \in running[s], GoesIdle(s, i)
    PROVE  /\ running' \in [Scheduler -> SUBSET Info] /\ unused' \in [Scheduler -> Int]
           /\ emptyEvent' \in [Scheduler -> BOOLEAN]
           /\ \A r \in Scheduler : running'[r] = IF r = s THEN running[s] \ {i} ELSE running[r]
           /\ \A r \in Scheduler : IsFiniteSet(running'[r])
           /\ \A r \in Scheduler : unused'[r] = IF r = s THEN unused[s] + 1 ELSE unused[r]
           /\ Cardinality(running'[s]) = Cardinality(running[s]) - 1
           /\ Cardinality(running[s]) \in Nat /\ Cardinality(running'[s]) \in Nat
<1>1. /\ running' = [running EXCEPT ![s] = @ \ {i}]
      /\ unused' = [unused EXCEPT ![s] = @ + 1]
  BY DEF GoesIdle, Add
<1>2. /\ \A r \in Scheduler : running'[r] = IF r = s THEN running[s] \ {i} ELSE running[r]
      /\ \A r \in Scheduler : unused'[r] = IF r = s THEN unused[s] + 1 ELSE unused[r]
      /\ running' \in [Scheduler -> SUBSET Info] /\ unused' \in [Scheduler -> Int]
  BY <1>1 DEF Types
<1>3. emptyEvent' \in [Scheduler -> BOOLEAN]
  BY DEF GoesIdle, Types
<1>4. IsFiniteSet(running[s]) /\ \A r \in Scheduler : IsFiniteSet(running[r])
  BY DEF Types
<1>5. /\ IsFiniteSet(running[s] \ {i})
      /\ Cardinality(running[s] \ {i}) = Cardinality(running[s]) - 1
      /\ Cardinality(running[s]) \in Nat /\ Cardinality(running[s] \ {i}) \in Nat
  BY <1>4, FS_RemoveElement, FS_CardinalityType
<1> QED BY <1>2, <1>3, <1>4, <1>5

\* A debt is settled.
LEMMA DebtsLess ==
    ASSUME Types, IsFiniteSet(Debts), NEW s \in Scheduler, fromShared[s] > 0,
           fromShared' = Add(fromShared, s, -1)
    PROVE  /\ IsFiniteSet(Debts') /\ Cardinality(Debts') = Cardinality(Debts) - 1
           /\ fromShared' \in [Scheduler -> Nat]
           /\ \A r \in Scheduler : fromShared'[r] = IF r = s THEN fromShared[s] - 1
                                                    ELSE fromShared[r]
<1>1. /\ fromShared \in [Scheduler -> Nat] /\ fromShared' \in [Scheduler -> Nat]
      /\ \A r \in Scheduler : fromShared'[r] = IF r = s THEN fromShared[s] - 1
                                               ELSE fromShared[r]
  BY DEF Types, Add
<1> DEFINE e == <<s, fromShared[s]>>
<1>2. \A r \in Scheduler, n \in Nat : <<r, n>> \in Debts <=> n \in 1 .. fromShared[r]
  BY DEF Debts
<1>3. \A r \in Scheduler, n \in Nat : <<r, n>> \in Debts' <=> n \in 1 .. fromShared'[r]
  BY DEF Debts
<1>4. \A r \in Scheduler, n \in Nat :
          <<r, n>> \in Debts' <=> <<r, n>> \in Debts /\ <<r, n>> # e
  <2> SUFFICES ASSUME NEW r \in Scheduler, NEW n \in Nat
               PROVE  n \in 1 .. fromShared'[r] <=> n \in 1 .. fromShared[r] /\ <<r, n>> # e
    BY <1>2, <1>3
  <2>1. <<r, n>> = e <=> r = s /\ n = fromShared[s]
    OBVIOUS
  <2>2. fromShared[r] \in Nat /\ fromShared'[r] \in Nat
    BY <1>1
  <2> HIDE DEF e
  <2> QED BY <1>1, <2>1, <2>2
<1>5. Debts \subseteq Scheduler \X Nat /\ Debts' \subseteq Scheduler \X Nat
  BY DEF Debts
<1>6. Debts' = Debts \ {e} /\ e \in Debts
  BY <1>1, <1>2, <1>4, <1>5
<1> QED BY <1>1, <1>6, FS_RemoveElement

\* A debt is made.
LEMMA DebtsMore ==
    ASSUME Types, IsFiniteSet(Debts), NEW s \in Scheduler,
           fromShared' = Add(fromShared, s, 1)
    PROVE  /\ IsFiniteSet(Debts') /\ Cardinality(Debts') = Cardinality(Debts) + 1
           /\ fromShared' \in [Scheduler -> Nat]
           /\ \A r \in Scheduler : fromShared'[r] = IF r = s THEN fromShared[s] + 1
                                                    ELSE fromShared[r]
<1>1. /\ fromShared \in [Scheduler -> Nat] /\ fromShared' \in [Scheduler -> Nat]
      /\ \A r \in Scheduler : fromShared'[r] = IF r = s THEN fromShared[s] + 1
                                               ELSE fromShared[r]
  BY DEF Types, Add
<1> DEFINE e == <<s, fromShared[s] + 1>>
<1>2. \A r \in Scheduler, n \in Nat : <<r, n>> \in Debts <=> n \in 1 .. fromShared[r]
  BY DEF Debts
<1>3. \A r \in Scheduler, n \in Nat : <<r, n>> \in Debts' <=> n \in 1 .. fromShared'[r]
  BY DEF Debts
<1>4. \A r \in Scheduler, n \in Nat :
          <<r, n>> \in Debts' <=> <<r, n>> \in Debts \/ <<r, n>> = e
  <2> SUFFICES ASSUME NEW r \in Scheduler, NEW n \in Nat
               PROVE  n \in 1 .. fromShared'[r] <=> n \in 1 .. fromShared[r] \/ <<r, n>> = e
    BY <1>2, <1>3
  <2>1. <<r, n>> = e <=> r = s /\ n = fromShared[s] + 1
    OBVIOUS
  <2>2. fromShared[r] \in Nat /\ fromShared'[r] \in Nat
    BY <1>1
  <2> HIDE DEF e
  <2> QED BY <1>1, <2>1, <2>2
<1>5. Debts \subseteq Scheduler \X Nat /\ Debts' \subseteq Scheduler \X Nat
  BY DEF Debts
<1>6. Debts' = Debts \cup {e} /\ e \notin Debts
  BY <1>1, <1>2, <1>4, <1>5
<1> QED BY <1>1, <1>6, FS_AddElement

-------------------------------------------------------------------------------
(* A thread without a job.                                                 *)

\* A private thread of the scheduler goes to sleep.
LEMMA ParkStep == ASSUME IInv, NEW i \in Info, Park(i)  PROVE IInv'
<1> DEFINE s == owner[i]
<1>0. s \in Scheduler /\ i \in running[s] /\ i \in Thread
  BY Assigned DEF IInv, Park, Idles
<1>1. /\ at[i] = "assign" /\ at' = [at EXCEPT ![i] = "asleep"]
      /\ fromShared[s] = 0
      /\ GoesIdle(s, i) /\ suspended' = [suspended EXCEPT ![s] = @ \cup {i}]
      /\ UNCHANGED <<pool, allocCount, poolToCreate, starving, toCreate, fromShared>>
      /\ UNCHANGED <<queue, stopCount, owner, serves, aggressive, mutex, starved>>
  BY DEF Park, Idles, Goto, poolVars
<1> HIDE DEF s
<1>2. /\ Types /\ at \in [Thread -> Control] /\ suspended \in [Scheduler -> SUBSET Info]
      /\ IsFiniteSet(suspended[s]) /\ s = owner[i]
  BY <1>0 DEF IInv, Types, s
<1>3. /\ running' \in [Scheduler -> SUBSET Info] /\ unused' \in [Scheduler -> Int]
      /\ emptyEvent' \in [Scheduler -> BOOLEAN]
      /\ \A r \in Scheduler : running'[r] = IF r = s THEN running[s] \ {i} ELSE running[r]
      /\ \A r \in Scheduler : IsFiniteSet(running'[r])
      /\ \A r \in Scheduler : unused'[r] = IF r = s THEN unused[s] + 1 ELSE unused[r]
      /\ Cardinality(running'[s]) = Cardinality(running[s]) - 1
      /\ Cardinality(running[s]) \in Nat /\ Cardinality(running'[s]) \in Nat
  BY <1>0, <1>1, <1>2, GoesIdleFacts
<1>4. /\ suspended' \in [Scheduler -> SUBSET Info]
      /\ \A r \in Scheduler : suspended'[r] = IF r = s THEN suspended[s] \cup {i} ELSE suspended[r]
      /\ i \notin suspended[s]
  BY <1>0, <1>1, <1>2 DEF IInv, Lists
<1>5. /\ IsFiniteSet(suspended'[s]) /\ Cardinality(suspended[s]) \in Nat
      /\ Cardinality(suspended'[s]) = Cardinality(suspended[s]) + 1
  BY <1>0, <1>2, <1>4, FS_AddElement, FS_CardinalityType
<1>6. at' \in [Thread -> Control] /\ \A t \in Thread : at'[t] = IF t = i THEN "asleep" ELSE at[t]
  BY <1>0, <1>1, <1>2 DEF Control
<1>7. Types'
  BY <1>1, <1>2, <1>3, <1>4, <1>5, <1>6 DEF Types
<1>8. Places'
  BY <1>0, <1>1, <1>6, ThreadAssumption DEF IInv, Places
<1>9. Lists'
  BY <1>0, <1>1, <1>2, <1>3, <1>4, <1>6 DEF IInv, Lists, Thread
<1>10. Counters'
  <2>1. Debts' = Debts
    BY <1>1 DEF Debts
  <2>2. CountersMatch'
    <3> SUFFICES ASSUME NEW r \in Scheduler
                 PROVE  /\ Cardinality(running'[r]) + Cardinality(suspended'[r]) + toCreate[r]
                               = threadCount[r] + fromShared[r]
                        /\ unused'[r] = Cardinality(suspended'[r]) + toCreate[r]
                                            + sharedThreads[r] - fromShared[r]
      BY <1>1 DEF IInv, Counters, CountersMatch, Active
    <3>1. /\ Cardinality(running[r]) + Cardinality(suspended[r]) + toCreate[r]
                 = threadCount[r] + fromShared[r]
          /\ unused[r] = Cardinality(suspended[r]) + toCreate[r]
                             + sharedThreads[r] - fromShared[r]
      BY DEF IInv, Counters, CountersMatch, Active
    <3>2. toCreate[r] \in Nat /\ sharedThreads[r] \in Nat /\ fromShared[r] \in Nat
          /\ threadCount[r] \in Nat
      BY <1>2, CountAssumption DEF Types
    <3> QED BY <1>3, <1>4, <1>5, <3>1, <3>2
  <2>3. BorrowsOnlyInNeed'
    BY <1>0, <1>1, <1>4 DEF IInv, Counters, BorrowsOnlyInNeed
  <2> QED BY <1>0, <1>1, <1>6, <2>1, <2>2, <2>3 DEF IInv, Counters, Thread
<1>11. Starvation'
  BY <1>0, <1>1, <1>6, KeepStarvation DEF IInv
<1>12. Mutexes'
  <2>1. \A t \in Thread : at'[t] = at[t] \/ (at[t] \notin Own \cup Other /\ at'[t] \notin Own \cup Other)
    BY <1>0, <1>1, <1>6 DEF Own, Other
  <2> QED BY <1>1, <2>1, KeepMutexes DEF IInv
<1> QED BY <1>7, <1>8, <1>9, <1>10, <1>11, <1>12 DEF IInv

\* A thread beyond the wanted number ends.
LEMMA TerminateStep == ASSUME IInv, NEW i \in Info, Terminate(i)  PROVE IInv'
<1> DEFINE s == owner[i]
<1>0. s \in Scheduler /\ i \in running[s] /\ i \in Thread
  BY Assigned DEF IInv, Terminate, Idles
<1>1. /\ at[i] = "assign" /\ at' = [at EXCEPT ![i] = "none"]
      /\ fromShared[s] = 0
      /\ GoesIdle(s, i) /\ toCreate' = [toCreate EXCEPT ![s] = @ + 1]
      /\ owner' = [owner EXCEPT ![i] = NoScheduler]
      /\ UNCHANGED <<pool, allocCount, poolToCreate, starving, suspended, fromShared>>
      /\ UNCHANGED <<queue, stopCount, serves, aggressive, mutex, starved>>
  BY DEF Terminate, Idles, Goto, poolVars, Add
<1> HIDE DEF s
<1>2. /\ Types /\ at \in [Thread -> Control] /\ toCreate \in [Scheduler -> Nat]
      /\ owner \in [Info -> Scheduler \cup {NoScheduler}] /\ s = owner[i]
      /\ \A r \in Scheduler : IsFiniteSet(suspended[r])
  BY <1>0 DEF IInv, Types, s
<1>3. /\ running' \in [Scheduler -> SUBSET Info] /\ unused' \in [Scheduler -> Int]
      /\ emptyEvent' \in [Scheduler -> BOOLEAN]
      /\ \A r \in Scheduler : running'[r] = IF r = s THEN running[s] \ {i} ELSE running[r]
      /\ \A r \in Scheduler : IsFiniteSet(running'[r])
      /\ \A r \in Scheduler : unused'[r] = IF r = s THEN unused[s] + 1 ELSE unused[r]
      /\ Cardinality(running'[s]) = Cardinality(running[s]) - 1
      /\ Cardinality(running[s]) \in Nat /\ Cardinality(running'[s]) \in Nat
  BY <1>0, <1>1, <1>2, GoesIdleFacts
<1>4. /\ toCreate' \in [Scheduler -> Nat]
      /\ \A r \in Scheduler : toCreate'[r] = IF r = s THEN toCreate[s] + 1 ELSE toCreate[r]
      /\ owner' \in [Info -> Scheduler \cup {NoScheduler}]
      /\ \A j \in Info : owner'[j] = IF j = i THEN NoScheduler ELSE owner[j]
  BY <1>0, <1>1, <1>2
<1>5. \A r \in Scheduler : Cardinality(suspended[r]) \in Nat
  BY <1>2, FS_CardinalityType
<1>6. at' \in [Thread -> Control] /\ \A t \in Thread : at'[t] = IF t = i THEN "none" ELSE at[t]
  BY <1>0, <1>1, <1>2 DEF Control
<1>7. Types'
  BY <1>1, <1>2, <1>3, <1>4, <1>6 DEF Types
<1>8. Places'
  BY <1>0, <1>1, <1>6, ThreadAssumption DEF IInv, Places
<1>9. Lists'
  BY <1>0, <1>1, <1>2, <1>3, <1>4, <1>6, SchedulerAssumption DEF IInv, Lists, Thread
<1>10. Counters'
  <2>1. Debts' = Debts
    BY <1>1 DEF Debts
  <2>2. CountersMatch'
    <3> SUFFICES ASSUME NEW r \in Scheduler
                 PROVE  /\ Cardinality(running'[r]) + Cardinality(suspended[r]) + toCreate'[r]
                               = threadCount[r] + fromShared[r]
                        /\ unused'[r] = Cardinality(suspended[r]) + toCreate'[r]
                                            + sharedThreads[r] - fromShared[r]
      BY <1>1 DEF IInv, Counters, CountersMatch, Active
    <3>1. /\ Cardinality(running[r]) + Cardinality(suspended[r]) + toCreate[r]
                 = threadCount[r] + fromShared[r]
          /\ unused[r] = Cardinality(suspended[r]) + toCreate[r]
                             + sharedThreads[r] - fromShared[r]
      BY DEF IInv, Counters, CountersMatch, Active
    <3>2. toCreate[r] \in Nat /\ sharedThreads[r] \in Nat /\ fromShared[r] \in Nat
          /\ threadCount[r] \in Nat
      BY <1>2, CountAssumption DEF Types
    <3> QED BY <1>3, <1>4, <1>5, <3>1, <3>2
  <2>3. BorrowsOnlyInNeed'
    BY <1>0, <1>1, <1>4 DEF IInv, Counters, BorrowsOnlyInNeed
  <2> QED BY <1>0, <1>1, <1>6, <2>1, <2>2, <2>3 DEF IInv, Counters, Thread
<1>11. Starvation'
  BY <1>0, <1>1, <1>6, KeepStarvation DEF IInv
<1>12. Mutexes'
  <2>1. \A t \in Thread : at'[t] = at[t] \/ (at[t] \notin Own \cup Other /\ at'[t] \notin Own \cup Other)
    BY <1>0, <1>1, <1>6 DEF Own, Other
  <2> QED BY <1>1, <2>1, KeepMutexes DEF IInv
<1> QED BY <1>7, <1>8, <1>9, <1>10, <1>11, <1>12 DEF IInv

-------------------------------------------------------------------------------
(* A thread that returns to the pool.                                      *)

\* Who is at another place holds no mutex.
LEMMA HoldsNone ==
    ASSUME Types, Mutexes, ThreadAssumption, NEW t \in Thread, at[t] \notin Own \cup Other
    PROVE  \A r \in Scheduler : mutex[r] # t
BY DEF Mutexes

\* Who holds a mutex is at a place for it.
LEMMA Holder ==
    ASSUME Types, Mutexes, NEW r \in Scheduler, mutex[r] # Nobody
    PROVE  mutex[r] \in Thread /\ at[mutex[r]] \in Own \cup Other
BY DEF Types, Mutexes

\* A thread settles a debt to the pool and keeps the mutex of a scheduler that does not starve.
LEMMA ReturnStep == ASSUME IInv, NEW i \in Info, Return(i)  PROVE IInv'
<1> DEFINE s == owner[i]
<1>0. s \in Scheduler /\ i \in Thread /\ i # Nobody
  BY Assigned, ThreadAssumption DEF IInv, Return, Idles
<1>1. /\ at[i] = "assign" /\ mutex[s] = Nobody /\ fromShared[s] > 0
      /\ mutex' = [mutex EXCEPT ![s] = i] /\ serves' = [serves EXCEPT ![i] = s]
      /\ at' = [at EXCEPT ![i] = IF starved[s] THEN "stop" ELSE "release"]
      /\ UNCHANGED <<pool, allocCount, poolToCreate, starving>>
      /\ UNCHANGED <<running, suspended, toCreate, fromShared, unused>>
      /\ UNCHANGED <<queue, emptyEvent, stopCount, owner, aggressive, starved>>
  BY DEF Return, Idles, Free, Lock, Serve, Goto, poolVars, lists, jobs
<1> HIDE DEF s
<1>2. /\ at \in [Thread -> Control] /\ serves \in [Thread -> Scheduler \cup {NoScheduler}]
      /\ mutex \in [Scheduler -> Thread \cup {Nobody}] /\ s = owner[i]
  BY DEF IInv, Types, s
<1>3. /\ at' \in [Thread -> Control] /\ at'[i] = IF starved[s] THEN "stop" ELSE "release"
      /\ \A t \in Thread : t # i => at'[t] = at[t]
      /\ serves' \in [Thread -> Scheduler \cup {NoScheduler}]
      /\ \A t \in Thread : serves'[t] = IF t = i THEN s ELSE serves[t]
      /\ mutex' \in [Scheduler -> Thread \cup {Nobody}]
      /\ \A r \in Scheduler : mutex'[r] = IF r = s THEN i ELSE mutex[r]
  BY <1>0, <1>1, <1>2 DEF Control
<1>4. Types'
  BY <1>1, <1>3 DEF IInv, Types
<1>5. Places'
  BY <1>0, <1>1, <1>3, ThreadAssumption DEF IInv, Places
<1>6. Lists'
  BY <1>0, <1>1, <1>2, <1>3, KeepLists DEF IInv, Lists, Thread
<1>7. Counters'
  BY <1>0, <1>1, <1>3, KeepCounters DEF IInv, Counters, Thread
<1>8. Starvation'
  BY <1>0, <1>1, <1>3, KeepStarvation DEF IInv
<1>9. Mutexes'
  <2>1. \A r \in Scheduler : mutex[r] # i
    BY <1>0, <1>1, HoldsNone, ThreadAssumption DEF IInv, Own, Other
  <2>2. \A t \in Thread : at'[t] \in Own => mutex'[serves'[t]] = t
    BY <1>0, <1>1, <1>3, ThreadAssumption DEF IInv, Mutexes, Places, Own
  <2>3. \A j \in Info : at'[j] \in Other => \E r \in Scheduler : mutex'[r] = j /\ r # serves'[j]
    BY <1>0, <1>1, <1>3, ThreadAssumption DEF IInv, Mutexes, Other, Thread
  <2>4. \A r \in Scheduler : mutex'[r] # Nobody =>
           IF serves'[mutex'[r]] = r THEN at'[mutex'[r]] \in Own
           ELSE mutex'[r] \in Info /\ at'[mutex'[r]] \in Other /\ ~starved[r]
    <3> SUFFICES ASSUME NEW r \in Scheduler, mutex'[r] # Nobody
                 PROVE  IF serves'[mutex'[r]] = r THEN at'[mutex'[r]] \in Own
                        ELSE mutex'[r] \in Info /\ at'[mutex'[r]] \in Other /\ ~starved[r]
      OBVIOUS
    <3>1. CASE r = s
      BY <1>0, <1>3, <3>1 DEF Own
    <3>2. CASE r # s
      BY <1>2, <1>3, <2>1, <3>2 DEF IInv, Mutexes
    <3> QED BY <3>1, <3>2
  <2>5. \A r, q \in Scheduler :
           mutex'[r] # Nobody /\ mutex'[r] = mutex'[q]
               /\ serves'[mutex'[r]] # r /\ serves'[mutex'[r]] # q => r = q
    BY <1>0, <1>2, <1>3, <2>1 DEF IInv, Mutexes
  <2>6. \A j \in Info : at'[j] = "release" => ~starved[serves'[j]]
    BY <1>0, <1>3 DEF IInv, Mutexes, Thread
  <2> QED BY <1>1, <2>2, <2>3, <2>4, <2>5, <2>6 DEF Mutexes
<1> QED BY <1>4, <1>5, <1>6, <1>7, <1>8, <1>9 DEF IInv

\* The scheduler that has a thread again is taken out of the list of starving ones.
LEMMA StopStarvationStep == ASSUME IInv, NEW i \in Info, StopStarvation(i)  PROVE IInv'
<1> DEFINE s == serves[i]
<1>0. s \in Scheduler /\ i \in Thread
  BY DEF IInv, StopStarvation, Places, Thread
<1>1. PICK n \in DOMAIN starving :
           /\ starving[n] = s
           /\ starving' = SubSeq(starving, 1, n - 1) \o SubSeq(starving, n + 1, Len(starving))
  BY DEF StopStarvation
<1>2. /\ at[i] = "stop" /\ at' = [at EXCEPT ![i] = "release"]
      /\ starved' = [starved EXCEPT ![s] = FALSE]
      /\ UNCHANGED <<pool, allocCount, poolToCreate, mutex, serves>>
      /\ UNCHANGED <<running, suspended, toCreate, fromShared, unused>>
      /\ UNCHANGED <<queue, emptyEvent, stopCount, owner, aggressive>>
  BY DEF StopStarvation, Goto, lists, jobs
<1> HIDE DEF s
<1>3. /\ OnceIn(Scheduler, starving) /\ at \in [Thread -> Control]
      /\ starved \in [Scheduler -> BOOLEAN] /\ s = serves[i]
  BY DEF IInv, Types, Starvation, OnceIn, s
<1>4. OnceIn(Scheduler, starving') /\ \A r \in Scheduler : Has(starving', r) <=> Has(starving, r) /\ r # s
  BY <1>1, <1>3, WithoutOnce
<1>5. /\ at' \in [Thread -> Control]
      /\ \A t \in Thread : at'[t] = IF t = i THEN "release" ELSE at[t]
      /\ starved' \in [Scheduler -> BOOLEAN]
      /\ \A r \in Scheduler : starved'[r] = IF r = s THEN FALSE ELSE starved[r]
  BY <1>0, <1>2, <1>3 DEF Control
<1>6. Types'
  BY <1>2, <1>4, <1>5 DEF IInv, Types, OnceIn
<1>7. Places'
  BY <1>0, <1>2, <1>5, ThreadAssumption DEF IInv, Places
<1>8. Lists'
  BY <1>0, <1>2, <1>5, KeepLists DEF IInv, Lists, Thread
<1>9. Counters'
  BY <1>0, <1>2, <1>5, KeepCounters DEF IInv, Counters, Thread
<1>10. Starvation'
  <2>1. Listed(s)
    BY <1>1 DEF Listed
  <2>2. \A t \in Thread : Registers(t) => serves[t] # s
    BY <2>1 DEF IInv, Starvation
  <2>3. \A t \in Thread : Registers(t)' <=> Registers(t)
    BY <1>0, <1>2, <1>5 DEF Registers
  <2>4. \A r \in Scheduler : Listed(r)' <=> Listed(r) /\ r # s
    BY <1>4 DEF Has, Listed
  <2>5. \A r \in Scheduler :
            starved[r] <=> Listed(r) \/ \E t \in Thread : serves[t] = r /\ Registers(t)
    BY DEF IInv, Starvation, StarvedIsKnown, Listed, Registers
  <2>6. \A r \in Scheduler :
            starved'[r] <=> Listed(r)' \/ \E t \in Thread : serves'[t] = r /\ Registers(t)'
    BY <1>2, <1>5, <2>2, <2>3, <2>4, <2>5
  <2>7. StarvedIsKnown'
    BY <2>6 DEF StarvedIsKnown, Listed, Registers
  <2>8. \A t \in Thread : Registers(t) => serves[t] \in Scheduler
    BY DEF IInv, Places, Registers
  <2>9. \A t \in Thread : Registers(t)' => ~Listed(serves[t])'
    BY <2>3, <2>4, <2>8, <1>2 DEF IInv, Starvation
  <2>10. \A t, u \in Thread : Registers(t)' /\ Registers(u)' /\ serves'[t] = serves'[u] => t = u
    BY <1>2, <2>3 DEF IInv, Starvation
  <2> QED BY <1>2, <1>4, <2>7, <2>9, <2>10 DEF Starvation, OnceIn
<1>11. Mutexes'
  <2>1. "stop" \in Own /\ "release" \in Own /\ "stop" \notin Other /\ "release" \notin Other
    BY DEF Own, Other
  <2>2. \A j \in Info : j \in Thread
    BY DEF Thread
  <2>3. \A t \in Thread : at'[t] \in Own <=> at[t] \in Own
    BY <1>0, <1>2, <1>5, <2>1
  <2>4. \A t \in Thread : at'[t] \in Other <=> at[t] \in Other
    BY <1>0, <1>2, <1>5, <2>1
  <2>5. \A r \in Scheduler : mutex[r] # Nobody => mutex[r] \in Thread
    BY DEF IInv, Types
  <2>6. \A r \in Scheduler : ~starved[r] => ~starved'[r]
    BY <1>5
  <2>7. \A j \in Info : at'[j] = "release" => ~starved'[serves[j]]
    <3> SUFFICES ASSUME NEW j \in Info, at'[j] = "release"  PROVE ~starved'[serves[j]]
      OBVIOUS
    <3>1. CASE j = i
      BY <1>0, <1>3, <1>5, <3>1
    <3>2. CASE j # i
      BY <1>5, <2>2, <2>6, <3>2 DEF IInv, Mutexes, Places
    <3> QED BY <3>1, <3>2
  <2> QED BY <1>2, <2>2, <2>3, <2>4, <2>5, <2>6, <2>7 DEF IInv, Mutexes
<1> QED BY <1>6, <1>7, <1>8, <1>9, <1>10, <1>11 DEF IInv

\* A thread gets back into the pool.
LEMMA ReleaseStep == ASSUME IInv, NEW i \in Info, Release(i)  PROVE IInv'
<1> DEFINE s == serves[i]
<1>0. /\ at[i] = "release" /\ i \in Thread /\ s \in Scheduler /\ s # NoScheduler
      /\ owner[i] = s /\ i \in running[s] /\ fromShared[s] > 0
      /\ i \notin pool /\ mutex[s] = i /\ ~starved[s]
  <2>1. at[i] = "release" /\ i \in Thread
    BY DEF Release, Thread
  <2>2. s \in Scheduler /\ s # NoScheduler
    BY <2>1, SchedulerAssumption DEF IInv, Places
  <2>3. mutex[s] = i /\ ~starved[s]
    BY <2>1 DEF IInv, Mutexes, Own
  <2>4. owner[i] = s /\ fromShared[s] > 0
    BY <2>1 DEF IInv, Lists, Counters
  <2> QED BY <2>1, <2>2, <2>3, <2>4 DEF IInv, Lists
<1>1. /\ at' = [at EXCEPT ![i] = IF starving = <<>> THEN "asleep" ELSE "select"]
      /\ GoesIdle(s, i) /\ fromShared' = Add(fromShared, s, -1)
      /\ owner' = [owner EXCEPT ![i] = NoScheduler]
      /\ pool' = pool \cup {i} /\ allocCount' = allocCount - 1
      /\ serves' = [serves EXCEPT ![i] = NoScheduler]
      /\ mutex' = IF starving = <<>> THEN [mutex EXCEPT ![s] = Nobody] ELSE mutex
      /\ UNCHANGED <<poolToCreate, starving, suspended, toCreate>>
      /\ UNCHANGED <<queue, stopCount, aggressive, starved>>
  BY DEF Release, Disowned, Goto, Serve, Unlock
<1> HIDE DEF s
<1>2. /\ Types /\ at \in [Thread -> Control] /\ mutex \in [Scheduler -> Thread \cup {Nobody}]
      /\ owner \in [Info -> Scheduler \cup {NoScheduler}] /\ s = serves[i]
      /\ serves \in [Thread -> Scheduler \cup {NoScheduler}]
      /\ \A r \in Scheduler : IsFiniteSet(suspended[r])
      /\ IsFiniteSet(pool) /\ IsFiniteSet(Debts) /\ allocCount \in Int
  BY <1>0 DEF IInv, Types, Counters, s
<1>3. /\ running' \in [Scheduler -> SUBSET Info] /\ unused' \in [Scheduler -> Int]
      /\ emptyEvent' \in [Scheduler -> BOOLEAN]
      /\ \A r \in Scheduler : running'[r] = IF r = s THEN running[s] \ {i} ELSE running[r]
      /\ \A r \in Scheduler : IsFiniteSet(running'[r])
      /\ \A r \in Scheduler : unused'[r] = IF r = s THEN unused[s] + 1 ELSE unused[r]
      /\ Cardinality(running'[s]) = Cardinality(running[s]) - 1
      /\ Cardinality(running[s]) \in Nat /\ Cardinality(running'[s]) \in Nat
  BY <1>0, <1>1, <1>2, GoesIdleFacts
<1>4. /\ owner' \in [Info -> Scheduler \cup {NoScheduler}]
      /\ \A j \in Info : owner'[j] = IF j = i THEN NoScheduler ELSE owner[j]
      /\ serves' \in [Thread -> Scheduler \cup {NoScheduler}]
      /\ \A t \in Thread : serves'[t] = IF t = i THEN NoScheduler ELSE serves[t]
      /\ at' \in [Thread -> Control]
      /\ at'[i] = IF starving = <<>> THEN "asleep" ELSE "select"
      /\ \A t \in Thread : t # i => at'[t] = at[t]
      /\ mutex' \in [Scheduler -> Thread \cup {Nobody}]
      /\ \A r \in Scheduler : r # s => mutex'[r] = mutex[r]
      /\ mutex'[s] = IF starving = <<>> THEN Nobody ELSE i
  BY <1>0, <1>1, <1>2 DEF Control
<1>5. /\ IsFiniteSet(Debts') /\ Cardinality(Debts') = Cardinality(Debts) - 1
      /\ fromShared' \in [Scheduler -> Nat]
      /\ \A r \in Scheduler : fromShared'[r] = IF r = s THEN fromShared[s] - 1 ELSE fromShared[r]
  BY <1>0, <1>1, <1>2, DebtsLess
<1>6. /\ pool' \subseteq Info /\ IsFiniteSet(pool')
      /\ Cardinality(pool) \in Nat /\ Cardinality(pool') = Cardinality(pool) + 1
  BY <1>0, <1>1, <1>2, FS_AddElement, FS_CardinalityType DEF Types
<1>7. Types'
  <2>1. allocCount' \in Int
    BY <1>1, <1>2
  <2>2. \A r \in Scheduler : IsFiniteSet(running'[r]) /\ IsFiniteSet(suspended'[r])
    BY <1>1, <1>2, <1>3
  <2>3. /\ UNCHANGED <<poolToCreate, starving, suspended, toCreate>>
        /\ UNCHANGED <<queue, stopCount, aggressive, starved>>
    BY <1>1
  <2> QED BY ONLY <1>2, <1>3, <1>4, <1>5, <1>6, <2>1, <2>2, <2>3 DEF Types
<1>8. Places'
  BY <1>0, <1>1, <1>4, ThreadAssumption DEF IInv, Places
<1>9. Lists'
  BY <1>0, <1>1, <1>2, <1>3, <1>4, SchedulerAssumption DEF IInv, Lists, Thread
<1>10. Counters'
  <2>1. CountersMatch'
    <3>0. allocCount' = allocCount - 1 /\ UNCHANGED <<suspended, toCreate, poolToCreate>>
      BY <1>1
    <3>1. Cardinality(pool') + allocCount' + poolToCreate = maxCount
      <4>1. Cardinality(pool) + allocCount + poolToCreate = maxCount /\ poolToCreate \in Nat
        BY <1>2 DEF IInv, Counters, CountersMatch, Types
      <4> QED BY <1>2, <1>6, <3>0, <4>1, CountAssumption
    <3>2. ASSUME NEW r \in Scheduler
          PROVE  /\ Cardinality(running'[r]) + Cardinality(suspended[r]) + toCreate[r]
                        = threadCount[r] + fromShared'[r]
                 /\ unused'[r] = Cardinality(suspended[r]) + toCreate[r]
                                     + sharedThreads[r] - fromShared'[r]
      <4>1. /\ Cardinality(running[r]) + Cardinality(suspended[r]) + toCreate[r]
                   = threadCount[r] + fromShared[r]
            /\ unused[r] = Cardinality(suspended[r]) + toCreate[r]
                               + sharedThreads[r] - fromShared[r]
        BY DEF IInv, Counters, CountersMatch, Active
      <4>2. /\ toCreate[r] \in Nat /\ sharedThreads[r] \in Nat /\ fromShared[r] \in Nat
            /\ threadCount[r] \in Nat /\ Cardinality(suspended[r]) \in Nat
        BY <1>2, CountAssumption, FS_CardinalityType DEF Types
      <4> QED BY <1>3, <1>5, <4>1, <4>2
    <3> QED BY <3>0, <3>1, <3>2 DEF CountersMatch, Active
  <2>2. BorrowsOnlyInNeed'
    BY <1>0, <1>1, <1>2, <1>5 DEF IInv, Counters, BorrowsOnlyInNeed, Types
  <2>3. \A r \in Scheduler : fromShared'[r] <= sharedThreads[r]
    <3> SUFFICES ASSUME NEW r \in Scheduler  PROVE fromShared'[r] <= sharedThreads[r]
      OBVIOUS
    <3>1. fromShared[r] \in Nat /\ sharedThreads[r] \in Nat /\ fromShared[r] <= sharedThreads[r]
      BY CountAssumption DEF IInv, Counters, Types
    <3> QED BY <1>5, <3>1
  <2>4. \A j \in Info : at'[j] \in {"stop", "release"} => fromShared'[serves'[j]] > 0
    <3> SUFFICES ASSUME NEW j \in Info, at'[j] \in {"stop", "release"}
                 PROVE  fromShared'[serves'[j]] > 0
      OBVIOUS
    <3>1. j # i /\ j \in Thread
      BY <1>0, <1>4 DEF Thread
    <3>2. at[j] \in {"stop", "release"} /\ serves'[j] = serves[j]
      BY <1>4, <3>1
    <3>3. mutex[serves[j]] = j /\ serves[j] \in Scheduler /\ fromShared[serves[j]] > 0
      BY <3>1, <3>2 DEF IInv, Mutexes, Places, Counters, Own
    <3> QED BY <1>0, <1>5, <3>1, <3>2, <3>3
  <2> QED BY <1>1, <1>2, <1>5, <2>1, <2>2, <2>3, <2>4 DEF IInv, Counters
<1>11. Starvation'
  BY <1>0, <1>1, <1>4, KeepStarvation DEF IInv
<1>12. Mutexes'
  <2>1. \A r \in Scheduler : mutex[r] = i => r = s
    BY <1>0, <1>2, ThreadAssumption DEF IInv, Mutexes, Other
  <2>2. \A t \in Thread : at'[t] \in Own => mutex'[serves'[t]] = t
    BY <1>0, <1>4 DEF IInv, Mutexes, Places, Own
  <2>3. \A j \in Info : at'[j] \in Other => \E r \in Scheduler : mutex'[r] = j /\ r # serves'[j]
    <3> SUFFICES ASSUME NEW j \in Info, at'[j] \in Other
                 PROVE  \E r \in Scheduler : mutex'[r] = j /\ r # serves'[j]
      OBVIOUS
    <3>1. CASE j = i
      BY <1>0, <1>4, <3>1 DEF Other
    <3>2. CASE j # i
      BY <1>0, <1>4, <3>2 DEF IInv, Mutexes, Thread
    <3> QED BY <3>1, <3>2
  <2>4. \A r \in Scheduler : mutex'[r] # Nobody =>
           IF serves'[mutex'[r]] = r THEN at'[mutex'[r]] \in Own
           ELSE mutex'[r] \in Info /\ at'[mutex'[r]] \in Other /\ ~starved[r]
    <3> SUFFICES ASSUME NEW r \in Scheduler, mutex'[r] # Nobody
                 PROVE  IF serves'[mutex'[r]] = r THEN at'[mutex'[r]] \in Own
                        ELSE mutex'[r] \in Info /\ at'[mutex'[r]] \in Other /\ ~starved[r]
      OBVIOUS
    <3>1. CASE r = s
      BY <1>0, <1>4, <3>1 DEF Other
    <3>2. CASE r # s
      BY <1>2, <1>4, <2>1, <3>2 DEF IInv, Mutexes
    <3> QED BY <3>1, <3>2
  <2>5. \A r, q \in Scheduler :
           mutex'[r] # Nobody /\ mutex'[r] = mutex'[q]
               /\ serves'[mutex'[r]] # r /\ serves'[mutex'[r]] # q => r = q
    BY <1>0, <1>2, <1>4, <2>1 DEF IInv, Mutexes
  <2>6. \A j \in Info : at'[j] = "release" => ~starved[serves'[j]]
    BY <1>0, <1>4 DEF IInv, Mutexes, Thread
  <2> QED BY <1>1, <2>2, <2>3, <2>4, <2>5, <2>6 DEF Mutexes
<1> QED BY <1>7, <1>8, <1>9, <1>10, <1>11, <1>12 DEF IInv

\* A thread looks for a starving scheduler with one mutex in its hands, of a scheduler
\* that does not starve.
LEMMA HomeFacts ==
    ASSUME IInv, NEW i \in Info, at[i] = "select"
    PROVE  /\ Home(i) \in Scheduler /\ mutex[Home(i)] = i /\ ~starved[Home(i)]
           /\ \A r \in Scheduler : mutex[r] = i => r = Home(i)
           /\ serves[i] = NoScheduler /\ i \in Thread /\ i # Nobody
<1>1. i \in Thread /\ i # Nobody /\ serves[i] = NoScheduler
  BY ThreadAssumption DEF IInv, Places, Thread
<1>2. \E r \in Scheduler : mutex[r] = i /\ r # serves[i]
  BY DEF IInv, Mutexes, Other
<1>3. Home(i) \in Scheduler /\ mutex[Home(i)] = i
  BY <1>2 DEF Home
<1>4. \A r \in Scheduler : r # NoScheduler
  BY SchedulerAssumption
<1> QED BY <1>1, <1>3, <1>4 DEF IInv, Mutexes

\* There is no scheduler left that starves, or no thread for it.
LEMMA SelectNobody ==
    ASSUME IInv, NEW i \in Info, at[i] = "select",
           mutex' = [mutex EXCEPT ![Home(i)] = Nobody],
           at' = [at EXCEPT ![i] = IF owner[i] = NoScheduler THEN "asleep" ELSE "assign"],
           UNCHANGED <<pool, allocCount, poolToCreate, starving, serves>>,
           UNCHANGED <<running, suspended, toCreate, fromShared, unused>>,
           UNCHANGED <<queue, emptyEvent, stopCount, owner, aggressive, starved>>
    PROVE  IInv'
<1> DEFINE h == Home(i)
<1>1. /\ h \in Scheduler /\ mutex[h] = i /\ i \in Thread /\ i # Nobody
      /\ \A r \in Scheduler : mutex[r] = i => r = h
  BY HomeFacts
<1>2. mutex' = [mutex EXCEPT ![h] = Nobody]
  OBVIOUS
<1> HIDE DEF h
<1>3. /\ mutex' \in [Scheduler -> Thread \cup {Nobody}]
      /\ \A r \in Scheduler : mutex'[r] = IF r = h THEN Nobody ELSE mutex[r]
      /\ at' \in [Thread -> Control] /\ at'[i] \in {"asleep", "assign"}
      /\ at'[i] = "asleep" <=> owner[i] = NoScheduler
      /\ \A t \in Thread : t # i => at'[t] = at[t]
  BY <1>1, <1>2 DEF IInv, Types, Control
<1>4. Types'
  BY <1>3 DEF IInv, Types
<1>5. Places'
  BY <1>1, <1>3, ThreadAssumption DEF IInv, Places
<1>6. Lists'
  BY <1>1, <1>3, SchedulerAssumption DEF IInv, Lists, Thread
<1>7. Counters'
  BY <1>1, <1>3, KeepCounters DEF IInv, Counters, Thread
<1>8. Starvation'
  BY <1>1, <1>3, KeepStarvation DEF IInv
<1>9. Mutexes'
  <2>1. at'[i] \notin Own \cup Other /\ "release" \in Own
    BY <1>3 DEF Own, Other
  <2>2. \A t \in Thread : at'[t] \in Own => mutex'[serves[t]] = t
    <3> SUFFICES ASSUME NEW t \in Thread, at'[t] \in Own  PROVE mutex'[serves[t]] = t
      OBVIOUS
    <3>1. t # i /\ at[t] \in Own
      BY <1>3, <2>1
    <3>2. mutex[serves[t]] = t /\ serves[t] \in Scheduler
      BY <3>1 DEF IInv, Mutexes, Places, Own
    <3> QED BY <1>1, <1>3, <3>1, <3>2
  <2>3. \A j \in Info : at'[j] \in Other => \E r \in Scheduler : mutex'[r] = j /\ r # serves[j]
    BY <1>1, <1>3, <2>1 DEF IInv, Mutexes, Thread
  <2>4. \A r \in Scheduler : mutex'[r] # Nobody => mutex'[r] = mutex[r] /\ mutex[r] # i
    BY <1>1, <1>3
  <2>5. \A r \in Scheduler : mutex'[r] # Nobody => mutex[r] \in Thread /\ at'[mutex[r]] = at[mutex[r]]
    BY <1>3, <2>4, Holder DEF IInv
  <2>6. \A j \in Info : at'[j] = "release" => at[j] = "release"
    BY <1>3 DEF Thread
  <2> QED BY <2>2, <2>3, <2>4, <2>5, <2>6 DEF IInv, Mutexes
<1> QED BY <1>4, <1>5, <1>6, <1>7, <1>8, <1>9 DEF IInv

\* The first in the list is taken out of it.
LEMMA SelectHead ==
    ASSUME IInv, NEW i \in Info, at[i] = "select", starving # <<>>,
           starving' = Tail(starving),
           serves' = [serves EXCEPT ![i] = Head(starving)],
           at' = [at EXCEPT ![i] = "notify"],
           UNCHANGED <<pool, allocCount, poolToCreate, mutex>>,
           UNCHANGED <<running, suspended, toCreate, fromShared, unused>>,
           UNCHANGED <<queue, emptyEvent, stopCount, owner, aggressive, starved>>
    PROVE  IInv'
<1> DEFINE s == Head(starving)
           h == Home(i)
<1>1. /\ h \in Scheduler /\ mutex[h] = i /\ i \in Thread /\ i # Nobody /\ ~starved[h]
      /\ \A r \in Scheduler : mutex[r] = i => r = h
  BY HomeFacts
<1>2. OnceIn(Scheduler, starving)
  BY DEF IInv, Types, Starvation, OnceIn
<1>3. /\ s \in Scheduler /\ Has(starving, s) /\ OnceIn(Scheduler, starving')
      /\ \A r \in Scheduler : Has(starving', r) <=> Has(starving, r) /\ r # s
  BY <1>2, TailOnce
<1>4. serves' = [serves EXCEPT ![i] = s]
  OBVIOUS
<1> HIDE DEF s, h
<1>5. /\ at' \in [Thread -> Control]
      /\ \A t \in Thread : at'[t] = IF t = i THEN "notify" ELSE at[t]
      /\ serves' \in [Thread -> Scheduler \cup {NoScheduler}]
      /\ \A t \in Thread : serves'[t] = IF t = i THEN s ELSE serves[t]
  BY <1>1, <1>3, <1>4 DEF IInv, Types, Control
<1>6. Types'
  BY <1>3, <1>5 DEF IInv, Types, OnceIn
<1>7. Places'
  BY <1>1, <1>3, <1>5, ThreadAssumption DEF IInv, Places
<1>8. Lists'
  BY <1>1, <1>5, KeepLists DEF IInv, Lists, Thread
<1>9. Counters'
  BY <1>1, <1>5, KeepCounters DEF IInv, Counters, Thread
<1>10. starved[s] /\ Listed(s)
  <2>1. Listed(s)
    BY <1>3 DEF Has, Listed
  <2> QED BY <1>3, <2>1 DEF IInv, Starvation, StarvedIsKnown, Listed
<1>11. Starvation'
  <2>2. \A t \in Thread : Registers(t) => serves[t] # s
    BY <1>10 DEF IInv, Starvation
  <2>3. /\ \A t \in Thread : t # i => (Registers(t)' <=> Registers(t))
        /\ ~Registers(i) /\ Registers(i)'
    BY <1>1, <1>5 DEF Registers
  <2>4. \A r \in Scheduler : Listed(r)' <=> Listed(r) /\ r # s
    BY <1>3 DEF Has, Listed
  <2>5. \A r \in Scheduler :
            starved[r] <=> Listed(r) \/ \E t \in Thread : serves[t] = r /\ Registers(t)
    BY DEF IInv, Starvation, StarvedIsKnown, Listed, Registers
  <2>6. \A r \in Scheduler :
            starved'[r] <=> Listed(r)' \/ \E t \in Thread : serves'[t] = r /\ Registers(t)'
    <3> SUFFICES ASSUME NEW r \in Scheduler
                 PROVE  starved[r] <=> Listed(r)' \/ \E t \in Thread : serves'[t] = r /\ Registers(t)'
      OBVIOUS
    <3>1. CASE r = s
      BY <1>1, <1>5, <1>10, <2>3, <3>1
    <3>2. CASE r # s
      BY <1>1, <1>5, <2>3, <2>4, <2>5, <3>2
    <3> QED BY <3>1, <3>2
  <2>7. StarvedIsKnown'
    BY <2>6 DEF StarvedIsKnown, Listed, Registers
  <2>8. \A t \in Thread : Registers(t) => serves[t] \in Scheduler
    BY DEF IInv, Places, Registers
  <2>9. \A t \in Thread : Registers(t)' => ~Listed(serves[t])'
    <3> SUFFICES ASSUME NEW t \in Thread, Registers(t)'  PROVE ~Listed(serves[t])'
      OBVIOUS
    <3>1. PICK r : r = serves'[t]
      OBVIOUS
    <3>2. r \in Scheduler /\ ~Listed(r)'
      BY <1>3, <1>5, <2>2, <2>3, <2>4, <2>8, <3>1 DEF IInv, Starvation
    <3> QED BY <3>1, <3>2 DEF Listed
  <2>10. \A t, u \in Thread : Registers(t)' /\ Registers(u)' /\ serves'[t] = serves'[u] => t = u
    BY <1>5, <2>2, <2>3 DEF IInv, Starvation
  <2> QED BY <1>3, <2>7, <2>9, <2>10 DEF Starvation, OnceIn
<1>12. Mutexes'
  <2>1. s # h /\ s # NoScheduler
    BY <1>1, <1>3, <1>10, SchedulerAssumption
  <2>2. \A t \in Thread : at'[t] \in Own => mutex[serves'[t]] = t
    BY <1>5 DEF IInv, Mutexes, Own
  <2>3. \A j \in Info : at'[j] \in Other => \E r \in Scheduler : mutex[r] = j /\ r # serves'[j]
    BY <1>1, <1>5, <2>1 DEF IInv, Mutexes, Thread
  <2>4. \A r \in Scheduler : mutex[r] # Nobody =>
           IF serves'[mutex[r]] = r THEN at'[mutex[r]] \in Own
           ELSE mutex[r] \in Info /\ at'[mutex[r]] \in Other /\ ~starved[r]
    <3> SUFFICES ASSUME NEW r \in Scheduler, mutex[r] # Nobody
                 PROVE  IF serves'[mutex[r]] = r THEN at'[mutex[r]] \in Own
                        ELSE mutex[r] \in Info /\ at'[mutex[r]] \in Other /\ ~starved[r]
      OBVIOUS
    <3>1. CASE r = h
      BY <1>1, <1>5, <2>1, <3>1 DEF Other
    <3>2. CASE r # h
      <4>1. mutex[r] \in Thread /\ mutex[r] # i
        BY <1>1, <3>2, Holder DEF IInv
      <4> QED BY <1>5, <4>1 DEF IInv, Mutexes
    <3> QED BY <3>1, <3>2
  <2>5. \A r, q \in Scheduler :
           mutex[r] # Nobody /\ mutex[r] = mutex[q]
               /\ serves'[mutex[r]] # r /\ serves'[mutex[r]] # q => r = q
    <3> SUFFICES ASSUME NEW r \in Scheduler, NEW q \in Scheduler,
                        mutex[r] # Nobody, mutex[r] = mutex[q],
                        serves'[mutex[r]] # r, serves'[mutex[r]] # q
                 PROVE  r = q
      OBVIOUS
    <3>1. CASE mutex[r] = i
      BY <1>1, <3>1
    <3>2. CASE mutex[r] # i
      <4>1. mutex[r] \in Thread
        BY Holder DEF IInv
      <4> QED BY <1>5, <3>2, <4>1 DEF IInv, Mutexes
    <3> QED BY <3>1, <3>2
  <2>6. \A j \in Info : at'[j] = "release" => ~starved[serves'[j]]
    BY <1>5 DEF IInv, Mutexes, Thread
  <2> QED BY <2>2, <2>3, <2>4, <2>5, <2>6 DEF Mutexes
<1> QED BY <1>6, <1>7, <1>8, <1>9, <1>11, <1>12 DEF IInv

\* The thread asks the pool for the next starving scheduler: there is one or there is none.
LEMMA SelectStarvingStep == ASSUME IInv, NEW i \in Info, SelectStarving(i)  PROVE IInv'
<1>1. CASE starving = <<>> \/ pool = {}
  BY <1>1, SelectNobody DEF SelectStarving, Unlock, Goto, lists, jobs
<1>2. CASE ~(starving = <<>> \/ pool = {})
  BY <1>2, SelectHead DEF SelectStarving, Serve, Goto, lists, jobs
<1> QED BY <1>1, <1>2

\* The starving scheduler is notified: its flag goes together with its place in the list.
LEMMA ThreadAvailableStep == ASSUME IInv, NEW i \in Info, ThreadAvailable(i)  PROVE IInv'
<1> DEFINE s == serves[i]
<1>0. s \in Scheduler /\ i \in Thread /\ i # Nobody /\ at[i] = "notify" /\ mutex[s] = Nobody
  BY ThreadAssumption DEF IInv, ThreadAvailable, Places, Thread, Free
<1>1. /\ mutex' = [mutex EXCEPT ![s] = i] /\ at' = [at EXCEPT ![i] = "offer"]
      /\ starved' = [starved EXCEPT ![s] = FALSE]
      /\ UNCHANGED <<pool, allocCount, poolToCreate, starving, serves>>
      /\ UNCHANGED <<running, suspended, toCreate, fromShared, unused>>
      /\ UNCHANGED <<queue, emptyEvent, stopCount, owner, aggressive>>
  BY DEF ThreadAvailable, Lock, Goto, poolVars, lists, jobs
<1>2. s = serves[i]
  OBVIOUS
<1> HIDE DEF s
<1>3. /\ at' \in [Thread -> Control]
      /\ \A t \in Thread : at'[t] = IF t = i THEN "offer" ELSE at[t]
      /\ mutex' \in [Scheduler -> Thread \cup {Nobody}]
      /\ \A r \in Scheduler : mutex'[r] = IF r = s THEN i ELSE mutex[r]
      /\ starved' \in [Scheduler -> BOOLEAN]
      /\ \A r \in Scheduler : starved'[r] = IF r = s THEN FALSE ELSE starved[r]
  BY <1>0, <1>1 DEF IInv, Types, Control
<1>4. Types'
  BY <1>1, <1>3 DEF IInv, Types
<1>5. Places'
  BY <1>0, <1>1, <1>2, <1>3, ThreadAssumption DEF IInv, Places
<1>6. Lists'
  BY <1>0, <1>1, <1>3, KeepLists DEF IInv, Lists, Thread
<1>7. Counters'
  BY <1>0, <1>1, <1>3, KeepCounters DEF IInv, Counters, Thread
<1>8. Starvation'
  <2>1. Registers(i) /\ ~Listed(s)
    BY <1>0, <1>2 DEF IInv, Starvation, Registers
  <2>2. \A t \in Thread : t # i /\ Registers(t) => serves[t] # s
    BY <1>0, <1>2, <2>1 DEF IInv, Starvation
  <2>3. /\ \A t \in Thread : t # i => (Registers(t)' <=> Registers(t))
        /\ ~Registers(i)'
    BY <1>0, <1>3 DEF Registers
  <2>4. \A r \in Scheduler : Listed(r)' <=> Listed(r)
    BY <1>1 DEF Listed
  <2>5. \A r \in Scheduler :
            starved[r] <=> Listed(r) \/ \E t \in Thread : serves[t] = r /\ Registers(t)
    BY DEF IInv, Starvation, StarvedIsKnown, Listed, Registers
  <2>6. \A r \in Scheduler :
            starved'[r] <=> Listed(r)' \/ \E t \in Thread : serves'[t] = r /\ Registers(t)'
    <3> SUFFICES ASSUME NEW r \in Scheduler
                 PROVE  starved'[r] <=> Listed(r)' \/ \E t \in Thread : serves'[t] = r /\ Registers(t)'
      OBVIOUS
    <3>1. CASE r = s
      BY <1>0, <1>1, <1>3, <2>1, <2>2, <2>3, <2>4, <3>1
    <3>2. CASE r # s
      BY <1>0, <1>1, <1>2, <1>3, <2>3, <2>4, <2>5, <3>2
    <3> QED BY <3>1, <3>2
  <2>7. StarvedIsKnown'
    BY <2>6 DEF StarvedIsKnown, Listed, Registers
  <2>8. \A t \in Thread : Registers(t)' => ~Listed(serves[t])'
    BY <1>1, <2>3 DEF IInv, Starvation, Listed
  <2>9. \A t, u \in Thread : Registers(t)' /\ Registers(u)' /\ serves'[t] = serves'[u] => t = u
    BY <1>1, <2>3 DEF IInv, Starvation
  <2> QED BY <1>1, <2>7, <2>8, <2>9 DEF IInv, Starvation
<1>9. Mutexes'
  <2>1. PICK h \in Scheduler : mutex[h] = i /\ h # s
    BY <1>0, <1>2 DEF IInv, Mutexes, Other
  <2>2. \A r \in Scheduler : mutex[r] = i => r = h
    BY <1>0, <1>2, <2>1 DEF IInv, Mutexes
  <2>3. \A t \in Thread : at'[t] \in Own => mutex'[serves[t]] = t
    <3> SUFFICES ASSUME NEW t \in Thread, at'[t] \in Own  PROVE mutex'[serves[t]] = t
      OBVIOUS
    <3>1. CASE t = i
      BY <1>0, <1>2, <1>3, <3>1
    <3>2. CASE t # i
      <4>1. mutex[serves[t]] = t /\ serves[t] \in Scheduler /\ t # Nobody
        BY <1>3, <3>2, ThreadAssumption DEF IInv, Mutexes, Places, Own
      <4> QED BY <1>0, <1>3, <4>1
    <3> QED BY <3>1, <3>2
  <2>4. \A j \in Info : at'[j] \in Other => \E r \in Scheduler : mutex'[r] = j /\ r # serves[j]
    <3> SUFFICES ASSUME NEW j \in Info, at'[j] \in Other
                 PROVE  \E r \in Scheduler : mutex'[r] = j /\ r # serves[j]
      OBVIOUS
    <3>1. CASE j = i
      BY <1>2, <1>3, <2>1, <3>1
    <3>2. CASE j # i
      <4>1. PICK r \in Scheduler : mutex[r] = j /\ r # serves[j]
        BY <1>3, <3>2 DEF IInv, Mutexes, Thread
      <4>2. r # s
        BY <1>0, <4>1, ThreadAssumption DEF Thread
      <4> QED BY <1>3, <4>1, <4>2
    <3> QED BY <3>1, <3>2
  <2>5. \A r \in Scheduler : mutex'[r] # Nobody =>
           IF serves[mutex'[r]] = r THEN at'[mutex'[r]] \in Own
           ELSE mutex'[r] \in Info /\ at'[mutex'[r]] \in Other /\ ~starved'[r]
    <3> SUFFICES ASSUME NEW r \in Scheduler, mutex'[r] # Nobody
                 PROVE  IF serves[mutex'[r]] = r THEN at'[mutex'[r]] \in Own
                        ELSE mutex'[r] \in Info /\ at'[mutex'[r]] \in Other /\ ~starved'[r]
      OBVIOUS
    <3>1. CASE r = s
      BY <1>0, <1>2, <1>3, <3>1 DEF Own
    <3>2. CASE r = h
      BY <1>0, <1>2, <1>3, <2>1, <3>2 DEF IInv, Mutexes, Other
    <3>3. CASE r # s /\ r # h
      <4>1. mutex[r] \in Thread /\ mutex[r] # i /\ mutex'[r] = mutex[r]
        BY <1>3, <2>2, <3>3, Holder DEF IInv
      <4> QED BY <1>3, <3>3, <4>1 DEF IInv, Mutexes
    <3> QED BY <3>1, <3>2, <3>3
  <2>6. \A r, q \in Scheduler :
           mutex'[r] # Nobody /\ mutex'[r] = mutex'[q]
               /\ serves[mutex'[r]] # r /\ serves[mutex'[r]] # q => r = q
    <3> SUFFICES ASSUME NEW r \in Scheduler, NEW q \in Scheduler,
                        mutex'[r] # Nobody, mutex'[r] = mutex'[q],
                        serves[mutex'[r]] # r, serves[mutex'[r]] # q
                 PROVE  r = q
      OBVIOUS
    <3>1. r # s /\ q # s
      BY <1>0, <1>2, <1>3
    <3> QED BY <1>3, <3>1 DEF IInv, Mutexes
  <2>7. \A j \in Info : at'[j] = "release" => ~starved'[serves[j]]
    <3> SUFFICES ASSUME NEW j \in Info, at'[j] = "release"  PROVE ~starved'[serves[j]]
      OBVIOUS
    <3>1. j # i /\ j \in Thread /\ at[j] = "release"
      BY <1>3 DEF Thread
    <3>2. serves[j] \in Scheduler /\ ~starved[serves[j]]
      BY <3>1 DEF IInv, Mutexes, Places
    <3> QED BY <1>3, <3>2
  <2> QED BY <1>1, <2>3, <2>4, <2>5, <2>6, <2>7 DEF Mutexes
<1> QED BY <1>4, <1>5, <1>6, <1>7, <1>8, <1>9 DEF IInv

-------------------------------------------------------------------------------
(* Allocation.                                                             *)

\* Who allocates holds the mutex of the scheduler it serves.
LEMMA Allocating ==
    ASSUME IInv, NEW t \in Thread, at[t] \in {"schedule", "resume", "offer", "starve"}
    PROVE  /\ serves[t] \in Scheduler /\ mutex[serves[t]] = t
           /\ t # Nobody /\ at[t] \in Own
BY ThreadAssumption DEF IInv, Places, Mutexes, Own

\* The call ends, in one of three ways: a client is idle again, a thread goes on with the
\* list of starving schedulers.
LEMMA LeaveMutexes ==
    ASSUME IInv, NEW t \in Thread, at[t] \in {"schedule", "resume", "offer", "starve"},
           Leave(t), starved' = starved, at' \in [Thread -> Control],
           at'[t] = (IF t \in Client THEN "idle" ELSE "select"),
           \A u \in Thread : u # t =>
               \/ at'[u] = at[u]
               \/ at[u] \notin Own \cup Other /\ at'[u] \notin Own \cup Other
    PROVE  /\ Mutexes'
           /\ mutex' \in [Scheduler -> Thread \cup {Nobody}]
           /\ serves' \in [Thread -> Scheduler \cup {NoScheduler}]
           /\ \A u \in Thread : serves'[u] = IF u = t THEN NoScheduler ELSE serves[u]
<1> DEFINE s == serves[t]
<1>0. s \in Scheduler /\ mutex[s] = t /\ t # Nobody /\ at[t] \in Own
  BY Allocating
<1>1. mutex' = [mutex EXCEPT ![s] = Nobody] /\ serves' = [serves EXCEPT ![t] = NoScheduler]
  BY DEF Leave, Unlock, Serve
<1>2. s = serves[t]
  OBVIOUS
<1> HIDE DEF s
<1>3. /\ mutex' \in [Scheduler -> Thread \cup {Nobody}]
      /\ serves' \in [Thread -> Scheduler \cup {NoScheduler}]
      /\ \A u \in Thread : serves'[u] = IF u = t THEN NoScheduler ELSE serves[u]
      /\ \A r \in Scheduler : mutex'[r] = IF r = s THEN Nobody ELSE mutex[r]
  BY <1>0, <1>1 DEF IInv, Types
<1>4. \A u \in Thread : u # t /\ at'[u] \in Own \cup Other => at'[u] = at[u]
  OBVIOUS
<1>5. /\ t \in Client => t \notin Info /\ at[t] \notin {"select", "notify", "offer"}
      /\ t \notin Client => t \in Info
  BY ThreadAssumption DEF IInv, Places, Thread
<1>6. at'[t] \notin Own
  BY DEF Own
<1>7. \A r \in Scheduler : r # NoScheduler
  BY SchedulerAssumption
<1>8. \A u \in Thread : at'[u] \in Own => mutex'[serves'[u]] = u
  <2> SUFFICES ASSUME NEW u \in Thread, at'[u] \in Own  PROVE mutex'[serves'[u]] = u
    OBVIOUS
  <2>1. u # t /\ at[u] \in Own
    BY <1>4, <1>6
  <2>2. mutex[serves[u]] = u /\ serves[u] \in Scheduler
    BY <2>1 DEF IInv, Mutexes, Places, Own
  <2> QED BY <1>0, <1>3, <2>1, <2>2
<1>9. \A j \in Info : at'[j] \in Other => \E r \in Scheduler : mutex'[r] = j /\ r # serves'[j]
  <2> SUFFICES ASSUME NEW j \in Info, at'[j] \in Other
               PROVE  \E r \in Scheduler : mutex'[r] = j /\ r # serves'[j]
    OBVIOUS
  <2>0. j \in Thread
    BY DEF Thread
  <2>1. CASE j = t
    <3>1. at[t] \in Other
      BY <1>5, <2>1, ThreadAssumption DEF IInv, Places, Other
    <3>2. PICK r \in Scheduler : mutex[r] = t /\ r # serves[t]
      BY <2>1, <3>1 DEF IInv, Mutexes
    <3> QED BY <1>2, <1>3, <1>7, <2>0, <2>1, <3>2
  <2>2. CASE j # t
    <3>1. PICK r \in Scheduler : mutex[r] = j /\ r # serves[j]
      BY <1>4, <2>0, <2>2 DEF IInv, Mutexes
    <3> QED BY <1>0, <1>3, <2>0, <2>2, <3>1
  <2> QED BY <2>1, <2>2
<1>10. \A r \in Scheduler : mutex'[r] # Nobody =>
           /\ r # s /\ mutex'[r] = mutex[r] /\ mutex[r] \in Thread
           /\ at[mutex[r]] \in Own \cup Other
  BY <1>3, Holder DEF IInv
<1>11. ASSUME NEW r \in Scheduler, mutex'[r] # Nobody
       PROVE  IF serves'[mutex'[r]] = r THEN at'[mutex'[r]] \in Own
              ELSE mutex'[r] \in Info /\ at'[mutex'[r]] \in Other /\ ~starved[r]
  <2>1. CASE mutex[r] = t
    <3>1. t \in Info /\ at[t] \in Other /\ ~starved[r]
      BY <1>2, <1>10, <1>11, <2>1 DEF IInv, Mutexes
    <3>2. at'[t] \in Other /\ serves'[t] = NoScheduler
      BY <1>3, <3>1, ThreadAssumption DEF Other
    <3> QED BY <1>7, <1>10, <1>11, <2>1, <3>1, <3>2
  <2>2. CASE mutex[r] # t
    <3>1. at'[mutex[r]] = at[mutex[r]] /\ serves'[mutex[r]] = serves[mutex[r]]
      BY <1>3, <1>10, <1>11, <2>2
    <3> QED BY <1>10, <1>11, <3>1 DEF IInv, Mutexes
  <2> QED BY <2>1, <2>2
<1>12. ASSUME NEW r \in Scheduler, NEW q \in Scheduler,
              mutex'[r] # Nobody, mutex'[r] = mutex'[q],
              serves'[mutex'[r]] # r, serves'[mutex'[r]] # q
       PROVE  r = q
  <2>1. /\ mutex[r] # Nobody /\ mutex[r] = mutex[q] /\ r # s /\ q # s
        /\ mutex[r] \in Thread
    BY <1>10, <1>12
  <2>2. serves[mutex[r]] # r /\ serves[mutex[r]] # q
    BY <1>2, <1>3, <1>10, <1>12, <2>1
  <2> QED BY <2>1, <2>2 DEF IInv, Mutexes
<1>13. \A j \in Info : at'[j] = "release" => ~starved[serves'[j]]
  <2> SUFFICES ASSUME NEW j \in Info, at'[j] = "release"  PROVE ~starved[serves'[j]]
    OBVIOUS
  <2>1. j \in Thread /\ j # t
    BY DEF Thread
  <2>2. at[j] = "release"
    BY <1>4, <2>1 DEF Own
  <2> QED BY <1>3, <2>1, <2>2 DEF IInv, Mutexes
<1> QED BY <1>3, <1>8, <1>9, <1>11, <1>12, <1>13 DEF Mutexes

\* Thread i has got scheduler s: it is in its list, and what it did it goes on with.
Starts(s, i) ==
    /\ Places' /\ Starvation' /\ Mutexes'
    /\ mutex' \in [Scheduler -> Thread \cup {Nobody}]
    /\ serves' \in [Thread -> Scheduler \cup {NoScheduler}]
    /\ \A j \in Info : serves'[j] = serves[j]
    /\ at' \in [Thread -> Control]
    /\ at'[i] = IF at[i] \in {"none", "asleep"} THEN "assign" ELSE at[i]
    /\ \A j \in Info : j # i => at'[j] = at[j]
    /\ owner' \in [Info -> Scheduler \cup {NoScheduler}]
    /\ \A j \in Info : owner'[j] = IF j = i THEN s ELSE owner[j]
    /\ running' \in [Scheduler -> SUBSET Info]
    /\ \A r \in Scheduler : running'[r] = IF r = s THEN running[r] \cup {i} ELSE running[r]
    /\ unused' \in [Scheduler -> Int]
    /\ \A r \in Scheduler : unused'[r] = IF r = s THEN unused[r] - 1 ELSE unused[r]

\* A thread that starts is in the list of the scheduler that got it.
LEMMA StartedFacts ==
    ASSUME IInv, NEW t \in Thread, NEW i \in Info, at[t] \in {"schedule", "resume", "offer"},
           Started(t, i), starving' = starving, starved' = starved
    PROVE  Starts(serves[t], i)
<1> DEFINE s == serves[t]
<1>0. s \in Scheduler /\ i \in Thread /\ t \in Client \cup Info
  BY Allocating DEF Thread
<1>1. /\ running' = [running EXCEPT ![s] = @ \cup {i}]
      /\ unused' = [unused EXCEPT ![s] = @ + (-1)]
      /\ owner' = [owner EXCEPT ![i] = s]
      /\ at' = [at EXCEPT ![i] = IF @ \in {"none", "asleep"} THEN "assign" ELSE @,
                          ![t] = IF @ = "schedule" THEN "idle" ELSE @]
      /\ IF at[t] = "schedule" THEN Leave(t) ELSE UNCHANGED <<mutex, serves>>
  BY DEF Started, Add
<1>2. /\ at[t] = "schedule" => t \in Client /\ t \notin Info
      /\ t \in Info => at[t] = "offer"
  BY <1>0, ThreadAssumption DEF IInv, Places
<1>3. s = serves[t]
  OBVIOUS
<1> HIDE DEF s
<1>4. /\ running' \in [Scheduler -> SUBSET Info] /\ unused' \in [Scheduler -> Int]
      /\ owner' \in [Info -> Scheduler \cup {NoScheduler}]
      /\ \A j \in Info : owner'[j] = IF j = i THEN s ELSE owner[j]
      /\ \A r \in Scheduler : running'[r] = IF r = s THEN running[r] \cup {i} ELSE running[r]
      /\ \A r \in Scheduler : unused'[r] = IF r = s THEN unused[r] - 1 ELSE unused[r]
  <2>1. /\ running \in [Scheduler -> SUBSET Info] /\ unused \in [Scheduler -> Int]
        /\ owner \in [Info -> Scheduler \cup {NoScheduler}]
    BY DEF IInv, Types
  <2>2. /\ running' \in [Scheduler -> SUBSET Info]
        /\ \A r \in Scheduler : running'[r] = IF r = s THEN running[r] \cup {i} ELSE running[r]
    BY <1>0, <1>1, <2>1
  <2>3. /\ unused' \in [Scheduler -> Int]
        /\ \A r \in Scheduler : unused'[r] = IF r = s THEN unused[r] - 1 ELSE unused[r]
    BY <1>0, <1>1, <2>1
  <2>4. /\ owner' \in [Info -> Scheduler \cup {NoScheduler}]
        /\ \A j \in Info : owner'[j] = IF j = i THEN s ELSE owner[j]
    BY <1>0, <1>1, <2>1
  <2> QED BY <2>2, <2>3, <2>4
<1>5. at \in [Thread -> Control] /\ "assign" \in Control /\ "idle" \in Control
  BY DEF IInv, Types, Control
<1>6. /\ at' \in [Thread -> Control]
      /\ at'[i] = IF at[i] \in {"none", "asleep"} THEN "assign" ELSE at[i]
      /\ at'[t] = IF at[t] = "schedule" THEN "idle" ELSE at[t]
      /\ \A u \in Thread : u # i /\ u # t => at'[u] = at[u]
  BY <1>0, <1>1, <1>2, <1>5
<1>7. \A j \in Info : j # i => at'[j] = at[j]
  BY <1>2, <1>6 DEF Thread
<1>8. \A u \in Thread : u # t =>
          \/ at'[u] = at[u]
          \/ at[u] \notin Own \cup Other /\ at'[u] \notin Own \cup Other
  BY <1>6 DEF Own, Other
<1>9. /\ Mutexes'
      /\ mutex' \in [Scheduler -> Thread \cup {Nobody}]
      /\ serves' \in [Thread -> Scheduler \cup {NoScheduler}]
      /\ \A u \in Thread : serves'[u] = IF u = t /\ at[t] = "schedule" THEN NoScheduler ELSE serves[u]
  <2>1. CASE at[t] = "schedule"
    BY <1>1, <1>2, <1>6, <1>8, <2>1, LeaveMutexes
  <2>2. CASE at[t] # "schedule"
    <3>1. UNCHANGED <<mutex, serves>> /\ at'[t] = at[t]
      BY <1>1, <1>6, <2>2
    <3>2. Mutexes'
      BY <1>8, <3>1, KeepMutexes DEF IInv
    <3> QED BY <2>2, <3>1, <3>2 DEF IInv, Types
  <2> QED BY <2>1, <2>2
<1>10. \A j \in Info : serves'[j] = serves[j]
  BY <1>2, <1>9 DEF Thread
<1>11. Places'
  BY <1>0, <1>2, <1>6, <1>9, ThreadAssumption DEF IInv, Places, Thread
<1>12. Starvation'
  <2>1. \A u \in Thread :
            /\ at'[u] \in {"starve", "notify"} <=> at[u] \in {"starve", "notify"}
            /\ at[u] \in {"starve", "notify"} => serves'[u] = serves[u]
    BY <1>6, <1>9
  <2> QED BY <2>1, KeepStarvation DEF IInv
<1> QED BY <1>3, <1>4, <1>6, <1>7, <1>9, <1>10, <1>11, <1>12 DEF Starts

\* AllocateThread wakes a private thread.
LEMMA ResumePrivateStep ==
    ASSUME IInv, NEW t \in Thread, ResumePrivate(t)  PROVE IInv'
<1> DEFINE s == serves[t]
<1>0. s \in Scheduler /\ at[t] \in {"schedule", "resume", "offer"}
  BY Allocating DEF ResumePrivate
<1>1. PICK i \in suspended[s] :
           Started(t, i) /\ suspended' = [suspended EXCEPT ![s] = @ \ {i}]
  BY DEF ResumePrivate
<1>2. /\ UNCHANGED <<pool, allocCount, poolToCreate, starving, toCreate, fromShared>>
      /\ UNCHANGED <<queue, emptyEvent, stopCount, aggressive, starved>>
  BY DEF ResumePrivate, poolVars, jobs
<1>3. s = serves[t]
  OBVIOUS
<1> HIDE DEF s
<1>4. i \in Info /\ owner[i] = s /\ at[i] = "asleep" /\ i \notin running[s]
      /\ i \notin pool
  BY <1>0, <1>1, SchedulerAssumption DEF IInv, Lists, Types
<1>5. Starts(s, i)
  <2>1. starving' = starving /\ starved' = starved
    BY <1>2
  <2>2. Started(t, i) /\ i \in Info
    BY <1>1, <1>4
  <2> QED BY <1>0, <1>3, <2>1, <2>2, StartedFacts
<1>6. /\ suspended' \in [Scheduler -> SUBSET Info]
      /\ \A r \in Scheduler : suspended'[r] = IF r = s THEN suspended[r] \ {i} ELSE suspended[r]
      /\ \A r \in Scheduler : IsFiniteSet(suspended[r]) /\ IsFiniteSet(running[r])
  BY <1>0, <1>1 DEF IInv, Types
<1>7. /\ IsFiniteSet(running'[s])
      /\ Cardinality(running'[s]) = Cardinality(running[s]) + 1
      /\ IsFiniteSet(suspended'[s])
      /\ Cardinality(suspended'[s]) = Cardinality(suspended[s]) - 1
      /\ \A r \in Scheduler : Cardinality(running[r]) \in Nat /\ Cardinality(suspended[r]) \in Nat
  <2>1. /\ IsFiniteSet(running[s] \cup {i})
        /\ Cardinality(running[s] \cup {i}) = Cardinality(running[s]) + 1
    BY <1>0, <1>4, <1>6, FS_AddElement
  <2>2. /\ IsFiniteSet(suspended[s] \ {i})
        /\ Cardinality(suspended[s] \ {i}) = Cardinality(suspended[s]) - 1
    BY <1>0, <1>1, <1>6, FS_RemoveElement
  <2>3. \A r \in Scheduler : Cardinality(running[r]) \in Nat /\ Cardinality(suspended[r]) \in Nat
    BY <1>6, FS_CardinalityType
  <2>4. running'[s] = running[s] \cup {i} /\ suspended'[s] = suspended[s] \ {i}
    BY <1>0, <1>5, <1>6 DEF Starts
  <2> QED BY <2>1, <2>2, <2>3, <2>4
<1>8. Types'
  <2>1. \A r \in Scheduler : IsFiniteSet(running'[r]) /\ IsFiniteSet(suspended'[r])
    BY <1>5, <1>6, <1>7 DEF Starts
  <2> QED BY <1>2, <1>5, <1>6, <2>1 DEF IInv, Types, Starts
<1>9. Lists'
  BY <1>0, <1>1, <1>2, <1>4, <1>5, <1>6, SchedulerAssumption DEF IInv, Lists, Starts
<1>10. Counters'
  <2>1. Debts' = Debts
    BY <1>2 DEF Debts
  <2>2. CountersMatch'
    <3> SUFFICES ASSUME NEW r \in Scheduler
                 PROVE  /\ Cardinality(running'[r]) + Cardinality(suspended'[r]) + toCreate[r]
                               = threadCount[r] + fromShared[r]
                        /\ unused'[r] = Cardinality(suspended'[r]) + toCreate[r]
                                            + sharedThreads[r] - fromShared[r]
      BY <1>2 DEF IInv, Counters, CountersMatch, Active
    <3>1. /\ Cardinality(running[r]) + Cardinality(suspended[r]) + toCreate[r]
                 = threadCount[r] + fromShared[r]
          /\ unused[r] = Cardinality(suspended[r]) + toCreate[r]
                             + sharedThreads[r] - fromShared[r]
      BY DEF IInv, Counters, CountersMatch, Active
    <3>2. /\ toCreate[r] \in Nat /\ sharedThreads[r] \in Nat /\ fromShared[r] \in Nat
          /\ threadCount[r] \in Nat
      BY CountAssumption DEF IInv, Types
    <3> QED BY <1>5, <1>6, <1>7, <3>1, <3>2 DEF Starts
  <2>3. BorrowsOnlyInNeed'
    BY <1>2, <1>6 DEF IInv, Counters, BorrowsOnlyInNeed
  <2>4. \A j \in Info : at'[j] \in {"stop", "release"} => fromShared[serves'[j]] > 0
    BY <1>5 DEF IInv, Counters, Starts
  <2> QED BY <1>2, <2>1, <2>2, <2>3, <2>4 DEF IInv, Counters
<1> QED BY <1>5, <1>8, <1>9, <1>10 DEF IInv, Starts

\* AllocateThread makes a private thread.
LEMMA CreatePrivateStep ==
    ASSUME IInv, NEW t \in Thread, CreatePrivate(t)  PROVE IInv'
<1> DEFINE s == serves[t]
<1>0. s \in Scheduler /\ at[t] \in {"schedule", "resume", "offer"}
  BY Allocating DEF CreatePrivate
<1>1. PICK i \in Info : at[i] = "none" /\ Started(t, i)
  BY DEF CreatePrivate
<1>2. /\ toCreate' = [toCreate EXCEPT ![s] = @ + (-1)] /\ toCreate[s] > 0
      /\ UNCHANGED <<pool, allocCount, poolToCreate, starving, suspended, fromShared>>
      /\ UNCHANGED <<queue, emptyEvent, stopCount, aggressive, starved>>
  BY DEF CreatePrivate, poolVars, jobs, Add
<1>3. s = serves[t]
  OBVIOUS
<1> HIDE DEF s
<1>4. i \notin running[s] /\ i \notin pool
  BY <1>0, <1>1, SchedulerAssumption DEF IInv, Lists
<1>5. Starts(s, i)
  <2>1. starving' = starving /\ starved' = starved
    BY <1>2
  <2>2. Started(t, i) /\ i \in Info
    BY <1>1
  <2> QED BY <1>0, <1>3, <2>1, <2>2, StartedFacts
<1>6. /\ toCreate' \in [Scheduler -> Nat]
      /\ \A r \in Scheduler : toCreate'[r] = IF r = s THEN toCreate[r] - 1 ELSE toCreate[r]
      /\ \A r \in Scheduler : IsFiniteSet(suspended[r]) /\ IsFiniteSet(running[r])
  BY <1>0, <1>2 DEF IInv, Types
<1>7. /\ IsFiniteSet(running'[s])
      /\ Cardinality(running'[s]) = Cardinality(running[s]) + 1
      /\ \A r \in Scheduler : Cardinality(running[r]) \in Nat /\ Cardinality(suspended[r]) \in Nat
  <2>1. /\ IsFiniteSet(running[s] \cup {i})
        /\ Cardinality(running[s] \cup {i}) = Cardinality(running[s]) + 1
    BY <1>0, <1>4, <1>6, FS_AddElement
  <2>2. \A r \in Scheduler : Cardinality(running[r]) \in Nat /\ Cardinality(suspended[r]) \in Nat
    BY <1>6, FS_CardinalityType
  <2>3. running'[s] = running[s] \cup {i}
    BY <1>0, <1>5 DEF Starts
  <2> QED BY <2>1, <2>2, <2>3
<1>8. Types'
  <2>1. \A r \in Scheduler : IsFiniteSet(running'[r]) /\ IsFiniteSet(suspended[r])
    BY <1>5, <1>6, <1>7 DEF Starts
  <2> QED BY <1>2, <1>5, <1>6, <2>1 DEF IInv, Types, Starts
<1>9. Lists'
  BY <1>0, <1>1, <1>2, <1>4, <1>5, SchedulerAssumption DEF IInv, Lists, Starts
<1>10. Counters'
  <2>1. Debts' = Debts
    BY <1>2 DEF Debts
  <2>2. CountersMatch'
    <3> SUFFICES ASSUME NEW r \in Scheduler
                 PROVE  /\ Cardinality(running'[r]) + Cardinality(suspended[r]) + toCreate'[r]
                               = threadCount[r] + fromShared[r]
                        /\ unused'[r] = Cardinality(suspended[r]) + toCreate'[r]
                                            + sharedThreads[r] - fromShared[r]
      BY <1>2 DEF IInv, Counters, CountersMatch, Active
    <3>1. /\ Cardinality(running[r]) + Cardinality(suspended[r]) + toCreate[r]
                 = threadCount[r] + fromShared[r]
          /\ unused[r] = Cardinality(suspended[r]) + toCreate[r]
                             + sharedThreads[r] - fromShared[r]
      BY DEF IInv, Counters, CountersMatch, Active
    <3>2. /\ toCreate[r] \in Nat /\ sharedThreads[r] \in Nat /\ fromShared[r] \in Nat
          /\ threadCount[r] \in Nat
      BY CountAssumption DEF IInv, Types
    <3> QED BY <1>5, <1>6, <1>7, <3>1, <3>2 DEF Starts
  <2>3. BorrowsOnlyInNeed'
    BY <1>2, <1>6 DEF IInv, Counters, BorrowsOnlyInNeed
  <2>4. \A j \in Info : at'[j] \in {"stop", "release"} => fromShared[serves'[j]] > 0
    BY <1>5 DEF IInv, Counters, Starts
  <2> QED BY <1>2, <2>1, <2>2, <2>3, <2>4 DEF IInv, Counters
<1> QED BY <1>5, <1>8, <1>9, <1>10 DEF IInv, Starts

\* AllocateThread borrows a thread of the pool, or finds none.
LEMMA AllocateSharedStep ==
    ASSUME IInv, NEW t \in Thread, AllocateSharedThread(t)  PROVE IInv'
<1> DEFINE s == serves[t]
<1>0. /\ at[t] \in {"schedule", "resume", "offer"} /\ s \in Scheduler
      /\ suspended[s] = {} /\ toCreate[s] = 0 /\ fromShared[s] < sharedThreads[s]
  <2>1. at[t] \in {"schedule", "resume", "offer"}
    BY DEF AllocateSharedThread, MayBorrow, WantsThread
  <2> QED BY <2>1, Allocating DEF AllocateSharedThread, MayBorrow
<1>1. PICK i \in Info : TryAlloc(i) /\ Started(t, i)
  BY DEF AllocateSharedThread
<1>2. /\ fromShared' = Add(fromShared, s, 1)
      /\ starving' = starving /\ starved' = starved
      /\ UNCHANGED <<suspended, toCreate>>
      /\ UNCHANGED <<queue, emptyEvent, stopCount, aggressive>>
  BY DEF AllocateSharedThread, jobs
<1>3. Starts(s, i)
  BY <1>0, <1>1, <1>2, StartedFacts
<1> HIDE DEF s
<1>4. /\ IsFiniteSet(Debts') /\ Cardinality(Debts') = Cardinality(Debts) + 1
      /\ fromShared' \in [Scheduler -> Nat]
      /\ \A r \in Scheduler : fromShared'[r] = IF r = s THEN fromShared[s] + 1 ELSE fromShared[r]
  BY <1>0, <1>2, DebtsMore DEF IInv, Counters
<1>5. /\ IsFiniteSet(pool) /\ pool \subseteq Info /\ Cardinality(pool) \in Nat
      /\ allocCount \in Int /\ poolToCreate \in Nat /\ allocCount' = allocCount + 1
      /\ Cardinality(pool) + allocCount + poolToCreate = maxCount
  BY <1>1, FS_CardinalityType DEF IInv, Types, Counters, CountersMatch, TryAlloc
<1>6. /\ pool' \subseteq Info /\ IsFiniteSet(pool')
      /\ allocCount' \in Int /\ poolToCreate' \in Nat
      /\ Cardinality(pool') + allocCount' + poolToCreate' = maxCount
      /\ pool' = pool \ {i}
      /\ i \in pool \/ at[i] = "none"
  <2>1. CASE i \in pool /\ pool' = pool \ {i} /\ UNCHANGED poolToCreate
    <3>1. IsFiniteSet(pool') /\ Cardinality(pool') = Cardinality(pool) - 1
      BY <1>5, <2>1, FS_RemoveElement
    <3>2. Cardinality(pool') + allocCount' + poolToCreate' = maxCount
      BY <1>5, <2>1, <3>1, CountAssumption
    <3> QED BY <1>5, <2>1, <3>1, <3>2
  <2>2. CASE /\ pool = {} /\ poolToCreate > 0 /\ at[i] = "none"
             /\ poolToCreate' = poolToCreate - 1 /\ UNCHANGED pool
    BY <1>5, <2>2, CountAssumption
  <2> QED BY <1>1, <2>1, <2>2 DEF TryAlloc
<1>7. \A r \in Scheduler : i \notin running[r] /\ i \notin suspended[r]
  BY <1>6, SchedulerAssumption DEF IInv, Lists
<1>8. /\ IsFiniteSet(running[s]) /\ IsFiniteSet(running'[s])
      /\ Cardinality(running'[s]) = Cardinality(running[s]) + 1
      /\ \A r \in Scheduler : Cardinality(running[r]) \in Nat /\ Cardinality(suspended[r]) \in Nat
  <2>1. \A r \in Scheduler : IsFiniteSet(suspended[r]) /\ IsFiniteSet(running[r])
    BY DEF IInv, Types
  <2>2. /\ IsFiniteSet(running[s] \cup {i})
        /\ Cardinality(running[s] \cup {i}) = Cardinality(running[s]) + 1
    BY <1>0, <1>7, <2>1, FS_AddElement
  <2>3. \A r \in Scheduler : Cardinality(running[r]) \in Nat /\ Cardinality(suspended[r]) \in Nat
    BY <2>1, FS_CardinalityType
  <2>4. running'[s] = running[s] \cup {i}
    BY <1>0, <1>3 DEF Starts
  <2> QED BY <1>0, <2>1, <2>2, <2>3, <2>4
<1>9. Types'
  <2>1. \A r \in Scheduler : IsFiniteSet(running'[r]) /\ IsFiniteSet(suspended[r])
    BY <1>3, <1>8 DEF Starts, IInv, Types
  <2> QED BY <1>2, <1>3, <1>4, <1>6, <2>1 DEF IInv, Types, Starts
<1>10. Lists'
  <2>1. /\ at[i] # "none" => at[i] \notin {"assign", "run", "stop", "release"}
        /\ owner[i] = NoScheduler
    BY <1>6, SchedulerAssumption DEF IInv, Lists, Places, Thread
  <2>2. at'[i] \notin {"none", "asleep", "stop", "release"}
    BY <1>3, <2>1 DEF Starts
  <2> QED BY <1>0, <1>2, <1>3, <1>6, <2>1, <2>2, SchedulerAssumption DEF IInv, Lists, Starts
<1>11. Counters'
  <2>1. CountersMatch'
    <3>1. ASSUME NEW r \in Scheduler
          PROVE  /\ Cardinality(running'[r]) + Cardinality(suspended[r]) + toCreate[r]
                        = threadCount[r] + fromShared'[r]
                 /\ unused'[r] = Cardinality(suspended[r]) + toCreate[r]
                                     + sharedThreads[r] - fromShared'[r]
      <4>1. /\ Cardinality(running[r]) + Cardinality(suspended[r]) + toCreate[r]
                   = threadCount[r] + fromShared[r]
            /\ unused[r] = Cardinality(suspended[r]) + toCreate[r]
                               + sharedThreads[r] - fromShared[r]
        BY DEF IInv, Counters, CountersMatch, Active
      <4>2. /\ toCreate[r] \in Nat /\ sharedThreads[r] \in Nat /\ fromShared[r] \in Nat
            /\ threadCount[r] \in Nat
        BY CountAssumption DEF IInv, Types
      <4> QED BY <1>3, <1>4, <1>8, <4>1, <4>2 DEF Starts
    <3> QED BY <1>2, <1>6, <3>1 DEF CountersMatch, Active
  <2>2. BorrowsOnlyInNeed'
    BY <1>0, <1>2, <1>4 DEF IInv, Counters, BorrowsOnlyInNeed
  <2>3. \A r \in Scheduler : fromShared'[r] <= sharedThreads[r]
    <3> SUFFICES ASSUME NEW r \in Scheduler  PROVE fromShared'[r] <= sharedThreads[r]
      OBVIOUS
    <3>1. fromShared[r] \in Nat /\ sharedThreads[r] \in Nat /\ fromShared[r] <= sharedThreads[r]
      BY CountAssumption DEF IInv, Counters, Types
    <3> QED BY <1>0, <1>4, <3>1
  <2>4. \A j \in Info : at'[j] \in {"stop", "release"} => fromShared'[serves'[j]] > 0
    <3> SUFFICES ASSUME NEW j \in Info, at'[j] \in {"stop", "release"}
                 PROVE  fromShared'[serves'[j]] > 0
      OBVIOUS
    <3>1. at[j] \in {"stop", "release"} /\ serves'[j] = serves[j] /\ j \in Thread
      BY <1>3 DEF Starts, Thread
    <3>2. serves[j] \in Scheduler /\ fromShared[serves[j]] > 0 /\ fromShared[serves[j]] \in Nat
      BY <3>1 DEF IInv, Places, Counters, Types
    <3> QED BY <1>4, <3>1, <3>2
  <2> QED BY <1>4, <1>5, <2>1, <2>2, <2>3, <2>4 DEF IInv, Counters
<1> QED BY <1>3, <1>9, <1>10, <1>11 DEF IInv, Starts

\* A scheduler that found no thread raises its flag.
LEMMA StarveStep == ASSUME IInv, NEW t \in Thread, Starve(t)  PROVE IInv'
<1> DEFINE s == serves[t]
<1>0. /\ at[t] \in {"schedule", "resume", "offer"}
      /\ s \in Scheduler /\ mutex[s] = t /\ t # Nobody /\ at[t] \in Own /\ ~starved[s]
  <2>1. at[t] \in {"schedule", "resume", "offer"}
    BY DEF Starve, MayBorrow, WantsThread
  <2> QED BY <2>1, Allocating DEF Starve, MayBorrow
<1>1. /\ starved' = [starved EXCEPT ![s] = TRUE]
      /\ at' = [at EXCEPT ![t] = "starve"]
      /\ UNCHANGED <<pool, allocCount, poolToCreate, starving, serves, mutex>>
      /\ UNCHANGED <<running, suspended, toCreate, fromShared, unused>>
      /\ UNCHANGED <<queue, emptyEvent, stopCount, owner, aggressive>>
  BY DEF Starve, Goto, poolVars, lists, jobs
<1>2. s = serves[t]
  OBVIOUS
<1> HIDE DEF s
<1>3. /\ at' \in [Thread -> Control]
      /\ \A u \in Thread : at'[u] = IF u = t THEN "starve" ELSE at[u]
      /\ starved' \in [Scheduler -> BOOLEAN]
      /\ \A r \in Scheduler : starved'[r] = IF r = s THEN TRUE ELSE starved[r]
  BY <1>0, <1>1 DEF IInv, Types, Control
<1>4. Types'
  BY <1>1, <1>3 DEF IInv, Types
<1>5. Places'
  BY <1>0, <1>1, <1>2, <1>3 DEF IInv, Places, Thread
<1>6. Lists'
  BY <1>0, <1>1, <1>3, KeepLists DEF IInv, Lists, Thread
<1>7. Counters'
  BY <1>0, <1>1, <1>3, KeepCounters DEF IInv, Counters, Thread
<1>8. \A r \in Scheduler :
          starved[r] <=> Listed(r) \/ \E u \in Thread : serves[u] = r /\ Registers(u)
  BY DEF IInv, Starvation, StarvedIsKnown, Listed, Registers
<1>9. Starvation'
  <2>1. ~Listed(s) /\ \A u \in Thread : Registers(u) => serves[u] # s
    BY <1>0, <1>8
  <2>2. /\ \A u \in Thread : u # t => (Registers(u)' <=> Registers(u))
        /\ Registers(t)' /\ ~Registers(t)
    BY <1>0, <1>3 DEF Registers
  <2>3. \A r \in Scheduler : Listed(r)' <=> Listed(r)
    BY <1>1 DEF Listed
  <2>4. \A r \in Scheduler :
            starved'[r] <=> Listed(r)' \/ \E u \in Thread : serves'[u] = r /\ Registers(u)'
    <3> SUFFICES ASSUME NEW r \in Scheduler
                 PROVE  starved'[r] <=> Listed(r)' \/ \E u \in Thread : serves'[u] = r /\ Registers(u)'
      OBVIOUS
    <3>1. CASE r = s
      BY <1>0, <1>1, <1>2, <1>3, <2>2, <3>1
    <3>2. CASE r # s
      BY <1>0, <1>1, <1>2, <1>3, <1>8, <2>2, <2>3, <3>2
    <3> QED BY <3>1, <3>2
  <2>5. StarvedIsKnown'
    BY <2>4 DEF StarvedIsKnown, Listed, Registers
  <2>6. \A u \in Thread : Registers(u)' => ~Listed(serves[u])'
    BY <1>1, <1>2, <2>1, <2>2 DEF IInv, Starvation, Listed
  <2>7. \A u, v \in Thread : Registers(u)' /\ Registers(v)' /\ serves'[u] = serves'[v] => u = v
    BY <1>1, <1>2, <2>1, <2>2 DEF IInv, Starvation
  <2> QED BY <1>1, <2>5, <2>6, <2>7 DEF IInv, Starvation
<1>10. Mutexes'
  <2>1. \A u \in Thread : at'[u] \in Own <=> at[u] \in Own
    BY <1>0, <1>3 DEF Own
  <2>2. \A j \in Info : j \in Thread
    BY DEF Thread
  <2>3. \A j \in Info : at'[j] \in Other => at[j] \in Other
    BY <1>0, <1>3, <2>2, ThreadAssumption DEF Other, IInv, Places
  <2>4. \A r \in Scheduler : mutex[r] # Nobody => mutex[r] \in Thread
    BY DEF IInv, Types
  <2>5. ASSUME NEW r \in Scheduler, mutex[r] # Nobody
        PROVE  IF serves[mutex[r]] = r THEN at'[mutex[r]] \in Own
               ELSE mutex[r] \in Info /\ at'[mutex[r]] \in Other /\ ~starved'[r]
    <3>1. CASE r = s
      BY <1>0, <1>2, <2>1, <2>5, <3>1
    <3>2. CASE r # s /\ serves[mutex[r]] = r
      BY <2>1, <2>4, <2>5, <3>2 DEF IInv, Mutexes
    <3>3. CASE r # s /\ serves[mutex[r]] # r
      <4>1. mutex[r] \in Info /\ at[mutex[r]] \in Other /\ ~starved[r]
        BY <2>5, <3>3 DEF IInv, Mutexes
      <4>2. at'[mutex[r]] \in Other
        BY <1>3, <2>4, <2>5, <4>1 DEF Other
      <4> QED BY <1>3, <3>3, <4>1, <4>2
    <3> QED BY <3>1, <3>2, <3>3
  <2>6. \A j \in Info : at'[j] = "release" => ~starved'[serves[j]]
    <3> SUFFICES ASSUME NEW j \in Info, at'[j] = "release"  PROVE ~starved'[serves[j]]
      OBVIOUS
    <3>1. j # t /\ at[j] = "release" /\ j \in Thread
      BY <1>3, <2>2
    <3>2. serves[j] \in Scheduler /\ mutex[serves[j]] = j /\ ~starved[serves[j]]
      BY <3>1 DEF IInv, Mutexes, Places, Own
    <3> QED BY <1>0, <1>3, <3>1, <3>2
  <2> QED BY <1>1, <2>1, <2>2, <2>3, <2>5, <2>6 DEF IInv, Mutexes
<1> QED BY <1>4, <1>5, <1>6, <1>7, <1>9, <1>10 DEF IInv

\* After AllocateThread: a client is idle, a thread asks for the next starving scheduler.
LEMMA LeaveFacts ==
    ASSUME IInv, NEW t \in Thread, at[t] \in {"schedule", "resume", "offer", "starve"},
           Leave(t), Goto(t, After(t)), starved' = starved
    PROVE  /\ Mutexes'
           /\ mutex' \in [Scheduler -> Thread \cup {Nobody}]
           /\ serves' \in [Thread -> Scheduler \cup {NoScheduler}]
           /\ \A u \in Thread : serves'[u] = IF u = t THEN NoScheduler ELSE serves[u]
           /\ at' \in [Thread -> Control] /\ at'[t] = (IF t \in Client THEN "idle" ELSE "select")
           /\ \A u \in Thread : u # t => at'[u] = at[u]
<1>1. /\ at' \in [Thread -> Control] /\ at'[t] = (IF t \in Client THEN "idle" ELSE "select")
      /\ \A u \in Thread : u # t => at'[u] = at[u]
  BY DEF Goto, After, IInv, Types, Control
<1> QED BY <1>1, LeaveMutexes

\* A scheduler with its flag raised is entered into the list.
LEMMA AddStarvingStep == ASSUME IInv, NEW t \in Thread, AddStarving(t)  PROVE IInv'
<1> DEFINE s == serves[t]
<1>0. s \in Scheduler /\ at[t] = "starve"
  BY Allocating DEF AddStarving
<1>1. /\ starving' = Append(starving, s) /\ starved' = starved
      /\ UNCHANGED <<pool, allocCount, poolToCreate>>
      /\ UNCHANGED <<running, suspended, toCreate, fromShared, unused>>
      /\ UNCHANGED <<queue, emptyEvent, stopCount, owner, aggressive>>
  BY DEF AddStarving, lists, jobs
<1>2. /\ Mutexes'
      /\ mutex' \in [Scheduler -> Thread \cup {Nobody}]
      /\ serves' \in [Thread -> Scheduler \cup {NoScheduler}]
      /\ \A u \in Thread : serves'[u] = IF u = t THEN NoScheduler ELSE serves[u]
      /\ at' \in [Thread -> Control] /\ at'[t] = (IF t \in Client THEN "idle" ELSE "select")
      /\ \A u \in Thread : u # t => at'[u] = at[u]
  BY <1>0, <1>1, LeaveFacts DEF AddStarving
<1>3. s = serves[t]
  OBVIOUS
<1> HIDE DEF s
<1>4. Registers(t) /\ ~Listed(s)
  BY <1>0, <1>3 DEF IInv, Starvation, Registers
<1>5. OnceIn(Scheduler, starving) /\ ~Has(starving, s)
  BY <1>4 DEF IInv, Types, Starvation, OnceIn, Has, Listed
<1>6. OnceIn(Scheduler, starving') /\ \A r \in Scheduler : Has(starving', r) <=> Has(starving, r) \/ r = s
  BY <1>0, <1>1, <1>5, AppendOnce
<1>7. Types'
  BY <1>1, <1>2, <1>6 DEF IInv, Types, OnceIn
<1>8. Places'
  BY <1>0, <1>2, ThreadAssumption DEF IInv, Places, Thread
<1>9. Lists'
  BY <1>0, <1>1, <1>2, KeepLists, ThreadAssumption DEF IInv, Lists, Thread
<1>10. Counters'
  BY <1>0, <1>1, <1>2, KeepCounters, ThreadAssumption DEF IInv, Counters, Thread
<1>11. Starvation'
  <2>1. \A u \in Thread : Registers(u) /\ serves[u] = s => u = t
    BY <1>3, <1>4 DEF IInv, Starvation
  <2>2. /\ \A u \in Thread : u # t => (Registers(u)' <=> Registers(u))
        /\ ~Registers(t)'
    BY <1>2 DEF Registers
  <2>3. \A r \in Scheduler : Listed(r)' <=> Listed(r) \/ r = s
    BY <1>6 DEF Has, Listed
  <2>4. \A r \in Scheduler :
            starved[r] <=> Listed(r) \/ \E u \in Thread : serves[u] = r /\ Registers(u)
    BY DEF IInv, Starvation, StarvedIsKnown, Listed, Registers
  <2>5. \A r \in Scheduler :
            starved'[r] <=> Listed(r)' \/ \E u \in Thread : serves'[u] = r /\ Registers(u)'
    <3> SUFFICES ASSUME NEW r \in Scheduler
                 PROVE  starved[r] <=> Listed(r)' \/ \E u \in Thread : serves'[u] = r /\ Registers(u)'
      BY <1>1
    <3>1. CASE r = s
      BY <1>0, <1>3, <1>4, <2>3, <2>4, <3>1
    <3>2. CASE r # s
      BY <1>2, <1>3, <2>2, <2>3, <2>4, <3>2
    <3> QED BY <3>1, <3>2
  <2>6. StarvedIsKnown'
    BY <2>5 DEF StarvedIsKnown, Listed, Registers
  <2>7. \A u \in Thread : Registers(u)' => ~Listed(serves[u])'
    <3> SUFFICES ASSUME NEW u \in Thread, Registers(u)'  PROVE ~Listed(serves[u])'
      OBVIOUS
    <3>1. PICK r : r = serves'[u]
      OBVIOUS
    <3>2. u # t /\ Registers(u) /\ serves[u] = r /\ r \in Scheduler
      BY <1>2, <2>2, <3>1 DEF IInv, Places, Registers
    <3>3. ~Listed(r)'
      BY <2>1, <2>3, <3>2 DEF IInv, Starvation
    <3> QED BY <3>1, <3>3 DEF Listed
  <2>8. \A u, v \in Thread : Registers(u)' /\ Registers(v)' /\ serves'[u] = serves'[v] => u = v
    BY <1>2, <2>2 DEF IInv, Starvation
  <2> QED BY <1>6, <2>6, <2>7, <2>8 DEF Starvation, OnceIn
<1> QED BY <1>2, <1>7, <1>8, <1>9, <1>10, <1>11 DEF IInv

\* A notified scheduler wants no thread.
LEMMA NoThreadStep == ASSUME IInv, NEW t \in Thread, NoThread(t)  PROVE IInv'
<1>0. at[t] \in {"schedule", "resume", "offer"}
  BY DEF NoThread
<1>1. /\ UNCHANGED <<pool, allocCount, poolToCreate, starving, starved>>
      /\ UNCHANGED <<running, suspended, toCreate, fromShared, unused>>
      /\ UNCHANGED <<queue, emptyEvent, stopCount, owner, aggressive>>
  BY DEF NoThread, poolVars, lists, jobs
<1>2. /\ Mutexes'
      /\ mutex' \in [Scheduler -> Thread \cup {Nobody}]
      /\ serves' \in [Thread -> Scheduler \cup {NoScheduler}]
      /\ \A u \in Thread : serves'[u] = IF u = t THEN NoScheduler ELSE serves[u]
      /\ at' \in [Thread -> Control] /\ at'[t] = (IF t \in Client THEN "idle" ELSE "select")
      /\ \A u \in Thread : u # t => at'[u] = at[u]
  BY <1>0, <1>1, LeaveFacts DEF NoThread
<1>3. Types'
  BY <1>1, <1>2 DEF IInv, Types
<1>4. Places'
  BY <1>0, <1>2, ThreadAssumption DEF IInv, Places, Thread
<1>5. Lists'
  BY <1>0, <1>1, <1>2, KeepLists, ThreadAssumption DEF IInv, Lists, Thread
<1>6. Counters'
  BY <1>0, <1>1, <1>2, KeepCounters, ThreadAssumption DEF IInv, Counters, Thread
<1>7. Starvation'
  BY <1>0, <1>1, <1>2, KeepStarvation DEF IInv
<1> QED BY <1>2, <1>3, <1>4, <1>5, <1>6, <1>7 DEF IInv

-------------------------------------------------------------------------------
(* Clients.                                                                *)

\* A call that does not allocate: the client is idle, or waits for emptyEvent.
LEMMA ClientKeeps ==
    ASSUME IInv, NEW c \in Client, at[c] \in {"idle", "wait"}, at'[c] \in {"idle", "wait"},
           at' \in [Thread -> Control], serves' \in [Thread -> Scheduler \cup {NoScheduler}],
           \A u \in Thread : u # c => at'[u] = at[u] /\ serves'[u] = serves[u],
           at'[c] = "wait" => serves'[c] \in Scheduler,
           queue' \in [Scheduler -> Nat], emptyEvent' \in [Scheduler -> BOOLEAN],
           stopCount' \in [Scheduler -> 0..MaxStops],
           UNCHANGED <<pool, allocCount, poolToCreate, starving, starved>>,
           UNCHANGED <<running, suspended, toCreate, fromShared, unused>>,
           UNCHANGED <<owner, aggressive, mutex>>
    PROVE  IInv'
<1>1. c \notin Info /\ c \in Thread /\ \A j \in Info : j \in Thread
  BY ThreadAssumption DEF Thread
<1>2. Types'
  BY DEF IInv, Types
<1>3. Places'
  BY <1>1 DEF IInv, Places, Thread
<1>4. Lists'
  BY <1>1, KeepLists DEF IInv, Lists
<1>5. Counters'
  BY <1>1, KeepCounters DEF IInv, Counters
<1>6. Starvation'
  BY <1>1, KeepStarvation DEF IInv
<1>7. Mutexes'
  <2>1. \A u \in Thread :
            \/ at'[u] = at[u] /\ serves'[u] = serves[u]
            \/ at[u] \notin Own \cup Other /\ at'[u] \notin Own \cup Other
    BY DEF Own, Other
  <2> QED BY <2>1, KeepMutexes DEF IInv
<1> QED BY <1>2, <1>3, <1>4, <1>5, <1>6, <1>7 DEF IInv

\* A call that goes on to AllocateThread.
LEMMA ClientLocks ==
    ASSUME IInv, NEW c \in Client, NEW s \in Scheduler, at[c] = "idle", mutex[s] = Nobody,
           NEW l \in {"schedule", "resume"},
           Lock(c, s), Serve(c, s), Goto(c, l),
           queue' \in [Scheduler -> Nat], emptyEvent' \in [Scheduler -> BOOLEAN],
           stopCount' \in [Scheduler -> 0..MaxStops],
           UNCHANGED <<pool, allocCount, poolToCreate, starving, starved>>,
           UNCHANGED <<running, suspended, toCreate, fromShared, unused>>,
           UNCHANGED <<owner, aggressive>>
    PROVE  IInv'
<1>1. /\ c \notin Info /\ c \in Thread /\ \A j \in Info : j \in Thread
      /\ c # Nobody /\ Nobody \notin Thread
  BY ThreadAssumption DEF Thread
<1>2. /\ at' \in [Thread -> Control]
      /\ \A u \in Thread : at'[u] = IF u = c THEN l ELSE at[u]
      /\ serves' \in [Thread -> Scheduler \cup {NoScheduler}]
      /\ \A u \in Thread : serves'[u] = IF u = c THEN s ELSE serves[u]
      /\ mutex' \in [Scheduler -> Thread \cup {Nobody}]
      /\ \A r \in Scheduler : mutex'[r] = IF r = s THEN c ELSE mutex[r]
  BY <1>1 DEF Lock, Serve, Goto, IInv, Types, Control
<1>3. Types'
  BY <1>2 DEF IInv, Types
<1>4. Places'
  BY <1>1, <1>2 DEF IInv, Places, Thread
<1>5. Lists'
  BY <1>1, <1>2, KeepLists DEF IInv, Lists
<1>6. Counters'
  BY <1>1, <1>2, KeepCounters DEF IInv, Counters
<1>7. Starvation'
  BY <1>1, <1>2, KeepStarvation DEF IInv
<1>8. Mutexes'
  <2>1. \A r \in Scheduler : mutex[r] # c
    BY <1>1, HoldsNone, ThreadAssumption DEF IInv, Own, Other
  <2>2. \A t \in Thread : at'[t] \in Own => mutex'[serves'[t]] = t
    <3> SUFFICES ASSUME NEW t \in Thread, at'[t] \in Own  PROVE mutex'[serves'[t]] = t
      OBVIOUS
    <3>1. CASE t = c
      BY <1>2, <3>1
    <3>2. CASE t # c
      <4>1. mutex[serves[t]] = t /\ serves[t] \in Scheduler
        BY <1>2, <3>2 DEF IInv, Mutexes, Places, Own
      <4> QED BY <1>1, <1>2, <3>2, <4>1
    <3> QED BY <3>1, <3>2
  <2>3. \A j \in Info : at'[j] \in Other => \E r \in Scheduler : mutex'[r] = j /\ r # serves'[j]
    <3> SUFFICES ASSUME NEW j \in Info, at'[j] \in Other
                 PROVE  \E r \in Scheduler : mutex'[r] = j /\ r # serves'[j]
      OBVIOUS
    <3>1. PICK r \in Scheduler : mutex[r] = j /\ r # serves[j]
      BY <1>1, <1>2 DEF IInv, Mutexes
    <3> QED BY <1>1, <1>2, <3>1
  <2>4. \A r \in Scheduler : mutex'[r] # Nobody =>
           IF serves'[mutex'[r]] = r THEN at'[mutex'[r]] \in Own
           ELSE mutex'[r] \in Info /\ at'[mutex'[r]] \in Other /\ ~starved[r]
    <3> SUFFICES ASSUME NEW r \in Scheduler, mutex'[r] # Nobody
                 PROVE  IF serves'[mutex'[r]] = r THEN at'[mutex'[r]] \in Own
                        ELSE mutex'[r] \in Info /\ at'[mutex'[r]] \in Other /\ ~starved[r]
      OBVIOUS
    <3>1. CASE r = s
      BY <1>1, <1>2, <3>1 DEF Own
    <3>2. CASE r # s
      <4>1. mutex[r] \in Thread /\ mutex[r] # c /\ mutex'[r] = mutex[r]
        BY <1>2, <2>1, <3>2, Holder DEF IInv
      <4> QED BY <1>2, <4>1 DEF IInv, Mutexes
    <3> QED BY <3>1, <3>2
  <2>5. \A r, q \in Scheduler :
           mutex'[r] # Nobody /\ mutex'[r] = mutex'[q]
               /\ serves'[mutex'[r]] # r /\ serves'[mutex'[r]] # q => r = q
    <3> SUFFICES ASSUME NEW r \in Scheduler, NEW q \in Scheduler,
                        mutex'[r] # Nobody, mutex'[r] = mutex'[q],
                        serves'[mutex'[r]] # r, serves'[mutex'[r]] # q
                 PROVE  r = q
      OBVIOUS
    <3>1. r # s /\ q # s
      BY <1>1, <1>2, <2>1
    <3>2. mutex[r] \in Thread /\ mutex[r] # c
      BY <1>2, <2>1, <3>1, Holder DEF IInv
    <3> QED BY <1>2, <3>1, <3>2 DEF IInv, Mutexes
  <2>6. \A j \in Info : at'[j] = "release" => ~starved[serves'[j]]
    BY <1>1, <1>2 DEF IInv, Mutexes
  <2> QED BY <2>2, <2>3, <2>4, <2>5, <2>6 DEF Mutexes
<1> QED BY <1>3, <1>4, <1>5, <1>6, <1>7, <1>8 DEF IInv

\* A client calls: all it changes is the number of jobs and its own place.
LEMMA CallStep == ASSUME IInv, NEW c \in Client, Call(c)  PROVE IInv'
<1>0. /\ at \in [Thread -> Control] /\ serves \in [Thread -> Scheduler \cup {NoScheduler}]
      /\ queue \in [Scheduler -> Nat] /\ emptyEvent \in [Scheduler -> BOOLEAN]
      /\ stopCount \in [Scheduler -> 0..MaxStops]
      /\ c \in Thread
  BY DEF IInv, Types, Thread
<1>1. ASSUME NEW s \in Scheduler, Schedule(c, s)  PROVE IInv'
  <2>1. queue' \in [Scheduler -> Nat] /\ emptyEvent' \in [Scheduler -> BOOLEAN]
    BY <1>0, <1>1, CountAssumption DEF Schedule, Add
  <2>2. /\ at[c] = "idle" /\ mutex[s] = Nobody
        /\ UNCHANGED <<pool, allocCount, poolToCreate, starving, starved>>
        /\ UNCHANGED <<running, suspended, toCreate, fromShared, unused>>
        /\ UNCHANGED <<stopCount, owner, aggressive>>
    BY <1>1 DEF Schedule, Free, poolVars, lists
  <2>3. CASE Lock(c, s) /\ Serve(c, s) /\ Goto(c, "schedule")
    BY <1>0, <2>1, <2>2, <2>3, ClientLocks
  <2>4. CASE UNCHANGED <<mutex, serves, at>>
    BY <1>0, <2>1, <2>2, <2>4, ClientKeeps
  <2> QED BY <1>1, <2>3, <2>4 DEF Schedule
<1>2. ASSUME NEW s \in Scheduler, Stop(c, s)  PROVE IInv'
  <2>1. stopCount' \in [Scheduler -> 0..MaxStops]
    BY <1>0, <1>2, CountAssumption DEF Stop, Add
  <2>2. /\ at[c] = "idle"
        /\ UNCHANGED <<pool, allocCount, poolToCreate, starving, starved>>
        /\ UNCHANGED <<running, suspended, toCreate, fromShared, unused>>
        /\ UNCHANGED <<queue, emptyEvent, owner, at, serves, aggressive, mutex>>
    BY <1>2 DEF Stop, poolVars, lists, threads
  <2> QED BY <1>0, <2>1, <2>2, ClientKeeps
<1>3. ASSUME NEW s \in Scheduler, Resume(c, s)  PROVE IInv'
  <2>1. stopCount' \in [Scheduler -> 0..MaxStops]
    BY <1>0, <1>3, CountAssumption DEF Resume, Add
  <2>2. /\ at[c] = "idle" /\ mutex[s] = Nobody
        /\ UNCHANGED <<pool, allocCount, poolToCreate, starving, starved>>
        /\ UNCHANGED <<running, suspended, toCreate, fromShared, unused>>
        /\ UNCHANGED <<queue, emptyEvent, owner, aggressive>>
    BY <1>3 DEF Resume, Free, poolVars, lists
  <2>3. CASE Lock(c, s) /\ Serve(c, s) /\ Goto(c, "resume")
    BY <1>0, <2>1, <2>2, <2>3, ClientLocks
  <2>4. CASE UNCHANGED <<mutex, serves, at>>
    BY <1>0, <2>1, <2>2, <2>4, ClientKeeps
  <2> QED BY <1>3, <2>3, <2>4 DEF Resume
<1>4. ASSUME NEW s \in Scheduler, at[c] \in {"idle", "wait"}, Look(c, s)  PROVE IInv'
  <2>1. queue' \in [Scheduler -> Nat] /\ emptyEvent' \in [Scheduler -> BOOLEAN]
    <3>1. queue' = queue \/ queue' = [queue EXCEPT ![s] = 0]
      BY <1>4 DEF Look
    <3>2. emptyEvent' = emptyEvent \/ emptyEvent' = [emptyEvent EXCEPT ![s] = FALSE]
      BY <1>4 DEF Look
    <3>3. queue' \in [Scheduler -> Nat]
      BY <1>0, <3>1, CountAssumption
    <3>4. emptyEvent' \in [Scheduler -> BOOLEAN]
      BY <1>0, <3>2
    <3> QED BY <3>3, <3>4
  <2>2. /\ UNCHANGED <<pool, allocCount, poolToCreate, starving, starved>>
        /\ UNCHANGED <<running, suspended, toCreate, fromShared, unused>>
        /\ UNCHANGED <<stopCount, owner, aggressive, mutex>>
    BY <1>4 DEF Look, poolVars, lists
  <2>3. /\ at' \in [Thread -> Control] /\ serves' \in [Thread -> Scheduler \cup {NoScheduler}]
        /\ \A u \in Thread : u # c => at'[u] = at[u] /\ serves'[u] = serves[u]
        /\ at'[c] \in {"idle", "wait"} /\ (at'[c] = "wait" => serves'[c] \in Scheduler)
    <3>1. \/ Goto(c, "idle") /\ Serve(c, NoScheduler)
          \/ Goto(c, "wait") /\ Serve(c, s)
      BY <1>4 DEF Look
    <3> QED BY <1>0, <3>1 DEF Goto, Serve, Control
  <2> QED BY <1>0, <1>4, <2>1, <2>2, <2>3, ClientKeeps
<1>5. at[c] = "wait" => serves[c] \in Scheduler
  BY <1>0 DEF IInv, Places
<1> QED BY <1>1, <1>2, <1>3, <1>4, <1>5 DEF Call, WaitForEmptyQueue, LookAgain

-------------------------------------------------------------------------------
(* The theorems.                                                           *)

\* The inductive invariant holds at the start.
LEMMA InitInv == Init => IInv
<1> SUFFICES ASSUME Init  PROVE IInv
  OBVIOUS
<1>1. /\ pool = {} /\ allocCount = 0 /\ poolToCreate = maxCount /\ starving = <<>>
      /\ aggressive \subseteq Scheduler
      /\ mutex = [s \in Scheduler |-> Nobody]
      /\ queue = [s \in Scheduler |-> 0] /\ emptyEvent = [s \in Scheduler |-> FALSE]
      /\ running = [s \in Scheduler |-> {}] /\ suspended = [s \in Scheduler |-> {}]
      /\ toCreate = threadCount /\ fromShared = [s \in Scheduler |-> 0]
      /\ unused = [s \in Scheduler |-> threadCount[s] + sharedThreads[s]]
      /\ starved = [s \in Scheduler |-> FALSE] /\ stopCount = [s \in Scheduler |-> 0]
      /\ owner = [i \in Info |-> NoScheduler]
      /\ at = [t \in Thread |-> IF t \in Client THEN "idle" ELSE "none"]
      /\ serves = [t \in Thread |-> NoScheduler]
  BY DEF Init
<1>2. IsFiniteSet({}) /\ Cardinality({}) = 0
  BY FS_EmptySet
<1>3. /\ \A c \in Client : c \in Thread /\ at[c] = "idle"
      /\ \A i \in Info : i \in Thread /\ at[i] = "none" /\ i \notin Client
  BY <1>1, ThreadAssumption DEF Thread
<1>4. \A t \in Thread : at[t] \in {"idle", "none"}
  BY <1>1
<1>5. Types
  <2>1. queue \in [Scheduler -> Nat] /\ stopCount \in [Scheduler -> 0..MaxStops]
    BY <1>1, CountAssumption
  <2>2. /\ unused \in [Scheduler -> Int] /\ toCreate \in [Scheduler -> Nat]
        /\ fromShared \in [Scheduler -> Nat]
    BY <1>1, CountAssumption
  <2>3. /\ running \in [Scheduler -> SUBSET Info] /\ suspended \in [Scheduler -> SUBSET Info]
        /\ \A s \in Scheduler : IsFiniteSet(running[s]) /\ IsFiniteSet(suspended[s])
    BY <1>1, <1>2
  <2>4. at \in [Thread -> Control]
    BY <1>1 DEF Control
  <2>5. /\ mutex \in [Scheduler -> Thread \cup {Nobody}] /\ emptyEvent \in [Scheduler -> BOOLEAN]
        /\ starved \in [Scheduler -> BOOLEAN]
        /\ serves \in [Thread -> Scheduler \cup {NoScheduler}]
        /\ owner \in [Info -> Scheduler \cup {NoScheduler}]
    BY <1>1
  <2>6. /\ pool \subseteq Info /\ IsFiniteSet(pool) /\ allocCount \in Int /\ poolToCreate \in Nat
        /\ starving \in Seq(Scheduler) /\ aggressive \subseteq Scheduler
    BY <1>1, <1>2, CountAssumption
  <2> QED BY <2>1, <2>2, <2>3, <2>4, <2>5, <2>6 DEF Types
<1>6. Places
  BY <1>3, <1>4 DEF Places
<1>7. Lists
  BY <1>1, <1>3, SchedulerAssumption DEF Lists
<1>8. Counters
  <2>1. Debts = {}
    BY <1>1 DEF Debts
  <2>2. CountersMatch
    BY <1>1, <1>2, CountAssumption DEF CountersMatch, Active
  <2>3. BorrowsOnlyInNeed
    BY <1>1 DEF BorrowsOnlyInNeed
  <2>4. \A s \in Scheduler : fromShared[s] <= sharedThreads[s]
    BY <1>1, CountAssumption
  <2> QED BY <1>1, <1>2, <1>3, <2>1, <2>2, <2>3, <2>4 DEF Counters
<1>9. Starvation
  BY <1>1, <1>4 DEF Starvation, StarvedIsKnown, Listed, Registers
<1>10. Mutexes
  <2>1. \A t \in Thread : at[t] \notin Own /\ at[t] \notin Other /\ at[t] # "release"
    BY <1>4 DEF Own, Other
  <2> QED BY <1>1, <1>3, <2>1 DEF Mutexes
<1> QED BY <1>5, <1>6, <1>7, <1>8, <1>9, <1>10 DEF IInv

\* Every step keeps the inductive invariant.
LEMMA NextStep == IInv /\ [Next]_vars => IInv'
<1> SUFFICES ASSUME IInv, [Next]_vars  PROVE IInv'
  OBVIOUS
<1>1. ASSUME NEW i \in Info, Worker(i)  PROVE IInv'
  BY <1>1, TakeJobStep, RunJobStep, ParkStep, TerminateStep, ReturnStep, StopStarvationStep,
     ReleaseStep, SelectStarvingStep, ThreadAvailableStep DEF Worker
<1>2. ASSUME NEW t \in Thread, Allocate(t)  PROVE IInv'
  BY <1>2, ResumePrivateStep, CreatePrivateStep, AllocateSharedStep, StarveStep,
     AddStarvingStep, NoThreadStep DEF Allocate
<1>3. CASE UNCHANGED vars
  <2>1. /\ UNCHANGED <<pool, allocCount, poolToCreate, starving, starved>>
        /\ UNCHANGED <<running, suspended, toCreate, fromShared, unused>>
        /\ UNCHANGED <<queue, emptyEvent, stopCount, owner, at, serves, aggressive, mutex>>
    BY <1>3 DEF vars, poolVars, lists, jobs, threads
  <2>2. Types' /\ Places'
    BY <2>1 DEF IInv, Types, Places
  <2>3. Lists'
    BY <2>1, KeepLists DEF IInv, Lists
  <2>4. Counters'
    BY <2>1, KeepCounters DEF IInv, Counters
  <2>5. Starvation' /\ Mutexes'
    BY <2>1, KeepStarvation, KeepMutexes DEF IInv
  <2> QED BY <2>2, <2>3, <2>4, <2>5 DEF IInv
<1> QED BY <1>1, <1>2, <1>3, CallStep DEF Next

\* The history variable has its type, whatever else happens.
ThrownType == thrown \in [Scheduler -> BOOLEAN]

LEMMA ThrownTypes == Spec => []ThrownType
<1>1. Init => ThrownType
  BY DEF Init, ThrownType
<1>2. ThrownType /\ [Next]_vars => ThrownType'
  <2> SUFFICES ASSUME ThrownType, [Next]_vars  PROVE ThrownType'
    OBVIOUS
  <2>1. ASSUME NEW s, NEW i, GoesIdle(s, i)  PROVE ThrownType'
    BY <2>1 DEF GoesIdle, ThrownType
  <2>2. ASSUME NEW i \in Info, Worker(i)  PROVE ThrownType'
    <3>1. CASE Park(i) \/ Terminate(i) \/ Release(i)
      BY <2>1, <3>1 DEF Park, Terminate, Release
    <3>2. CASE \/ TakeJob(i) \/ RunJob(i) \/ Return(i) \/ StopStarvation(i)
               \/ SelectStarving(i) \/ ThreadAvailable(i)
      BY <3>2 DEF TakeJob, RunJob, Return, StopStarvation, SelectStarving, ThreadAvailable,
         jobs, ThrownType
    <3> QED BY <2>2, <3>1, <3>2 DEF Worker
  <2>3. ASSUME NEW t \in Thread, Allocate(t)  PROVE ThrownType'
    BY <2>3 DEF Allocate, ResumePrivate, CreatePrivate, AllocateSharedThread, Starve,
       AddStarving, NoThread, jobs, ThrownType
  <2>4. ASSUME NEW c \in Client, NEW s, Look(c, s)  PROVE ThrownType'
    BY <2>4 DEF Look, ThrownType
  <2>5. ASSUME NEW c \in Client, Call(c)  PROVE ThrownType'
    BY <2>4, <2>5 DEF Call, Schedule, Stop, Resume, WaitForEmptyQueue, LookAgain, ThrownType
  <2>6. UNCHANGED vars => ThrownType'
    BY DEF vars, jobs, ThrownType
  <2> QED BY <2>2, <2>3, <2>5, <2>6 DEF Next
<1> QED BY <1>1, <1>2, PTL DEF Spec

\* The inductive invariant of the schedulers and their pool.
THEOREM SchedulerInvariance == Spec => []IInv
BY InitInv, NextStep, PTL DEF Spec

\* Every variable keeps its type: no counter falls below zero, and a thread has an owner
\* exactly while it exists and is not in the shared pool.
THEOREM SchedulerTypes == Spec => []TypeOK
<1>1. ASSUME IInv, ThrownType  PROVE TypeOK
  <2>1. allocCount \in Nat
    BY <1>1, FS_CardinalityType DEF IInv, Counters
  <2>2. unused \in [Scheduler -> Nat]
    <3>1. unused \in [Scheduler -> Int]
      BY <1>1 DEF IInv, Types
    <3>2. ASSUME NEW s \in Scheduler  PROVE unused[s] \in Nat
      <4>1. /\ unused[s] = Cardinality(suspended[s]) + toCreate[s]
                               + sharedThreads[s] - fromShared[s]
            /\ fromShared[s] <= sharedThreads[s]
        BY <1>1 DEF IInv, Counters, CountersMatch
      <4>2. /\ Cardinality(suspended[s]) \in Nat /\ toCreate[s] \in Nat
            /\ sharedThreads[s] \in Nat /\ fromShared[s] \in Nat
        BY <1>1, CountAssumption, FS_CardinalityType DEF IInv, Types
      <4> QED BY <4>1, <4>2
    <3> QED BY <3>1, <3>2
  <2>3. \A i \in Info : owner[i] = NoScheduler <=> i \in pool \/ at[i] = "none"
    BY <1>1 DEF IInv, Lists
  <2> QED BY <1>1, <2>1, <2>2, <2>3 DEF IInv, Types, ThrownType, TypeOK
<1> QED BY <1>1, SchedulerInvariance, ThrownTypes, PTL

\* The counters of SThreads and of the pool agree with the lists of threads.
THEOREM SchedulerCounters == Spec => []CountersMatch
BY SchedulerInvariance, PTL DEF IInv, Counters

\* Nothing is borrowed from the pool while there are private threads to be had.
THEOREM SchedulerBorrowsOnlyInNeed == Spec => []BorrowsOnlyInNeed
BY SchedulerInvariance, PTL DEF IInv, Counters

\* A thread is in one list at a time.
THEOREM SchedulerOneList == Spec => []OneList
<1>1. ASSUME IInv  PROVE OneList
  <2>1. \A s \in Scheduler : /\ running[s] \subseteq Info /\ suspended[s] \subseteq Info
                              /\ s # NoScheduler
    BY <1>1, SchedulerAssumption DEF IInv, Types
  <2>2. \A s \in Scheduler : \A i \in running[s] : owner[i] = s /\ at[i] # "asleep"
    BY <1>1, <2>1 DEF IInv, Lists
  <2>3. \A s \in Scheduler : \A i \in suspended[s] : owner[i] = s /\ at[i] = "asleep"
    BY <1>1, <2>1 DEF IInv, Lists
  <2>4. \A i \in pool : owner[i] = NoScheduler
    BY <1>1 DEF IInv, Lists, Types
  <2> QED BY <2>1, <2>2, <2>3, <2>4 DEF OneList
<1> QED BY <1>1, SchedulerInvariance, PTL

\* A scheduler that is flagged as starving is known to the pool, and no other is.
THEOREM SchedulerStarvedIsKnown == Spec => []StarvedIsKnown
BY SchedulerInvariance, PTL DEF IInv, Starvation

\* The mutexes of schedulers that are taken one inside of the other end in no circle: only
\* the loop of StopStarvation can be what all wait for.
THEOREM SchedulerOnlyStopStarvationBlocks == Spec => []OnlyStopStarvationBlocks
<1>1. ASSUME IInv  PROVE OnlyStopStarvationBlocks
  <2> SUFFICES ASSUME NEW t \in Thread, Busy(t),
                      \A u \in Thread : Busy(u) => Waits(u),
                      \A u \in Thread : at[u] # "stop"
               PROVE  FALSE
    BY DEF OnlyStopStarvationBlocks
  <2>1. ASSUME NEW s \in Scheduler, mutex[s] # Nobody
        PROVE  mutex[s] \in Thread /\ at[mutex[s]] = "notify" /\ ~starved[s]
    <3>1. mutex[s] \in Thread /\ at[mutex[s]] \in Own \cup Other
      BY <1>1, <2>1, Holder DEF IInv
    <3>2. Waits(mutex[s])
      BY <3>1 DEF Busy, Own, Other
    <3>3. at[mutex[s]] = "notify"
      BY <3>1, <3>2 DEF Waits, Own, Other
    <3> QED BY <1>1, <2>1, <3>1, <3>3 DEF IInv, Mutexes, Own
  <2>2. ASSUME NEW u \in Thread, at[u] = "notify"  PROVE FALSE
    <3>1. serves[u] \in Scheduler /\ starved[serves[u]]
      BY <1>1, <2>2 DEF IInv, Places, Starvation, StarvedIsKnown
    <3>2. mutex[serves[u]] # Nobody
      BY <2>2 DEF Busy, Waits, Free
    <3> QED BY <2>1, <3>1, <3>2
  <2>3. at[t] = "assign" /\ mutex[owner[t]] # Nobody
    BY <2>2 DEF Waits, Free
  <2>4. owner[t] \in Scheduler
    <3>1. t \in Info
      BY <1>1, <2>3 DEF IInv, Places, Thread
    <3> QED BY <1>1, <2>3, <3>1, Assigned DEF IInv
  <2> QED BY <2>1, <2>2, <2>3, <2>4
<1> QED BY <1>1, SchedulerInvariance, PTL

\* Told(s): a thread that waits for scheduler s finds its event set, or the jobs were thrown
\* away by another waiter.
Told(s) == emptyEvent[s] \/ thrown[s]

\* Whatever a waiter needs to be told does not get lost in a step: the last thread that
\* goes idle sets the event, and only a waiter can empty the queue without one.
LEMMA EmptyStep ==
    ASSUME IInv, ThrownType, EmptySignalled, [Next]_vars
    PROVE  EmptySignalled'
<1> SUFFICES ASSUME NEW c \in Client, at'[c] = "wait", NEW s, s = serves'[c],
                    running'[s] = {}, queue'[s] = 0
             PROVE  Told(s)'
  BY DEF EmptySignalled, Told
<1>1. /\ c \in Client /\ c \in Thread /\ c \notin Info
      /\ at \in [Thread -> Control] /\ serves \in [Thread -> Scheduler \cup {NoScheduler}]
      /\ running \in [Scheduler -> SUBSET Info] /\ queue \in [Scheduler -> Nat]
      /\ emptyEvent \in [Scheduler -> BOOLEAN] /\ thrown \in [Scheduler -> BOOLEAN]
      /\ \A i \in Info : i \in Thread /\ i # c
  BY ThreadAssumption DEF IInv, Types, Thread, ThrownType
<1>2. ASSUME at[c] = "wait", serves[c] = s, running[s] = {}, queue[s] = 0,
             emptyEvent'[s] = emptyEvent[s], thrown'[s] = thrown[s]
      PROVE  Told(s)'
  BY <1>1, <1>2 DEF EmptySignalled, Told
<1>3. at[c] = "wait" /\ serves[c] = s => s \in Scheduler
  BY <1>1 DEF IInv, Places
<1>4. ASSUME NEW i \in Info, NEW r \in Scheduler, i \in running[r], GoesIdle(r, i),
             at[c] = "wait", serves[c] = s, queue[s] = 0
      PROVE  Told(s)'
  <2>1. running' = [running EXCEPT ![r] = @ \ {i}]
    BY <1>4 DEF GoesIdle
  <2>2. CASE r = s
    <3>1. running[r] = {i}
      BY <1>1, <1>4, <2>1, <2>2
    <3>2. emptyEvent' = [emptyEvent EXCEPT ![r] = TRUE]
      BY <1>4, <3>1 DEF GoesIdle
    <3> QED BY <1>1, <2>2, <3>2 DEF Told
  <2>3. CASE r # s
    <3>1. running[s] = {} /\ s \in Scheduler
      BY <1>1, <1>3, <1>4, <2>1, <2>3
    <3>2. \/ emptyEvent' = emptyEvent /\ thrown' = thrown
          \/ /\ emptyEvent' = [emptyEvent EXCEPT ![r] = TRUE]
             /\ thrown' = [thrown EXCEPT ![r] = FALSE]
      BY <1>4 DEF GoesIdle
    <3>3. emptyEvent'[s] = emptyEvent[s]
      BY <1>1, <2>3, <3>1, <3>2
    <3>4. thrown'[s] = thrown[s]
      BY <1>1, <2>3, <3>1, <3>2
    <3> QED BY <1>2, <1>4, <3>1, <3>3, <3>4
  <2> QED BY <2>2, <2>3
<1>5. ASSUME NEW i \in Info, Worker(i)  PROVE Told(s)'
  <2>1. at[c] = "wait" /\ serves[c] = s
    BY <1>1, <1>5 DEF Worker, TakeJob, RunJob, Park, Terminate, Return, StopStarvation, Release,
       SelectStarving, ThreadAvailable, Goto, Serve, threads
  <2>2. CASE TakeJob(i)
    <3>1. owner[i] \in Scheduler /\ i \in running[owner[i]]
      BY <2>2, Assigned DEF IInv, TakeJob
    <3>2. running' = running /\ UNCHANGED <<emptyEvent, thrown>> /\ queue' = [queue EXCEPT ![owner[i]] = @ + (-1)]
      BY <2>2 DEF TakeJob, Add, lists
    <3>3. queue[s] = 0
      BY <1>1, <1>3, <2>1, <3>1, <3>2
    <3> QED BY <1>2, <2>1, <3>2, <3>3
  <2>3. CASE Park(i) \/ Terminate(i)
    <3>1. at[i] = "assign" /\ GoesIdle(owner[i], i) /\ queue' = queue
      BY <2>3 DEF Park, Terminate, Idles
    <3>2. owner[i] \in Scheduler /\ i \in running[owner[i]]
      BY <3>1, Assigned DEF IInv
    <3> QED BY <1>4, <2>1, <3>1, <3>2
  <2>4. CASE Release(i)
    <3>1. at[i] = "release" /\ GoesIdle(serves[i], i) /\ queue' = queue
      BY <2>4 DEF Release
    <3>2. serves[i] \in Scheduler /\ i \in running[serves[i]]
      BY <1>1, <3>1, SchedulerAssumption DEF IInv, Places, Lists
    <3> QED BY <1>4, <2>1, <3>1, <3>2
  <2>5. CASE RunJob(i) \/ Return(i) \/ StopStarvation(i) \/ SelectStarving(i) \/ ThreadAvailable(i)
    <3>1. running' = running /\ UNCHANGED <<emptyEvent, thrown>> /\ queue' = queue
      BY <2>5 DEF RunJob, Return, StopStarvation, SelectStarving, ThreadAvailable, lists, jobs
    <3> QED BY <1>2, <2>1, <3>1
  <2> QED BY <1>5, <2>2, <2>3, <2>4, <2>5 DEF Worker
<1>6. ASSUME NEW t \in Thread, Allocate(t)  PROVE Told(s)'
  <2>1. queue' = queue /\ UNCHANGED <<emptyEvent, thrown>>
    BY <1>6 DEF Allocate, ResumePrivate, CreatePrivate, AllocateSharedThread, Starve,
       AddStarving, NoThread, jobs
  <2>2. ASSUME NEW i \in Info, Started(t, i), at[t] \in {"schedule", "resume", "offer"}
        PROVE  at[c] = "wait" /\ serves[c] = s /\ (s \in Scheduler => running[s] = {})
    <3>1. /\ running' = [running EXCEPT ![serves[t]] = @ \cup {i}]
          /\ at' = [at EXCEPT ![i] = IF @ \in {"none", "asleep"} THEN "assign" ELSE @,
                              ![t] = IF @ = "schedule" THEN "idle" ELSE @]
          /\ IF at[t] = "schedule" THEN Leave(t) ELSE UNCHANGED <<mutex, serves>>
      BY <2>2 DEF Started
    <3>2. serves[t] \in Scheduler
      BY <2>2, Allocating
    <3>3. c # t
      BY <1>1, <2>2, <3>1
    <3>4. at[c] = "wait" /\ serves'[c] = serves[c]
      BY <1>1, <3>1, <3>3 DEF Leave, Serve
    <3> QED BY <1>1, <3>1, <3>2, <3>4
  <2>3. CASE ResumePrivate(t)
    <3>1. PICK i \in suspended[serves[t]] : Started(t, i)
      BY <2>3 DEF ResumePrivate
    <3>2. at[t] \in {"schedule", "resume", "offer"}
      BY <2>3 DEF ResumePrivate
    <3>3. i \in Info
      BY <3>1, <3>2, Allocating DEF IInv, Types
    <3> QED BY <1>2, <1>3, <2>1, <2>2, <3>1, <3>2, <3>3
  <2>4. CASE CreatePrivate(t)
    <3>1. PICK i \in Info : Started(t, i)
      BY <2>4 DEF CreatePrivate
    <3>2. at[t] \in {"schedule", "resume", "offer"}
      BY <2>4 DEF CreatePrivate
    <3> QED BY <1>2, <1>3, <2>1, <2>2, <3>1, <3>2
  <2>5. CASE AllocateSharedThread(t)
    <3>1. PICK i \in Info : Started(t, i)
      BY <2>5 DEF AllocateSharedThread
    <3>2. at[t] \in {"schedule", "resume", "offer"}
      BY <2>5 DEF AllocateSharedThread, MayBorrow, WantsThread
    <3> QED BY <1>2, <1>3, <2>1, <2>2, <3>1, <3>2
  <2>6. CASE Starve(t)
    <3>1. at' = [at EXCEPT ![t] = "starve"] /\ serves' = serves /\ running' = running
      BY <2>6 DEF Starve, Goto, lists
    <3>2. at[c] = "wait" /\ serves[c] = s
      BY <1>1, <3>1
    <3> QED BY <1>2, <2>1, <3>1, <3>2
  <2>7. CASE AddStarving(t) \/ NoThread(t)
    <3>1. /\ at' = [at EXCEPT ![t] = IF t \in Client THEN "idle" ELSE "select"]
          /\ serves' = [serves EXCEPT ![t] = NoScheduler] /\ running' = running
      BY <2>7 DEF AddStarving, NoThread, Leave, Serve, Goto, After, lists
    <3>2. at[c] = "wait" /\ serves[c] = s
      BY <1>1, <3>1
    <3> QED BY <1>2, <2>1, <3>1, <3>2
  <2> QED BY <1>6, <2>3, <2>4, <2>5, <2>6, <2>7 DEF Allocate
<1>7. ASSUME NEW d \in Client, Call(d)  PROVE Told(s)'
  <2>1. d \in Thread /\ (d # c => at'[c] = at[c] /\ serves'[c] = serves[c])
    BY <1>1, <1>7 DEF Call, WaitForEmptyQueue, LookAgain, Schedule, Stop, Resume, Look, Goto,
       Serve, Thread, threads
  <2>2. ASSUME NEW r \in Scheduler, Schedule(d, r) \/ Stop(d, r) \/ Resume(d, r)  PROVE Told(s)'
    <3>1. /\ at[d] = "idle" /\ (at' = at \/ Goto(d, "schedule") \/ Goto(d, "resume"))
          /\ running' = running /\ thrown' = thrown
      BY <2>2 DEF Schedule, Stop, Resume, threads, lists
    <3>2. d # c
      BY <1>1, <3>1 DEF Goto
    <3>3. at[c] = "wait" /\ serves[c] = s /\ s \in Scheduler
      BY <1>3, <2>1, <3>2
    <3>4. CASE Schedule(d, r)
      <4>1. /\ queue' = [queue EXCEPT ![r] = @ + 1]
            /\ emptyEvent' = emptyEvent \/ emptyEvent' = [emptyEvent EXCEPT ![r] = FALSE]
        BY <3>4 DEF Schedule, Add
      <4>2. r # s
        BY <1>1, <3>3, <4>1
      <4>3. queue'[s] = queue[s] /\ emptyEvent'[s] = emptyEvent[s]
        BY <1>1, <3>3, <4>1, <4>2
      <4> QED BY <1>2, <3>1, <3>3, <4>3
    <3>5. CASE Stop(d, r) \/ Resume(d, r)
      <4>1. UNCHANGED <<queue, emptyEvent>>
        BY <3>5 DEF Stop, Resume
      <4> QED BY <1>2, <3>1, <3>3, <4>1
    <3> QED BY <2>2, <3>4, <3>5
  <2>3. ASSUME NEW r \in Scheduler, Look(d, r)  PROVE Told(s)'
    <3>1. /\ running' = running
          /\ queue' = queue \/ queue' = [queue EXCEPT ![r] = 0]
          /\ thrown' = IF running[r] = {} /\ queue'[r] # queue[r] THEN [thrown EXCEPT ![r] = TRUE]
                       ELSE thrown
          /\ IF running[r] = {} /\ queue'[r] = 0
             THEN Goto(d, "idle") /\ emptyEvent' = emptyEvent
             ELSE /\ Goto(d, "wait") /\ Serve(d, r)
                  /\ emptyEvent' = [emptyEvent EXCEPT ![r] = FALSE]
      BY <2>3 DEF Look, lists
    <3>2. d # c
      <4>1. CASE running[r] = {} /\ queue'[r] = 0
        BY <1>1, <3>1, <4>1 DEF Goto
      <4>2. CASE ~(running[r] = {} /\ queue'[r] = 0)
        <5>1. Serve(d, r)
          BY <3>1, <4>2
        <5>2. d = c => s = r
          BY <1>1, <5>1 DEF Serve
        <5> QED BY <3>1, <4>2, <5>2
      <4> QED BY <4>1, <4>2
    <3>3. at[c] = "wait" /\ serves[c] = s /\ s \in Scheduler
      BY <1>3, <2>1, <3>2
    <3>4. CASE r # s
      <4>1. queue'[s] = queue[s]
        BY <1>1, <3>1, <3>3, <3>4
      <4>2. emptyEvent'[s] = emptyEvent[s] /\ thrown'[s] = thrown[s]
        <5>1. emptyEvent' = emptyEvent \/ emptyEvent' = [emptyEvent EXCEPT ![r] = FALSE]
          BY <3>1
        <5>2. thrown' = thrown \/ thrown' = [thrown EXCEPT ![r] = TRUE]
          BY <3>1
        <5> QED BY <1>1, <3>3, <3>4, <5>1, <5>2
      <4> QED BY <1>2, <3>1, <3>3, <4>1, <4>2
    <3>5. CASE r = s
      <4>1. running[s] = {} /\ emptyEvent' = emptyEvent
        BY <3>1, <3>5
      <4>2. CASE queue[s] = 0
        <5>1. thrown' = thrown
          BY <3>1, <3>5, <4>2
        <5> QED BY <1>2, <3>3, <4>1, <4>2, <5>1
      <4>3. CASE queue[s] # 0
        <5>1. thrown' = [thrown EXCEPT ![s] = TRUE]
          BY <3>1, <3>5, <4>1, <4>3
        <5> QED BY <1>1, <3>3, <5>1 DEF Told
      <4> QED BY <4>2, <4>3
    <3> QED BY <3>4, <3>5
  <2>4. at[d] = "wait" => serves[d] \in Scheduler
    BY <1>1, <2>1 DEF IInv, Places
  <2> QED BY <1>7, <2>2, <2>3, <2>4 DEF Call, WaitForEmptyQueue, LookAgain
<1>8. CASE UNCHANGED vars
  <2>1. UNCHANGED <<at, serves, running, queue, emptyEvent, thrown>>
    BY <1>8 DEF vars, lists, jobs, threads
  <2> QED BY <1>2, <2>1
<1> QED BY <1>5, <1>6, <1>7, <1>8 DEF Next

\* With any number of clients, a thread that waits for the end of all jobs is told of it,
\* unless another one that waits has thrown the last jobs away.
THEOREM SchedulerEmptySignalled == Spec => []EmptySignalled
<1>1. Init => EmptySignalled
  BY DEF Init, EmptySignalled, Thread
<1>2. IInv /\ ThrownType /\ EmptySignalled /\ [Next]_vars => EmptySignalled'
  BY EmptyStep
<1> QED BY <1>1, <1>2, SchedulerInvariance, ThrownTypes, PTL DEF Spec
===============================================================================
