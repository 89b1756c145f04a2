------------------------ MODULE ReaderWriterLockProofs ------------------------
(* Proofs about ReaderWriterLock, for every set of threads and every depth. *)
EXTENDS ReaderWriterLock, FiniteSetTheorems, TLAPS

(* Sets that differ in one element only.                                   *)

LEMMA CardStep ==
    ASSUME NEW S, NEW T, NEW x, IsFiniteSet(S), IsFiniteSet(T),
           S \ {x} = T \ {x}
    PROVE  /\ Cardinality(S) \in Nat /\ Cardinality(T) \in Nat
           /\ (x \in S <=> x \in T) => Cardinality(T) = Cardinality(S)
           /\ x \notin S /\ x \in T => Cardinality(T) = Cardinality(S) + 1
           /\ x \in S /\ x \notin T => Cardinality(T) = Cardinality(S) - 1
<1>1. Cardinality(S) \in Nat /\ Cardinality(T) \in Nat
  BY FS_CardinalityType
<1>2. ASSUME x \in S <=> x \in T PROVE Cardinality(T) = Cardinality(S)
  <2>1. S = T
    BY <1>2
  <2>2. QED BY <2>1
<1>3. ASSUME x \notin S, x \in T PROVE Cardinality(T) = Cardinality(S) + 1
  <2>1. T = S \cup {x}
    BY <1>3
  <2>2. QED BY <2>1, <1>3, FS_AddElement
<1>4. ASSUME x \in S, x \notin T PROVE Cardinality(T) = Cardinality(S) - 1
  <2>1. S = T \cup {x}
    BY <1>4
  <2>2. Cardinality(S) = Cardinality(T) + 1
    BY <2>1, <1>4, FS_AddElement
  <2>3. QED BY <2>2, <1>1
<1>5. QED BY <1>1, <1>2, <1>3, <1>4

LEMMA CardSmall ==
    ASSUME NEW S, IsFiniteSet(S)
    PROVE  /\ Cardinality(S) \in Nat
           /\ Cardinality(S) = 0 <=> S = {}
           /\ \A x \in S : Cardinality(S) = 1 => S = {x}
           /\ \A x \in S : S = {x} => Cardinality(S) = 1
<1>1. Cardinality(S) \in Nat /\ (Cardinality(S) = 0 <=> S = {})
  BY FS_CardinalityType, FS_EmptySet
<1>2. \A x \in S : Cardinality(S) = 1 => S = {x}
  BY FS_Singleton
<1>3. \A x \in S : S = {x} => Cardinality(S) = 1
  BY FS_Singleton
<1>4. QED BY <1>1, <1>2, <1>3

LEMMA ThreadSetsFinite ==
    /\ IsFiniteSet(Readers) /\ IsFiniteSet(Writers) /\ IsFiniteSet(Waiters)
    /\ IsFiniteSet(Readers') /\ IsFiniteSet(Writers') /\ IsFiniteSet(Waiters')
BY ThreadAssumption, FS_Subset DEF Readers, Writers, Waiters

(* What a step of thread t does to the counted sets is what it does to t.  *)

OnlyThread(t) ==
    /\ rd' \in [Thread -> Nat] /\ wr' \in [Thread -> Nat]
    /\ pc' \in [Thread -> Control] /\ timed' \in [Thread -> BOOLEAN]
    /\ \A u \in Thread \ {t} : /\ rd'[u] = rd[u] /\ wr'[u] = wr[u]
                              /\ pc'[u] = pc[u] /\ timed'[u] = timed[u]

LEMMA SetsStep ==
    ASSUME NEW t \in Thread, TypeOK, OnlyThread(t)
    PROVE  /\ Readers \ {t} = Readers' \ {t}
           /\ Writers \ {t} = Writers' \ {t}
           /\ Waiters \ {t} = Waiters' \ {t}
BY DEF OnlyThread, Readers, Writers, Waiters, Reads, Writes, Queued, Waiting

\* The count of a set after a step, from its count before and from t.
Recount(before, after, was, is) ==
    after = IF was = is THEN before ELSE IF is THEN before + 1 ELSE before - 1

LEMMA CountStep ==
    ASSUME NEW t \in Thread, TypeOK, OnlyThread(t)
    PROVE  /\ Recount(Cardinality(Readers), Cardinality(Readers'),
                      Reads(t), Reads(t)')
           /\ Recount(Cardinality(Writers), Cardinality(Writers'),
                      Writes(t) \/ Queued(t), (Writes(t) \/ Queued(t))')
           /\ Recount(Cardinality(Waiters), Cardinality(Waiters'),
                      Waiting(t), Waiting(t)')
<1>1. /\ t \in Readers <=> Reads(t)
      /\ t \in Readers' <=> Reads(t)'
      /\ t \in Writers <=> (Writes(t) \/ Queued(t))
      /\ t \in Writers' <=> (Writes(t) \/ Queued(t))'
      /\ t \in Waiters <=> Waiting(t)
      /\ t \in Waiters' <=> Waiting(t)'
  BY DEF Readers, Writers, Waiters
<1>2. /\ Reads(t) \in BOOLEAN /\ Reads(t)' \in BOOLEAN
      /\ (Writes(t) \/ Queued(t)) \in BOOLEAN
      /\ (Writes(t) \/ Queued(t))' \in BOOLEAN
      /\ Waiting(t) \in BOOLEAN /\ Waiting(t)' \in BOOLEAN
  BY DEF Reads, Writes, Queued, Waiting
<1>3. Recount(Cardinality(Readers), Cardinality(Readers'),
              Reads(t), Reads(t)')
  BY <1>1, <1>2, SetsStep, ThreadSetsFinite, CardStep DEF Recount
<1>4. Recount(Cardinality(Writers), Cardinality(Writers'),
              Writes(t) \/ Queued(t), (Writes(t) \/ Queued(t))')
  BY <1>1, <1>2, SetsStep, ThreadSetsFinite, CardStep DEF Recount
<1>5. Recount(Cardinality(Waiters), Cardinality(Waiters'),
              Waiting(t), Waiting(t)')
  BY <1>1, <1>2, SetsStep, ThreadSetsFinite, CardStep DEF Recount
<1>6. QED BY <1>3, <1>4, <1>5

(* The members keep their types: each operator of RWLockImpl stays in Impl *)
(* where the program calls it.                                             *)

LEMMA EventTypes ==
    \A e \in Event : /\ SetIfOpen(e) \in Event /\ ResetIfOpen(e) \in Event
                     /\ CreateIfNone(e) \in Event
BY DEF Event, SetIfOpen, ResetIfOpen, CreateIfNone

LEMMA ImplTypes ==
    ASSUME NEW s \in Impl
    PROVE  /\ EnterReader(s) \in Impl
           /\ ReaderWaitBegin(s) \in Impl
           /\ s.waiting # 0 => ReaderWaitEnd(s) \in Impl
           /\ s.entered # 0 => ReaderRelease(s) \in Impl
           /\ WriterWaitBegin(s) \in Impl
           /\ s.writers # 0 => WriterWaitUndo(s) \in Impl
           /\ TakeOverAlone(s) \in Impl
           /\ \A d \in BOOLEAN : s.writers # 0 => WriterRelease(s, d) \in Impl
<1>1. /\ s.writers \in Nat /\ s.entered \in Nat /\ s.waiting \in Nat
      /\ s.safeToWrite \in Event /\ s.safeToRead \in Event
  BY DEF Impl
<1>2. /\ s.writers + 1 \in Nat /\ s.entered + 1 \in Nat /\ s.waiting + 1 \in Nat
      /\ s.writers # 0 => s.writers - 1 \in Nat
      /\ s.entered # 0 => s.entered - 1 \in Nat
      /\ s.waiting # 0 => s.waiting - 1 \in Nat
      /\ 0 \in Nat /\ 1 \in Nat
  BY <1>1
<1>3. "none" \in Event /\ "set" \in Event
  BY DEF Event
<1>4. EnterReader(s) \in Impl /\ TakeOverAlone(s) \in Impl
  BY <1>2 DEF EnterReader, TakeOverAlone, Impl
<1>5. ReaderWaitBegin(s) \in Impl
  <2>1. CreateIfNone(s.safeToRead) \in Event
    BY <1>1, EventTypes
  <2>2. QED BY <2>1, <1>2 DEF ReaderWaitBegin, Impl
<1>6. ASSUME s.waiting # 0 PROVE ReaderWaitEnd(s) \in Impl
  <2>1. (IF s.waiting = 1 THEN "none" ELSE s.safeToRead) \in Event
    BY <1>1, <1>3
  <2>2. QED BY <2>1, <1>2, <1>6 DEF ReaderWaitEnd, Impl
<1>7. ASSUME s.entered # 0 PROVE ReaderRelease(s) \in Impl
  <2>1. (IF s.entered = 1 THEN SetIfOpen(s.safeToWrite) ELSE s.safeToWrite) \in Event
    BY <1>1, EventTypes
  <2>2. QED BY <2>1, <1>2, <1>7 DEF ReaderRelease, Impl
<1>8. WriterWaitBegin(s) \in Impl
  <2>1. (IF s.writers = 0 THEN ResetIfOpen(s.safeToRead) ELSE s.safeToRead) \in Event
    BY <1>1, EventTypes
  <2>2. CreateIfNone(s.safeToWrite) \in Event
    BY <1>1, EventTypes
  <2>3. QED BY <2>1, <2>2, <1>2 DEF WriterWaitBegin, Impl
<1>9. ASSUME s.writers # 0 PROVE WriterWaitUndo(s) \in Impl
  <2>1. (IF UndoAdmits(s) THEN s.writers ELSE s.writers - 1) \in Nat
    BY <1>1, <1>2, <1>9
  <2>2. (IF s.writers = 1 THEN "none" ELSE s.safeToWrite) \in Event
    BY <1>1, <1>3
  <2>3. (IF s.writers = 1 /\ s.entered # 0
         THEN SetIfOpen(s.safeToRead) ELSE s.safeToRead) \in Event
    BY <1>1, EventTypes
  <2>4. QED BY <2>1, <2>2, <2>3 DEF WriterWaitUndo, Impl
<1>10. ASSUME NEW d \in BOOLEAN, s.writers # 0 PROVE WriterRelease(s, d) \in Impl
  <2>1. (IF d THEN s.entered + 1 ELSE s.entered) \in Nat
    BY <1>1, <1>2
  <2>2. (IF s.writers - 1 = 0 THEN "none"
         ELSE IF d THEN s.safeToWrite ELSE "set") \in Event
    BY <1>1, <1>3
  <2>3. (IF s.writers - 1 = 0 THEN SetIfOpen(s.safeToRead) ELSE s.safeToRead) \in Event
    BY <1>1, EventTypes
  <2>4. QED BY <2>1, <2>2, <2>3, <1>2, <1>10 DEF WriterRelease, Impl
<1>11. QED BY <1>4, <1>5, <1>6, <1>7, <1>8, <1>9, <1>10

\* What the exact counters tell about the threads.
LEMMA CountFacts ==
    ASSUME TypeOK, CountersExact, NEW t \in Thread
    PROVE  /\ impl.entered = 0 <=> \A u \in Thread : ~Reads(u)
           /\ Reads(t) => /\ impl.entered # 0
                          /\ impl.entered = 1 <=> \A u \in Thread \ {t} : ~Reads(u)
           /\ impl.writers = 0 <=> \A u \in Thread : ~Writes(u) /\ ~Queued(u)
           /\ Writes(t) \/ Queued(t) =>
                 /\ impl.writers # 0
                 /\ impl.writers = 1 <=> \A u \in Thread \ {t} : ~Writes(u) /\ ~Queued(u)
           /\ impl.waiting = 0 <=> \A u \in Thread : ~Waiting(u)
           /\ Waiting(t) => /\ impl.waiting # 0
                            /\ impl.waiting = 1 <=> \A u \in Thread \ {t} : ~Waiting(u)
<1>1. /\ impl.entered = 0 <=> Readers = {}
      /\ t \in Readers => (impl.entered = 1 <=> Readers = {t})
  BY CardSmall, ThreadSetsFinite DEF CountersExact
<1>2. /\ impl.writers = 0 <=> Writers = {}
      /\ t \in Writers => (impl.writers = 1 <=> Writers = {t})
  BY CardSmall, ThreadSetsFinite DEF CountersExact
<1>3. /\ impl.waiting = 0 <=> Waiters = {}
      /\ t \in Waiters => (impl.waiting = 1 <=> Waiters = {t})
  BY CardSmall, ThreadSetsFinite DEF CountersExact
<1>4. /\ impl.entered = 0 <=> \A u \in Thread : ~Reads(u)
      /\ Reads(t) => /\ impl.entered # 0
                     /\ impl.entered = 1 <=> \A u \in Thread \ {t} : ~Reads(u)
  BY <1>1 DEF Readers
<1>5. /\ impl.writers = 0 <=> \A u \in Thread : ~Writes(u) /\ ~Queued(u)
      /\ Writes(t) \/ Queued(t) =>
            /\ impl.writers # 0
            /\ impl.writers = 1 <=> \A u \in Thread \ {t} : ~Writes(u) /\ ~Queued(u)
  BY <1>2 DEF Writers
<1>6. /\ impl.waiting = 0 <=> \A u \in Thread : ~Waiting(u)
      /\ Waiting(t) => /\ impl.waiting # 0
                       /\ impl.waiting = 1 <=> \A u \in Thread \ {t} : ~Waiting(u)
  BY <1>3 DEF Waiters
<1>7. QED BY <1>4, <1>5, <1>6

(* One step of each action keeps the invariant.                            *)

LEMMA AcquireReaderNestedKeeps ==
    ASSUME NEW t \in Thread, IInv, AcquireReaderNested(t)
    PROVE  IInv'
<1> USE DEF AcquireReaderNested
<1>1. TypeOK /\ CountersExact /\ ControlInv
  BY DEF IInv
<1>2. OnlyThread(t)
  BY <1>1 DEF OnlyThread, TypeOK, Control, Goto, InMap
<1>3. impl' \in Impl
  BY <1>1 DEF TypeOK, Impl, Event
<1> USE DEF TypeOK, Impl, Reads, Writes, Queued, Waiting, InMap, Goto
<1>4. TypeOK'
  BY <1>2, <1>3 DEF OnlyThread
<1>5. CountersExact'
  BY <1>1, <1>2, <1>3, CountStep, CountFacts DEF CountersExact, Recount, ControlInv
<1>6. ControlInv'
  BY <1>1, <1>2 DEF ControlInv, OnlyThread
<1> USE DEF ControlInv, OnlyThread, MutualExclusion, GrantIsExclusive, HandlesOpenWhileUsed
<1>7. MutualExclusion'
  BY <1>1, <1>2, CountFacts DEF IInv
<1>8. GrantIsExclusive'
  BY <1>1, <1>2, CountFacts DEF IInv
<1>9. HandlesOpenWhileUsed'
  BY <1>1, <1>2, CountFacts DEF IInv, Event
<1>10. NoLostWakeup'
  BY <1>1, <1>2, CountFacts DEF IInv, NoLostWakeup
<1>11. QED BY <1>4, <1>5, <1>6, <1>7, <1>8, <1>9, <1>10 DEF IInv

LEMMA AcquireReaderAtOnceKeeps ==
    ASSUME NEW t \in Thread, IInv, AcquireReaderAtOnce(t)
    PROVE  IInv'
<1> USE DEF AcquireReaderAtOnce
<1>1. TypeOK /\ CountersExact /\ ControlInv
  BY DEF IInv
<1>2. OnlyThread(t)
  BY <1>1 DEF OnlyThread, TypeOK, Control, Goto, InMap
<1>3. impl' \in Impl
  BY <1>1, ImplTypes, CountFacts DEF TypeOK, InMap, Reads, Writes, Queued, Waiting, ControlInv
<1> USE DEF TypeOK, Impl, Reads, Writes, Queued, Waiting, InMap, Goto, MayRead, EnterReader
<1>4. TypeOK'
  BY <1>2, <1>3 DEF OnlyThread
<1>5. CountersExact'
  BY <1>1, <1>2, <1>3, CountStep, CountFacts DEF CountersExact, Recount, ControlInv
<1>6. ControlInv'
  BY <1>1, <1>2 DEF ControlInv, OnlyThread
<1> USE DEF ControlInv, OnlyThread, MutualExclusion, GrantIsExclusive, HandlesOpenWhileUsed
<1>7. MutualExclusion'
  BY <1>1, <1>2, CountFacts DEF IInv
<1>8. GrantIsExclusive'
  BY <1>1, <1>2, CountFacts DEF IInv
<1>9. HandlesOpenWhileUsed'
  BY <1>1, <1>2, CountFacts DEF IInv, Event
<1>10. NoLostWakeup'
  BY <1>1, <1>2, CountFacts DEF IInv, NoLostWakeup
<1>11. QED BY <1>4, <1>5, <1>6, <1>7, <1>8, <1>9, <1>10 DEF IInv

LEMMA AcquireReaderWaitKeeps ==
    ASSUME NEW t \in Thread, IInv, AcquireReaderWait(t)
    PROVE  IInv'
<1> USE DEF AcquireReaderWait
<1>1. TypeOK /\ CountersExact /\ ControlInv
  BY DEF IInv
<1>2. OnlyThread(t)
  BY <1>1 DEF OnlyThread, TypeOK, Control, Goto, InMap
<1>3. impl' \in Impl
  BY <1>1, ImplTypes, CountFacts DEF TypeOK, InMap, Reads, Writes, Queued, Waiting, ControlInv
<1> USE DEF TypeOK, Impl, Reads, Writes, Queued, Waiting, InMap, Goto, MayRead, ReaderWaitBegin, CreateIfNone
<1>4. TypeOK'
  BY <1>2, <1>3 DEF OnlyThread
<1>5. CountersExact'
  BY <1>1, <1>2, <1>3, CountStep, CountFacts DEF CountersExact, Recount, ControlInv
<1>6. ControlInv'
  BY <1>1, <1>2 DEF ControlInv, OnlyThread
<1> USE DEF ControlInv, OnlyThread, MutualExclusion, GrantIsExclusive, HandlesOpenWhileUsed
<1>7. MutualExclusion'
  BY <1>1, <1>2, CountFacts DEF IInv
<1>8. GrantIsExclusive'
  BY <1>1, <1>2, CountFacts DEF IInv
<1>9. HandlesOpenWhileUsed'
  BY <1>1, <1>2, CountFacts DEF IInv, Event
<1>10. NoLostWakeup'
  BY <1>1, <1>2, CountFacts DEF IInv, NoLostWakeup
<1>11. QED BY <1>4, <1>5, <1>6, <1>7, <1>8, <1>9, <1>10 DEF IInv

LEMMA AcquireWriterNestedKeeps ==
    ASSUME NEW t \in Thread, IInv, AcquireWriterNested(t)
    PROVE  IInv'
<1> USE DEF AcquireWriterNested
<1>1. TypeOK /\ CountersExact /\ ControlInv
  BY DEF IInv
<1>2. OnlyThread(t)
  BY <1>1 DEF OnlyThread, TypeOK, Control, Goto, InMap
<1>3. impl' \in Impl
  BY <1>1 DEF TypeOK, Impl, Event
<1> USE DEF TypeOK, Impl, Reads, Writes, Queued, Waiting, InMap, Goto
<1>4. TypeOK'
  BY <1>2, <1>3 DEF OnlyThread
<1>5. CountersExact'
  BY <1>1, <1>2, <1>3, CountStep, CountFacts DEF CountersExact, Recount, ControlInv
<1>6. ControlInv'
  BY <1>1, <1>2 DEF ControlInv, OnlyThread
<1> USE DEF ControlInv, OnlyThread, MutualExclusion, GrantIsExclusive, HandlesOpenWhileUsed
<1>7. MutualExclusion'
  BY <1>1, <1>2, CountFacts DEF IInv
<1>8. GrantIsExclusive'
  BY <1>1, <1>2, CountFacts DEF IInv
<1>9. HandlesOpenWhileUsed'
  BY <1>1, <1>2, CountFacts DEF IInv, Event
<1>10. NoLostWakeup'
  BY <1>1, <1>2, CountFacts DEF IInv, NoLostWakeup
<1>11. QED BY <1>4, <1>5, <1>6, <1>7, <1>8, <1>9, <1>10 DEF IInv

LEMMA AcquireWriterAtOnceKeeps ==
    ASSUME NEW t \in Thread, IInv, AcquireWriterAtOnce(t)
    PROVE  IInv'
<1> USE DEF AcquireWriterAtOnce
<1>1. TypeOK /\ CountersExact /\ ControlInv
  BY DEF IInv
<1>2. OnlyThread(t)
  BY <1>1 DEF OnlyThread, TypeOK, Control, Goto, InMap
<1>3. impl' \in Impl
  BY <1>1 DEF TypeOK, Impl, Event
<1> USE DEF TypeOK, Impl, Reads, Writes, Queued, Waiting, InMap, Goto
<1>4. TypeOK'
  BY <1>2, <1>3 DEF OnlyThread
<1>5. CountersExact'
  BY <1>1, <1>2, <1>3, CountStep, CountFacts DEF CountersExact, Recount, ControlInv
<1>6. ControlInv'
  BY <1>1, <1>2 DEF ControlInv, OnlyThread
<1> USE DEF ControlInv, OnlyThread, MutualExclusion, GrantIsExclusive, HandlesOpenWhileUsed
<1>7. MutualExclusion'
  BY <1>1, <1>2, CountFacts DEF IInv
<1>8. GrantIsExclusive'
  BY <1>1, <1>2, CountFacts DEF IInv
<1>9. HandlesOpenWhileUsed'
  BY <1>1, <1>2, CountFacts DEF IInv, Event
<1>10. NoLostWakeup'
  BY <1>1, <1>2, CountFacts DEF IInv, NoLostWakeup
<1>11. QED BY <1>4, <1>5, <1>6, <1>7, <1>8, <1>9, <1>10 DEF IInv

LEMMA AcquireWriterWaitKeeps ==
    ASSUME NEW t \in Thread, IInv, AcquireWriterWait(t)
    PROVE  IInv'
<1> USE DEF AcquireWriterWait
<1>1. TypeOK /\ CountersExact /\ ControlInv
  BY DEF IInv
<1>2. OnlyThread(t)
  BY <1>1 DEF OnlyThread, TypeOK, Control, Goto, InMap
<1>3. impl' \in Impl
  BY <1>1, ImplTypes, CountFacts DEF TypeOK, InMap, Reads, Writes, Queued, Waiting, ControlInv
<1> USE DEF TypeOK, Impl, Reads, Writes, Queued, Waiting, InMap, Goto, WriterWaitBegin, ResetIfOpen, CreateIfNone
<1>4. TypeOK'
  BY <1>2, <1>3 DEF OnlyThread
<1>5. CountersExact'
  BY <1>1, <1>2, <1>3, CountStep, CountFacts DEF CountersExact, Recount, ControlInv
<1>6. ControlInv'
  BY <1>1, <1>2 DEF ControlInv, OnlyThread
<1> USE DEF ControlInv, OnlyThread, MutualExclusion, GrantIsExclusive, HandlesOpenWhileUsed
<1>7. MutualExclusion'
  BY <1>1, <1>2, CountFacts DEF IInv
<1>8. GrantIsExclusive'
  BY <1>1, <1>2, CountFacts DEF IInv
<1>9. HandlesOpenWhileUsed'
  BY <1>1, <1>2, CountFacts DEF IInv, Event
<1>10. NoLostWakeup'
  BY <1>1, <1>2, CountFacts DEF IInv, NoLostWakeup
<1>11. QED BY <1>4, <1>5, <1>6, <1>7, <1>8, <1>9, <1>10 DEF IInv

LEMMA UpgradeSoleReaderKeeps ==
    ASSUME NEW t \in Thread, IInv, UpgradeSoleReader(t)
    PROVE  IInv'
<1> USE DEF UpgradeSoleReader
<1>1. TypeOK /\ CountersExact /\ ControlInv
  BY DEF IInv
<1>2. OnlyThread(t)
  BY <1>1 DEF OnlyThread, TypeOK, Control, Goto, InMap
<1>3. impl' \in Impl
  <2>1. impl.writers + 1 \in Nat /\ 0 \in Nat
    BY <1>1 DEF TypeOK, Impl
  <2>2. QED BY <1>1, <2>1 DEF TypeOK, Impl
<1> USE DEF TypeOK, Impl, Reads, Writes, Queued, Waiting, InMap, Goto
<1>4. TypeOK'
  BY <1>2, <1>3 DEF OnlyThread
<1>5. CountersExact'
  BY <1>1, <1>2, <1>3, CountStep, CountFacts DEF CountersExact, Recount, ControlInv
<1>6. ControlInv'
  BY <1>1, <1>2 DEF ControlInv, OnlyThread
<1> USE DEF ControlInv, OnlyThread, MutualExclusion, GrantIsExclusive, HandlesOpenWhileUsed
<1>7. MutualExclusion'
  BY <1>1, <1>2, CountFacts DEF IInv
<1>8. GrantIsExclusive'
  BY <1>1, <1>2, CountFacts DEF IInv
<1>9. HandlesOpenWhileUsed'
  BY <1>1, <1>2, CountFacts DEF IInv, Event
<1>10. NoLostWakeup'
  BY <1>1, <1>2, CountFacts DEF IInv, NoLostWakeup
<1>11. QED BY <1>4, <1>5, <1>6, <1>7, <1>8, <1>9, <1>10 DEF IInv

LEMMA UpgradeWaitKeeps ==
    ASSUME NEW t \in Thread, IInv, UpgradeWait(t)
    PROVE  IInv'
<1> USE DEF UpgradeWait
<1>1. TypeOK /\ CountersExact /\ ControlInv
  BY DEF IInv
<1>2. OnlyThread(t)
  BY <1>1 DEF OnlyThread, TypeOK, Control, Goto, InMap
<1>3. impl' \in Impl
  <2>1. impl.entered # 0
    BY <1>1, CountFacts DEF TypeOK, ControlInv, Reads
  <2>2. [impl EXCEPT !.entered = @ - 1] \in Impl
    BY <1>1, <2>1 DEF TypeOK, Impl
  <2>3. QED BY <2>2, ImplTypes DEF UpgradeWaitBegin
<1> USE DEF TypeOK, Impl, Reads, Writes, Queued, Waiting, InMap, Goto, UpgradeWaitBegin, WriterWaitBegin, ResetIfOpen, CreateIfNone
<1>4. TypeOK'
  BY <1>2, <1>3 DEF OnlyThread
<1>5. CountersExact'
  BY <1>1, <1>2, <1>3, CountStep, CountFacts DEF CountersExact, Recount, ControlInv
<1>6. ControlInv'
  BY <1>1, <1>2 DEF ControlInv, OnlyThread
<1> USE DEF ControlInv, OnlyThread, MutualExclusion, GrantIsExclusive, HandlesOpenWhileUsed
<1>7. MutualExclusion'
  BY <1>1, <1>2, CountFacts DEF IInv
<1>8. GrantIsExclusive'
  BY <1>1, <1>2, CountFacts DEF IInv
<1>9. HandlesOpenWhileUsed'
  BY <1>1, <1>2, CountFacts DEF IInv, Event
<1>10. NoLostWakeup'
  BY <1>1, <1>2, CountFacts DEF IInv, NoLostWakeup
<1>11. QED BY <1>4, <1>5, <1>6, <1>7, <1>8, <1>9, <1>10 DEF IInv

LEMMA ReleaseReaderKeeps ==
    ASSUME NEW t \in Thread, IInv, ReleaseReader(t)
    PROVE  IInv'
<1> USE DEF ReleaseReader
<1>1. TypeOK /\ CountersExact /\ ControlInv
  BY DEF IInv
<1>2. OnlyThread(t)
  BY <1>1 DEF OnlyThread, TypeOK, Control, Goto, InMap
<1>3. impl' \in Impl
  BY <1>1, ImplTypes, CountFacts DEF TypeOK, InMap, Reads, Writes, Queued, Waiting, ControlInv
<1> USE DEF TypeOK, Impl, Reads, Writes, Queued, Waiting, InMap, Goto, ReaderRelease, SetIfOpen
<1>4. TypeOK'
  BY <1>2, <1>3 DEF OnlyThread
<1>5. CountersExact'
  BY <1>1, <1>2, <1>3, CountStep, CountFacts DEF CountersExact, Recount, ControlInv
<1>6. ControlInv'
  BY <1>1, <1>2 DEF ControlInv, OnlyThread
<1> USE DEF ControlInv, OnlyThread, MutualExclusion, GrantIsExclusive, HandlesOpenWhileUsed
<1>7. MutualExclusion'
  BY <1>1, <1>2, CountFacts DEF IInv
<1>8. GrantIsExclusive'
  <2>1. CASE rd[t] + wr[t] = 1 /\ impl.entered = 1
    <3>1. Reads(t) /\ rd'[t] = 0 /\ wr'[t] = 0 /\ pc'[t] = "run"
      BY <1>1, <2>1
    <3>2. \A u \in Thread \ {t} : ~Reads(u) /\ ~Writes(u)
      BY <1>1, <2>1, <3>1, CountFacts DEF IInv
    <3>3. \A u \in Thread : ~Reads(u)' /\ ~Writes(u)'
      BY <1>2, <3>1, <3>2
    <3>4. QED BY <3>3
  <2>2. CASE rd[t] + wr[t] = 1 /\ impl.entered # 1
    <3>1. Reads(t) /\ impl'.safeToWrite = impl.safeToWrite
      BY <1>1, <2>2
    <3>2. QED BY <3>1 DEF IInv
  <2>3. CASE rd[t] + wr[t] # 1
    BY <1>1, <1>2, <2>3 DEF IInv
  <2>4. QED BY <2>1, <2>2, <2>3
<1>9. HandlesOpenWhileUsed'
  BY <1>1, <1>2, CountFacts DEF IInv, Event
<1>10. NoLostWakeup'
  BY <1>1, <1>2, CountFacts DEF IInv, NoLostWakeup
<1>11. QED BY <1>4, <1>5, <1>6, <1>7, <1>8, <1>9, <1>10 DEF IInv

LEMMA ReleaseWriterKeeps ==
    ASSUME NEW t \in Thread, IInv, ReleaseWriter(t)
    PROVE  IInv'
<1> USE DEF ReleaseWriter
<1>1. TypeOK /\ CountersExact /\ ControlInv
  BY DEF IInv
<1>2. OnlyThread(t)
  BY <1>1 DEF OnlyThread, TypeOK, Control, Goto, InMap
<1>3. impl' \in Impl
  <2>1. impl.writers # 0
    BY <1>1, CountFacts DEF TypeOK, Writes
  <2>2. (rd[t] > 0) \in BOOLEAN
    OBVIOUS
  <2>3. WriterRelease(impl, rd[t] > 0) \in Impl
    BY <1>1, <2>1, <2>2, ImplTypes DEF TypeOK
  <2>4. QED BY <1>1, <2>3 DEF TypeOK
<1> USE DEF TypeOK, Impl, Reads, Writes, Queued, Waiting, InMap, Goto, WriterRelease, SetIfOpen
<1>4. TypeOK'
  BY <1>2, <1>3 DEF OnlyThread
<1>5. CountersExact'
  BY <1>1, <1>2, <1>3, CountStep, CountFacts DEF CountersExact, Recount, ControlInv
<1>6. ControlInv'
  BY <1>1, <1>2 DEF ControlInv, OnlyThread
<1> USE DEF ControlInv, OnlyThread, MutualExclusion, GrantIsExclusive, HandlesOpenWhileUsed
<1>7. MutualExclusion'
  BY <1>1, <1>2, CountFacts DEF IInv
<1>8. GrantIsExclusive'
  BY <1>1, <1>2, CountFacts DEF IInv
<1>9. HandlesOpenWhileUsed'
  BY <1>1, <1>2, CountFacts DEF IInv, Event
<1>10. NoLostWakeup'
  BY <1>1, <1>2, CountFacts DEF IInv, NoLostWakeup
<1>11. QED BY <1>4, <1>5, <1>6, <1>7, <1>8, <1>9, <1>10 DEF IInv

LEMMA ReleaseAllLocksKeeps ==
    ASSUME NEW t \in Thread, IInv, ReleaseAllLocks(t)
    PROVE  IInv'
<1> USE DEF ReleaseAllLocks
<1>1. TypeOK /\ CountersExact /\ ControlInv
  BY DEF IInv
<1>2. OnlyThread(t)
  BY <1>1 DEF OnlyThread, TypeOK, Control, Goto, InMap
<1>3. impl' \in Impl
  <2>1. CASE wr[t] > 0
    <3>1. impl.writers # 0
      BY <1>1, <2>1, CountFacts DEF TypeOK, Writes
    <3>2. WriterRelease(impl, FALSE) \in Impl
      BY <1>1, <3>1, ImplTypes DEF TypeOK
    <3>3. QED BY <2>1, <3>2
  <2>2. CASE ~(wr[t] > 0)
    <3>1. impl.entered # 0
      BY <1>1, <2>2, CountFacts DEF TypeOK, Reads, InMap
    <3>2. ReaderRelease(impl) \in Impl
      BY <1>1, <3>1, ImplTypes DEF TypeOK
    <3>3. QED BY <2>2, <3>2
  <2>3. QED BY <2>1, <2>2
<1> USE DEF TypeOK, Impl, Reads, Writes, Queued, Waiting, InMap, Goto, WriterRelease, ReaderRelease, SetIfOpen
<1>4. TypeOK'
  BY <1>2, <1>3 DEF OnlyThread
<1>5. CountersExact'
  BY <1>1, <1>2, <1>3, CountStep, CountFacts DEF CountersExact, Recount, ControlInv
<1>6. ControlInv'
  BY <1>1, <1>2 DEF ControlInv, OnlyThread
<1> USE DEF ControlInv, OnlyThread, MutualExclusion, GrantIsExclusive, HandlesOpenWhileUsed
<1>7. MutualExclusion'
  BY <1>1, <1>2, CountFacts DEF IInv
<1>8. GrantIsExclusive'
  BY <1>1, <1>2, CountFacts DEF IInv
<1>9. HandlesOpenWhileUsed'
  BY <1>1, <1>2, CountFacts DEF IInv, Event
<1>10. NoLostWakeup'
  BY <1>1, <1>2, CountFacts DEF IInv, NoLostWakeup
<1>11. QED BY <1>4, <1>5, <1>6, <1>7, <1>8, <1>9, <1>10 DEF IInv

LEMMA ReaderWakeKeeps ==
    ASSUME NEW t \in Thread, IInv, ReaderWake(t)
    PROVE  IInv'
<1> USE DEF ReaderWake
<1>1. TypeOK /\ CountersExact /\ ControlInv
  BY DEF IInv
<1>2. OnlyThread(t)
  BY <1>1 DEF OnlyThread, TypeOK, Control, Goto, InMap
<1>3. impl' \in Impl
  BY <1>1 DEF TypeOK, Impl, Event
<1> USE DEF TypeOK, Impl, Reads, Writes, Queued, Waiting, InMap, Goto
<1>4. TypeOK'
  BY <1>2, <1>3 DEF OnlyThread
<1>5. CountersExact'
  BY <1>1, <1>2, <1>3, CountStep, CountFacts DEF CountersExact, Recount, ControlInv
<1>6. ControlInv'
  BY <1>1, <1>2 DEF ControlInv, OnlyThread
<1> USE DEF ControlInv, OnlyThread, MutualExclusion, GrantIsExclusive, HandlesOpenWhileUsed
<1>7. MutualExclusion'
  BY <1>1, <1>2, CountFacts DEF IInv
<1>8. GrantIsExclusive'
  BY <1>1, <1>2, CountFacts DEF IInv
<1>9. HandlesOpenWhileUsed'
  BY <1>1, <1>2, CountFacts DEF IInv, Event
<1>10. NoLostWakeup'
  BY <1>1, <1>2, CountFacts DEF IInv, NoLostWakeup
<1>11. QED BY <1>4, <1>5, <1>6, <1>7, <1>8, <1>9, <1>10 DEF IInv

LEMMA ReaderWaitAgainKeeps ==
    ASSUME NEW t \in Thread, IInv, ReaderWaitAgain(t)
    PROVE  IInv'
<1> USE DEF ReaderWaitAgain
<1>1. TypeOK /\ CountersExact /\ ControlInv
  BY DEF IInv
<1>2. OnlyThread(t)
  BY <1>1 DEF OnlyThread, TypeOK, Control, Goto, InMap
<1>3. impl' \in Impl
  BY <1>1 DEF TypeOK
<1> USE DEF TypeOK, Impl, Reads, Writes, Queued, Waiting, InMap, Goto, MayRead
<1>4. TypeOK'
  BY <1>2, <1>3 DEF OnlyThread
<1>5. CountersExact'
  BY <1>1, <1>2, <1>3, CountStep, CountFacts DEF CountersExact, Recount, ControlInv
<1>6. ControlInv'
  BY <1>1, <1>2 DEF ControlInv, OnlyThread
<1> USE DEF ControlInv, OnlyThread, MutualExclusion, GrantIsExclusive, HandlesOpenWhileUsed
<1>7. MutualExclusion'
  BY <1>1, <1>2, CountFacts DEF IInv
<1>8. GrantIsExclusive'
  BY <1>1, <1>2, CountFacts DEF IInv
<1>9. HandlesOpenWhileUsed'
  BY <1>1, <1>2, CountFacts DEF IInv, Event
<1>10. NoLostWakeup'
  BY <1>1, <1>2, CountFacts DEF IInv, NoLostWakeup
<1>11. QED BY <1>4, <1>5, <1>6, <1>7, <1>8, <1>9, <1>10 DEF IInv

LEMMA ReaderEntersKeeps ==
    ASSUME NEW t \in Thread, IInv, ReaderEnters(t)
    PROVE  IInv'
<1> USE DEF ReaderEnters
<1>1. TypeOK /\ CountersExact /\ ControlInv
  BY DEF IInv
<1>2. OnlyThread(t)
  BY <1>1 DEF OnlyThread, TypeOK, Control, Goto, InMap
<1>3. impl' \in Impl
  <2>1. EnterReader(impl) \in Impl /\ EnterReader(impl).waiting # 0
    BY <1>1, ImplTypes, CountFacts DEF TypeOK, Impl, EnterReader, Waiting
  <2>2. ReaderWaitEnd(EnterReader(impl)) \in Impl
    BY <2>1, ImplTypes
  <2>3. QED BY <2>2, ImplTypes
<1> USE DEF TypeOK, Impl, Reads, Writes, Queued, Waiting, InMap, Goto, MayRead, EnterReader, ReaderWaitEnd
<1>4. TypeOK'
  BY <1>2, <1>3 DEF OnlyThread
<1>5. CountersExact'
  BY <1>1, <1>2, <1>3, CountStep, CountFacts DEF CountersExact, Recount, ControlInv
<1>6. ControlInv'
  BY <1>1, <1>2 DEF ControlInv, OnlyThread
<1> USE DEF ControlInv, OnlyThread, MutualExclusion, GrantIsExclusive, HandlesOpenWhileUsed
<1>7. MutualExclusion'
  BY <1>1, <1>2, CountFacts DEF IInv
<1>8. GrantIsExclusive'
  BY <1>1, <1>2, CountFacts DEF IInv
<1>9. HandlesOpenWhileUsed'
  BY <1>1, <1>2, CountFacts DEF IInv, Event
<1>10. NoLostWakeup'
  BY <1>1, <1>2, CountFacts DEF IInv, NoLostWakeup
<1>11. QED BY <1>4, <1>5, <1>6, <1>7, <1>8, <1>9, <1>10 DEF IInv

LEMMA ReaderFailsKeeps ==
    ASSUME NEW t \in Thread, IInv, ReaderFails(t)
    PROVE  IInv'
<1> USE DEF ReaderFails
<1>1. TypeOK /\ CountersExact /\ ControlInv
  BY DEF IInv
<1>2. OnlyThread(t)
  BY <1>1 DEF OnlyThread, TypeOK, Control, Goto, InMap
<1>3. impl' \in Impl
  BY <1>1, ImplTypes, CountFacts DEF TypeOK, InMap, Reads, Writes, Queued, Waiting, ControlInv
<1> USE DEF TypeOK, Impl, Reads, Writes, Queued, Waiting, InMap, Goto, MayRead, ReaderWaitEnd
<1>4. TypeOK'
  BY <1>2, <1>3 DEF OnlyThread
<1>5. CountersExact'
  BY <1>1, <1>2, <1>3, CountStep, CountFacts DEF CountersExact, Recount, ControlInv
<1>6. ControlInv'
  BY <1>1, <1>2 DEF ControlInv, OnlyThread
<1> USE DEF ControlInv, OnlyThread, MutualExclusion, GrantIsExclusive, HandlesOpenWhileUsed
<1>7. MutualExclusion'
  BY <1>1, <1>2, CountFacts DEF IInv
<1>8. GrantIsExclusive'
  BY <1>1, <1>2, CountFacts DEF IInv
<1>9. HandlesOpenWhileUsed'
  BY <1>1, <1>2, CountFacts DEF IInv, Event
<1>10. NoLostWakeup'
  BY <1>1, <1>2, CountFacts DEF IInv, NoLostWakeup
<1>11. QED BY <1>4, <1>5, <1>6, <1>7, <1>8, <1>9, <1>10 DEF IInv

LEMMA UpgradeReentersKeeps ==
    ASSUME NEW t \in Thread, IInv, UpgradeReenters(t)
    PROVE  IInv'
<1> USE DEF UpgradeReenters
<1>1. TypeOK /\ CountersExact /\ ControlInv
  BY DEF IInv
<1>2. OnlyThread(t)
  BY <1>1 DEF OnlyThread, TypeOK, Control, Goto, InMap
<1>3. impl' \in Impl
  <2>1. EnterReader(impl) \in Impl /\ EnterReader(impl).waiting # 0
    BY <1>1, ImplTypes, CountFacts DEF TypeOK, Impl, EnterReader, Waiting
  <2>2. ReaderWaitEnd(EnterReader(impl)) \in Impl
    BY <2>1, ImplTypes
  <2>3. QED BY <2>2, ImplTypes
<1> USE DEF TypeOK, Impl, Reads, Writes, Queued, Waiting, InMap, Goto, MayRead, EnterReader, ReaderWaitEnd
<1>4. TypeOK'
  BY <1>2, <1>3 DEF OnlyThread
<1>5. CountersExact'
  BY <1>1, <1>2, <1>3, CountStep, CountFacts DEF CountersExact, Recount, ControlInv
<1>6. ControlInv'
  BY <1>1, <1>2 DEF ControlInv, OnlyThread
<1> USE DEF ControlInv, OnlyThread, MutualExclusion, GrantIsExclusive, HandlesOpenWhileUsed
<1>7. MutualExclusion'
  BY <1>1, <1>2, CountFacts DEF IInv
<1>8. GrantIsExclusive'
  BY <1>1, <1>2, CountFacts DEF IInv
<1>9. HandlesOpenWhileUsed'
  BY <1>1, <1>2, CountFacts DEF IInv, Event
<1>10. NoLostWakeup'
  BY <1>1, <1>2, CountFacts DEF IInv, NoLostWakeup
<1>11. QED BY <1>4, <1>5, <1>6, <1>7, <1>8, <1>9, <1>10 DEF IInv

LEMMA UpgradeTakesOverKeeps ==
    ASSUME NEW t \in Thread, IInv, UpgradeTakesOver(t)
    PROVE  IInv'
<1> USE DEF UpgradeTakesOver
<1>1. TypeOK /\ CountersExact /\ ControlInv
  BY DEF IInv
<1>2. OnlyThread(t)
  BY <1>1 DEF OnlyThread, TypeOK, Control, Goto, InMap
<1>3. impl' \in Impl
  <2>1. EnterReader(impl) \in Impl /\ EnterReader(impl).waiting # 0
    BY <1>1, ImplTypes, CountFacts DEF TypeOK, Impl, EnterReader, Waiting
  <2>2. ReaderWaitEnd(EnterReader(impl)) \in Impl
    BY <2>1, ImplTypes
  <2>3. QED BY <2>2, ImplTypes
<1> USE DEF TypeOK, Impl, Reads, Writes, Queued, Waiting, InMap, Goto, MayRead, EnterReader, ReaderWaitEnd, TakeOverAlone
<1>4. TypeOK'
  BY <1>2, <1>3 DEF OnlyThread
<1>5. CountersExact'
  BY <1>1, <1>2, <1>3, CountStep, CountFacts DEF CountersExact, Recount, ControlInv
<1>6. ControlInv'
  BY <1>1, <1>2 DEF ControlInv, OnlyThread
<1> USE DEF ControlInv, OnlyThread, MutualExclusion, GrantIsExclusive, HandlesOpenWhileUsed
<1>7. MutualExclusion'
  BY <1>1, <1>2, CountFacts DEF IInv
<1>8. GrantIsExclusive'
  BY <1>1, <1>2, CountFacts DEF IInv
<1>9. HandlesOpenWhileUsed'
  BY <1>1, <1>2, CountFacts DEF IInv, Event
<1>10. NoLostWakeup'
  BY <1>1, <1>2, CountFacts DEF IInv, NoLostWakeup
<1>11. QED BY <1>4, <1>5, <1>6, <1>7, <1>8, <1>9, <1>10 DEF IInv

LEMMA ReaderTimeoutKeeps ==
    ASSUME NEW t \in Thread, IInv, ReaderTimeout(t)
    PROVE  IInv'
<1> USE DEF ReaderTimeout
<1>1. TypeOK /\ CountersExact /\ ControlInv
  BY DEF IInv
<1>2. OnlyThread(t)
  BY <1>1 DEF OnlyThread, TypeOK, Control, Goto, InMap
<1>3. impl' \in Impl
  BY <1>1 DEF TypeOK, Impl, Event
<1> USE DEF TypeOK, Impl, Reads, Writes, Queued, Waiting, InMap, Goto
<1>4. TypeOK'
  BY <1>2, <1>3 DEF OnlyThread
<1>5. CountersExact'
  BY <1>1, <1>2, <1>3, CountStep, CountFacts DEF CountersExact, Recount, ControlInv
<1>6. ControlInv'
  BY <1>1, <1>2 DEF ControlInv, OnlyThread
<1> USE DEF ControlInv, OnlyThread, MutualExclusion, GrantIsExclusive, HandlesOpenWhileUsed
<1>7. MutualExclusion'
  BY <1>1, <1>2, CountFacts DEF IInv
<1>8. GrantIsExclusive'
  BY <1>1, <1>2, CountFacts DEF IInv
<1>9. HandlesOpenWhileUsed'
  BY <1>1, <1>2, CountFacts DEF IInv, Event
<1>10. NoLostWakeup'
  BY <1>1, <1>2, CountFacts DEF IInv, NoLostWakeup
<1>11. QED BY <1>4, <1>5, <1>6, <1>7, <1>8, <1>9, <1>10 DEF IInv

LEMMA WriterWakeKeeps ==
    ASSUME NEW t \in Thread, IInv, WriterWake(t)
    PROVE  IInv'
<1> USE DEF WriterWake
<1>1. TypeOK /\ CountersExact /\ ControlInv
  BY DEF IInv
<1>2. OnlyThread(t)
  BY <1>1 DEF OnlyThread, TypeOK, Control, Goto, InMap
<1>3. impl' \in Impl
  BY <1>1 DEF TypeOK, Impl, Event
<1> USE DEF TypeOK, Impl, Reads, Writes, Queued, Waiting, InMap, Goto
<1>4. TypeOK'
  BY <1>2, <1>3 DEF OnlyThread
<1>5. CountersExact'
  BY <1>1, <1>2, <1>3, CountStep, CountFacts DEF CountersExact, Recount, ControlInv
<1>6. ControlInv'
  BY <1>1, <1>2 DEF ControlInv, OnlyThread
<1> USE DEF ControlInv, OnlyThread, MutualExclusion, GrantIsExclusive, HandlesOpenWhileUsed
<1>7. MutualExclusion'
  BY <1>1, <1>2, CountFacts DEF IInv
<1>8. GrantIsExclusive'
  BY <1>1, <1>2, CountFacts DEF IInv
<1>9. HandlesOpenWhileUsed'
  BY <1>1, <1>2, CountFacts DEF IInv, Event
<1>10. NoLostWakeup'
  BY <1>1, <1>2, CountFacts DEF IInv, NoLostWakeup
<1>11. QED BY <1>4, <1>5, <1>6, <1>7, <1>8, <1>9, <1>10 DEF IInv

LEMMA WriterTimeoutKeeps ==
    ASSUME NEW t \in Thread, IInv, WriterTimeout(t)
    PROVE  IInv'
<1> USE DEF WriterTimeout
<1>1. TypeOK /\ CountersExact /\ ControlInv
  BY DEF IInv
<1>2. OnlyThread(t)
  BY <1>1 DEF OnlyThread, TypeOK, Control, Goto, InMap
<1>3. impl' \in Impl
  BY <1>1 DEF TypeOK, Impl, Event
<1> USE DEF TypeOK, Impl, Reads, Writes, Queued, Waiting, InMap, Goto
<1>4. TypeOK'
  BY <1>2, <1>3 DEF OnlyThread
<1>5. CountersExact'
  BY <1>1, <1>2, <1>3, CountStep, CountFacts DEF CountersExact, Recount, ControlInv
<1>6. ControlInv'
  BY <1>1, <1>2 DEF ControlInv, OnlyThread
<1> USE DEF ControlInv, OnlyThread, MutualExclusion, GrantIsExclusive, HandlesOpenWhileUsed
<1>7. MutualExclusion'
  BY <1>1, <1>2, CountFacts DEF IInv
<1>8. GrantIsExclusive'
  BY <1>1, <1>2, CountFacts DEF IInv
<1>9. HandlesOpenWhileUsed'
  BY <1>1, <1>2, CountFacts DEF IInv, Event
<1>10. NoLostWakeup'
  BY <1>1, <1>2, CountFacts DEF IInv, NoLostWakeup
<1>11. QED BY <1>4, <1>5, <1>6, <1>7, <1>8, <1>9, <1>10 DEF IInv

LEMMA LateWriterAdmittedKeeps ==
    ASSUME NEW t \in Thread, IInv, LateWriterAdmitted(t)
    PROVE  IInv'
<1> USE DEF LateWriterAdmitted
<1>1. TypeOK /\ CountersExact /\ ControlInv
  BY DEF IInv
<1>2. OnlyThread(t)
  BY <1>1 DEF OnlyThread, TypeOK, Control, Goto, InMap
<1>3. impl' \in Impl
  BY <1>1, ImplTypes, CountFacts DEF TypeOK, InMap, Reads, Writes, Queued, Waiting, ControlInv
<1> USE DEF TypeOK, Impl, Reads, Writes, Queued, Waiting, InMap, Goto, UndoAdmits, WriterWaitUndo, SetIfOpen
<1>4. TypeOK'
  BY <1>2, <1>3 DEF OnlyThread
<1>5. CountersExact'
  BY <1>1, <1>2, <1>3, CountStep, CountFacts DEF CountersExact, Recount, ControlInv
<1>6. ControlInv'
  BY <1>1, <1>2 DEF ControlInv, OnlyThread
<1> USE DEF ControlInv, OnlyThread, MutualExclusion, GrantIsExclusive, HandlesOpenWhileUsed
<1>7. MutualExclusion'
  BY <1>1, <1>2, CountFacts DEF IInv
<1>8. GrantIsExclusive'
  BY <1>1, <1>2, CountFacts DEF IInv
<1>9. HandlesOpenWhileUsed'
  BY <1>1, <1>2, CountFacts DEF IInv, Event
<1>10. NoLostWakeup'
  BY <1>1, <1>2, CountFacts DEF IInv, NoLostWakeup
<1>11. QED BY <1>4, <1>5, <1>6, <1>7, <1>8, <1>9, <1>10 DEF IInv

LEMMA LateWriterFailsKeeps ==
    ASSUME NEW t \in Thread, IInv, LateWriterFails(t)
    PROVE  IInv'
<1> USE DEF LateWriterFails
<1>1. TypeOK /\ CountersExact /\ ControlInv
  BY DEF IInv
<1>2. OnlyThread(t)
  BY <1>1 DEF OnlyThread, TypeOK, Control, Goto, InMap
<1>3. impl' \in Impl
  BY <1>1, ImplTypes, CountFacts DEF TypeOK, InMap, Reads, Writes, Queued, Waiting, ControlInv
<1> USE DEF TypeOK, Impl, Reads, Writes, Queued, Waiting, InMap, Goto, UndoAdmits, WriterWaitUndo, SetIfOpen
<1>4. TypeOK'
  BY <1>2, <1>3 DEF OnlyThread
<1>5. CountersExact'
  BY <1>1, <1>2, <1>3, CountStep, CountFacts DEF CountersExact, Recount, ControlInv
<1>6. ControlInv'
  BY <1>1, <1>2 DEF ControlInv, OnlyThread
<1> USE DEF ControlInv, OnlyThread, MutualExclusion, GrantIsExclusive, HandlesOpenWhileUsed
<1>7. MutualExclusion'
  BY <1>1, <1>2, CountFacts DEF IInv
<1>8. GrantIsExclusive'
  BY <1>1, <1>2, CountFacts DEF IInv
<1>9. HandlesOpenWhileUsed'
  BY <1>1, <1>2, CountFacts DEF IInv, Event
<1>10. NoLostWakeup'
  BY <1>1, <1>2, CountFacts DEF IInv, NoLostWakeup
<1>11. QED BY <1>4, <1>5, <1>6, <1>7, <1>8, <1>9, <1>10 DEF IInv

LEMMA LateUpgradeReentersKeeps ==
    ASSUME NEW t \in Thread, IInv, LateUpgradeReenters(t)
    PROVE  IInv'
<1> USE DEF LateUpgradeReenters
<1>1. TypeOK /\ CountersExact /\ ControlInv
  BY DEF IInv
<1>2. OnlyThread(t)
  BY <1>1 DEF OnlyThread, TypeOK, Control, Goto, InMap
<1>3. impl' \in Impl
  <2>1. impl.writers # 0
    BY <1>1, CountFacts DEF Queued
  <2>2. WriterWaitUndo(impl) \in Impl
    BY <1>1, <2>1, ImplTypes DEF TypeOK
  <2>3. QED BY <2>2, ImplTypes
<1> USE DEF TypeOK, Impl, Reads, Writes, Queued, Waiting, InMap, Goto, MayRead, UndoAdmits, WriterWaitUndo, SetIfOpen, EnterReader
<1>4. TypeOK'
  BY <1>2, <1>3 DEF OnlyThread
<1>5. CountersExact'
  BY <1>1, <1>2, <1>3, CountStep, CountFacts DEF CountersExact, Recount, ControlInv
<1>6. ControlInv'
  BY <1>1, <1>2 DEF ControlInv, OnlyThread
<1> USE DEF ControlInv, OnlyThread, MutualExclusion, GrantIsExclusive, HandlesOpenWhileUsed
<1>7. MutualExclusion'
  BY <1>1, <1>2, CountFacts DEF IInv
<1>8. GrantIsExclusive'
  BY <1>1, <1>2, CountFacts DEF IInv
<1>9. HandlesOpenWhileUsed'
  BY <1>1, <1>2, CountFacts DEF IInv, Event
<1>10. NoLostWakeup'
  BY <1>1, <1>2, CountFacts DEF IInv, NoLostWakeup
<1>11. QED BY <1>4, <1>5, <1>6, <1>7, <1>8, <1>9, <1>10 DEF IInv

LEMMA LateUpgradeWaitsKeeps ==
    ASSUME NEW t \in Thread, IInv, LateUpgradeWaits(t)
    PROVE  IInv'
<1> USE DEF LateUpgradeWaits
<1>1. TypeOK /\ CountersExact /\ ControlInv
  BY DEF IInv
<1>2. OnlyThread(t)
  BY <1>1 DEF OnlyThread, TypeOK, Control, Goto, InMap
<1>3. impl' \in Impl
  <2>1. impl.writers # 0
    BY <1>1, CountFacts DEF Queued
  <2>2. WriterWaitUndo(impl) \in Impl
    BY <1>1, <2>1, ImplTypes DEF TypeOK
  <2>3. QED BY <2>2, ImplTypes
<1> USE DEF TypeOK, Impl, Reads, Writes, Queued, Waiting, InMap, Goto, MayRead, UndoAdmits, WriterWaitUndo, SetIfOpen, ReaderWaitBegin, CreateIfNone
<1>4. TypeOK'
  BY <1>2, <1>3 DEF OnlyThread
<1>5. CountersExact'
  BY <1>1, <1>2, <1>3, CountStep, CountFacts DEF CountersExact, Recount, ControlInv
<1>6. ControlInv'
  BY <1>1, <1>2 DEF ControlInv, OnlyThread
<1> USE DEF ControlInv, OnlyThread, MutualExclusion, GrantIsExclusive, HandlesOpenWhileUsed
<1>7. MutualExclusion'
  BY <1>1, <1>2, CountFacts DEF IInv
<1>8. GrantIsExclusive'
  BY <1>1, <1>2, CountFacts DEF IInv
<1>9. HandlesOpenWhileUsed'
  BY <1>1, <1>2, CountFacts DEF IInv, Event
<1>10. NoLostWakeup'
  BY <1>1, <1>2, CountFacts DEF IInv, NoLostWakeup
<1>11. QED BY <1>4, <1>5, <1>6, <1>7, <1>8, <1>9, <1>10 DEF IInv

LEMMA WriterRegistersKeeps ==
    ASSUME NEW t \in Thread, IInv, WriterRegisters(t)
    PROVE  IInv'
<1> USE DEF WriterRegisters
<1>1. TypeOK /\ CountersExact /\ ControlInv
  BY DEF IInv
<1>2. OnlyThread(t)
  BY <1>1 DEF OnlyThread, TypeOK, Control, Goto, InMap
<1>3. impl' \in Impl
  BY <1>1 DEF TypeOK, Impl, Event
<1> USE DEF TypeOK, Impl, Reads, Writes, Queued, Waiting, InMap, Goto
<1>4. TypeOK'
  BY <1>2, <1>3 DEF OnlyThread
<1>5. CountersExact'
  BY <1>1, <1>2, <1>3, CountStep, CountFacts DEF CountersExact, Recount, ControlInv
<1>6. ControlInv'
  BY <1>1, <1>2 DEF ControlInv, OnlyThread
<1> USE DEF ControlInv, OnlyThread, MutualExclusion, GrantIsExclusive, HandlesOpenWhileUsed
<1>7. MutualExclusion'
  BY <1>1, <1>2, CountFacts DEF IInv
<1>8. GrantIsExclusive'
  BY <1>1, <1>2, CountFacts DEF IInv
<1>9. HandlesOpenWhileUsed'
  BY <1>1, <1>2, CountFacts DEF IInv, Event
<1>10. NoLostWakeup'
  BY <1>1, <1>2, CountFacts DEF IInv, NoLostWakeup
<1>11. QED BY <1>4, <1>5, <1>6, <1>7, <1>8, <1>9, <1>10 DEF IInv

(* The theorems.                                                           *)

LEMMA InitEstablishes == Init => IInv
<1> SUFFICES ASSUME Init PROVE IInv
  OBVIOUS
<1>1. TypeOK
  BY DEF Init, ImplInit, TypeOK, Impl, Event, Control
<1>2. \A t \in Thread : ~Reads(t) /\ ~Writes(t) /\ ~Queued(t) /\ ~Waiting(t)
  BY DEF Init, Reads, Writes, Queued, Waiting
<1>3. Readers = {} /\ Writers = {} /\ Waiters = {}
  BY <1>2 DEF Readers, Writers, Waiters
<1>4. CountersExact
  BY <1>3, FS_EmptySet DEF Init, ImplInit, CountersExact
<1>5. ControlInv
  BY DEF Init, ControlInv
<1>6. MutualExclusion /\ GrantIsExclusive
  BY <1>2 DEF MutualExclusion, GrantIsExclusive
<1>7. HandlesOpenWhileUsed
  BY <1>2 DEF Init, ImplInit, HandlesOpenWhileUsed
<1>8. NoLostWakeup
  BY <1>2 DEF Init, NoLostWakeup
<1>9. QED BY <1>1, <1>4, <1>5, <1>6, <1>7, <1>8 DEF IInv

LEMMA StutterKeeps == IInv /\ UNCHANGED vars => IInv'
<1> SUFFICES ASSUME IInv, UNCHANGED vars PROVE IInv'
  OBVIOUS
<1>1. impl' = impl /\ rd' = rd /\ wr' = wr /\ pc' = pc /\ timed' = timed
  BY DEF vars
<1>2. Readers' = Readers /\ Writers' = Writers /\ Waiters' = Waiters
  BY <1>1 DEF Readers, Writers, Waiters, Reads, Writes, Queued, Waiting
<1>3. QED
  BY <1>1, <1>2 DEF IInv, TypeOK, ControlInv, MutualExclusion, CountersExact,
     GrantIsExclusive, HandlesOpenWhileUsed, NoLostWakeup, Reads, Writes,
     Queued, Waiting

LEMMA NextKeeps == IInv /\ [Next]_vars => IInv'
<1> SUFFICES ASSUME IInv, [Next]_vars PROVE IInv'
  OBVIOUS
<1>1. CASE UNCHANGED vars
  BY <1>1, StutterKeeps
<1>2. ASSUME NEW t \in Thread, Acquire(t) PROVE IInv'
  BY <1>2, AcquireReaderNestedKeeps, AcquireReaderAtOnceKeeps,
     AcquireReaderWaitKeeps, AcquireWriterNestedKeeps, AcquireWriterAtOnceKeeps,
     AcquireWriterWaitKeeps, UpgradeSoleReaderKeeps, UpgradeWaitKeeps
     DEF Acquire
<1>3. ASSUME NEW t \in Thread, Release(t) PROVE IInv'
  BY <1>3, ReleaseReaderKeeps, ReleaseWriterKeeps, ReleaseAllLocksKeeps
     DEF Release
<1>4. ASSUME NEW t \in Thread, Proceed(t) PROVE IInv'
  BY <1>4, ReaderWakeKeeps, ReaderWaitAgainKeeps, ReaderEntersKeeps,
     ReaderFailsKeeps, UpgradeReentersKeeps, UpgradeTakesOverKeeps,
     LateWriterAdmittedKeeps, LateWriterFailsKeeps, LateUpgradeReentersKeeps,
     LateUpgradeWaitsKeeps, WriterRegistersKeeps DEF Proceed
<1>5. ASSUME NEW t \in Thread,
             ReaderTimeout(t) \/ WriterWake(t) \/ WriterTimeout(t)
      PROVE  IInv'
  BY <1>5, ReaderTimeoutKeeps, WriterWakeKeeps, WriterTimeoutKeeps
<1>6. QED BY <1>1, <1>2, <1>3, <1>4, <1>5 DEF Next

\* The inductive invariant holds in every reachable state of
\* CReaderWriterLock, for every set of threads and every nesting depth.
THEOREM LockInvariant == Spec => []IInv
BY InitEstablishes, NextKeeps, PTL DEF Spec

\* The members and m_map keep their types: no counter goes below zero.
THEOREM TypeCorrect == Spec => []TypeOK
BY LockInvariant, PTL DEF IInv

\* Write access excludes every other access (ReaderWriterLock.h:29-30).
THEOREM Exclusion == Spec => []MutualExclusion
BY LockInvariant, PTL DEF IInv

\* The counters always count exactly the threads they stand for, after any
\* timeout, upgrade or downgrade.
THEOREM Counters == Spec => []CountersExact
BY LockInvariant, PTL DEF IInv

\* SetEvent(m_hSafeToWriteEvent) is only ever pending on an idle lock.
THEOREM ExclusiveGrant == Spec => []GrantIsExclusive
BY LockInvariant, PTL DEF IInv

\* No thread waits on a closed handle, and no handle outlives its users.
THEOREM OpenHandles == Spec => []HandlesOpenWhileUsed
BY LockInvariant, PTL DEF IInv

\* A lock that nobody holds has its wakeup under way if somebody waits.
THEOREM WakeupPending == Spec => []NoLostWakeup
BY LockInvariant, PTL DEF IInv

(* The lock implements RWLockSpec.  A step of thread t is the abstract step *)
(* that does to the three sets what it does to t.                          *)

LEMMA WriterMap ==
    ASSUME IInv
    PROVE  /\ \A t \in Thread : Writes(t) <=> Spec_writer = t
           /\ Spec_writer = NoThread <=> \A t \in Thread : ~Writes(t)
<1>1. \A t, u \in Thread : Writes(t) /\ Writes(u) => t = u
  BY DEF IInv, MutualExclusion
<1>2. NoThread \notin Thread
  BY ThreadAssumption
<1>3. CASE \E t \in Thread : Writes(t)
  <2>1. Spec_writer \in Thread /\ Writes(Spec_writer)
    BY <1>3 DEF Spec_writer
  <2>2. QED BY <1>1, <1>2, <2>1
<1>4. CASE \A t \in Thread : ~Writes(t)
  <2>1. Spec_writer = NoThread
    BY <1>4 DEF Spec_writer
  <2>2. QED BY <1>2, <1>4, <2>1
<1>5. QED BY <1>3, <1>4

LEMMA WriterMapNext ==
    ASSUME IInv'
    PROVE  /\ \A t \in Thread : Writes(t)' <=> Spec_writer' = t
           /\ Spec_writer' = NoThread <=> \A t \in Thread : ~Writes(t)'
<1>1. \A t, u \in Thread : Writes(t)' /\ Writes(u)' => t = u
  BY DEF IInv, MutualExclusion
<1>2. NoThread \notin Thread
  BY ThreadAssumption
<1>3. CASE \E t \in Thread : Writes(t)'
  <2>1. Spec_writer' \in Thread /\ Writes(Spec_writer)'
    BY <1>3 DEF Spec_writer
  <2>2. QED BY <1>1, <1>2, <2>1
<1>4. CASE \A t \in Thread : ~Writes(t)'
  <2>1. Spec_writer' = NoThread
    BY <1>4 DEF Spec_writer
  <2>2. QED BY <1>2, <1>4, <2>1
<1>5. QED BY <1>3, <1>4

\* The rest of the system, seen from t.
Frame(t) == /\ IInv /\ IInv' /\ OnlyThread(t)
            /\ Readers \ {t} = Readers' \ {t}
            /\ Spec_queued \ {t} = Spec_queued' \ {t}
            /\ t \in Readers <=> Reads(t)
            /\ t \in Readers' <=> Reads(t)'
            /\ t \in Spec_queued <=> Queued(t)
            /\ t \in Spec_queued' <=> Queued(t)'
            /\ Writes(t) <=> Spec_writer = t
            /\ Writes(t)' <=> Spec_writer' = t
            /\ ~Writes(t) /\ ~Writes(t)' => Spec_writer' = Spec_writer

LEMMA OthersUntouched ==
    ASSUME NEW t \in Thread, TypeOK, OnlyThread(t)
    PROVE  \A u \in Thread \ {t} : /\ Reads(u)' = Reads(u)
                                   /\ Writes(u)' = Writes(u)
                                   /\ Queued(u)' = Queued(u)
<1> SUFFICES ASSUME NEW u \in Thread \ {t}
             PROVE  /\ Reads(u)' = Reads(u)
                    /\ Writes(u)' = Writes(u)
                    /\ Queued(u)' = Queued(u)
  OBVIOUS
<1>1. rd'[u] = rd[u] /\ wr'[u] = wr[u] /\ pc'[u] = pc[u]
  BY DEF OnlyThread
<1>2. QED BY <1>1 DEF Reads, Writes, Queued

LEMMA FrameHolds ==
    ASSUME NEW t \in Thread, IInv, IInv', OnlyThread(t)
    PROVE  Frame(t)
<1>1. \A u \in Thread \ {t} : /\ Reads(u)' = Reads(u)
                             /\ Writes(u)' = Writes(u)
                             /\ Queued(u)' = Queued(u)
  BY OthersUntouched DEF IInv
<1>2. /\ Readers \ {t} = Readers' \ {t}
      /\ Spec_queued \ {t} = Spec_queued' \ {t}
  BY <1>1 DEF Readers, Spec_queued
<1>3. ASSUME ~Writes(t), ~Writes(t)' PROVE Spec_writer' = Spec_writer
  <2>1. CASE \E u \in Thread : Writes(u)
    <3>1. PICK u \in Thread : Writes(u)
      BY <2>1
    <3>2. Writes(u)'
      BY <1>1, <1>3, <3>1
    <3>3. QED BY <3>1, <3>2, WriterMap, WriterMapNext
  <2>2. CASE \A u \in Thread : ~Writes(u)
    <3>1. \A u \in Thread : ~Writes(u)'
      BY <1>1, <1>3, <2>2
    <3>2. QED BY <2>2, <3>1, WriterMap, WriterMapNext
  <2>3. QED BY <2>1, <2>2
<1>4. QED
  BY <1>2, <1>3, WriterMap, WriterMapNext DEF Frame, Readers, Spec_queued

Idle(t) == ~Reads(t) /\ ~Writes(t) /\ ~Queued(t)

LEMMA MapStutter ==
    ASSUME NEW t \in Thread, Frame(t), Reads(t)' <=> Reads(t),
           Writes(t)' <=> Writes(t), Queued(t)' <=> Queued(t)
    PROVE  UNCHANGED Abstract!specVars
<1>1. Readers' = Readers /\ Spec_queued' = Spec_queued
  BY DEF Frame
<1>2. Spec_writer' = Spec_writer
  BY DEF Frame
<1>3. QED BY <1>1, <1>2 DEF Abstract!specVars, Spec_readers

LEMMA MapRead ==
    ASSUME NEW t \in Thread, Frame(t), impl.writers = 0,
           ~Reads(t), ~Queued(t)', ~Writes(t)', Reads(t)'
    PROVE  Abstract!Read(t)
<1>1. \A u \in Thread : ~Writes(u) /\ ~Queued(u)
  BY CountFacts DEF Frame, IInv
<1>2. Spec_writer = NoThread /\ Spec_queued = {}
  BY <1>1, WriterMap DEF Frame, Spec_queued
<1>3. Readers' = Readers \cup {t} /\ Spec_queued' = Spec_queued
  BY <1>1, <1>2 DEF Frame
<1>4. Spec_writer' = Spec_writer
  BY <1>1 DEF Frame
<1>5. QED BY <1>2, <1>3, <1>4 DEF Frame, Abstract!Read, Spec_readers

LEMMA MapStopReading ==
    ASSUME NEW t \in Thread, Frame(t), Reads(t), ~Writes(t), ~Queued(t), Idle(t)'
    PROVE  Abstract!StopReading(t)
<1>1. Readers' = Readers \ {t} /\ Spec_queued' = Spec_queued
  BY DEF Frame, Idle
<1>2. Spec_writer' = Spec_writer
  BY DEF Frame, Idle
<1>3. QED BY <1>1, <1>2 DEF Frame, Abstract!StopReading, Spec_readers

LEMMA MapQueue ==
    ASSUME NEW t \in Thread, Frame(t), ~Queued(t), ~Writes(t),
           Queued(t)', ~Reads(t)', ~Writes(t)'
    PROVE  Abstract!Queue(t)
<1>1. Readers' = Readers \ {t} /\ Spec_queued' = Spec_queued \cup {t}
  BY DEF Frame
<1>2. Spec_writer' = Spec_writer
  BY DEF Frame
<1>3. QED BY <1>1, <1>2 DEF Frame, Abstract!Queue, Spec_readers

LEMMA MapGiveUp ==
    ASSUME NEW t \in Thread, Frame(t), Queued(t), ~Reads(t), ~Writes(t), Idle(t)'
    PROVE  Abstract!GiveUp(t)
<1>1. Readers' = Readers /\ Spec_queued' = Spec_queued \ {t}
  BY DEF Frame, Idle
<1>2. Spec_writer' = Spec_writer
  BY DEF Frame, Idle
<1>3. QED BY <1>1, <1>2 DEF Frame, Abstract!GiveUp, Spec_readers

LEMMA MapGiveUpToRead ==
    ASSUME NEW t \in Thread, Frame(t), Queued(t), ~Reads(t), ~Writes(t),
           impl.writers = 1, Reads(t)', ~Writes(t)', ~Queued(t)'
    PROVE  Abstract!GiveUp(t)
<1>1. \A u \in Thread \ {t} : ~Writes(u) /\ ~Queued(u)
  BY CountFacts DEF Frame, IInv
<1>2. Spec_queued = {t} /\ Spec_writer = NoThread
  BY <1>1, WriterMap DEF Frame, Spec_queued
<1>3. Readers' = Readers \cup {t} /\ Spec_queued' = Spec_queued \ {t}
  BY DEF Frame
<1>4. Spec_queued' = {}
  BY <1>2, <1>3
<1>5. Spec_writer' = Spec_writer
  BY DEF Frame
<1>6. QED BY <1>2, <1>3, <1>4, <1>5 DEF Frame, Abstract!GiveUp, Spec_readers

LEMMA MapWrite ==
    ASSUME NEW t \in Thread, Frame(t), ~Writes(t), ~Reads(t)', Writes(t)', ~Queued(t)',
           \A u \in Thread \ {t} : ~Reads(u) /\ ~Writes(u),
           Reads(t) \/ Queued(t) \/ \A u \in Thread : ~Queued(u)
    PROVE  Abstract!Write(t)
<1>1. Spec_writer = NoThread /\ Spec_writer' = t
  BY WriterMap DEF Frame
<1>2. Readers \subseteq {t} /\ Readers' = {}
  BY DEF Frame, Readers
<1>3. Spec_queued' = Spec_queued \ {t}
  BY DEF Frame
<1>4. Spec_queued = {} \/ t \in Spec_queued \/ t \in Readers
  BY DEF Frame, Spec_queued
<1>5. QED BY <1>1, <1>2, <1>3, <1>4 DEF Abstract!Write, Spec_readers

LEMMA MapStopWriting ==
    ASSUME NEW t \in Thread, Frame(t), Writes(t), ~Queued(t), ~Writes(t)', ~Queued(t)'
    PROVE  Abstract!StopWriting(t)
<1>1. \A u \in Thread : ~Reads(u) \/ u = t
  BY DEF Frame, IInv, MutualExclusion
<1>2. ~Reads(t)
  BY DEF Frame, IInv, ControlInv, TypeOK, Reads, Writes
<1>3. Readers = {}
  BY <1>1, <1>2 DEF Readers
<1>4. Readers' \in {{}, {t}} /\ Spec_queued' = Spec_queued
  BY <1>3 DEF Frame
<1>5. Spec_writer' = NoThread
  <2>1. \A u \in Thread \ {t} : ~Writes(u)
    BY DEF Frame, IInv, MutualExclusion
  <2>2. \A u \in Thread \ {t} : ~Writes(u)'
    BY <2>1 DEF Frame, OnlyThread, Writes
  <2>3. QED BY <2>2, WriterMapNext DEF Frame
<1>6. QED BY <1>4, <1>5 DEF Frame, Abstract!StopWriting, Spec_readers

\* A step of t touches t only.
LEMMA StepsOfOneThread ==
    ASSUME NEW t \in Thread, TypeOK,
           \/ Acquire(t) \/ Release(t) \/ Proceed(t)
           \/ ReaderTimeout(t) \/ WriterWake(t) \/ WriterTimeout(t)
    PROVE  OnlyThread(t)
<1> USE DEF OnlyThread, TypeOK, Control, Goto
<1>1. CASE Acquire(t)
  <2>1. CASE AcquireReaderNested(t)
    BY <2>1 DEF AcquireReaderNested, InMap
  <2>2. CASE AcquireReaderAtOnce(t)
    BY <2>2 DEF AcquireReaderAtOnce, InMap
  <2>3. CASE AcquireReaderWait(t)
    BY <2>3 DEF AcquireReaderWait, InMap
  <2>4. CASE AcquireWriterNested(t)
    BY <2>4 DEF AcquireWriterNested, InMap
  <2>5. CASE AcquireWriterAtOnce(t)
    BY <2>5 DEF AcquireWriterAtOnce, InMap
  <2>6. CASE AcquireWriterWait(t)
    BY <2>6 DEF AcquireWriterWait, InMap
  <2>7. CASE UpgradeSoleReader(t)
    BY <2>7 DEF UpgradeSoleReader, InMap
  <2>8. CASE UpgradeWait(t)
    BY <2>8 DEF UpgradeWait, InMap
  <2>9. QED BY <1>1, <2>1, <2>2, <2>3, <2>4, <2>5, <2>6, <2>7, <2>8 DEF Acquire
<1>2. CASE Release(t)
  <2>1. CASE ReleaseReader(t)
    BY <2>1 DEF ReleaseReader, InMap
  <2>2. CASE ReleaseWriter(t)
    BY <2>2 DEF ReleaseWriter, InMap
  <2>3. CASE ReleaseAllLocks(t)
    BY <2>3 DEF ReleaseAllLocks, InMap
  <2>4. QED BY <1>2, <2>1, <2>2, <2>3 DEF Release
<1>3. CASE Proceed(t)
  <2>1. CASE ReaderWake(t)
    BY <2>1 DEF ReaderWake
  <2>2. CASE ReaderWaitAgain(t)
    BY <2>2 DEF ReaderWaitAgain
  <2>3. CASE ReaderEnters(t)
    BY <2>3 DEF ReaderEnters
  <2>4. CASE ReaderFails(t)
    BY <2>4 DEF ReaderFails
  <2>5. CASE UpgradeReenters(t)
    BY <2>5 DEF UpgradeReenters
  <2>6. CASE UpgradeTakesOver(t)
    BY <2>6 DEF UpgradeTakesOver
  <2>7. CASE LateWriterAdmitted(t)
    BY <2>7 DEF LateWriterAdmitted
  <2>8. CASE LateWriterFails(t)
    BY <2>8 DEF LateWriterFails
  <2>9. CASE LateUpgradeReenters(t)
    BY <2>9 DEF LateUpgradeReenters
  <2>10. CASE LateUpgradeWaits(t)
    BY <2>10 DEF LateUpgradeWaits
  <2>11. CASE WriterRegisters(t)
    BY <2>11 DEF WriterRegisters
  <2>12. QED BY <1>3, <2>1, <2>2, <2>3, <2>4, <2>5, <2>6, <2>7, <2>8, <2>9, <2>10, <2>11
     DEF Proceed
<1>4. CASE ReaderTimeout(t) \/ WriterWake(t) \/ WriterTimeout(t)
  BY <1>4 DEF ReaderTimeout, WriterWake, WriterTimeout
<1>5. QED BY <1>1, <1>2, <1>3, <1>4

\* Every step of t is an abstract step of t, or none.
LEMMA StepImplements ==
    ASSUME NEW t \in Thread, IInv, IInv',
           \/ Acquire(t) \/ Release(t) \/ Proceed(t)
           \/ ReaderTimeout(t) \/ WriterWake(t) \/ WriterTimeout(t)
    PROVE  Abstract!Next \/ UNCHANGED Abstract!specVars
<1>a. Frame(t) /\ TypeOK /\ CountersExact /\ ControlInv
  BY FrameHolds, StepsOfOneThread DEF IInv
<1> USE DEF TypeOK, ControlInv, Reads, Writes, Queued, Waiting, InMap, Goto, Idle
<1>1. ASSUME AcquireReaderNested(t) PROVE UNCHANGED Abstract!specVars
  BY <1>1, <1>a, MapStutter DEF AcquireReaderNested
<1>2. ASSUME AcquireReaderWait(t) PROVE UNCHANGED Abstract!specVars
  BY <1>2, <1>a, MapStutter DEF AcquireReaderWait
<1>3. ASSUME AcquireWriterNested(t) PROVE UNCHANGED Abstract!specVars
  BY <1>3, <1>a, MapStutter DEF AcquireWriterNested
<1>4. ASSUME ReaderWake(t) PROVE UNCHANGED Abstract!specVars
  BY <1>4, <1>a, MapStutter DEF ReaderWake
<1>5. ASSUME ReaderTimeout(t) PROVE UNCHANGED Abstract!specVars
  BY <1>5, <1>a, MapStutter DEF ReaderTimeout
<1>6. ASSUME ReaderWaitAgain(t) PROVE UNCHANGED Abstract!specVars
  BY <1>6, <1>a, MapStutter DEF ReaderWaitAgain
<1>7. ASSUME ReaderFails(t) PROVE UNCHANGED Abstract!specVars
  BY <1>7, <1>a, MapStutter DEF ReaderFails
<1>8. ASSUME WriterTimeout(t) PROVE UNCHANGED Abstract!specVars
  BY <1>8, <1>a, MapStutter DEF WriterTimeout
<1>9. ASSUME WriterRegisters(t) PROVE UNCHANGED Abstract!specVars
  BY <1>9, <1>a, MapStutter DEF WriterRegisters
<1>10. ASSUME AcquireReaderAtOnce(t) PROVE Abstract!Read(t)
  BY <1>10, <1>a, MapRead DEF AcquireReaderAtOnce, MayRead
<1>11. ASSUME ReaderEnters(t) PROVE Abstract!Read(t)
  BY <1>11, <1>a, MapRead DEF ReaderEnters, MayRead
<1>12. ASSUME UpgradeReenters(t) PROVE Abstract!Read(t)
  BY <1>12, <1>a, MapRead DEF UpgradeReenters, MayRead
<1>13. ASSUME AcquireWriterWait(t) PROVE Abstract!Queue(t)
  BY <1>13, <1>a, MapQueue DEF AcquireWriterWait
<1>14. ASSUME UpgradeWait(t) PROVE Abstract!Queue(t)
  BY <1>14, <1>a, MapQueue DEF UpgradeWait
<1>15. ASSUME LateWriterFails(t) PROVE Abstract!GiveUp(t)
  BY <1>15, <1>a, MapGiveUp DEF LateWriterFails
<1>16. ASSUME LateUpgradeWaits(t) PROVE Abstract!GiveUp(t)
  BY <1>16, <1>a, MapGiveUp DEF LateUpgradeWaits
<1>17. ASSUME AcquireWriterAtOnce(t) PROVE Abstract!Write(t)
  <2>1. \A u \in Thread : ~Reads(u) /\ ~Writes(u) /\ ~Queued(u)
    BY <1>17, <1>a, CountFacts DEF AcquireWriterAtOnce
  <2>2. QED BY <1>17, <1>a, <2>1, MapWrite DEF AcquireWriterAtOnce
<1>18. ASSUME UpgradeSoleReader(t) PROVE Abstract!Write(t)
  <2>1. Reads(t)
    BY <1>18, <1>a DEF UpgradeSoleReader
  <2>2. \A u \in Thread \ {t} : ~Reads(u) /\ ~Writes(u)
    BY <1>18, <1>a, <2>1, CountFacts DEF UpgradeSoleReader, IInv, MutualExclusion
  <2>3. QED BY <1>18, <1>a, <2>1, <2>2, MapWrite DEF UpgradeSoleReader
<1>19. ASSUME UpgradeTakesOver(t) PROVE Abstract!Write(t)
  <2>1. impl.writers = 0 /\ impl.entered = 0
    BY <1>19, <1>a DEF UpgradeTakesOver, MayRead, EnterReader, Impl
  <2>2. \A u \in Thread : ~Reads(u) /\ ~Writes(u) /\ ~Queued(u)
    BY <1>a, <2>1, CountFacts
  <2>3. QED BY <1>19, <1>a, <2>2, MapWrite DEF UpgradeTakesOver
<1>20. ASSUME WriterWake(t) PROVE Abstract!Write(t)
  <2>1. \A u \in Thread : ~Reads(u) /\ ~Writes(u)
    BY <1>20 DEF WriterWake, IInv, GrantIsExclusive
  <2>2. QED BY <1>20, <1>a, <2>1, MapWrite DEF WriterWake
<1>21. ASSUME LateWriterAdmitted(t) PROVE Abstract!Write(t)
  <2>1. \A u \in Thread \ {t} : ~Reads(u) /\ ~Writes(u)
    BY <1>21, <1>a, CountFacts DEF LateWriterAdmitted, UndoAdmits
  <2>2. QED BY <1>21, <1>a, <2>1, MapWrite DEF LateWriterAdmitted
<1>22. ASSUME LateUpgradeReenters(t) PROVE Abstract!GiveUp(t)
  <2>1. impl.writers = 1
    BY <1>22, <1>a, CountFacts
       DEF LateUpgradeReenters, UndoAdmits, MayRead, WriterWaitUndo, Impl
  <2>2. QED BY <1>22, <1>a, <2>1, MapGiveUpToRead DEF LateUpgradeReenters
<1>23. ASSUME ReleaseReader(t)
      PROVE  Abstract!StopReading(t) \/ UNCHANGED Abstract!specVars
  <2>1. CASE rd[t] + wr[t] = 1
    BY <1>23, <1>a, <2>1, MapStopReading DEF ReleaseReader
  <2>2. CASE rd[t] + wr[t] # 1
    BY <1>23, <1>a, <2>2, MapStutter DEF ReleaseReader
  <2>3. QED BY <2>1, <2>2
<1>24. ASSUME ReleaseWriter(t)
      PROVE  Abstract!StopWriting(t) \/ UNCHANGED Abstract!specVars
  <2>1. CASE wr[t] = 1
    BY <1>24, <1>a, <2>1, MapStopWriting DEF ReleaseWriter
  <2>2. CASE wr[t] # 1
    BY <1>24, <1>a, <2>2, MapStutter DEF ReleaseWriter
  <2>3. QED BY <2>1, <2>2
<1>25. ASSUME ReleaseAllLocks(t)
      PROVE  Abstract!StopWriting(t) \/ Abstract!StopReading(t)
  <2>1. CASE wr[t] > 0
    BY <1>25, <1>a, <2>1, MapStopWriting DEF ReleaseAllLocks
  <2>2. CASE ~(wr[t] > 0)
    BY <1>25, <1>a, <2>2, MapStopReading DEF ReleaseAllLocks
  <2>3. QED BY <2>1, <2>2
<1> HIDE DEF TypeOK, ControlInv, Reads, Writes, Queued, Waiting, InMap, Goto, Idle
<1> DEFINE AbstractStep == \/ Abstract!Read(t) \/ Abstract!StopReading(t) \/ Abstract!Queue(t)
                           \/ Abstract!GiveUp(t) \/ Abstract!Write(t) \/ Abstract!StopWriting(t)
                           \/ UNCHANGED Abstract!specVars
<1>b. ASSUME Acquire(t) PROVE AbstractStep
  BY <1>b, <1>1, <1>10, <1>2, <1>3, <1>17, <1>13, <1>18, <1>14 DEF Acquire
<1>c. ASSUME Release(t) PROVE AbstractStep
  BY <1>c, <1>23, <1>24, <1>25 DEF Release
<1>d. ASSUME Proceed(t) PROVE AbstractStep
  BY <1>d, <1>4, <1>6, <1>11, <1>7, <1>12, <1>19, <1>21, <1>15, <1>22, <1>16, <1>9 DEF Proceed
<1>e. ASSUME ReaderTimeout(t) \/ WriterWake(t) \/ WriterTimeout(t) PROVE AbstractStep
  BY <1>e, <1>5, <1>20, <1>8
<1>f. AbstractStep
  BY <1>b, <1>c, <1>d, <1>e
<1>g. QED BY <1>f DEF Abstract!Next

LEMMA NextImplements == IInv /\ IInv' /\ [Next]_vars => [Abstract!Next]_(Abstract!specVars)
<1> SUFFICES ASSUME IInv, IInv', [Next]_vars
             PROVE  Abstract!Next \/ UNCHANGED Abstract!specVars
  OBVIOUS
<1>1. CASE UNCHANGED vars
  <2>1. rd' = rd /\ wr' = wr /\ pc' = pc
    BY <1>1 DEF vars
  <2>2. QED BY <2>1 DEF Abstract!specVars, Spec_readers, Spec_writer, Spec_queued,
           Readers, Reads, Writes, Queued
<1>2. CASE Next
  BY <1>2, StepImplements DEF Next
<1>3. QED BY <1>1, <1>2

LEMMA InitImplements == Init => Abstract!Init
BY DEF Init, Abstract!Init, Spec_readers, Spec_writer, Spec_queued, Readers,
   Reads, Writes, Queued

\* CReaderWriterLock does only what the abstract lock allows: access is
\* exclusive, and no new reader passes a queued writer, whatever the
\* interleaving of waits, timeouts, upgrades and downgrades.
THEOREM Implements == Spec => ImplementsSpec
<1>1. Init => Abstract!Init
  BY InitImplements
<1>2. IInv /\ IInv' /\ [Next]_vars => [Abstract!Next]_(Abstract!specVars)
  BY NextImplements
<1>3. QED
  BY <1>1, <1>2, LockInvariant, PTL DEF Spec, ImplementsSpec, Abstract!Spec
===============================================================================
