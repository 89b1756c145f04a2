--------------------------- MODULE ReaderWriterLock ---------------------------
(***************************************************************************)
(* CReaderWriterLock of Utils/ReaderWriterLock.{h,cpp}: the reentrant      *)
(* reader-writer lock with escalation that guards the status cache, the    *)
(* git index maps and the status list of the dialogs.                      *)
(*                                                                         *)
(* A thread calls the lock from "run".  A call that has to wait leaves the *)
(* critical section and is then at one of                                  *)
(*   "rwait"    in WaitForSingleObject(m_hSafeToReadEvent)                 *)
(*   "rwoken"   that wait has returned WAIT_OBJECT_0, the CS not entered   *)
(*   "rlate"    that wait has timed out, the CS not entered                *)
(*   "rexpired" woken, writers found, the time is used up                  *)
(*   "wwait"    in WaitForSingleObject(m_hSafeToWriteEvent)                *)
(*   "wlate"    that wait has timed out, the CS not entered                *)
(*   "wowner"   write access granted, m_map not yet updated                *)
(* A call with dwTimeout 0 that would have to wait changes nothing.        *)
(***************************************************************************)
EXTENDS RWLockImpl, FiniteSets

CONSTANTS Thread,    \* the threads that use the lock
          NoThread,  \* nobody, for the abstract lock
          MaxDepth   \* bound: how deep a thread nests its locks

ASSUME ThreadAssumption == IsFiniteSet(Thread) /\ NoThread \notin Thread
ASSUME DepthAssumption  == MaxDepth \in Nat \ {0}

VARIABLES impl,      \* m_impl
          rd,        \* READER_RECURRENCE_MASK half of m_map[t], 0 when absent
          wr,        \* WRITER_RECURRENCE_UNIT half of m_map[t]
          pc,        \* where the thread is
          timed      \* the call under way has a finite timeout

vars == <<impl, rd, wr, pc, timed>>

Control == {"run", "rwait", "rwoken", "rlate", "rexpired",
            "wwait", "wlate", "wowner"}

Init == /\ impl = ImplInit
        /\ rd = [t \in Thread |-> 0]
        /\ wr = [t \in Thread |-> 0]
        /\ pc = [t \in Thread |-> "run"]
        /\ timed = [t \in Thread |-> FALSE]

Goto(t, label) == pc' = [pc EXCEPT ![t] = label]

InMap(t) == rd[t] + wr[t] > 0

-------------------------------------------------------------------------------
(* AcquireReaderLock                                                       *)

\* The thread is in m_map already: only its own count changes.
AcquireReaderNested(t) ==
    /\ pc[t] = "run" /\ InMap(t) /\ rd[t] + wr[t] < MaxDepth
    /\ rd' = [rd EXCEPT ![t] = @ + 1]
    /\ UNCHANGED <<impl, wr, pc, timed>>

AcquireReaderAtOnce(t) ==
    /\ pc[t] = "run" /\ ~InMap(t) /\ MayRead(impl)
    /\ impl' = EnterReader(impl)
    /\ rd' = [rd EXCEPT ![t] = 1]
    /\ UNCHANGED <<wr, pc, timed>>

AcquireReaderWait(t) ==
    /\ pc[t] = "run" /\ ~InMap(t) /\ ~MayRead(impl)
    /\ impl' = ReaderWaitBegin(impl)
    /\ \E finite \in BOOLEAN : timed' = [timed EXCEPT ![t] = finite]
    /\ Goto(t, "rwait")
    /\ UNCHANGED <<rd, wr>>

-------------------------------------------------------------------------------
(* The wait of _ReaderWait.  It is reached by a new reader (rd[t] = 0) and *)
(* by an upgrade that timed out (rd[t] > 0, without a timeout).            *)

ReaderWake(t) ==
    /\ pc[t] = "rwait" /\ impl.safeToRead = "set"
    /\ Goto(t, "rwoken")
    /\ UNCHANGED <<impl, rd, wr, timed>>

ReaderTimeout(t) ==
    /\ pc[t] = "rwait" /\ timed[t]
    /\ Goto(t, "rlate")
    /\ UNCHANGED <<impl, rd, wr, timed>>

\* Woken, but a writer was faster: wait again, or find the time used up.
ReaderWaitAgain(t) ==
    /\ pc[t] = "rwoken" /\ ~MayRead(impl)
    /\ \/ Goto(t, "rwait")
       \/ timed[t] /\ Goto(t, "rexpired")
    /\ UNCHANGED <<impl, rd, wr, timed>>

\* No writer, timeout or not: the new reader enters.
ReaderEnters(t) ==
    /\ pc[t] \in {"rwoken", "rlate"} /\ MayRead(impl) /\ rd[t] = 0
    /\ impl' = ReaderWaitEnd(EnterReader(impl))
    /\ rd' = [rd EXCEPT ![t] = 1]
    /\ Goto(t, "run")
    /\ UNCHANGED <<wr, timed>>

ReaderFails(t) ==
    /\ \/ pc[t] = "rlate" /\ ~MayRead(impl)
       \/ pc[t] = "rexpired"
    /\ impl' = ReaderWaitEnd(impl)
    /\ Goto(t, "run")
    /\ UNCHANGED <<rd, wr, timed>>

\* The upgrade that timed out is a reader again, or the writer if alone.
UpgradeReenters(t) ==
    /\ pc[t] = "rwoken" /\ MayRead(impl) /\ rd[t] > 0
    /\ EnterReader(impl).entered # 1
    /\ impl' = ReaderWaitEnd(EnterReader(impl))
    /\ Goto(t, "run")
    /\ UNCHANGED <<rd, wr, timed>>

UpgradeTakesOver(t) ==
    /\ pc[t] = "rwoken" /\ MayRead(impl) /\ rd[t] > 0
    /\ EnterReader(impl).entered = 1
    /\ impl' = TakeOverAlone(ReaderWaitEnd(EnterReader(impl)))
    /\ Goto(t, "wowner")
    /\ UNCHANGED <<rd, wr, timed>>

ReleaseReader(t) ==
    /\ pc[t] = "run" /\ rd[t] > 0
    /\ rd' = [rd EXCEPT ![t] = @ - 1]
    /\ impl' = IF rd[t] + wr[t] = 1 THEN ReaderRelease(impl) ELSE impl
    /\ UNCHANGED <<wr, pc, timed>>

-------------------------------------------------------------------------------
(* AcquireWriterLock                                                       *)

AcquireWriterNested(t) ==
    /\ pc[t] = "run" /\ wr[t] > 0 /\ rd[t] + wr[t] < MaxDepth
    /\ wr' = [wr EXCEPT ![t] = @ + 1]
    /\ UNCHANGED <<impl, rd, pc, timed>>

AcquireWriterAtOnce(t) ==
    /\ pc[t] = "run" /\ ~InMap(t)
    /\ impl.writers = 0 /\ impl.entered = 0
    /\ impl' = [impl EXCEPT !.writers = @ + 1]
    /\ wr' = [wr EXCEPT ![t] = 1]
    /\ UNCHANGED <<rd, pc, timed>>

AcquireWriterWait(t) ==
    /\ pc[t] = "run" /\ ~InMap(t)
    /\ impl.writers # 0 \/ impl.entered # 0
    /\ impl' = WriterWaitBegin(impl)
    /\ \E finite \in BOOLEAN : timed' = [timed EXCEPT ![t] = finite]
    /\ Goto(t, "wwait")
    /\ UNCHANGED <<rd, wr>>

\* The only reader is upgraded at once, ahead of the queued writers.
UpgradeSoleReader(t) ==
    /\ pc[t] = "run" /\ rd[t] > 0 /\ wr[t] = 0 /\ impl.entered = 1
    /\ impl' = [impl EXCEPT !.entered = 0, !.writers = @ + 1]
    /\ wr' = [wr EXCEPT ![t] = 1]
    /\ UNCHANGED <<rd, pc, timed>>

UpgradeWait(t) ==
    /\ pc[t] = "run" /\ rd[t] > 0 /\ wr[t] = 0 /\ impl.entered # 1
    /\ impl' = UpgradeWaitBegin(impl)
    /\ \E finite \in BOOLEAN : timed' = [timed EXCEPT ![t] = finite]
    /\ Goto(t, "wwait")
    /\ UNCHANGED <<rd, wr>>

-------------------------------------------------------------------------------
(* The wait of _WriterWaitAndLeaveCSIfSuccess                              *)

WriterWake(t) ==
    /\ pc[t] = "wwait" /\ impl.safeToWrite = "set"
    /\ impl' = [impl EXCEPT !.safeToWrite = "reset"]
    /\ Goto(t, "wowner")
    /\ UNCHANGED <<rd, wr, timed>>

WriterTimeout(t) ==
    /\ pc[t] = "wwait" /\ timed[t]
    /\ Goto(t, "wlate")
    /\ UNCHANGED <<impl, rd, wr, timed>>

\* Too late, and yet nobody else is there.
LateWriterAdmitted(t) ==
    /\ pc[t] = "wlate" /\ UndoAdmits(impl)
    /\ impl' = WriterWaitUndo(impl)
    /\ Goto(t, "wowner")
    /\ UNCHANGED <<rd, wr, timed>>

LateWriterFails(t) ==
    /\ pc[t] = "wlate" /\ ~UndoAdmits(impl) /\ rd[t] = 0
    /\ impl' = WriterWaitUndo(impl)
    /\ Goto(t, "run")
    /\ UNCHANGED <<rd, wr, timed>>

\* An upgrade that failed is a reader again at once when no writer is left,
LateUpgradeReenters(t) ==
    /\ pc[t] = "wlate" /\ ~UndoAdmits(impl) /\ rd[t] > 0
    /\ MayRead(WriterWaitUndo(impl))
    /\ impl' = EnterReader(WriterWaitUndo(impl))
    /\ Goto(t, "run")
    /\ UNCHANGED <<rd, wr, timed>>

\* else it waits for its read access, however long that takes.
LateUpgradeWaits(t) ==
    /\ pc[t] = "wlate" /\ ~UndoAdmits(impl) /\ rd[t] > 0
    /\ ~MayRead(WriterWaitUndo(impl))
    /\ impl' = ReaderWaitBegin(WriterWaitUndo(impl))
    /\ timed' = [timed EXCEPT ![t] = FALSE]
    /\ Goto(t, "rwait")
    /\ UNCHANGED <<rd, wr>>

\* The second critical section of AcquireWriterLock.
WriterRegisters(t) ==
    /\ pc[t] = "wowner"
    /\ wr' = [wr EXCEPT ![t] = @ + 1]
    /\ Goto(t, "run")
    /\ UNCHANGED <<impl, rd, timed>>

ReleaseWriter(t) ==
    /\ pc[t] = "run" /\ wr[t] > 0
    /\ wr' = [wr EXCEPT ![t] = @ - 1]
    /\ impl' = IF wr[t] = 1 THEN WriterRelease(impl, rd[t] > 0) ELSE impl
    /\ UNCHANGED <<rd, pc, timed>>

ReleaseAllLocks(t) ==
    /\ pc[t] = "run" /\ InMap(t)
    /\ impl' = IF wr[t] > 0 THEN WriterRelease(impl, FALSE)
                            ELSE ReaderRelease(impl)
    /\ rd' = [rd EXCEPT ![t] = 0]
    /\ wr' = [wr EXCEPT ![t] = 0]
    /\ UNCHANGED <<pc, timed>>

-------------------------------------------------------------------------------
\* Steps the lock itself takes once a call is under way.
Proceed(t) ==
    \/ ReaderWake(t) \/ ReaderWaitAgain(t) \/ ReaderEnters(t)
    \/ ReaderFails(t) \/ UpgradeReenters(t) \/ UpgradeTakesOver(t)
    \/ LateWriterAdmitted(t) \/ LateWriterFails(t)
    \/ LateUpgradeReenters(t) \/ LateUpgradeWaits(t) \/ WriterRegisters(t)

Release(t) == ReleaseReader(t) \/ ReleaseWriter(t) \/ ReleaseAllLocks(t)

Acquire(t) ==
    \/ AcquireReaderNested(t) \/ AcquireReaderAtOnce(t) \/ AcquireReaderWait(t)
    \/ AcquireWriterNested(t) \/ AcquireWriterAtOnce(t) \/ AcquireWriterWait(t)
    \/ UpgradeSoleReader(t) \/ UpgradeWait(t)

Next == \E t \in Thread :
            \/ Acquire(t) \/ Release(t) \/ Proceed(t)
            \/ ReaderTimeout(t) \/ WriterWake(t) \/ WriterTimeout(t)

Spec == Init /\ [][Next]_vars

(* Fairness.  The OS runs every thread, a wait on a set event returns, and *)
(* an event set again and again wakes every thread that stays in the wait. *)
(* The locks are scoped objects (CAutoReadLock, CAutoWriteLock), so a      *)
(* thread that is not blocked leaves its outermost scope: a release that   *)
(* empties its m_map entry happens if it stays possible again and again.   *)
(* That it may be ReleaseAllLocks stands for the end of nested scopes that *)
(* are left and entered in turns.                                          *)
LastRelease(t) == Release(t) /\ rd'[t] + wr'[t] = 0

Fairness == \A t \in Thread :
                /\ WF_vars(Proceed(t))
                /\ SF_vars(WriterWake(t))
                /\ WF_vars(ReleaseReader(t) \/ ReleaseWriter(t))
                /\ SF_vars(LastRelease(t))

FairSpec == Spec /\ Fairness

-------------------------------------------------------------------------------
(* Who has what.                                                           *)

Writes(t)  == wr[t] > 0 \/ pc[t] = "wowner"
Reads(t)   == rd[t] > 0 /\ wr[t] = 0 /\ pc[t] = "run"
Queued(t)  == pc[t] \in {"wwait", "wlate"}
Waiting(t) == pc[t] \in {"rwait", "rwoken", "rlate", "rexpired"}

Readers == {t \in Thread : Reads(t)}
Writers == {t \in Thread : Writes(t) \/ Queued(t)}
Waiters == {t \in Thread : Waiting(t)}

-------------------------------------------------------------------------------
(* Properties.                                                             *)

TypeOK == /\ impl \in Impl
          /\ rd \in [Thread -> Nat]
          /\ wr \in [Thread -> Nat]
          /\ pc \in [Thread -> Control]
          /\ timed \in [Thread -> BOOLEAN]

\* Either concurrent read access for several threads or write access for one
\* (ReaderWriterLock.h:29-30), nested locks, upgrades and timeouts included.
MutualExclusion ==
    \A t, u \in Thread : Writes(t) /\ (Writes(u) \/ Reads(u)) => t = u

\* The counters that decide every admission are the threads they count: no
\* order of timeouts, upgrades and downgrades makes them drift.
CountersExact == /\ impl.entered = Cardinality(Readers)
                 /\ impl.writers = Cardinality(Writers)
                 /\ impl.waiting = Cardinality(Waiters)

\* The auto-reset event is a grant: it is set only while nobody reads and
\* nobody writes, so the thread it wakes is alone (SetEvent at lines 141, 260).
GrantIsExclusive ==
    impl.safeToWrite = "set" => \A t \in Thread : ~Reads(t) /\ ~Writes(t)

\* On-demand events: no thread is in a wait on a handle that was closed, and
\* none is left open when its last user is gone (the destructor's _ASSERT).
HandlesOpenWhileUsed ==
    /\ \A t \in Thread : Queued(t) => impl.safeToWrite # "none"
    /\ impl.safeToRead # "none" <=> \E t \in Thread : Waiting(t)
    /\ impl.safeToWrite # "none" => \E t \in Thread : Writes(t) \/ Queued(t)

\* No lost wakeup: when nobody has the lock, a thread in the writer queue has
\* a grant pending (or one that timed out is about to undo), and when no
\* writer is left, a thread in the reader queue finds its event set.
NoLostWakeup ==
    /\ (\E t \in Thread : Queued(t)) /\ (\A t \in Thread : ~Reads(t) /\ ~Writes(t))
          => impl.safeToWrite = "set"
    /\ impl.writers = 0 /\ (\E t \in Thread : pc[t] = "rwait")
          => impl.safeToRead = "set"

\* Where the locks of a thread and its place in a call can be together.
ControlInv ==
    \A t \in Thread : /\ wr[t] > 0 => pc[t] = "run"
                      /\ Waiting(t) /\ rd[t] > 0 =>
                            pc[t] \in {"rwait", "rwoken"} /\ ~timed[t]

\* The inductive invariant: why the lock is correct.  Admissions look at the
\* counters, so these must be exact; a grant is posted only to an idle lock.
IInv == /\ TypeOK
        /\ ControlInv
        /\ MutualExclusion
        /\ CountersExact
        /\ GrantIsExclusive
        /\ HandlesOpenWhileUsed
        /\ NoLostWakeup

\* A thread that asks for write access without a timeout gets it.
WriterAdmitted ==
    \A t \in Thread : (pc[t] = "wwait" /\ ~timed[t]) ~> Writes(t)

\* A waiting reader is not left behind: once no writer is active or queued
\* it enters, unless another writer comes first.
ReaderNotForgotten ==
    \A t \in Thread : (pc[t] = "rwait" /\ impl.writers = 0)
                          ~> (pc[t] = "run" \/ impl.writers # 0)

\* The lock implements the abstract one.
Spec_readers == Readers
Spec_writer  == IF \E t \in Thread : Writes(t)
                THEN CHOOSE t \in Thread : Writes(t) ELSE NoThread
Spec_queued  == {t \in Thread : Queued(t)}

Abstract == INSTANCE RWLockSpec WITH readers <- Spec_readers,
                                     writer  <- Spec_writer,
                                     queued  <- Spec_queued

ImplementsSpec == Abstract!Spec
===============================================================================
