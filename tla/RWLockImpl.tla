------------------------------ MODULE RWLockImpl ------------------------------
(***************************************************************************)
(* The critical-section bodies of CReaderWriterLockNonReentrance           *)
(* (Utils/ReaderWriterLock.cpp), as functions of the members its CS        *)
(* guards.  Everything between EnterCS and LeaveCS is one step; only the   *)
(* WaitForSingleObject calls, made outside of the CS, separate steps.      *)
(*                                                                         *)
(* An event is "none" while its handle is closed, else "reset" or "set".   *)
(***************************************************************************)
EXTENDS Integers

Event == {"none", "reset", "set"}

Impl == [writers     : Nat,     \* m_iNumOfWriter: active and queued writers
         entered     : Nat,     \* m_iNumOfReaderEntered
         waiting     : Nat,     \* m_iNumOfReaderWaiting
         safeToWrite : Event,   \* m_hSafeToWriteEvent, auto-reset
         safeToRead  : Event]   \* m_hSafeToReadEvent, manual-reset

ImplInit == [writers |-> 0, entered |-> 0, waiting |-> 0,
             safeToWrite |-> "none", safeToRead |-> "none"]

\* if (h) SetEvent(h);  if (h) ResetEvent(h);  if (!h) h = CreateEvent(reset)
SetIfOpen(e)    == IF e = "none" THEN e ELSE "set"
ResetIfOpen(e)  == IF e = "none" THEN e ELSE "reset"
CreateIfNone(e) == IF e = "none" THEN "reset" ELSE e

-------------------------------------------------------------------------------
(* Faults for the mutation runs: each is the operator of the same name     *)
(* further down with one plausible slip.                                   *)

\* Readers already inside let newcomers join although a writer is queued.
MayReadBarging(s) == s.writers = 0 \/ s.entered > 0

\* The undo forgets to look for readers.
UndoAdmitsBlindly(s) == s.writers = 1

\* A late writer that fails does not let the waiting readers in.
WriterWaitUndoSilent(s) ==
    [s EXCEPT !.writers = IF s.writers = 1 /\ s.entered = 0 THEN @ ELSE @ - 1,
              !.safeToWrite = IF s.writers = 1 THEN "none" ELSE @]

\* The undo closes the event although other writers wait on it.
WriterWaitUndoCloses(s) ==
    [s EXCEPT !.writers = IF s.writers = 1 /\ s.entered = 0 THEN @ ELSE @ - 1,
              !.safeToWrite = "none",
              !.safeToRead = IF s.writers = 1 /\ s.entered # 0
                             THEN SetIfOpen(@) ELSE @]

\* The last reader to leave wakes nobody.
ReaderReleaseSilent(s) == [s EXCEPT !.entered = @ - 1]

\* The upgrade keeps its read access counted while it waits.
UpgradeWaitBeginUncounted(s) ==
    [s EXCEPT !.writers = @ + 1,
              !.safeToRead = IF s.writers = 0 THEN ResetIfOpen(@) ELSE @,
              !.safeToWrite = CreateIfNone(@)]

\* A release leaves the next writer asleep.
WriterReleaseSilent(s, downgrade) ==
    LET left == s.writers - 1
    IN  [s EXCEPT !.writers = left,
                  !.entered = IF downgrade THEN @ + 1 ELSE @,
                  !.safeToWrite = IF left = 0 THEN "none" ELSE @,
                  !.safeToRead = IF left = 0 THEN SetIfOpen(@) ELSE @]

-------------------------------------------------------------------------------

\* The test every admission of a reader makes.
MayRead(s) == s.writers = 0

EnterReader(s) == [s EXCEPT !.entered = @ + 1]

\* Head and tail of _ReaderWait.
ReaderWaitBegin(s) == [s EXCEPT !.waiting = @ + 1,
                                !.safeToRead = CreateIfNone(@)]

ReaderWaitEnd(s) == [s EXCEPT !.waiting = @ - 1,
                              !.safeToRead = IF s.waiting = 1 THEN "none" ELSE @]

ReaderRelease(s) ==
    [s EXCEPT !.entered = @ - 1,
              !.safeToWrite = IF s.entered = 1 THEN SetIfOpen(@) ELSE @]

\* _WriterWaitAndLeaveCSIfSuccess up to its wait.
WriterWaitBegin(s) ==
    [s EXCEPT !.writers = @ + 1,
              !.safeToRead = IF s.writers = 0 THEN ResetIfOpen(@) ELSE @,
              !.safeToWrite = CreateIfNone(@)]

\* Its undo after a timeout: the last writer to give up closes the event and
\* is admitted all the same when no reader is left, else lets readers in.
UndoAdmits(s) == s.writers = 1 /\ s.entered = 0

WriterWaitUndo(s) ==
    [s EXCEPT !.writers = IF UndoAdmits(s) THEN @ ELSE @ - 1,
              !.safeToWrite = IF s.writers = 1 THEN "none" ELSE @,
              !.safeToRead = IF s.writers = 1 /\ s.entered # 0
                             THEN SetIfOpen(@) ELSE @]

\* _UpgradeToWriterLockAndLeaveCS up to the wait it makes.
UpgradeWaitBegin(s) == WriterWaitBegin([s EXCEPT !.entered = @ - 1])

\* The reader that comes back alone from a failed upgrade becomes the writer.
TakeOverAlone(s) == [s EXCEPT !.entered = 0, !.writers = 1]

WriterRelease(s, downgrade) ==
    LET left == s.writers - 1
    IN  [s EXCEPT !.writers = left,
                  !.entered = IF downgrade THEN @ + 1 ELSE @,
                  !.safeToWrite = IF left = 0 THEN "none"
                                  ELSE IF downgrade THEN @ ELSE "set",
                  !.safeToRead = IF left = 0 THEN SetIfOpen(@) ELSE @]
===============================================================================
