------------------------------ MODULE RWLockSpec ------------------------------
(***************************************************************************)
(* What CReaderWriterLock promises (ReaderWriterLock.h): concurrent read   *)
(* access or write access for one thread, and no new reader while a        *)
(* writer is queued.  A reader may queue for the write lock and gives its  *)
(* read access up while it waits; a sole reader may become the writer at   *)
(* once, ahead of the queue.                                               *)
(***************************************************************************)
CONSTANTS Thread, NoThread

VARIABLES readers, \* the threads with read access
          writer,  \* the thread with write access, or NoThread
          queued   \* the threads waiting for write access

specVars == <<readers, writer, queued>>

Init == readers = {} /\ writer = NoThread /\ queued = {}

Read(t) ==
    /\ t \notin readers /\ writer = NoThread /\ queued = {}
    /\ readers' = readers \cup {t}
    /\ UNCHANGED <<writer, queued>>

StopReading(t) ==
    /\ t \in readers
    /\ readers' = readers \ {t}
    /\ UNCHANGED <<writer, queued>>

Queue(t) ==
    /\ t \notin queued /\ t # writer
    /\ readers' = readers \ {t}
    /\ queued' = queued \cup {t}
    /\ UNCHANGED writer

\* A queued thread that gives up may have its read access back.
GiveUp(t) ==
    /\ t \in queued
    /\ queued' = queued \ {t}
    /\ \/ readers' = readers
       \/ /\ queued' = {} /\ writer = NoThread
          /\ readers' = readers \cup {t}
    /\ UNCHANGED writer

Write(t) ==
    /\ writer = NoThread /\ readers \subseteq {t}
    /\ queued = {} \/ t \in queued \/ t \in readers
    /\ writer' = t
    /\ readers' = {}
    /\ queued' = queued \ {t}

StopWriting(t) ==
    /\ writer = t
    /\ writer' = NoThread
    /\ readers' \in {{}, {t}}    \* released, or downgraded
    /\ UNCHANGED queued

Next == \E t \in Thread :
            \/ Read(t) \/ StopReading(t) \/ Queue(t)
            \/ GiveUp(t) \/ Write(t) \/ StopWriting(t)

Spec == Init /\ [][Next]_specVars
===============================================================================
