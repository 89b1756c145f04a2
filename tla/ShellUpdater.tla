----------------------------- MODULE ShellUpdater -----------------------------
(***************************************************************************)
(* The thread that tells the shell of changed statuses                     *)
(* (TGitCache/ShellUpdater.cpp): operators on its state, for the module of *)
(* those who call it.  Its end (Stop) is not modelled.                     *)
(***************************************************************************)
EXTENDS SequencesExt

CONSTANT NoPath

VARIABLES
    pathsToUpdate,         \* m_pathsToUpdate
    itemsAdded,            \* m_bItemsAddedSinceLastUpdate
    wake,                  \* m_hWakeEvent, which resets itself
    worker, working        \* WorkerThread and its workingPath

Init == /\ pathsToUpdate = <<>> /\ itemsAdded = FALSE /\ wake = FALSE
        /\ worker = "wait" /\ working = NoPath

-------------------------------------------------------------------------------
(* AddPathForUpdate: the list under the lock, then the event without it.   *)

Push(p) ==
    /\ pathsToUpdate' = Append(pathsToUpdate, p)
    /\ itemsAdded' = TRUE
    /\ UNCHANGED <<wake, worker, working>>

Signal ==
    /\ wake' = TRUE
    /\ UNCHANGED <<pathsToUpdate, itemsAdded, worker, working>>

-------------------------------------------------------------------------------
(* WorkerThread.                                                           *)

Wake ==
    /\ worker = "wait" /\ wake
    /\ wake' = FALSE /\ worker' = "loop"
    /\ UNCHANGED <<pathsToUpdate, itemsAdded, working>>

\* std::unique: only neighbours count as duplicates.
Unique(queue) ==
    FoldLeft(LAMBDA q, p : IF q # <<>> /\ Last(q) = p THEN q ELSE Append(q, p),
             <<>>, queue)

Take ==
    /\ worker = "loop" /\ pathsToUpdate # <<>>
    /\ LET queue == IF itemsAdded THEN Unique(pathsToUpdate) ELSE pathsToUpdate
       IN  working' = Head(queue) /\ pathsToUpdate' = Tail(queue)
    /\ itemsAdded' = FALSE /\ worker' = "notify"
    /\ UNCHANGED wake

Rest ==
    /\ worker = "loop" /\ pathsToUpdate = <<>>
    /\ worker' = "wait"
    /\ UNCHANGED <<pathsToUpdate, itemsAdded, wake, working>>

\* SHChangeNotify for the path.
Notify ==
    /\ worker = "notify" /\ worker' = "loop"
    /\ working' = NoPath
    /\ UNCHANGED <<pathsToUpdate, itemsAdded, wake>>
===============================================================================
