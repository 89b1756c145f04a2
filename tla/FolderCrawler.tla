---------------------------- MODULE FolderCrawler ----------------------------
(***************************************************************************)
(* The crawler of TGitCache (TGitCache/FolderCrawler.cpp) with those who   *)
(* give it work: the directory watcher that reports changed paths, the     *)
(* threads that ask for folders, block and unblock paths, and git, whose   *)
(* index.lock the watcher sees come and go.  A path is a working tree; the *)
(* clock is a step that lets a block run out.                              *)
(***************************************************************************)
EXTENDS Naturals, Sequences

CONSTANTS Path, NoPath,
          Watcher,      \* the thread of CDirectoryWatcher
          Asker,        \* InstanceThread and CommandThread
          MaxEvents     \* bound: changes, locks and blocks from outside

Thread == {Watcher} \cup Asker

ASSUME PathAssumption == NoPath \notin Path
ASSUME ThreadAssumption == Watcher \notin Asker
ASSUME EventsAssumption == MaxEvents \in Nat

VARIABLES
    folders, paths,        \* m_foldersToUpdate, m_pathsToUpdate
    itemsAdded,            \* m_bItemsAddedSinceLastCrawl
    wake,                  \* m_hWakeEvent
    blocked, blockOver,    \* m_blockedPath, m_blockReleasesAt is in the past
    noWatch,               \* m_NoWatchPaths: "free", "blocked" or "over"
    pc, path,              \* every thread that reports, and its path
    worker, working,       \* WorkerThread and its workingPath
    notify, locked,        \* the file system: notifications, index.lock files
    events,                \* bound
    stale,                 \* history: changed since the crawler last looked
    erased,                \* history: a report was erased at the end of a crawl
    failed,                \* history: could not be read when the crawler last looked
    dropped                \* history: what would have had it read again was erased

queues  == <<folders, paths, itemsAdded, wake>>
blocks  == <<blocked, blockOver, noWatch>>
threads == <<pc, path>>
work    == <<worker, working>>
system  == <<notify, locked, events>>
retries == <<failed, dropped>>
history == <<stale, erased, retries>>
vars    == <<queues, blocks, threads, work, system, history>>

Folders == INSTANCE UniqueQueueSpec WITH items <- folders, Value <- Path
Paths   == INSTANCE UniqueQueueSpec WITH items <- paths, Value <- Path

In(p, queue) == \E i \in DOMAIN queue : queue[i] = p

Init == /\ Folders!Init /\ Paths!Init
        /\ itemsAdded = FALSE /\ wake = FALSE
        /\ blocked = NoPath /\ blockOver = FALSE
        /\ noWatch = [p \in Path |-> "free"]
        /\ pc = [t \in Thread |-> "idle"] /\ path = [t \in Thread |-> NoPath]
        /\ worker = "wait" /\ working = NoPath
        /\ notify = <<>> /\ locked = {} /\ events = 0
        /\ stale = {} /\ erased = {} /\ failed = {} /\ dropped = {}

\* A block that has run out does not count.
IsPathGood(p) == noWatch[p] # "blocked"

-------------------------------------------------------------------------------
(* Faults for the mutation runs.                                           *)

\* A path that is blocked is dropped, like a folder.
TestPathDrops ==
    /\ worker = "path"
    /\ worker' = IF IsPathGood(working) THEN "readPath" ELSE "loop"
    /\ UNCHANGED <<queues, blocks, threads, working, system, history>>

\* The crawler goes to sleep once it has worked through the paths.
RestEarly ==
    /\ worker = "pick" /\ paths = <<>>
    /\ worker' = "wait"
    /\ UNCHANGED <<queues, blocks, threads, working, system, history>>

\* The path of the crawler's own block is never reset.
LoopKeepsBlock ==
    /\ worker = "loop" /\ worker' = "pick"
    /\ UNCHANGED <<queues, blocks, threads, working, system, history>>

\* A folder that is blocked is dropped, not put back.
TakeFolderDrops ==
    /\ worker = "folder" /\ folders # <<>>
    /\ itemsAdded' = FALSE
    /\ working' = Head(folders) /\ folders' = Tail(folders)
    /\ worker' = IF working' = blocked THEN "loop" ELSE "testFolder"
    /\ UNCHANGED <<paths, wake, blocks, threads, system, history>>

-------------------------------------------------------------------------------
(* The file system and git.                                                *)

Happens(kind, p) == /\ events < MaxEvents /\ events' = events + 1
                    /\ notify' = Append(notify, [kind |-> kind, path |-> p])

Change(p) ==
    /\ Happens("change", p)
    /\ stale' = stale \cup {p}
    /\ UNCHANGED <<queues, blocks, threads, work, locked, erased, retries>>

LockIndex(p) ==
    /\ p \notin locked
    /\ Happens("lock", p)
    /\ locked' = locked \cup {p}
    /\ UNCHANGED <<queues, blocks, threads, work, history>>

UnlockIndex(p) ==
    /\ p \in locked
    /\ locked' = locked \ {p}
    /\ notify' = Append(notify, [kind |-> "unlock", path |-> p])
    /\ stale' = stale \cup {p}
    /\ UNCHANGED <<queues, blocks, threads, work, events, erased, retries>>

\* A block of CGitStatusCache or of the crawler runs out.
BlockRunsOut(p) ==
    /\ noWatch[p] = "blocked"
    /\ noWatch' = [noWatch EXCEPT ![p] = "over"]
    /\ UNCHANGED <<queues, blocked, blockOver, threads, work, system, history>>

CrawlBlockRunsOut ==
    /\ blocked # NoPath /\ ~blockOver
    /\ blockOver' = TRUE
    /\ UNCHANGED <<queues, blocked, noWatch, threads, work, system, history>>

-------------------------------------------------------------------------------
(* The threads that report: AddPathForUpdate of the watcher,               *)
(* AddDirectoryForUpdate of all others.                                    *)

\* Nothing is queued while git works on the index, and a folder not while it is
\* blocked.
Queues(t, p) ==
    IF p \notin locked /\ (t = Watcher \/ noWatch'[p] # "blocked")
    THEN pc' = [pc EXCEPT ![t] = "push"] /\ path' = [path EXCEPT ![t] = p]
    ELSE UNCHANGED threads

\* A lock that comes blocks its tree, one that goes blocks it for a second more
\* and counts as a change.
Notified ==
    /\ pc[Watcher] = "idle" /\ notify # <<>>
    /\ notify' = Tail(notify)
    /\ LET n == Head(notify) IN
         IF n.kind = "change"
         THEN UNCHANGED noWatch /\ Queues(Watcher, n.path)
         ELSE /\ noWatch' = [noWatch EXCEPT ![n.path] = "blocked"]
              /\ IF n.kind = "lock" THEN UNCHANGED threads ELSE Queues(Watcher, n.path)
    /\ UNCHANGED <<queues, blocked, blockOver, work, locked, events, history>>

Called(t) == /\ pc[t] = "idle"
             /\ events < MaxEvents /\ events' = events + 1
             /\ UNCHANGED <<queues, blocked, blockOver, work, notify, locked, history>>

\* A request of the shell finds no valid status, or a command asks for a crawl.
AddFolderForCrawling(t, p) ==
    /\ Called(t)
    /\ UNCHANGED noWatch /\ Queues(t, p)

BlockPath(t, p) ==
    /\ Called(t)
    /\ noWatch' = [noWatch EXCEPT ![p] = "blocked"]
    /\ UNCHANGED threads

UnBlockPath(t, p) ==
    /\ Called(t)
    /\ noWatch' = [noWatch EXCEPT ![p] = "free"] /\ Queues(t, p)

Push(t) ==
    /\ pc[t] = "push"
    /\ IF t = Watcher
       THEN Paths!Push(path[t]) /\ UNCHANGED <<folders, itemsAdded>>
       ELSE Folders!Push(path[t]) /\ itemsAdded' = TRUE /\ UNCHANGED paths
    /\ pc' = [pc EXCEPT ![t] = "signal"]
    /\ UNCHANGED <<wake, blocks, path, work, system, history>>

Signal(t) ==
    /\ pc[t] = "signal"
    /\ wake' = TRUE
    /\ pc' = [pc EXCEPT ![t] = "idle"] /\ path' = [path EXCEPT ![t] = NoPath]
    /\ UNCHANGED <<folders, paths, itemsAdded, blocks, work, system, history>>

-------------------------------------------------------------------------------
(* WorkerThread.                                                           *)

\* AddDirectoryForUpdate by the crawler itself.
AddFolder(p) ==
    IF p \notin locked
    THEN Folders!Push(p) /\ itemsAdded' = TRUE /\ wake' = TRUE
    ELSE UNCHANGED <<folders, itemsAdded, wake>>

Wake ==
    /\ worker = "wait" /\ wake
    /\ wake' = FALSE /\ worker' = "loop"
    /\ UNCHANGED <<folders, paths, itemsAdded, blocks, threads, working, system, history>>

\* RemoveTimedoutBlocks stops after the first block that has run out.
Loop ==
    /\ worker = "loop" /\ worker' = "pick"
    /\ IF blockOver
       THEN blocked' = NoPath /\ blockOver' = FALSE
       ELSE UNCHANGED <<blocked, blockOver>>
    /\ \/ /\ \A p \in Path : noWatch[p] # "over"
          /\ UNCHANGED <<folders, itemsAdded, wake, noWatch>>
       \/ \E p \in Path : /\ noWatch[p] = "over"
                          /\ noWatch' = [noWatch EXCEPT ![p] = "free"]
                          /\ AddFolder(p)
    /\ UNCHANGED <<paths, threads, working, system, history>>

Rest ==
    /\ worker = "pick" /\ folders = <<>> /\ paths = <<>>
    /\ worker' = "wait"
    /\ UNCHANGED <<queues, blocks, threads, working, system, history>>

TakePath ==
    /\ worker = "pick" /\ paths # <<>>
    /\ working' = Head(paths)
    /\ IF working' = blocked
       THEN paths' = Append(Tail(paths), working') /\ worker' = "loop"
       ELSE paths' = Tail(paths) /\ worker' = "path"
    /\ UNCHANGED <<folders, itemsAdded, wake, blocks, threads, system, history>>

NoPaths ==
    /\ worker = "pick" /\ paths = <<>> /\ folders # <<>>
    /\ worker' = "folder"
    /\ UNCHANGED <<queues, blocks, threads, working, system, history>>

TestPath ==
    /\ worker = "path"
    /\ IF IsPathGood(working)
       THEN worker' = "readPath" /\ UNCHANGED paths
       ELSE worker' = "loop" /\ Paths!Push(working)
    /\ UNCHANGED <<folders, itemsAdded, wake, blocks, threads, working, system, history>>

\* The tree has been removed from the disk, and so is its cache.
Gone ==
    /\ worker = "path" /\ worker' = "loop"
    /\ stale' = stale \ {working} /\ erased' = erased \ {working}
    /\ failed' = failed \ {working} /\ dropped' = dropped \ {working}
    /\ UNCHANGED <<queues, blocks, threads, working, system>>

\* The crawler reads the status.  If that fails it blocks the tree for a moment
\* and queues it again.
Read(next) ==
    /\ worker' = next
    /\ stale' = stale \ {working} /\ erased' = erased \ {working}
    /\ dropped' = dropped \ {working}
    /\ \/ /\ failed' = failed \ {working}
          /\ UNCHANGED <<folders, itemsAdded, wake, blocked, blockOver>>
       \/ /\ failed' = failed \cup {working}
          /\ blocked' = working /\ blockOver' = FALSE
          /\ IF IsPathGood(working) THEN AddFolder(working)
             ELSE UNCHANGED <<folders, itemsAdded, wake>>
    /\ UNCHANGED <<paths, noWatch, threads, working, system>>

ReadPath == worker = "readPath" /\ Read("erasePath")
ReadFolder == worker = "readFolder" /\ Read("eraseFolder")

\* What came in during the crawl is taken for a consequence of it.
ErasePath ==
    /\ worker = "erasePath" /\ worker' = "folder"
    /\ IF In(working, paths)
       THEN /\ Paths!Erase(working)
            /\ erased' = erased \cup ({working} \cap stale)
            /\ dropped' = dropped \cup ({working} \cap failed)
       ELSE UNCHANGED <<paths, erased, dropped>>
    /\ UNCHANGED <<folders, itemsAdded, wake, blocks, threads, working, system, stale,
                   failed>>

NoFolders ==
    /\ worker = "folder" /\ folders = <<>>
    /\ worker' = "loop"
    /\ UNCHANGED <<queues, blocks, threads, working, system, history>>

TakeFolder ==
    /\ worker = "folder" /\ folders # <<>>
    /\ itemsAdded' = FALSE
    /\ working' = Head(folders)
    /\ IF working' = blocked
       THEN folders' = Append(Tail(folders), working') /\ worker' = "loop"
       ELSE folders' = Tail(folders) /\ worker' = "testFolder"
    /\ UNCHANGED <<paths, wake, blocks, threads, system, history>>

TestFolder ==
    /\ worker = "testFolder"
    /\ worker' = IF IsPathGood(working) THEN "readFolder" ELSE "loop"
    /\ UNCHANGED <<queues, blocks, threads, working, system, history>>

EraseFolder ==
    /\ worker = "eraseFolder" /\ worker' = "loop"
    /\ IF itemsAdded /\ In(working, folders)
       THEN /\ Folders!Erase(working)
            /\ dropped' = dropped \cup ({working} \cap failed)
       ELSE UNCHANGED <<folders, dropped>>
    /\ UNCHANGED <<paths, itemsAdded, wake, blocks, threads, working, system, stale,
                   erased, failed>>

-------------------------------------------------------------------------------
Outside == \E p \in Path :
               \/ Change(p) \/ LockIndex(p)
               \/ \E t \in Asker : \/ AddFolderForCrawling(t, p)
                                   \/ BlockPath(t, p) \/ UnBlockPath(t, p)
Report(t) == Push(t) \/ Signal(t)
WorkerThread == \/ Wake \/ Loop \/ Rest \/ NoPaths \/ NoFolders
                \/ TakePath \/ TestPath \/ Gone \/ ReadPath \/ ErasePath
                \/ TakeFolder \/ TestFolder \/ ReadFolder \/ EraseFolder

Next == \/ Outside \/ Notified \/ WorkerThread \/ CrawlBlockRunsOut
        \/ \E t \in Thread : Report(t)
        \/ \E p \in Path : UnlockIndex(p) \/ BlockRunsOut(p)

\* The threads run, git releases its locks, and time goes on.
Fairness == /\ WF_vars(Notified) /\ WF_vars(WorkerThread) /\ WF_vars(CrawlBlockRunsOut)
            /\ \A t \in Thread : WF_vars(Report(t))
            /\ \A p \in Path : WF_vars(UnlockIndex(p)) /\ WF_vars(BlockRunsOut(p))

Spec == Init /\ [][Next]_vars /\ Fairness

-------------------------------------------------------------------------------
(* Properties.                                                             *)

IsQueue(q) == /\ q \in Seq(Path)
              /\ \A i, j \in DOMAIN q : q[i] = q[j] => i = j

\* The queues hold a path once; only a crawler that is busy has one.
TypeOK ==
    /\ IsQueue(folders) /\ IsQueue(paths)
    /\ itemsAdded \in BOOLEAN /\ wake \in BOOLEAN
    /\ blocked \in Path \cup {NoPath} /\ blockOver \in BOOLEAN
    /\ noWatch \in [Path -> {"free", "blocked", "over"}]
    /\ pc \in [Thread -> {"idle", "push", "signal"}]
    /\ \A t \in Thread : path[t] \in IF pc[t] = "idle" THEN {NoPath} ELSE Path
    /\ worker \in {"wait", "loop", "pick", "path", "readPath", "erasePath",
                   "folder", "testFolder", "readFolder", "eraseFolder"}
    /\ working \in Path \cup {NoPath}
    /\ notify \in Seq([kind : {"change", "lock", "unlock"}, path : Path])
    /\ locked \subseteq Path /\ events \in 0..MaxEvents
    /\ erased \subseteq stale /\ stale \subseteq Path
    /\ dropped \subseteq failed /\ failed \subseteq Path

\* The crawler does not sleep on a full queue: WorkerThread looks at the queues
\* (FolderCrawler.cpp:195) without the lock under which others fill them.
NoLostWakeup ==
    worker = "wait" /\ (folders # <<>> \/ paths # <<>>)
        => wake \/ \E t \in Thread : pc[t] = "signal"

\* What will have a tree read as a path: a lock that goes, a report, the queue.
PathOnItsWay(p) ==
    \/ p \in locked
    \/ \E i \in DOMAIN notify : notify[i].path = p /\ notify[i].kind # "lock"
    \/ path[Watcher] = p
    \/ In(p, paths)
    \/ working = p /\ worker \in {"path", "readPath"}

\* A tree that has changed is on its way to the crawler, whatever locks and blocks
\* come in between.  The one exception is a change during the crawl of the tree,
\* which FolderCrawler.cpp:316-320 takes for its own doing and erases.
OnItsWay == \A p \in stale \ erased : PathOnItsWay(p)

\* The crawler gets to every change that OnItsWay promises to it: no block lasts, and
\* no path that waits for its block keeps it from the others.
Crawled == \A p \in Path : (p \in stale) ~> (p \notin stale \/ p \in erased)

\* A folder that is queued is taken out again, though the paths go first and begin
\* the loop anew for every path that is blocked (FolderCrawler.cpp:215, 275).
FolderServed == \A p \in Path : In(p, folders) ~> ~In(p, folders)

\* A tree whose status could not be read is blocked for a moment and queued again, to
\* "make sure that this status times out soon" (CachedDirectory.cpp:287).  That request
\* may be put off by blocks and locks but is not lost.  The exceptions are in the crawler
\* itself: FolderCrawler.cpp:434 erases what was queued while it read a folder, which is
\* the retry of just this read, and line 320 the report of a lock that goes.
RetryOnItsWay ==
    \A p \in failed \ dropped :
        \/ PathOnItsWay(p)
        \/ In(p, folders) \/ \E t \in Thread : path[t] = p
        \/ noWatch[p] # "free"
        \/ working = p /\ worker \in {"testFolder", "readFolder"}
===============================================================================
