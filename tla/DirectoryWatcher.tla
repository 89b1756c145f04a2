-------------------------- MODULE DirectoryWatcher --------------------------
(***************************************************************************)
(* CDirectoryWatcher (TGitCache/DirectoryWatcher.cpp): the list of paths   *)
(* to watch, the information on each watched directory with its handle and *)
(* pending ReadDirectoryChangesW, the completion port, and the worker that *)
(* serves the port and sets the watches up again; with the threads that    *)
(* disturb it: the crawler that adds paths, the window procedure that      *)
(* handles device events, and the command that releases a path.            *)
(*                                                                         *)
(* The critical sections of m_critSec are actions of their own, except for *)
(* the worker's set-up, which keeps it (lock) over several.  A directory   *)
(* has at most one CDirWatchInfo at a time (in map or toDelete), so that   *)
(* the directory stands for it.                                            *)
(***************************************************************************)
EXTENDS Naturals, SequencesExt

CONSTANTS
  Dir,        \* directories somebody may want to have watched
  NoDir,      \* no directory
  Under,      \* Under[d]: d and the directories below it (IsAncestorOf)
  Sorted,     \* the directories in the order of their names
  Root,       \* Root[p][w]: the root that p and a watched w suggest, or NoDir
  Versioned,  \* directories inside of a working tree (HasAdminDir)
  Loaded,     \* the lists a cache read from disk may begin with
  MaxEvents   \* bound on changes, device events, commands and failures

ASSUME DirAssumption ==
  /\ NoDir \notin Dir
  /\ \A d \in Dir : d \in Under[d] /\ Under[d] \subseteq Dir

VARIABLES
  list,      \* watchedPaths
  map,       \* watchInfoMap
  toDelete,  \* infoToDelete
  open,      \* those of them whose m_hDir is open
  attached,  \* those whose handle belongs to the current m_hCompPort
  armed,     \* those with a pending ReadDirectoryChangesW
  packets,   \* completions that wait in the port
  more,      \* changes the system keeps for a handle without a pending read
  port,      \* m_hCompPort is open
  lock,      \* the worker keeps m_critSec between two steps
  pc,        \* where the worker is
  pdi,       \* the information the worker got from the port
  cur,       \* the worker's watchedPath
  idx,       \* the worker's i
  seen,      \* the worker's numPaths and numWatch
  guard,     \* who has m_guard of CGitStatusCache
  ui,        \* the thread of the window procedure
  blocked,   \* what is below blockedPath, while it is blocked
  present,   \* the directories that exist
  events     \* events so far

watch   == <<map, toDelete, open, attached, armed, packets, more>>
worker  == <<pc, pdi, cur, idx, seen>>
outside == <<guard, ui, blocked, present, events>>
vars    == <<list, watch, port, lock, worker, outside>>

TypeOK ==
  /\ list \in Seq(Dir)
  /\ UNION {map, toDelete, open, attached, armed, packets, more, present} \subseteq Dir
  /\ blocked \subseteq Dir
  /\ port \in BOOLEAN /\ lock \in BOOLEAN
  /\ pc \in {"loop", "wait", "rebuild", "got", "report", "failed", "closePort",
             "setup", "register", "relock"}
  /\ pdi \in Dir \cup {NoDir} /\ cur \in Dir \cup {NoDir} /\ idx \in Nat
  /\ seen \in Nat \X Nat
  /\ guard \in {"free", "crawler", "ui", "command"}
  /\ ui \in {"idle", "guard", "lock"}
  /\ events \in 0 .. MaxEvents

Init ==
  /\ list \in Loaded
  /\ map = {} /\ toDelete = {} /\ open = {} /\ attached = {}
  /\ armed = {} /\ packets = {} /\ more = {}
  /\ port = FALSE /\ lock = FALSE
  /\ pc = "loop" /\ pdi = NoDir /\ cur = NoDir /\ idx = 1 /\ seen = <<0, 0>>
  /\ guard = "free" /\ ui = "idle"
  /\ blocked = {} /\ present = Dir /\ events = 0

Occurs == events < MaxEvents /\ events' = events + 1

At(from, to) == pc = from /\ pc' = to

Drop(d) == SelectSeq(list, LAMBDA w : w # d)   \* RemovePath

\* RemovePathAndChildren, for each of some directories
DropBelow(ds) == SelectSeq(list, LAMBDA w : \A d \in ds : w \notin Under[d])

\* closing the port drops its completions and leaves the handles without one
ClosePort ==
  /\ port' = FALSE
  /\ attached' = {} /\ packets' = {}

-----------------------------------------------------------------------------
(* Faults for the mutation runs; see the definitions of the same names.    *)

\* ClearInfoMap deletes the information itself.
ClearInfoMapDeletes ==
  /\ ClosePort
  /\ map' = {} /\ UNCHANGED toDelete
  /\ open' = open \ map /\ armed' = {} /\ more' = {}

\* The worker waits for its port without a timeout.
NothingCameEver ==
  /\ At("wait", "rebuild")
  /\ ~port
  /\ UNCHANGED <<list, watch, port, lock, pdi, cur, idx, seen, outside>>

\* The next read is only begun if there is something to report.
CollectReads ==
  /\ pc = "got" /\ ~lock
  /\ IF pdi \in open \cap map \cap present
     THEN \/ pc' = "report" /\ armed' = armed \cup {pdi}
          \/ pc' = "loop" /\ UNCHANGED armed
     ELSE pc' = "loop" /\ UNCHANGED armed
  /\ UNCHANGED <<list, map, toDelete, open, attached, packets, more, port, lock, pdi, cur,
                 idx, seen, outside>>

\* The lock is kept over RegisterDeviceNotification.
OpenDirKeepsLock ==
  /\ At("setup", "register")
  /\ idx \in DOMAIN list /\ list[idx] \in present
  /\ cur' = list[idx]
  /\ seen' = <<Len(list), Cardinality(map)>>
  /\ UNCHANGED <<list, watch, port, lock, pdi, idx, outside>>

-----------------------------------------------------------------------------
(* Closing the watches. *)

\* ClearInfoMap, CloseInfoMap, CloseHandlesForPath: close the handles, close the
\* port, and leave the information to the worker's next CleanupWatchInfo
ClearInfoMap ==
  /\ ClosePort
  /\ map' = {} /\ toDelete' = toDelete \cup map
  /\ open' = open \ map /\ armed' = {} /\ more' = {}

\* the worker clears and cleans up at once
ClearAndCleanup ==
  /\ ClosePort
  /\ map' = {} /\ toDelete' = {} /\ open' = {} /\ armed' = {} /\ more' = {}

\* the worker that waits at the port is woken without a completion, or gets one
\* of the reads that closing a handle ends
Interrupted ==
  \/ UNCHANGED worker
  \/ /\ pc = "wait" /\ port
     /\ \E d \in (attached \cap armed) \cup packets : pdi' = d
     /\ pc' = "got"
     /\ UNCHANGED <<cur, idx, seen>>

-----------------------------------------------------------------------------
(* Adding and removing paths. *)

\* the last watched path that has a root in common decides
NewRoot(p) ==
  LET with == SelectSeq(list, LAMBDA w : Root[p][w] # NoDir)
  IN  IF with = <<>> THEN NoDir ELSE Root[p][Last(with)]

\* std::unique over the sorted paths: each is compared with the last one kept
RemoveChildren(paths) ==
  FoldLeft(LAMBDA kept, d :
             IF kept # <<>> /\ d \in Under[Last(kept)] THEN kept ELSE Append(kept, d),
           <<>>, SelectSeq(Sorted, LAMBDA d : d \in paths))

IsPathWatched(p) == \E w \in Range(list) : p \in Under[w]

AddPath(p) ==
  IF p \in blocked \/ IsPathWatched(p) \/ {p, NewRoot(p)} \cap Versioned = {}
  THEN UNCHANGED <<list, watch, port, worker>>
  ELSE /\ list' = IF NewRoot(p) \in Versioned
                  THEN RemoveChildren(Range(list) \cup {NewRoot(p)})
                  ELSE Append(list, p)
       /\ ClearInfoMap
       /\ Interrupted

\* the crawler reads a folder, with read access to the cache
CrawlerEnters ==
  /\ guard = "free" /\ ui # "guard"
  /\ guard' = "crawler"
  /\ UNCHANGED <<list, watch, port, lock, worker, ui, blocked, present, events>>

CrawlerAdds ==
  /\ guard = "crawler" /\ ~lock
  /\ \/ \E p \in present : AddPath(p)
     \/ UNCHANGED <<list, watch, port, worker>>   \* no working tree
  /\ guard' = "free"
  /\ UNCHANGED <<lock, ui, blocked, present, events>>

\* the block of 4 seconds runs out
BlockOver ==
  /\ blocked # {} /\ blocked' = {}
  /\ UNCHANGED <<list, watch, port, lock, worker, guard, ui, present, events>>

\* WM_DEVICECHANGE: write access to the cache, then the lock
DeviceEvent ==
  /\ ui = "idle" /\ ui' = "guard"
  /\ Occurs
  /\ UNCHANGED <<list, watch, port, lock, worker, guard, blocked, present>>

DeviceGuard ==
  /\ ui = "guard" /\ ui' = "lock"
  /\ guard = "free" /\ guard' = "ui"
  /\ UNCHANGED <<list, watch, port, lock, worker, blocked, present, events>>

\* the handle is one of ours, and its whole volume is no longer watched, or not
CloseInfoMap ==
  /\ ui = "lock" /\ ui' = "idle"
  /\ guard' = "free"
  /\ ~lock
  /\ \/ map # {} /\ list' = DropBelow(Dir) /\ blocked' = Dir
     \/ UNCHANGED <<list, blocked>>
  /\ ClearInfoMap
  /\ Interrupted
  /\ UNCHANGED <<lock, present, events>>

\* TGITCACHECOMMAND_RELEASE; of several paths below it the last one is blocked
CommandEnters ==
  /\ guard = "free" /\ guard' = "command"
  /\ Occurs
  /\ UNCHANGED <<list, watch, port, lock, worker, ui, blocked, present>>

CloseHandlesForPath ==
  /\ guard = "command" /\ guard' = "free"
  /\ ~lock
  /\ \E p \in Dir :
       LET hit == map \cap Under[p]
       IN  IF hit = {} THEN UNCHANGED <<list, blocked>>
           ELSE /\ list' = DropBelow(hit)
                /\ \E d \in hit : blocked' = Under[d]
  /\ ClearInfoMap
  /\ Interrupted
  /\ UNCHANGED <<lock, ui, present, events>>

-----------------------------------------------------------------------------
(* The file system. *)

\* a pending read completes, into the port if its handle belongs to one; without
\* one the system keeps the change
Change(d) ==
  LET hit == {w \in open : d \in Under[w]}
  IN  /\ d \in present /\ hit # {}
      /\ armed' = armed \ hit
      /\ packets' = packets \cup (hit \cap armed \cap attached)
      /\ more' = more \cup (hit \ armed)
      /\ Occurs
      /\ UNCHANGED <<list, map, toDelete, open, attached, port, lock, worker,
                     guard, ui, blocked, present>>

\* a directory is removed or renamed: its pending read ends
Vanish(d) ==
  LET hit == armed \cap Under[d]
  IN  /\ d \in present /\ present' = present \ Under[d]
      /\ armed' = armed \ hit
      /\ packets' = packets \cup (hit \cap attached)
      /\ Occurs
      /\ UNCHANGED <<list, map, toDelete, open, attached, more, port, lock, worker,
                     guard, ui, blocked>>

-----------------------------------------------------------------------------
(* The worker. *)

\* CleanupWatchInfo, and the test for an empty list
Begin ==
  /\ toDelete' = {} /\ open' = open \ toDelete
  /\ pc = "loop" /\ pc' = IF list = <<>> THEN "loop" ELSE "wait"
  /\ pdi' = NoDir
  /\ UNCHANGED <<list, map, attached, armed, packets, more, port, lock, cur, idx, seen,
                 outside>>

\* no port, or nothing in it for 10 minutes
NothingCame ==
  /\ At("wait", "rebuild")
  /\ ~port \/ packets = {}
  /\ UNCHANGED <<list, watch, port, lock, pdi, cur, idx, seen, outside>>

GetQueuedCompletionStatus ==
  /\ At("wait", "got")
  /\ \E d \in packets : pdi' = d /\ packets' = packets \ {d}
  /\ UNCHANGED <<list, map, toDelete, open, attached, armed, more, port, lock, cur, idx,
                 seen, outside>>

\* copy the changes and read again, unless the information was cleared away
\* (m_bCleaned is never set here: only the worker itself cleans up)
Collect ==
  /\ pc = "got" /\ ~lock
  /\ \/ /\ pdi \notin open \cap map
        /\ pc' = "loop"
        /\ UNCHANGED <<armed, packets, more, events>>
     \/ /\ pdi \in open \cap map \cap present
        /\ pc' = "report"
        /\ IF pdi \in more
           THEN packets' = packets \cup ({pdi} \cap attached) /\ UNCHANGED armed
           ELSE armed' = armed \cup {pdi} /\ UNCHANGED packets
        /\ more' = more \ {pdi}
        /\ UNCHANGED events
     \/ /\ pdi \in open \cap map
        /\ pdi \in present => Occurs
        /\ pdi \notin present => UNCHANGED events
        /\ pc' = "failed"
        /\ UNCHANGED <<armed, packets, more>>
  /\ UNCHANGED <<list, map, toDelete, open, attached, port, lock, pdi, cur, idx, seen,
                 guard, ui, blocked, present>>

\* report to the crawler and clean up; if the read failed the information is used
\* once more, although it may just have been deleted
Report ==
  /\ \/ At("report", "loop")
     \/ At("failed", "closePort")
  /\ toDelete' = {} /\ open' = open \ toDelete
  /\ UNCHANGED <<list, map, attached, armed, packets, more, port, lock, pdi, cur, idx,
                 seen, outside>>

\* without the lock; deleted information has any name, or one that is not in the list
CloseFailed ==
  /\ At("closePort", "loop")
  /\ IF pdi \in map \cup toDelete
     THEN list' = Drop(pdi) /\ open' = open \ {pdi}
     ELSE UNCHANGED open /\ (UNCHANGED list \/ \E d \in Dir : list' = Drop(d))
  /\ ClosePort
  /\ UNCHANGED <<map, toDelete, armed, more, lock, pdi, cur, idx, seen, outside>>

\* set all watches up again
Restart ==
  /\ At("rebuild", "setup")
  /\ ClearAndCleanup
  /\ lock' = TRUE
  /\ idx' = 1
  /\ UNCHANGED <<list, pdi, cur, seen, outside>>

\* the end of the loop over the paths
SetupDone ==
  /\ At("setup", "loop")
  /\ idx > Len(list)
  /\ lock' = FALSE
  /\ UNCHANGED <<list, watch, port, pdi, cur, idx, seen, outside>>

\* open the next path, and release the lock for RegisterDeviceNotification
OpenDir ==
  /\ At("setup", "register")
  /\ idx \in DOMAIN list /\ list[idx] \in present
  /\ cur' = list[idx]
  /\ seen' = <<Len(list), Cardinality(map)>>
  /\ lock' = FALSE
  /\ UNCHANGED <<list, watch, port, pdi, idx, outside>>

\* the path cannot be opened: it is removed, and the remaining ones are not set up
OpenDirFails ==
  /\ At("setup", "loop")
  /\ idx \in DOMAIN list
  /\ list[idx] \in present => Occurs
  /\ list[idx] \notin present => UNCHANGED events
  /\ list' = Drop(list[idx])
  /\ lock' = FALSE
  /\ UNCHANGED <<watch, port, pdi, cur, idx, seen, guard, ui, blocked, present>>

\* RegisterDeviceNotification sends a message to the thread of the window procedure
Register ==
  /\ At("register", "relock")
  /\ ui = "idle"
  /\ UNCHANGED <<list, watch, port, lock, pdi, cur, idx, seen, outside>>

\* the number of paths or watches has changed: start again
Disturbed ==
  /\ At("relock", "loop")
  /\ seen # <<Len(list), Cardinality(map)>>
  /\ ClearAndCleanup
  /\ UNCHANGED <<list, lock, pdi, cur, idx, seen, outside>>

\* watch the path; a port that could not be created goes unnoticed, for the test
\* is for the wrong value, and the handle then belongs to none
WatchDir ==
  /\ At("relock", "setup")
  /\ seen = <<Len(list), Cardinality(map)>>
  /\ \/ /\ port' = TRUE
        /\ attached' = attached \cup {cur}
        /\ UNCHANGED <<packets, events>>
     \/ ClosePort /\ Occurs
  /\ map' = map \cup {cur} /\ open' = open \cup {cur} /\ armed' = armed \cup {cur}
  /\ lock' = TRUE
  /\ idx' = idx + 1
  /\ UNCHANGED <<list, toDelete, more, pdi, cur, seen, guard, ui, blocked, present>>

\* the first read fails: everything is closed again
WatchDirFails ==
  /\ At("relock", "loop")
  /\ seen = <<Len(list), Cardinality(map)>>
  /\ cur \in present => Occurs
  /\ cur \notin present => UNCHANGED events
  /\ ClearAndCleanup
  /\ list' = Drop(cur)
  /\ UNCHANGED <<lock, pdi, cur, idx, seen, guard, ui, blocked, present>>

Worker ==
  \/ Begin \/ NothingCame \/ GetQueuedCompletionStatus \/ Collect \/ Report
  \/ CloseFailed \/ Restart \/ SetupDone \/ OpenDir \/ OpenDirFails
  \/ Register \/ Disturbed \/ WatchDir \/ WatchDirFails

Ui == DeviceGuard \/ CloseInfoMap

Next ==
  \/ Worker \/ Ui
  \/ DeviceEvent \/ CommandEnters \/ CloseHandlesForPath
  \/ CrawlerEnters \/ CrawlerAdds \/ BlockOver
  \/ \E d \in Dir : Change(d) \/ Vanish(d)

\* every thread goes on: locks are handed to those who wait (strong), the worker never
\* waits for one for good (weak); nothing has to happen outside
Spec ==
  /\ Init /\ [][Next]_vars
  /\ WF_vars(Worker)
  /\ SF_vars(DeviceGuard) /\ SF_vars(CloseInfoMap)
  /\ SF_vars(CloseHandlesForPath) /\ SF_vars(CrawlerAdds)

-----------------------------------------------------------------------------
(* Properties. *)

\* The information a completion points to is not deleted before the worker is done
\* with it (lines 402-411), although every other thread may clear it away meanwhile.
\* Only after the second clean-up (line 516) it may be: see CloseFailed.
InfoAlive == pc \in {"got", "report", "failed"} => pdi \in map \cup toDelete

\* While the worker waits at its port, a watch that is set up has a pending read or a
\* completion in the port (lines 494-504): no watch goes deaf.
WatchesListen ==
  pc = "wait" => (map \cap open \cap attached) \subseteq (armed \cup packets)

\* A listed path is watched in the end, or taken off the list, whatever cleared the
\* watches, failed, or came between the worker's set-up of them (lines 258-384).
Watched ==
  \A d \in Dir : d \in Range(list) ~>
    (d \notin Range(list) \/ d \in map \cap open \cap attached)

\* The window procedure gets through with a device event, although the worker sends it
\* a message while it sets up a watch (lines 317-323), and the crawler has read access
\* to the cache while it adds a path.
DeviceHandled == ui # "idle" ~> ui = "idle"

=============================================================================
