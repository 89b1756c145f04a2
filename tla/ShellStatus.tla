------------------------------ MODULE ShellStatus ------------------------------
(***************************************************************************)
(* How a changed status of a file gets to the screen: the crawler writes   *)
(* it into the cached directory and has the shell told (CachedDirectory,   *)
(* ShellUpdater); the shell asks again, and is answered from the directory *)
(* or from the mini cache of the last answer (CGitStatusCache).  A client  *)
(* is a process that shows files, with its pipe and the thread of          *)
(* TGitCache that answers it.                                              *)
(*                                                                         *)
(* One file is followed, which one client shows; other files do not change *)
(* and are only asked for.  What of a change gets to the crawler is        *)
(* FolderCrawler's business: here every change is in "todo".               *)
(***************************************************************************)
EXTENDS Naturals, FiniteSets

CONSTANTS Path, NoPath, Client,
          Viewer, Item,   \* the client and the file that are followed
          MaxEvents       \* bound: how often the file is written, or a file asked
                          \* for that the client has not been notified of

ASSUME PathAssumption == NoPath \notin Path /\ Item \in Path
ASSUME ClientAssumption == Viewer \in Client
ASSUME EventsAssumption == MaxEvents \in Nat

Status == {"normal", "modified"}
Answer == Status \cup {"none"}

VARIABLES
    disk,                  \* what git would find for the file
    entry, fresh,          \* its entry in m_entryCache, and whether its time matches
    todo,                  \* what the crawler has to read: the file, or its folder
    crawl, job,            \* the crawler in GetStatusForMember, and what it has read
    toShell, added, wake, updater, updating,   \* CShellUpdater
    recentPath, recent, live,  \* m_mostRecentPath, m_mostRecentStatus, and whether
                               \* m_mostRecentExpiresAt lies ahead
    pc, path, found,       \* the clients' threads in GetStatusForPath
    wants, shown,          \* the viewer: whether it has been notified, and what it shows
    misled,                \* history: that is the status of another file or an old one
    events                 \* bound

dir     == <<entry, fresh>>
crawler == <<crawl, job>>
shell   == <<toShell, added, wake, updater, updating>>
mini    == <<recentPath, recent, live>>
threads == <<pc, path, found>>
screen  == <<wants, shown, misled>>
vars    == <<disk, dir, todo, crawler, shell, mini, threads, screen, events>>

ShellUpdater == INSTANCE ShellUpdater
    WITH pathsToUpdate <- toShell, itemsAdded <- added,
         worker <- updater, working <- updating

Job == {"file", "folder"}
NoJob == [kind |-> "none"]
\* A status with the file it belongs to.  It is old when, since it was looked up, the
\* shell has been told of another or a later request has noted its file.
NoStatus == [of |-> NoPath, status |-> "none", old |-> FALSE]

Init == /\ disk = "normal" /\ entry = "normal" /\ fresh = TRUE
        /\ todo = {}
        /\ crawl = "idle" /\ job = NoJob
        /\ ShellUpdater!Init
        /\ recentPath = NoPath /\ recent = NoStatus /\ live = FALSE
        /\ pc = [c \in Client |-> "idle"] /\ path = [c \in Client |-> NoPath]
        /\ found = [c \in Client |-> NoStatus]
        /\ wants = FALSE /\ shown = "normal" /\ misled = FALSE
        /\ events = 0

Goto(c, l) == pc' = [pc EXCEPT ![c] = l]

\* The directory's m_critSec is locked during AddEntry.
Locked == crawl = "store" \/ (crawl \in {"reset", "push", "signal"} /\ ~job.stored)
\* CGitStatusCache's m_critSec is locked while the path and the time are noted.
Noting == \E c \in Client : pc[c] = "noted"

-------------------------------------------------------------------------------
(* Faults for the mutation runs.                                           *)

\* The mini cache keeps its status when the file gets another one.
UpdateShellKeepsRecent ==
    /\ crawl = "reset" /\ crawl' = "push"
    /\ UNCHANGED <<disk, dir, todo, job, shell, mini, threads, screen, events>>

-------------------------------------------------------------------------------
(* Files change.                                                           *)

Happens == events < MaxEvents /\ events' = events + 1

\* A program writes a file, whose status may be the same after it.  The watcher reports it.
Write ==
    /\ Happens
    /\ disk' \in Status /\ fresh' = FALSE
    /\ job' = IF job = NoJob THEN job ELSE [job EXCEPT !.fresh = FALSE]
    /\ todo' = todo \cup {"file"}
    /\ UNCHANGED <<entry, crawl, shell, mini, threads, screen>>

\* git commits the file: its time stays.  The watcher reports the index.
Commit ==
    /\ disk = "modified" /\ disk' = "normal"
    /\ todo' = todo \cup {"folder"}
    /\ UNCHANGED <<dir, crawler, shell, mini, threads, screen, events>>

-------------------------------------------------------------------------------
(* The crawler: GetStatusForMember, GetStatusFromGit, EnumFiles, AddEntry. *)

\* For a file the status is read before the time, for a folder after it.
Read ==
    /\ crawl = "idle" /\ crawl' = "read"
    /\ \E kind \in todo :
         /\ todo' = todo \ {kind}
         /\ job' = [kind |-> kind, val |-> disk, fresh |-> TRUE, stored |-> FALSE]
    /\ UNCHANGED <<disk, dir, shell, mini, threads, screen, events>>

ReadMore ==
    /\ crawl = "read" /\ crawl' = "add"
    /\ job' = IF job.kind = "file" THEN [job EXCEPT !.fresh = TRUE]
              ELSE [job EXCEPT !.val = disk]
    /\ UNCHANGED <<disk, dir, todo, shell, mini, threads, screen, events>>

AddEntry ==
    /\ crawl = "add"
    /\ crawl' = IF entry # job.val THEN "reset" ELSE "store"
    /\ UNCHANGED <<disk, dir, todo, job, shell, mini, threads, screen, events>>

\* UpdateShell first has the mini cache forget the file, ...
UpdateShell ==
    /\ crawl = "reset" /\ crawl' = "push"
    /\ live' = (live /\ recentPath # Item)
    /\ found' = [c \in Client |-> [found[c] EXCEPT !.old = found[c].of = Item]]
    /\ UNCHANGED <<disk, dir, todo, job, shell, recentPath, recent, pc, path, screen,
                   events>>

\* ... and then calls AddPathForUpdate.
PushPath ==
    /\ crawl = "push" /\ crawl' = "signal"
    /\ ShellUpdater!Push(Item)
    /\ UNCHANGED <<disk, dir, todo, job, mini, threads, screen, events>>

Done == crawl' = "idle" /\ job' = NoJob

SignalUpdater ==
    /\ crawl = "signal"
    /\ ShellUpdater!Signal
    /\ IF job.stored THEN Done ELSE crawl' = "store" /\ UNCHANGED job
    /\ UNCHANGED <<disk, dir, todo, mini, threads, screen, events>>

\* After a file of its own, not one of a folder, the crawler tells the shell in any case
\* (FolderCrawler.cpp:350-351).
Store ==
    /\ crawl = "store"
    /\ entry' = job.val /\ fresh' = (fresh \/ job.fresh)
    /\ IF job.kind = "file"
       THEN crawl' = "reset" /\ job' = [job EXCEPT !.stored = TRUE]
       ELSE Done
    /\ UNCHANGED <<disk, todo, shell, mini, threads, screen, events>>

-------------------------------------------------------------------------------
(* The thread of CShellUpdater.                                            *)

UpdaterThread ==
    /\ \/ /\ ShellUpdater!Wake \/ ShellUpdater!Take \/ ShellUpdater!Rest
          /\ UNCHANGED wants
       \/ ShellUpdater!Notify /\ wants' = TRUE
    /\ UNCHANGED <<disk, dir, todo, crawler, mini, threads, shown, misled, events>>

-------------------------------------------------------------------------------
(* A client asks and is answered: GetStatusForPath.                        *)

Ask(c, p) ==
    /\ pc[c] = "idle"
    /\ \/ c = Viewer /\ p = Item /\ wants /\ wants' = FALSE /\ UNCHANGED events
       \/ Happens /\ UNCHANGED wants
    /\ Goto(c, "time") /\ path' = [path EXCEPT ![c] = p]
    /\ UNCHANGED <<disk, dir, todo, crawler, shell, mini, found, shown, misled>>

\* The viewer shows what it gets for the file.
Answered(c, r) ==
    /\ IF c = Viewer /\ path[c] = Item
       THEN shown' = r.status /\ misled' = (r.of # Item \/ r.old)
       ELSE UNCHANGED <<shown, misled>>
    /\ Goto(c, "idle") /\ path' = [path EXCEPT ![c] = NoPath]
    /\ found' = [found EXCEPT ![c] = NoStatus]

\* The mini cache is read without its lock: the time, the path and the status.
CheckTime(c) ==
    /\ pc[c] = "time"
    /\ Goto(c, IF live THEN "path" ELSE "note")
    /\ UNCHANGED <<disk, dir, todo, crawler, shell, mini, path, found, screen, events>>

CheckPath(c) ==
    /\ pc[c] = "path"
    /\ Goto(c, IF recentPath = path[c] THEN "take" ELSE "note")
    /\ UNCHANGED <<disk, dir, todo, crawler, shell, mini, path, found, screen, events>>

TakeRecent(c) ==
    /\ pc[c] = "take"
    /\ Answered(c, recent)
    /\ UNCHANGED <<disk, dir, todo, crawler, shell, mini, wants, events>>

NotePath(c) ==
    /\ pc[c] = "note" /\ ~Noting
    /\ recentPath' = path[c] /\ recent' = [recent EXCEPT !.old = TRUE]
    /\ Goto(c, "noted")
    /\ UNCHANGED <<disk, dir, todo, crawler, shell, live, path, found, screen, events>>

NoteTime(c) ==
    /\ pc[c] = "noted"
    /\ live' = TRUE
    /\ Goto(c, "look")
    /\ UNCHANGED <<disk, dir, todo, crawler, shell, recentPath, recent, path, found,
                   screen, events>>

\* GetStatusFromCache: an entry whose time is not the file's does not count.  For a
\* blocked path GetCacheStatusForMember takes it without looking at the file.
Lookup(c) ==
    /\ pc[c] = "look" /\ ~Locked
    /\ \E good \in BOOLEAN :
         LET hit == path[c] # Item \/ fresh \/ ~good IN
         /\ found' = [found EXCEPT ![c] =
                        [of |-> path[c], old |-> FALSE,
                         status |-> CASE ~hit -> "none"
                                      [] path[c] = Item -> entry
                                      [] OTHER -> "normal"]]
         /\ todo' = IF hit THEN todo ELSE todo \cup {"folder"}
    /\ Goto(c, "keep")
    /\ UNCHANGED <<disk, dir, crawler, shell, mini, path, screen, events>>

\* The three ends of GetStatusForPath that have found the directory keep the status alike.
Keep(c) ==
    /\ pc[c] = "keep" /\ ~Noting
    /\ recent' = found[c]
    /\ Answered(c, [found[c] EXCEPT !.old = FALSE])
    /\ UNCHANGED <<disk, dir, todo, crawler, shell, recentPath, live, wants, events>>

\* A second is over.
Expire ==
    /\ live /\ live' = FALSE
    /\ UNCHANGED <<disk, dir, todo, crawler, shell, recentPath, recent, threads, screen,
                   events>>

-------------------------------------------------------------------------------
Crawler == Read \/ ReadMore \/ AddEntry \/ UpdateShell \/ PushPath \/ SignalUpdater \/ Store
Get(c)  == \/ CheckTime(c) \/ CheckPath(c) \/ TakeRecent(c)
           \/ NotePath(c) \/ NoteTime(c) \/ Lookup(c) \/ Keep(c)

Next == \/ Crawler \/ UpdaterThread \/ Expire
        \/ Write \/ Commit
        \/ \E c \in Client : Get(c) \/ \E p \in Path : Ask(c, p)

\* The threads run, and the viewer asks for the file when it has been notified.
Fairness == /\ WF_vars(Crawler) /\ WF_vars(UpdaterThread)
            /\ \A c \in Client : WF_vars(Get(c))
            /\ WF_vars(wants /\ Ask(Viewer, Item))

Spec == Init /\ [][Next]_vars /\ Fairness

-------------------------------------------------------------------------------
(* Properties.                                                             *)

\* What is read belongs to a job, what is found to a request that is under way.
TypeOK ==
    /\ disk \in Status /\ entry \in Status /\ fresh \in BOOLEAN
    /\ todo \subseteq Job
    /\ crawl \in {"idle", "read", "add", "reset", "push", "signal", "store"}
    /\ IF crawl = "idle" THEN job = NoJob
       ELSE job \in [kind : Job, val : Status, fresh : BOOLEAN, stored : BOOLEAN]
    /\ \A i \in DOMAIN toShell : toShell[i] = Item
    /\ updater \in {"wait", "loop", "notify"} /\ (updating = Item) = (updater = "notify")
    /\ recentPath \in Path \cup {NoPath}
    /\ \A r \in {recent} \cup {found[c] : c \in Client} :
           r \in [of : Path \cup {NoPath}, status : Answer, old : BOOLEAN]
    /\ \A c \in Client :
         /\ pc[c] \in {"idle", "time", "path", "take", "note", "noted", "look", "keep"}
         /\ path[c] \in IF pc[c] = "idle" THEN {NoPath} ELSE Path
         /\ found[c].of = IF pc[c] = "keep" THEN path[c] ELSE NoPath
    /\ {added, wake, live, wants, misled} \subseteq BOOLEAN
    /\ shown \in Answer /\ events \in 0..MaxEvents

\* What git says of a file is what Explorer shows of it in the end, wherever the crawler
\* is with AddEntry, which tells the shell before it stores the status (CachedDirectory.cpp:
\* 442-449), the updater with its list and its event, and the requests with the mini cache.
\* The one exception is a status from the mini cache (GITStatusCache.cpp:491-494) that is
\* not the file's or has been replaced, which another thread must have left there.
Displayed == (shown # disk /\ ~misled) ~> (shown = disk \/ misled)
===============================================================================
