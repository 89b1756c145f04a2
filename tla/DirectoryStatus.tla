---------------------------- MODULE DirectoryStatus ----------------------------
(***************************************************************************)
(* How the status of a directory is put together and passed upwards        *)
(* (TGitCache/CachedDirectory.cpp).  The crawler reads the status of       *)
(* directories; every answer to a client puts the status of a directory    *)
(* together again and passes it on to the parents.  Neither holds a lock   *)
(* across these steps.                                                     *)
(*                                                                         *)
(* When a directory is read is FolderCrawler's business: here the crawler  *)
(* reads any directory at any time.  What git finds is arbitrary too.      *)
(***************************************************************************)
EXTENDS Integers, FiniteSetsExt

CONSTANTS Dir, NoDir, Parent,
          Crawler,     \* the thread of CFolderCrawler
          Asker,       \* the threads that answer clients
          MaxEvents    \* bound: reads and entries that expire

Thread == {Crawler} \cup Asker

ASSUME DirAssumption == NoDir \notin Dir /\ Parent \in [Dir -> Dir \cup {NoDir}]
ASSUME ThreadAssumption == Crawler \notin Asker
ASSUME EventsAssumption == MaxEvents \in Nat

\* git_wc_status_kind in the order of GetStatusRanking, as far as a folder's status
\* tells it apart; None stands for unversioned too, Modified for conflicted and for
\* files that are added or deleted.
None == 0  Normal == 1  Modified == 2
Status == None..Modified

\* A map of children may also hold that a submodule was deleted, or have no entry.
Deleted == 3  Absent == -1
Entry == Status \cup {Deleted, Absent}

\* AdjustFolderStatus: what a folder shows for a member that was deleted.
Adjust(s) == IF s = Deleted THEN Modified ELSE s

VARIABLES
    own, valid,        \* m_ownStatus, and whether IsOwnStatusValid holds
    files,             \* m_mostImportantFileStatus
    full,              \* m_currentFullStatus
    known, knownTmp,   \* a child's entry in the parent's m_childDirectories(_tmp)
    pc, dir, val,      \* the threads: where, on which directory, with which status
    reported,          \* the child directories git has reported to the crawler so far
    seen,              \* the files' status that the crawler has just read
    events             \* bound

cached  == <<own, valid, files, full>>
maps    == <<known, knownTmp>>
threads == <<pc, dir, val>>
crawl   == <<reported, seen, events>>
vars    == <<cached, maps, threads, crawl>>

Init == /\ own = [d \in Dir |-> None] /\ valid = [d \in Dir |-> FALSE]
        /\ files = [d \in Dir |-> None] /\ full = [d \in Dir |-> None]
        /\ known = [d \in Dir |-> Absent] /\ knownTmp = [d \in Dir |-> Absent]
        /\ pc = [t \in Thread |-> "idle"] /\ dir = [t \in Thread |-> NoDir]
        /\ val = [t \in Thread |-> None]
        /\ reported = {} /\ seen = None /\ events = 0

Children(d) == {c \in Dir : Parent[c] = d}

Goto(t, l) == pc' = [pc EXCEPT ![t] = l]

\* UpdateCurrentStatus begins for directory d.
Update(t, d) == Goto(t, "own") /\ dir' = [dir EXCEPT ![t] = d]

\* The call that thread t is in ends.
Return(t) == Goto(t, "idle") /\ dir' = [dir EXCEPT ![t] = NoDir]

-------------------------------------------------------------------------------
(* Faults for the mutation runs.                                           *)

\* The parent is told only when the status has changed.
StoreTellsChanges(t) ==
    /\ pc[t] = "store"
    /\ IF val[t] # full[dir[t]] /\ valid[dir[t]]
       THEN full' = [full EXCEPT ![dir[t]] = val[t]] /\ Goto(t, "tell") /\ UNCHANGED dir
       ELSE UNCHANGED full /\ Return(t)
    /\ UNCHANGED <<own, valid, files, maps, val, crawl>>

\* The map that is being built is forgotten.
SetChildStatusOnce(c, s) ==
    /\ known' = [known EXCEPT ![c] = s]
    /\ UNCHANGED knownTmp

-------------------------------------------------------------------------------
(* UpdateCurrentStatus and UpdateChildDirectoryStatus, for any thread.     *)

\* CalculateRecursiveStatus: first the members, which no lock protects, ...
CalculateOwn(t) ==
    /\ pc[t] = "own"
    /\ val' = [val EXCEPT ![t] = Max({files[dir[t]], own[dir[t]]})]
    /\ Goto(t, "children")
    /\ UNCHANGED <<cached, maps, dir, crawl>>

\* ... and then, with the lock, the children.
CalculateChildren(t) ==
    /\ pc[t] = "children"
    /\ val' = [val EXCEPT ![t] = Adjust(Max({@} \cup {known[c] : c \in Children(dir[t])}))]
    /\ Goto(t, "store")
    /\ UNCHANGED <<cached, maps, dir, crawl>>

Store(t) ==
    /\ pc[t] = "store"
    /\ full' = IF valid[dir[t]] THEN [full EXCEPT ![dir[t]] = val[t]] ELSE full
    /\ Goto(t, "tell")
    /\ UNCHANGED <<own, valid, files, maps, dir, val, crawl>>

Tell(t) ==
    /\ pc[t] = "tell"
    /\ IF Parent[dir[t]] = NoDir
       THEN Return(t) /\ UNCHANGED val
       ELSE /\ val' = [val EXCEPT ![t] = full[dir[t]]]
            /\ Goto(t, "compare") /\ UNCHANGED dir
    /\ UNCHANGED <<cached, maps, crawl>>

\* The parent looks up what it knows, which makes an entry if there is none.
Compare(t) ==
    LET c == dir[t] IN
    /\ pc[t] = "compare"
    /\ known' = [known EXCEPT ![c] = Max({@, None})]
    /\ knownTmp' = [knownTmp EXCEPT ![c] = val[t]]
    /\ IF known'[c] # val[t] \/ ~valid[Parent[c]]
       THEN Goto(t, "set") /\ UNCHANGED dir
       ELSE Return(t)
    /\ UNCHANGED <<cached, val, crawl>>

SetChildStatus(c, s) ==
    /\ known' = [known EXCEPT ![c] = s]
    /\ knownTmp' = [knownTmp EXCEPT ![c] = s]

SetAndUpdate(t) ==
    /\ pc[t] = "set"
    /\ SetChildStatus(dir[t], val[t])
    /\ Update(t, Parent[dir[t]])
    /\ UNCHANGED <<cached, val, crawl>>

-------------------------------------------------------------------------------
(* A client asks for the status of a directory.                            *)

\* Without a status of its own the directory gives no recursive answer.
Ask(t, d) ==
    /\ pc[t] = "idle" /\ t \in Asker
    /\ IF own[d] = None THEN UNCHANGED <<pc, dir>> ELSE Update(t, d)
    /\ UNCHANGED <<cached, maps, val, crawl>>

\* The entry is older than the cache's timeout.
Expire(d) ==
    /\ valid[d] /\ events < MaxEvents
    /\ valid' = [valid EXCEPT ![d] = FALSE]
    /\ events' = events + 1
    /\ UNCHANGED <<own, files, full, maps, threads, seen, reported>>

-------------------------------------------------------------------------------
(* The crawler reads a directory, or a file in it.                         *)

Start(d, l) == /\ pc[Crawler] = "idle" /\ events < MaxEvents
               /\ events' = events + 1
               /\ Goto(Crawler, l) /\ dir' = [dir EXCEPT ![Crawler] = d]

ReadFile(d) ==
    /\ Start(d, "own")
    /\ \E s \in {Normal, Modified} : files' = [files EXCEPT ![d] = s]
    /\ UNCHANGED <<own, valid, full, maps, val, seen, reported>>

ReadFileFails(d) ==
    /\ Start(d, IF full[d] = None THEN "failed" ELSE "own")
    /\ UNCHANGED <<cached, maps, val, seen, reported>>

\* The directory is invalidated first when its path was reported as changed.
BeginEnum(d) ==
    /\ Start(d, "enum")
    /\ \/ UNCHANGED valid
       \/ valid' = [valid EXCEPT ![d] = FALSE]
    /\ knownTmp' = [c \in Dir |-> IF Parent[c] = d THEN Absent ELSE knownTmp[c]]
    /\ files' = [files EXCEPT ![d] = None]
    /\ reported' = {}
    /\ UNCHANGED <<own, full, known, val, seen>>

\* GetStatusCallback: a child directory that is there keeps the status it has, but a
\* submodule that was deleted and has a repository again does not stay deleted.
KeepChildStatus(c) ==
    /\ pc[Crawler] = "enum" /\ Parent[c] = dir[Crawler] /\ c \notin reported
    /\ reported' = reported \cup {c}
    /\ \/ known[c] # Absent /\ knownTmp' = [knownTmp EXCEPT ![c] = known[c]]
       \/ known[c] \in {Absent, Deleted} /\ UNCHANGED knownTmp
    /\ UNCHANGED <<cached, known, threads, seen, events>>

\* GetStatusCallback: a folder that has been deleted is reported as modified, a
\* submodule as deleted.
ChildDeleted(c) ==
    /\ pc[Crawler] = "enum" /\ Parent[c] = dir[Crawler] /\ c \notin reported
    /\ reported' = reported \cup {c}
    /\ \E s \in {Modified, Deleted} : SetChildStatus(c, s)
    /\ UNCHANGED <<cached, threads, seen, events>>

\* Children that are not reported are no longer there.
SwapMaps ==
    /\ pc[Crawler] = "enum"
    /\ known' = [c \in Dir |-> IF Parent[c] = dir[Crawler] THEN knownTmp[c] ELSE known[c]]
    /\ knownTmp' = [c \in Dir |-> IF Parent[c] = dir[Crawler] THEN Absent ELSE knownTmp[c]]
    /\ \E s \in {Normal, Modified} : seen' = s
    /\ reported' = {}
    /\ Goto(Crawler, "refresh")
    /\ UNCHANGED <<cached, dir, val, events>>

RefreshMostImportant ==
    /\ pc[Crawler] = "refresh"
    /\ files' = [files EXCEPT ![dir[Crawler]] = seen]
    /\ Goto(Crawler, "stamp")
    /\ UNCHANGED <<own, valid, full, maps, dir, val, seen, reported, events>>

\* The own status follows without a lock.
StampOwn ==
    LET d == dir[Crawler] IN
    /\ pc[Crawler] = "stamp"
    /\ own' = [own EXCEPT ![d] = Normal] /\ valid' = [valid EXCEPT ![d] = TRUE]
    /\ Update(Crawler, d)
    /\ UNCHANGED <<files, full, maps, val, seen, reported, events>>

EnumFails ==
    /\ pc[Crawler] = "enum"
    /\ Goto(Crawler, "failed")
    /\ reported' = {}
    /\ UNCHANGED <<cached, maps, dir, val, seen, events>>

\* GetStatusForMember: the directory is in no repository (any more).
Unversioned(d) ==
    /\ Start(d, "unversioned")
    /\ UNCHANGED <<cached, maps, val, seen, reported>>

\* Both then clear one member after the other; the empty status counts as valid.
ForgetOwn ==
    LET d == dir[Crawler] IN
    /\ pc[Crawler] \in {"failed", "unversioned"}
    /\ own' = [own EXCEPT ![d] = None] /\ valid' = [valid EXCEPT ![d] = TRUE]
    /\ Goto(Crawler, IF pc[Crawler] = "failed" THEN "forgetfull" ELSE "forgetfiles")
    /\ UNCHANGED <<files, full, maps, dir, val, seen, reported, events>>

ForgetFull ==
    /\ pc[Crawler] = "forgetfull"
    /\ full' = [full EXCEPT ![dir[Crawler]] = None]
    /\ Goto(Crawler, "forgetfiles")
    /\ UNCHANGED <<own, valid, files, maps, dir, val, seen, reported, events>>

ForgetFiles ==
    /\ pc[Crawler] = "forgetfiles"
    /\ files' = [files EXCEPT ![dir[Crawler]] = None]
    /\ Goto(Crawler, "forgetchildren")
    /\ UNCHANGED <<own, valid, full, maps, dir, val, seen, reported, events>>

\* The map that is being built is not cleared.
ForgetChildren ==
    /\ pc[Crawler] = "forgetchildren"
    /\ known' = [c \in Dir |-> IF Parent[c] = dir[Crawler] THEN Absent ELSE known[c]]
    /\ Update(Crawler, dir[Crawler])
    /\ UNCHANGED <<cached, knownTmp, val, seen, reported, events>>

-------------------------------------------------------------------------------
UpdateCurrentStatus(t) == \/ CalculateOwn(t) \/ CalculateChildren(t) \/ Store(t)
                          \/ Tell(t) \/ Compare(t) \/ SetAndUpdate(t)

Crawl == \/ \E c \in Dir : KeepChildStatus(c) \/ ChildDeleted(c)
         \/ SwapMaps \/ RefreshMostImportant \/ StampOwn \/ EnumFails
         \/ ForgetOwn \/ ForgetFull \/ ForgetFiles \/ ForgetChildren

Next == \/ \E t \in Thread : UpdateCurrentStatus(t)
        \/ \E t \in Asker, d \in Dir : Ask(t, d)
        \/ Crawl
        \/ \E d \in Dir : Expire(d) \/ ReadFile(d) \/ ReadFileFails(d) \/ BeginEnum(d)
                          \/ Unversioned(d)

\* A thread that has begun goes on; nobody must ask, and nothing must be read.
Fairness == WF_vars(Crawl) /\ \A t \in Thread : WF_vars(UpdateCurrentStatus(t))

Spec == Init /\ [][Next]_vars /\ Fairness

-------------------------------------------------------------------------------
(* Properties.                                                             *)

\* Every status is one of the known ones, and an update always has a directory.
TypeOK ==
    /\ own \in [Dir -> {None, Normal}] /\ valid \in [Dir -> BOOLEAN]
    /\ files \in [Dir -> Status] /\ full \in [Dir -> Status]
    /\ known \in [Dir -> Entry] /\ knownTmp \in [Dir -> Entry]
    /\ val \in [Thread -> Status] /\ seen \in Status /\ events \in 0..MaxEvents
    /\ reported \subseteq Children(dir[Crawler])
    /\ \A t \in Thread : dir[t] \in IF pc[t] = "idle" THEN {NoDir} ELSE Dir

\* While a directory is read, the map that will replace m_childDirectories
\* (CachedDirectory.cpp:417-418) keeps up with it: the status of no child that git
\* reported is lost or set back by the replacement, unless SetChildStatus is still
\* under way for it.  Only a submodule that is known as deleted and was reported as
\* there may be without a status in the new map, because "we must not keep the
\* deleted status if it re-appears" (line 601).
MapsInStep ==
    \A c \in reported :
        \/ knownTmp[c] = known[c]
        \/ \E t \in Thread : pc[t] = "set" /\ dir[t] = c
        \/ known[c] = Deleted /\ knownTmp[c] = Absent

\* The full status of a directory is the most important one of itself, its files and
\* its children, and the parent knows it.
Combined(d) == Adjust(Max({files[d], own[d]} \cup {known[c] : c \in Children(d)}))
Agreed ==
    \A d \in Dir : own[d] # None =>
        /\ valid[d] => full[d] = Combined(d)
        /\ Parent[d] # NoDir => Max({known[d], None}) = full[d]

\* Threads overtake one another, and leave an old status in a directory or its parent.
\* Because "we tell our parent *always* about our status, even if it hasn't changed"
\* (CachedDirectory.cpp:560-563) this is put right for good once nothing is read any
\* more and clients keep asking for every directory that has a status.
Asked(d) == \E t \in Asker : pc[t] = "own" /\ dir[t] = d
Converges == (\A d \in Dir : []<>Asked(d) \/ <>[](own[d] = None)) => <>[]Agreed
===============================================================================
