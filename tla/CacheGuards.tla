----------------------------- MODULE CacheGuards -----------------------------
(***************************************************************************)
(* The directory cache of TGitCache and the two reader-writer locks around *)
(* it (TGitCache/GITStatusCache.cpp): m_guard, which every request holds   *)
(* for reading while it uses pointers to CCachedDirectory objects, and     *)
(* m_guardcacheddirectories inside of GetDirectoryCacheEntry.  Both are    *)
(* the abstract lock that CReaderWriterLock implements.                    *)
(***************************************************************************)
EXTENDS Naturals

CONSTANTS Client,      \* InstanceThread: it asks
          Crawler,     \* FolderCrawler: it asks and removes
          Command,     \* CommandThread: it removes
          NoThread,
          Path,        \* the directories
          Under,       \* Under[p]: p and everything below it
          MaxLookups   \* bound: lookups under one read access

Thread == Client \cup Crawler \cup Command

ASSUME ThreadAssumption == NoThread \notin Thread
ASSUME TreeAssumption == /\ Path # {} /\ Under \in [Path -> SUBSET Path]
                         /\ \A p \in Path : p \in Under[p]
ASSUME LookupAssumption == MaxLookups \in Nat \ {0}

VARIABLES gReaders, gWriter, gQueued,  \* m_guard
          cReaders, cWriter, cQueued,  \* m_guardcacheddirectories
          cached,    \* m_directoryCache: the paths with an entry
          pc, path,  \* each thread: where it is, the path of its call
          lookups,   \* calls of GetDirectoryCacheEntry so far
          held,      \* the paths whose CCachedDirectory it points to
          dangling,  \* those that were deleted since
          lost       \* history: gave its read access up while it had pointers

gVars == <<gReaders, gWriter, gQueued>>
cVars == <<cReaders, cWriter, cQueued>>
ptrs  == <<held, dangling, lost>>
vars  == <<gVars, cVars, cached, pc, path, lookups, ptrs>>

Guard == INSTANCE RWLockSpec
             WITH readers <- gReaders, writer <- gWriter, queued <- gQueued
Dirs  == INSTANCE RWLockSpec
             WITH readers <- cReaders, writer <- cWriter, queued <- cQueued

(*   "idle"       between requests           "find"    has read m_guardcached *)
(*   "ask"        wants to read m_guard      "refind"  writes it              *)
(*   "use"        uses its pointers          "create"  about to insert        *)
(*   "lookup"     enters the lookup          "delete"  writes m_guard, too    *)
(*   "upgrade"    waits for the inner lock   "evict"   waits for m_guard      *)
(*   "order"      wants to write m_guard     "yield"   the same, as a reader  *)
(*   "remove"     RemoveCacheForDirectory    "child"   enters a child's lookup *)
(*   "known"      has read m_guardcached                                      *)
Control == {"idle", "ask", "use", "lookup", "find", "upgrade", "refind", "evict",
            "delete", "create", "order", "yield", "remove", "child", "known"}

Init == /\ Guard!Init /\ Dirs!Init
        /\ cached = {}
        /\ pc = [t \in Thread |-> "idle"]
        /\ path = [t \in Thread |-> CHOOSE p \in Path : TRUE]
        /\ lookups = [t \in Thread |-> 0]
        /\ held = [t \in Thread |-> {}]
        /\ dangling = [t \in Thread |-> {}]
        /\ lost = [t \in Thread |-> FALSE]

Goto(t, label) == pc' = [pc EXCEPT ![t] = label]

-------------------------------------------------------------------------------
(* Faults for the mutation runs.                                           *)

\* A missing entry is inserted under the read lock.
FindInsertsAtOnce(t) ==
    /\ pc[t] = "find"
    /\ IF path[t] \in cached
       THEN /\ held' = [held EXCEPT ![t] = @ \cup {path[t]}]
            /\ Dirs!StopReading(t)
            /\ Goto(t, "use")
       ELSE Goto(t, "create") /\ UNCHANGED <<cVars, held>>
    /\ UNCHANGED <<gVars, cached, path, lookups, dangling, lost>>

\* The inner lock keeps its reader while that waits to become the writer.
FindKeepsReading(t) ==
    /\ pc[t] = "find"
    /\ IF path[t] \in cached
       THEN /\ held' = [held EXCEPT ![t] = @ \cup {path[t]}]
            /\ Dirs!StopReading(t)
            /\ Goto(t, "use")
       ELSE /\ cQueued' = cQueued \cup {t}
            /\ Goto(t, "upgrade")
            /\ UNCHANGED <<cReaders, cWriter, held>>
    /\ UNCHANGED <<gVars, cached, path, lookups, dangling, lost>>

\* A removal is content with read access.
OrderReads(t) ==
    /\ pc[t] = "order"
    /\ Guard!Read(t)
    /\ Goto(t, "remove")
    /\ UNCHANGED <<cVars, cached, path, lookups, ptrs>>

\* The entries of the paths s are deleted: all pointers to them dangle.
Deleted(s) ==
    /\ cached' = cached \ s
    /\ held' = [t \in Thread |-> held[t] \ s]
    /\ dangling' = [t \in Thread |-> dangling[t] \cup (held[t] \cap s)]

-------------------------------------------------------------------------------
(* Requests.                                                               *)

Ask(t) ==
    /\ t \in Client \cup Crawler /\ pc[t] = "idle"
    /\ Goto(t, "ask")
    /\ UNCHANGED <<gVars, cVars, cached, path, lookups, ptrs>>

AskGranted(t) ==
    /\ pc[t] = "ask"
    /\ Guard!Read(t)
    /\ Goto(t, "use")
    /\ UNCHANGED <<cVars, cached, path, lookups, ptrs>>

\* A request of the shell is answered without a status after two seconds.
AskTimesOut(t) ==
    /\ t \in Client /\ pc[t] = "ask"
    /\ Goto(t, "idle")
    /\ UNCHANGED <<gVars, cVars, cached, path, lookups, ptrs>>

Lookup(t) ==
    /\ pc[t] = "use" /\ lookups[t] < MaxLookups
    /\ path' \in {[path EXCEPT ![t] = p] : p \in Path}
    /\ lookups' = [lookups EXCEPT ![t] = @ + 1]
    /\ Goto(t, "lookup")
    /\ UNCHANGED <<gVars, cVars, cached, ptrs>>

Answer(t) ==
    /\ pc[t] = "use"
    /\ Guard!StopReading(t)
    /\ lookups' = [lookups EXCEPT ![t] = 0]
    /\ held' = [held EXCEPT ![t] = {}]
    /\ dangling' = [dangling EXCEPT ![t] = {}]
    /\ lost' = [lost EXCEPT ![t] = FALSE]
    /\ Goto(t, "idle")
    /\ UNCHANGED <<cVars, cached, path>>

-------------------------------------------------------------------------------
(* GetDirectoryCacheEntry.                                                 *)

EnterLookup(t) ==
    /\ pc[t] = "lookup"
    /\ Dirs!Read(t)
    /\ Goto(t, "find")
    /\ UNCHANGED <<gVars, cached, path, lookups, ptrs>>

\* An upgrade succeeds at once for the only reader; any other one queues.
Find(t) ==
    /\ pc[t] = "find"
    /\ IF path[t] \in cached
       THEN /\ held' = [held EXCEPT ![t] = @ \cup {path[t]}]
            /\ Dirs!StopReading(t)
            /\ Goto(t, "use")
       ELSE /\ IF cReaders = {t}
               THEN Dirs!Write(t) /\ Goto(t, "refind")
               ELSE Dirs!Queue(t) /\ Goto(t, "upgrade")
            /\ UNCHANGED held
    /\ UNCHANGED <<gVars, cached, path, lookups, dangling, lost>>

\* GetDirectoryCacheEntryNoCreate, for paths that are blocked.
FindOnly(t) ==
    /\ pc[t] = "find" /\ path[t] \notin cached
    /\ Dirs!StopReading(t)
    /\ Goto(t, "use")
    /\ UNCHANGED <<gVars, cached, path, lookups, ptrs>>

Upgraded(t) ==
    /\ pc[t] = "upgrade"
    /\ Dirs!Write(t)
    /\ Goto(t, "refind")
    /\ UNCHANGED <<gVars, cached, path, lookups, ptrs>>

\* An entry that has come up by now is evicted, for which m_guard is upgraded.
Refind(t) ==
    /\ pc[t] = "refind"
    /\ IF path[t] \notin cached
       THEN Goto(t, "create") /\ UNCHANGED <<gVars, lost>>
       ELSE IF gReaders = {t}
            THEN Guard!Write(t) /\ Goto(t, "delete") /\ UNCHANGED lost
            ELSE /\ Guard!Queue(t) /\ Goto(t, "evict")
                 /\ lost' = [lost EXCEPT ![t] = TRUE]
    /\ UNCHANGED <<cVars, cached, path, lookups, held, dangling>>

Evict(t) ==
    /\ pc[t] = "evict"
    /\ Guard!Write(t)
    /\ Goto(t, "delete")
    /\ UNCHANGED <<cVars, cached, path, lookups, ptrs>>

\* delete and erase through an iterator from before the upgrade.
DeleteEntry(t) ==
    /\ pc[t] = "delete"
    /\ Deleted({path[t]})
    /\ Guard!StopWriting(t) /\ gReaders' = {t}
    /\ Goto(t, "create")
    /\ UNCHANGED <<cVars, path, lookups, lost>>

\* Only a directory that exists gets an entry.
Create(t) ==
    /\ pc[t] = "create"
    /\ \/ /\ cached' = cached \cup {path[t]}
          /\ held' = [held EXCEPT ![t] = @ \cup {path[t]}]
       \/ UNCHANGED <<cached, held>>
    /\ Dirs!StopWriting(t) /\ cReaders' = {}    \* the reader's destructor is next
    /\ Goto(t, "use")
    /\ UNCHANGED <<gVars, path, lookups, dangling, lost>>

-------------------------------------------------------------------------------
(* Removal, under the write lock of m_guard.                               *)

Order(t) ==
    /\ t \in Crawler \cup Command /\ pc[t] = "idle"
    /\ path' \in {[path EXCEPT ![t] = p] : p \in Path}
    /\ Goto(t, "order")
    /\ UNCHANGED <<gVars, cVars, cached, lookups, ptrs>>

\* A writer waits in the queue unless it has the lock at once.
OrderQueues(t) ==
    /\ pc[t] = "order" /\ (gWriter # NoThread \/ gReaders # {} \/ gQueued # {})
    /\ Guard!Queue(t)
    /\ UNCHANGED <<cVars, cached, pc, path, lookups, ptrs>>

OrderGranted(t) ==
    /\ pc[t] = "order"
    /\ Guard!Write(t)
    /\ Goto(t, "remove")
    /\ UNCHANGED <<cVars, cached, path, lookups, ptrs>>

\* The crawler, a reader with a directory that is gone, turns into the writer; it
\* has done with its pointers.
CrawlerYields(t) ==
    /\ t \in Crawler /\ pc[t] = "use" /\ lookups[t] > 0
    /\ held' = [held EXCEPT ![t] = {}]
    /\ dangling' = [dangling EXCEPT ![t] = {}]
    /\ IF gReaders = {t}
       THEN Guard!Write(t) /\ Goto(t, "remove")
       ELSE Guard!Queue(t) /\ Goto(t, "yield")
    /\ UNCHANGED <<cVars, cached, path, lookups, lost>>

YieldGranted(t) ==
    /\ pc[t] = "yield"
    /\ Guard!Write(t)
    /\ Goto(t, "remove")
    /\ UNCHANGED <<cVars, cached, path, lookups, ptrs>>

\* Children that the directory knows of are looked up and removed one by one.
KnowsChild(t) ==
    /\ pc[t] = "remove" /\ path[t] \in cached
    /\ Goto(t, "child")
    /\ UNCHANGED <<gVars, cVars, cached, path, lookups, ptrs>>

LookupChild(t) ==
    /\ pc[t] = "child"
    /\ Dirs!Read(t)
    /\ Goto(t, "known")
    /\ UNCHANGED <<gVars, cached, path, lookups, ptrs>>

\* The child may have no entry.
RemoveChild(t) ==
    /\ pc[t] = "known"
    /\ \/ \E p \in (Under[path[t]] \ {path[t]}) \cap cached : Deleted(Under[p])
       \/ UNCHANGED <<cached, held, dangling>>
    /\ Dirs!StopReading(t)
    /\ Goto(t, "remove")
    /\ UNCHANGED <<gVars, path, lookups, lost>>

\* Everything below goes with the directory.  The crawler that was a reader is one
\* again.
Remove(t) ==
    /\ pc[t] = "remove"
    /\ IF path[t] \in cached
       THEN Deleted(Under[path[t]])
       ELSE UNCHANGED <<cached, held, dangling>>
    /\ Guard!StopWriting(t)
    /\ IF lookups[t] > 0
       THEN gReaders' = {t} /\ Goto(t, "use")
       ELSE gReaders' = {} /\ Goto(t, "idle")
    /\ UNCHANGED <<cVars, path, lookups, lost>>

-------------------------------------------------------------------------------
Next == \E t \in Thread :
            \/ Ask(t) \/ AskGranted(t) \/ AskTimesOut(t) \/ Lookup(t) \/ Answer(t)
            \/ EnterLookup(t) \/ Find(t) \/ FindOnly(t) \/ Upgraded(t) \/ Refind(t) \/ Evict(t)
            \/ DeleteEntry(t) \/ Create(t)
            \/ Order(t) \/ OrderQueues(t) \/ OrderGranted(t)
            \/ CrawlerYields(t) \/ YieldGranted(t)
            \/ KnowsChild(t) \/ LookupChild(t) \/ RemoveChild(t) \/ Remove(t)

Spec == Init /\ [][Next]_vars

-------------------------------------------------------------------------------
(* Properties.                                                             *)

\* Every pointer that does not dangle is to an entry of the cache, so nothing is
\* deleted or erased without the other (GITStatusCache.cpp:348-398).
TypeOK ==
    /\ gReaders \subseteq Thread /\ gWriter \in Thread \cup {NoThread} /\ gQueued \subseteq Thread
    /\ cReaders \subseteq Thread /\ cWriter \in Thread \cup {NoThread} /\ cQueued \subseteq Thread
    /\ cached \subseteq Path
    /\ pc \in [Thread -> Control] /\ path \in [Thread -> Path]
    /\ lookups \in [Thread -> 0..MaxLookups]
    /\ lost \in [Thread -> BOOLEAN]
    /\ held \in [Thread -> SUBSET cached] /\ dangling \in [Thread -> SUBSET Path]

\* m_directoryCache has no lock of its own: lookups change it under the inner lock
\* while they read m_guard, removals change it under m_guard alone.  Together the
\* two keep every thread out of the map while another one changes it.
Changes == {"create", "delete", "remove", "child", "known"}
MapRaceFree ==
    \A t, u \in Thread :
        t # u /\ pc[t] \in Changes => pc[u] \notin Changes \cup {"find", "refind"}

\* A request uses CCachedDirectory pointers across further lookups
\* (CachedDirectory.cpp:191-212, 572-574).  As long as it keeps its read access to
\* m_guard, nobody deletes what it points to.
PointerSafe == \A t \in Thread : ~lost[t] => dangling[t] = {}

\* The locks are taken in both orders only where an entry is evicted
\* (GITStatusCache.cpp:440, "needed? Can this happen?"): whenever threads have work
\* and all of them wait for a lock, one of them is there.
Waits(t) ==
    \/ pc[t] = "ask" /\ (gWriter # NoThread \/ gQueued # {})
    \/ pc[t] \in {"order", "yield", "evict"} /\ ~(gWriter = NoThread /\ gReaders = {})
    \/ pc[t] \in {"lookup", "child"} /\ (cWriter # NoThread \/ cQueued # {})
    \/ pc[t] = "upgrade" /\ ~(cWriter = NoThread /\ cReaders = {})
OnlyEvictionBlocks ==
    (\A t \in Thread : pc[t] = "idle" \/ Waits(t))
        => \/ \A t \in Thread : pc[t] = "idle"
           \/ \E t \in Thread : pc[t] = "evict"

\* "Since above there's a small chance that before we can upgrade to writer state
\* some other thread gained writer state and changed the data, we have to recreate
\* the iterator here again" (GITStatusCache.cpp:434-436): after an upgrade the
\* iterator is to an entry of the map.
IteratorValid == \A t \in Thread : pc[t] = "delete" => path[t] \in cached
===============================================================================
