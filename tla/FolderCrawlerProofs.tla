-------------------------- MODULE FolderCrawlerProofs --------------------------
(***************************************************************************)
(* The crawler never sleeps on a full queue, and what it has been told, or *)
(* could not read, stays on its way to it, for every number of trees and   *)
(* of threads that report, and however much happens outside.               *)
(***************************************************************************)
EXTENDS FolderCrawler, SequenceTheorems, TLAPS

\* Where WorkerThread has a path in its hands.
Busy == {"path", "readPath", "erasePath", "testFolder", "readFolder", "eraseFolder"}

Types == /\ TypeOK
         /\ path \in [Thread -> Path \cup {NoPath}]
         /\ worker \in Busy => working \in Path

\* A thread that reports has its path on the way until it has pushed it: after that the
\* crawler may have taken it, and even read it, before the thread goes on to signal.
Pushes(t, p) == pc[t] = "push" /\ path[t] = p

Notice == [kind : {"change", "lock", "unlock"}, path : Path]

\* A notification that will have the watcher report path p.
Coming(p) == \E i \in DOMAIN notify : notify[i].path = p /\ notify[i].kind # "lock"

\* PathOnItsWay without the thread that has only to signal.
ComesAsPath(p) ==
    \/ p \in locked
    \/ Coming(p)
    \/ Pushes(Watcher, p)
    \/ In(p, paths)
    \/ working = p /\ worker \in {"path", "readPath"}

ComesAgain(p) ==
    \/ ComesAsPath(p)
    \/ In(p, folders) \/ \E t \in Thread : Pushes(t, p)
    \/ noWatch[p] # "free"
    \/ working = p /\ worker \in {"testFolder", "readFolder"}

ChangesCome == \A p \in stale \ erased : ComesAsPath(p)
RetriesCome == \A p \in failed \ dropped : ComesAgain(p)

IInv == Types /\ NoLostWakeup /\ ChangesCome /\ RetriesCome

-------------------------------------------------------------------------------
(* Queues.                                                                 *)

\* What is left of a sequence without its i-th element.
LEMMA CutProperties ==
    ASSUME NEW S, NEW s \in Seq(S), NEW i \in 1 .. Len(s)
    PROVE  LET w == SubSeq(s, 1, i - 1) \o SubSeq(s, i + 1, Len(s)) IN
           /\ w \in Seq(S) /\ Len(w) = Len(s) - 1
           /\ \A k \in 1 .. Len(s) - 1 : w[k] = IF k < i THEN s[k] ELSE s[k + 1]
<1> DEFINE a == SubSeq(s, 1, i - 1)
           b == SubSeq(s, i + 1, Len(s))
<1>0. Len(s) \in Nat
  OBVIOUS
<1>1. /\ a \in Seq(S) /\ Len(a) = i - 1
      /\ \A k \in 1 .. i - 1 : a[k] = s[k]
  BY <1>0, SubSeqProperties
<1>2. /\ b \in Seq(S) /\ Len(b) = Len(s) - i
      /\ \A k \in 1 .. Len(s) - i : b[k] = s[i + k]
  BY <1>0, SubSeqProperties
<1> HIDE DEF a, b
<1>3. /\ a \o b \in Seq(S)
      /\ Len(a \o b) = Len(a) + Len(b)
      /\ \A k \in 1 .. Len(a) + Len(b) :
             (a \o b)[k] = IF k <= Len(a) THEN a[k] ELSE b[k - Len(a)]
  BY <1>1, <1>2, ConcatProperties
<1>5. Len(a) + Len(b) = Len(s) - 1
  BY <1>0, <1>1, <1>2
<1>6. ASSUME NEW k \in 1 .. Len(s) - 1
      PROVE  (a \o b)[k] = IF k < i THEN s[k] ELSE s[k + 1]
  <2>1. CASE k < i
    BY <2>1, <1>0, <1>1, <1>3, <1>5
  <2>2. CASE ~(k < i)
    <3>1. k - (i - 1) \in 1 .. Len(s) - i /\ i + (k - (i - 1)) = k + 1
      BY <2>2, <1>0
    <3>2. b[k - (i - 1)] = s[k + 1]
      BY <3>1, <1>2
    <3>3. (a \o b)[k] = b[k - (i - 1)]
      BY <2>2, <1>0, <1>1, <1>3, <1>5
    <3> QED
      BY <3>2, <3>3, <2>2
  <2> QED
    BY <2>1, <2>2
<1> QED
  BY <1>3, <1>5, <1>6 DEF a, b

\* An element less.
LEMMA WithoutQueue ==
    ASSUME NEW q, IsQueue(q), NEW i \in DOMAIN q
    PROVE  LET w == SubSeq(q, 1, i - 1) \o SubSeq(q, i + 1, Len(q)) IN
           IsQueue(w) /\ \A p \in Path : In(p, w) <=> In(p, q) /\ p # q[i]
<1> DEFINE n == Len(q)
           w == SubSeq(q, 1, i - 1) \o SubSeq(q, i + 1, Len(q))
           up(k) == IF k < i THEN k ELSE k + 1
<1>0. q \in Seq(Path) /\ n \in Nat /\ DOMAIN q = 1 .. n /\ i \in 1 .. n
      /\ \A k, l \in 1 .. n : q[k] = q[l] => k = l
  BY DEF IsQueue
<1>1. /\ w \in Seq(Path) /\ Len(w) = n - 1 /\ DOMAIN w = 1 .. n - 1
      /\ \A k \in 1 .. n - 1 : w[k] = q[up(k)]
  <2>1. /\ w \in Seq(Path) /\ Len(w) = n - 1
        /\ \A k \in 1 .. n - 1 : w[k] = IF k < i THEN q[k] ELSE q[k + 1]
    BY <1>0, CutProperties
  <2> HIDE DEF w
  <2> QED BY <1>0, <2>1
<1> HIDE DEF w, n
<1>2. \A k \in 1 .. n - 1 : up(k) \in 1 .. n /\ up(k) # i
  BY <1>0
<1>3. \A k, l \in 1 .. n - 1 : up(k) = up(l) => k = l
  BY <1>0
<1>4. \A m \in 1 .. n : m # i => \E k \in 1 .. n - 1 : up(k) = m
  <2> SUFFICES ASSUME NEW m \in 1 .. n, m # i  PROVE \E k \in 1 .. n - 1 : up(k) = m
    OBVIOUS
  <2>1. CASE m < i
    <3>1. m \in 1 .. n - 1 /\ up(m) = m
      BY <1>0, <2>1
    <3> QED BY <3>1
  <2>2. CASE ~(m < i)
    <3>1. m - 1 \in 1 .. n - 1 /\ up(m - 1) = m
      BY <1>0, <2>2
    <3> QED BY <3>1
  <2> QED BY <2>1, <2>2
<1> HIDE DEF up
<1>5. \A k, l \in 1 .. n - 1 : w[k] = w[l] => k = l
  BY <1>0, <1>1, <1>2, <1>3
<1>6. \A p \in Path : In(p, w) <=> In(p, q) /\ p # q[i]
  BY <1>0, <1>1, <1>2, <1>4 DEF In
<1>7. IsQueue(w)
  BY <1>1, <1>5 DEF IsQueue
<1> QED BY <1>6, <1>7 DEF w

\* An element more.
LEMMA AppendQueue ==
    ASSUME NEW q, IsQueue(q), NEW v \in Path, ~In(v, q)
    PROVE  IsQueue(Append(q, v)) /\ \A p \in Path : In(p, Append(q, v)) <=> In(p, q) \/ p = v
<1> DEFINE r == Append(q, v)
           n == Len(q)
<1>0. q \in Seq(Path) /\ n \in Nat /\ DOMAIN q = 1 .. n
  BY DEF IsQueue
<1>1. /\ r \in Seq(Path) /\ Len(r) = n + 1 /\ DOMAIN r = 1 .. n + 1
      /\ \A k \in 1 .. n : r[k] = q[k]
      /\ r[n + 1] = v
  BY <1>0, AppendProperties
<1> HIDE DEF r, n
<1>2. \A k \in 1 .. n + 1 : k = n + 1 \/ k \in 1 .. n
  BY <1>0
<1>3. \A k, l \in 1 .. n + 1 : r[k] = r[l] => k = l
  BY <1>0, <1>1, <1>2 DEF IsQueue, In
<1>4. n + 1 \in 1 .. n + 1 /\ \A k \in 1 .. n : k \in 1 .. n + 1
  BY <1>0
<1>5. \A p \in Path : In(p, r) <=> In(p, q) \/ p = v
  BY <1>0, <1>1, <1>2, <1>4 DEF In
<1> QED BY <1>1, <1>3, <1>5 DEF IsQueue, r

\* The first element is the one that goes.
LEMMA TailQueue ==
    ASSUME NEW q, IsQueue(q), q # <<>>
    PROVE  /\ Head(q) \in Path /\ In(Head(q), q) /\ ~In(Head(q), Tail(q))
           /\ IsQueue(Tail(q))
           /\ \A p \in Path : In(p, Tail(q)) <=> In(p, q) /\ p # Head(q)
<1> DEFINE n == Len(q)
           r == Tail(q)
<1>0. q \in Seq(Path) /\ n \in Nat /\ n # 0 /\ DOMAIN q = 1 .. n /\ 1 \in 1 .. n
      /\ \A k, l \in 1 .. n : q[k] = q[l] => k = l
  BY EmptySeq, LenProperties DEF IsQueue
<1>1. /\ r \in Seq(Path) /\ Len(r) = n - 1 /\ DOMAIN r = 1 .. n - 1
      /\ \A k \in 1 .. n - 1 : r[k] = q[k + 1]
      /\ Head(q) = q[1] /\ q[1] \in Path
  BY <1>0, HeadTailProperties
<1> HIDE DEF r, n
<1>2. \A k \in 1 .. n - 1 : k + 1 \in 1 .. n /\ k + 1 # 1
  BY <1>0
<1>3. \A k, l \in 1 .. n - 1 : r[k] = r[l] => k = l
  BY <1>0, <1>1, <1>2
<1>4. \A k \in 1 .. n : k # 1 => k - 1 \in 1 .. n - 1 /\ r[k - 1] = q[k]
  <2> SUFFICES ASSUME NEW k \in 1 .. n, k # 1  PROVE k - 1 \in 1 .. n - 1 /\ r[k - 1] = q[k]
    OBVIOUS
  <2>1. k - 1 \in 1 .. n - 1 /\ (k - 1) + 1 = k
    BY <1>0
  <2> QED BY <1>1, <2>1
<1>5. ASSUME NEW p \in Path  PROVE In(p, r) <=> In(p, q) /\ p # q[1]
  <2>1. ASSUME NEW k \in 1 .. n - 1  PROVE \E l \in 1 .. n : l # 1 /\ q[l] = r[k]
    BY <1>1, <1>2
  <2>2. ASSUME NEW l \in 1 .. n, l # 1  PROVE \E k \in 1 .. n - 1 : r[k] = q[l]
    BY <1>4, <2>2
  <2>3. ASSUME In(p, r)  PROVE In(p, q) /\ p # q[1]
    <3>1. PICK k \in 1 .. n - 1 : r[k] = p
      BY <1>1, <2>3 DEF In
    <3>2. PICK l \in 1 .. n : l # 1 /\ q[l] = p
      BY <2>1, <3>1
    <3> QED BY <1>0, <3>2 DEF In
  <2>4. ASSUME In(p, q), p # q[1]  PROVE In(p, r)
    <3>1. PICK l \in 1 .. n : q[l] = p
      BY <1>0, <2>4 DEF In
    <3>2. PICK k \in 1 .. n - 1 : r[k] = p
      BY <2>2, <2>4, <3>1
    <3> QED BY <1>1, <3>2 DEF In
  <2> QED BY <2>3, <2>4
<1>6. In(q[1], q)
  BY <1>0 DEF In
<1> QED BY <1>1, <1>3, <1>5, <1>6 DEF IsQueue, r

\* A path that the crawler's own block keeps back goes to the end.
LEMMA RotateQueue ==
    ASSUME NEW q, IsQueue(q), q # <<>>
    PROVE  /\ IsQueue(Append(Tail(q), Head(q)))
           /\ \A p \in Path : In(p, Append(Tail(q), Head(q))) <=> In(p, q)
BY TailQueue, AppendQueue

\* What a Push does to m_foldersToUpdate: the folder is in it, no other leaves or comes.
LEMMA FoldersPush ==
    ASSUME IsQueue(folders), NEW v \in Path, Folders!Push(v)
    PROVE  IsQueue(folders') /\ \A p \in Path : In(p, folders') <=> In(p, folders) \/ p = v
<1>1. CASE \A i \in DOMAIN folders : folders[i] # v
  <2>1. ~In(v, folders) /\ folders' = Append(folders, v)
    BY <1>1 DEF In, Folders!Push
  <2> QED BY <2>1, AppendQueue
<1>2. CASE \E i \in DOMAIN folders : folders[i] = v
  <2>1. PICK i \in DOMAIN folders : /\ folders[i] = v
                                    /\ folders' = Append(Folders!Without(folders, i), v)
    BY <1>2 DEF Folders!Push
  <2> DEFINE w == Folders!Without(folders, i)
  <2>2. IsQueue(w) /\ \A p \in Path : In(p, w) <=> In(p, folders) /\ p # folders[i]
    BY <2>1, WithoutQueue DEF Folders!Without
  <2> HIDE DEF w
  <2>3. folders' = Append(w, v) /\ ~In(v, w) /\ In(v, folders)
    BY <2>1, <2>2 DEF w, In
  <2> QED BY <2>1, <2>2, <2>3, AppendQueue
<1> QED BY <1>1, <1>2

\* What a Push does to m_pathsToUpdate.
LEMMA PathsPush ==
    ASSUME IsQueue(paths), NEW v \in Path, Paths!Push(v)
    PROVE  IsQueue(paths') /\ \A p \in Path : In(p, paths') <=> In(p, paths) \/ p = v
<1>1. CASE \A i \in DOMAIN paths : paths[i] # v
  <2>1. ~In(v, paths) /\ paths' = Append(paths, v)
    BY <1>1 DEF In, Paths!Push
  <2> QED BY <2>1, AppendQueue
<1>2. CASE \E i \in DOMAIN paths : paths[i] = v
  <2>1. PICK i \in DOMAIN paths : /\ paths[i] = v
                                  /\ paths' = Append(Paths!Without(paths, i), v)
    BY <1>2 DEF Paths!Push
  <2> DEFINE w == Paths!Without(paths, i)
  <2>2. IsQueue(w) /\ \A p \in Path : In(p, w) <=> In(p, paths) /\ p # paths[i]
    BY <2>1, WithoutQueue DEF Paths!Without
  <2> HIDE DEF w
  <2>3. paths' = Append(w, v) /\ ~In(v, w) /\ In(v, paths)
    BY <2>1, <2>2 DEF w, In
  <2> QED BY <2>1, <2>2, <2>3, AppendQueue
<1> QED BY <1>1, <1>2

\* What the erase at the end of a crawl takes out of m_foldersToUpdate.
LEMMA FoldersErase ==
    ASSUME IsQueue(folders), NEW v \in Path, Folders!Erase(v)
    PROVE  IsQueue(folders') /\ \A p \in Path : In(p, folders') <=> In(p, folders) /\ p # v
<1>1. PICK i \in DOMAIN folders : folders[i] = v /\ folders' = Folders!Without(folders, i)
  BY DEF Folders!Erase
<1> QED BY <1>1, WithoutQueue DEF Folders!Without

\* What the erase at the end of a crawl takes out of m_pathsToUpdate.
LEMMA PathsErase ==
    ASSUME IsQueue(paths), NEW v \in Path, Paths!Erase(v)
    PROVE  IsQueue(paths') /\ \A p \in Path : In(p, paths') <=> In(p, paths) /\ p # v
<1>1. PICK i \in DOMAIN paths : paths[i] = v /\ paths' = Paths!Without(paths, i)
  BY DEF Paths!Erase
<1> QED BY <1>1, WithoutQueue DEF Paths!Without

-------------------------------------------------------------------------------
(* Notifications.                                                          *)

\* A notification that is appended is on its way, as are those before it.
LEMMA NotifyAppend ==
    ASSUME notify \in Seq(Notice), NEW e \in Notice, notify' = Append(notify, e)
    PROVE  /\ notify' \in Seq(Notice)
           /\ \A p \in Path : Coming(p) => Coming(p)'
           /\ e.kind # "lock" => Coming(e.path)'
<1> DEFINE n == Len(notify)
<1>0. n \in Nat /\ DOMAIN notify = 1 .. n
  OBVIOUS
<1>1. /\ notify' \in Seq(Notice) /\ Len(notify') = n + 1 /\ DOMAIN notify' = 1 .. n + 1
      /\ \A k \in 1 .. n : notify'[k] = notify[k]
      /\ notify'[n + 1] = e
  BY <1>0, AppendProperties
<1> HIDE DEF n
<1>2. n + 1 \in 1 .. n + 1 /\ \A k \in 1 .. n : k \in 1 .. n + 1
  BY <1>0
<1> QED BY <1>0, <1>1, <1>2 DEF Coming

\* Only the notification at the head is lost when the watcher takes it.
LEMMA NotifyTail ==
    ASSUME notify \in Seq(Notice), notify # <<>>, notify' = Tail(notify)
    PROVE  /\ notify' \in Seq(Notice) /\ Head(notify) \in Notice
           /\ \A p \in Path : Coming(p) =>
                  Coming(p)' \/ (Head(notify).path = p /\ Head(notify).kind # "lock")
<1> DEFINE n == Len(notify)
<1>0. n \in Nat /\ n # 0 /\ DOMAIN notify = 1 .. n /\ 1 \in 1 .. n
  BY EmptySeq, LenProperties
<1>1. /\ notify' \in Seq(Notice) /\ Len(notify') = n - 1 /\ DOMAIN notify' = 1 .. n - 1
      /\ \A k \in 1 .. n - 1 : notify'[k] = notify[k + 1]
      /\ Head(notify) = notify[1] /\ notify[1] \in Notice
  BY <1>0, HeadTailProperties
<1> HIDE DEF n
<1>2. ASSUME NEW k \in 1 .. n, k # 1  PROVE \E l \in 1 .. n - 1 : notify'[l] = notify[k]
  <2>1. k - 1 \in 1 .. n - 1 /\ (k - 1) + 1 = k
    BY <1>0, <1>2
  <2> QED BY <1>1, <2>1
<1>3. ASSUME NEW p \in Path, Coming(p), ~(notify[1].path = p /\ notify[1].kind # "lock")
      PROVE  Coming(p)'
  <2>1. PICK k \in 1 .. n : notify[k].path = p /\ notify[k].kind # "lock"
    BY <1>0, <1>3 DEF Coming
  <2>2. PICK l \in 1 .. n - 1 : notify'[l] = notify[k]
    BY <1>2, <1>3, <2>1
  <2> QED BY <1>1, <2>1, <2>2 DEF Coming
<1> QED BY <1>1, <1>3

-------------------------------------------------------------------------------
(* Types.                                                                  *)

\* The crawler's own requests keep the queue of folders one.
LEMMA AddFolderFacts ==
    ASSUME IsQueue(folders), itemsAdded \in BOOLEAN, wake \in BOOLEAN, NEW p \in Path, AddFolder(p)
    PROVE  /\ IsQueue(folders') /\ itemsAdded' \in BOOLEAN /\ wake' \in BOOLEAN
           /\ \A q \in Path : In(q, folders) => In(q, folders')
           /\ p \in locked \/ In(p, folders')
           /\ wake => wake'
BY FoldersPush DEF AddFolder

\* Every step keeps the types.
LEMMA TypesStep == Types /\ [Next]_vars => Types'
<1> SUFFICES ASSUME Types, [Next]_vars  PROVE Types'
  OBVIOUS
<1> USE PathAssumption, ThreadAssumption, EventsAssumption
    DEF Types, TypeOK, Busy, queues, blocks, threads, work, system, retries, history
<1>n. notify \in Seq(Notice)
  BY DEF Notice
<1>1. ASSUME NEW p \in Path, Change(p) \/ LockIndex(p) \/ UnlockIndex(p)  PROVE Types'
  <2>1. /\ notify' \in Seq(Notice) /\ locked' \subseteq Path /\ events' \in 0..MaxEvents
        /\ stale' \subseteq Path /\ stale \subseteq stale'
    <3>1. PICK k \in {"change", "lock", "unlock"} : notify' = Append(notify, [kind |-> k, path |-> p])
      BY <1>1 DEF Change, LockIndex, UnlockIndex, Happens
    <3>2. notify' \in Seq(Notice)
      BY <1>n, <3>1, NotifyAppend DEF Notice
    <3> QED BY <1>1, <3>2 DEF Change, LockIndex, UnlockIndex, Happens
  <2> QED BY <1>1, <2>1 DEF Change, LockIndex, UnlockIndex, Notice
<1>2. ASSUME NEW p \in Path, BlockRunsOut(p)  PROVE Types'
  BY <1>2 DEF BlockRunsOut
<1>3. CASE CrawlBlockRunsOut
  BY <1>3 DEF CrawlBlockRunsOut
<1>4. ASSUME NEW t \in Thread, NEW p \in Path, pc[t] = "idle", Queues(t, p)
      PROVE  /\ pc' \in [Thread -> {"idle", "push", "signal"}]
             /\ path' \in [Thread -> Path \cup {NoPath}]
             /\ \A u \in Thread : path'[u] \in IF pc'[u] = "idle" THEN {NoPath} ELSE Path
  BY <1>4 DEF Queues
<1>5. CASE Notified
  <2>1. notify' \in Seq(Notice) /\ Head(notify) \in Notice
    BY <1>5, <1>n, NotifyTail DEF Notified
  <2>2. noWatch' \in [Path -> {"free", "blocked", "over"}]
    BY <1>5, <2>1 DEF Notified, Notice
  <2>3. Head(notify).path \in Path /\ Watcher \in Thread /\ pc[Watcher] = "idle"
        /\ (UNCHANGED threads \/ Queues(Watcher, Head(notify).path))
    BY <1>5, <2>1 DEF Notified, Thread, Notice
  <2>4. /\ pc' \in [Thread -> {"idle", "push", "signal"}]
        /\ path' \in [Thread -> Path \cup {NoPath}]
        /\ \A u \in Thread : path'[u] \in IF pc'[u] = "idle" THEN {NoPath} ELSE Path
    BY <1>4, <2>3
  <2> QED BY <1>5, <2>1, <2>2, <2>4 DEF Notified, Notice
<1>6. ASSUME NEW t \in Asker, NEW p \in Path,
             AddFolderForCrawling(t, p) \/ BlockPath(t, p) \/ UnBlockPath(t, p)
      PROVE  Types'
  <2>1. t \in Thread /\ pc[t] = "idle" /\ (UNCHANGED threads \/ Queues(t, p))
        /\ events' \in 0..MaxEvents
    BY <1>6 DEF AddFolderForCrawling, BlockPath, UnBlockPath, Called, Thread
  <2>2. noWatch' \in [Path -> {"free", "blocked", "over"}]
    BY <1>6 DEF AddFolderForCrawling, BlockPath, UnBlockPath
  <2>3. /\ pc' \in [Thread -> {"idle", "push", "signal"}]
        /\ path' \in [Thread -> Path \cup {NoPath}]
        /\ \A u \in Thread : path'[u] \in IF pc'[u] = "idle" THEN {NoPath} ELSE Path
    BY <1>4, <2>1
  <2> QED BY <1>6, <2>1, <2>2, <2>3 DEF AddFolderForCrawling, BlockPath, UnBlockPath, Called
<1>7. ASSUME NEW t \in Thread, Push(t)  PROVE Types'
  <2>1. pc[t] = "push" /\ path[t] \in Path /\ path' = path
    BY <1>7 DEF Push
  <2>2. pc' \in [Thread -> {"idle", "push", "signal"}]
        /\ \A u \in Thread : path'[u] \in IF pc'[u] = "idle" THEN {NoPath} ELSE Path
    BY <1>7, <2>1 DEF Push
  <2>3. IsQueue(folders') /\ IsQueue(paths') /\ itemsAdded' \in BOOLEAN
    BY <1>7, <2>1, FoldersPush, PathsPush DEF Push
  <2> QED BY <1>7, <2>1, <2>2, <2>3 DEF Push
<1>8. ASSUME NEW t \in Thread, Signal(t)  PROVE Types'
  BY <1>8 DEF Signal
<1>9. CASE Wake \/ Rest \/ NoPaths \/ NoFolders \/ TestFolder
  BY <1>9 DEF Wake, Rest, NoPaths, NoFolders, TestFolder
<1>10. CASE Loop
  <2>1. IsQueue(folders') /\ itemsAdded' \in BOOLEAN /\ wake' \in BOOLEAN
        /\ noWatch' \in [Path -> {"free", "blocked", "over"}]
    BY <1>10, AddFolderFacts DEF Loop
  <2> QED BY <1>10, <2>1 DEF Loop
<1>11. CASE TakePath
  <2>1. IsQueue(paths') /\ working' \in Path
    <3>1. paths # <<>> /\ working' = Head(paths)
          /\ (paths' = Tail(paths) \/ paths' = Append(Tail(paths), Head(paths)))
      BY <1>11 DEF TakePath
    <3>2. IsQueue(paths)
      OBVIOUS
    <3>3. Head(paths) \in Path /\ IsQueue(Tail(paths)) /\ IsQueue(Append(Tail(paths), Head(paths)))
      BY ONLY <3>1, <3>2, TailQueue, RotateQueue
    <3> QED BY ONLY <3>1, <3>3
  <2> QED BY <1>11, <2>1 DEF TakePath
<1>12. CASE TakeFolder
  <2>1. IsQueue(folders') /\ working' \in Path
    <3>1. folders # <<>> /\ working' = Head(folders)
          /\ (folders' = Tail(folders) \/ folders' = Append(Tail(folders), Head(folders)))
      BY <1>12 DEF TakeFolder
    <3>2. IsQueue(folders)
      OBVIOUS
    <3>3. Head(folders) \in Path /\ IsQueue(Tail(folders)) /\ IsQueue(Append(Tail(folders), Head(folders)))
      BY ONLY <3>1, <3>2, TailQueue, RotateQueue
    <3> QED BY ONLY <3>1, <3>3
  <2> QED BY <1>12, <2>1 DEF TakeFolder
<1>13. CASE TestPath
  <2>1. IsQueue(paths')
    BY <1>13, PathsPush DEF TestPath
  <2> QED BY <1>13, <2>1 DEF TestPath
<1>14. CASE Gone
  BY <1>14 DEF Gone
<1>15. CASE ReadPath \/ ReadFolder
  <2>1. PICK next \in {"erasePath", "eraseFolder"} : Read(next) /\ working \in Path
    BY <1>15 DEF ReadPath, ReadFolder
  <2>2. IsQueue(folders') /\ itemsAdded' \in BOOLEAN /\ wake' \in BOOLEAN
    BY <2>1, AddFolderFacts DEF Read
  <2> QED BY <2>1, <2>2 DEF Read
<1>16. CASE ErasePath
  <2>1. IsQueue(paths')
    BY <1>16, PathsErase DEF ErasePath
  <2> QED BY <1>16, <2>1 DEF ErasePath
<1>17. CASE EraseFolder
  <2>1. IsQueue(folders')
    BY <1>17, FoldersErase DEF EraseFolder
  <2> QED BY <1>17, <2>1 DEF EraseFolder
<1>18. CASE UNCHANGED vars
  BY <1>18 DEF vars
<1> QED
  BY <1>1, <1>2, <1>3, <1>5, <1>6, <1>7, <1>8, <1>9, <1>10, <1>11, <1>12, <1>13, <1>14, <1>15,
     <1>16, <1>17, <1>18 DEF Next, Outside, WorkerThread, Report

-------------------------------------------------------------------------------
(* The event.                                                              *)

\* Only Rest lets the crawler sleep, and whoever fills a queue signals after it.
LEMMA WakeupStep == Types /\ NoLostWakeup /\ [Next]_vars => NoLostWakeup'
<1> SUFFICES ASSUME Types, NoLostWakeup, [Next]_vars  PROVE NoLostWakeup'
  OBVIOUS
<1> USE DEF NoLostWakeup, queues, blocks, threads, work, system, retries, history
<1>0. pc \in [Thread -> {"idle", "push", "signal"}]
  BY DEF Types, TypeOK
<1>1. ASSUME NEW p \in Path, Change(p) \/ LockIndex(p) \/ UnlockIndex(p) \/ BlockRunsOut(p)
      PROVE  NoLostWakeup'
  BY <1>1 DEF Change, LockIndex, UnlockIndex, BlockRunsOut
<1>2. CASE CrawlBlockRunsOut
  BY <1>2 DEF CrawlBlockRunsOut
<1>3. ASSUME UNCHANGED <<queues, worker>>,
             \A t \in Thread : pc[t] = "signal" => pc'[t] = "signal"
      PROVE  NoLostWakeup'
  BY <1>3
<1>4. ASSUME NEW t \in Thread, NEW p \in Path, pc[t] = "idle", Queues(t, p) \/ UNCHANGED threads
      PROVE  \A u \in Thread : pc[u] = "signal" => pc'[u] = "signal"
  BY <1>0, <1>4 DEF Queues
<1>5. CASE Notified
  <2>1. UNCHANGED <<queues, worker>> /\ pc[Watcher] = "idle" /\ Watcher \in Thread
        /\ (UNCHANGED threads \/ Queues(Watcher, Head(notify).path))
    BY <1>5 DEF Notified, Thread
  <2>2. Head(notify).path \in Path
    BY <1>5, NotifyTail DEF Notified, Types, TypeOK, Notice
  <2> QED BY <1>3, <1>4, <2>1, <2>2
<1>6. ASSUME NEW t \in Asker, NEW p \in Path,
             AddFolderForCrawling(t, p) \/ BlockPath(t, p) \/ UnBlockPath(t, p)
      PROVE  NoLostWakeup'
  <2>1. UNCHANGED <<queues, worker>> /\ pc[t] = "idle" /\ t \in Thread
        /\ (UNCHANGED threads \/ Queues(t, p))
    BY <1>6 DEF AddFolderForCrawling, BlockPath, UnBlockPath, Called, Thread
  <2> QED BY <1>3, <1>4, <2>1
<1>7. ASSUME NEW t \in Thread, Push(t)  PROVE NoLostWakeup'
  <2>1. pc'[t] = "signal"
    BY <1>0, <1>7 DEF Push
  <2> QED BY <2>1
<1>8. ASSUME NEW t \in Thread, Signal(t)  PROVE NoLostWakeup'
  BY <1>8 DEF Signal
<1>9. CASE Rest
  BY <1>9 DEF Rest
<1>10. CASE Wake \/ Loop \/ NoPaths \/ NoFolders \/ TakePath \/ TestPath \/ Gone \/ ReadPath
            \/ ErasePath \/ TakeFolder \/ TestFolder \/ ReadFolder \/ EraseFolder
  <2>1. worker' # "wait"
    BY <1>10 DEF Wake, Loop, NoPaths, NoFolders, TakePath, TestPath, Gone, ReadPath, Read,
       ErasePath, TakeFolder, TestFolder, ReadFolder, EraseFolder
  <2> QED BY <2>1
<1>11. CASE UNCHANGED vars
  BY <1>11 DEF vars
<1> QED
  BY <1>1, <1>2, <1>5, <1>6, <1>7, <1>8, <1>9, <1>10, <1>11 DEF Next, Outside, WorkerThread, Report

-------------------------------------------------------------------------------
(* What is on its way.                                                     *)

\* A step that takes nothing from the way and marks nothing as changed or unreadable.
LEMMA Kept ==
    ASSUME ChangesCome, RetriesCome, stale' \subseteq stale, failed' \subseteq failed,
           \A p \in stale' : p \in erased => p \in erased',
           \A p \in failed' : p \in dropped => p \in dropped',
           \A p \in stale' \ erased' : ComesAsPath(p) => ComesAsPath(p)',
           \A p \in failed' \ dropped' : ComesAgain(p) => ComesAgain(p)'
    PROVE  ChangesCome' /\ RetriesCome'
BY DEF ChangesCome, RetriesCome

\* A step that only adds to what brings a path.
LEMMA Grows ==
    ASSUME NEW p \in Path,
           p \in locked => p \in locked' \/ Coming(p)',
           Coming(p) => Coming(p)',
           \A t \in Thread : Pushes(t, p) => Pushes(t, p)',
           In(p, paths) => In(p, paths'),
           In(p, folders) => In(p, folders'),
           noWatch[p] # "free" => noWatch'[p] # "free",
           working = p /\ worker \in {"path", "readPath", "testFolder", "readFolder"}
               => working' = working /\ worker' = worker
    PROVE  (ComesAsPath(p) => ComesAsPath(p)') /\ (ComesAgain(p) => ComesAgain(p)')
<1>1. Watcher \in Thread
  BY DEF Thread
<1> QED BY <1>1 DEF ComesAsPath, ComesAgain

\* What a thread that starts a report, or gives it up for a lock, does to the way.
LEMMA QueuesFacts ==
    ASSUME Types, NEW t \in Thread, NEW p \in Path, pc[t] = "idle",
           Queues(t, p) \/ UNCHANGED threads
    PROVE  /\ \A u \in Thread, q \in Path : Pushes(u, q) => Pushes(u, q)'
           /\ Queues(t, p) /\ (t = Watcher \/ noWatch'[p] # "blocked") => p \in locked \/ Pushes(t, p)'
BY DEF Types, TypeOK, Queues, Pushes, threads

\* Outside of the crawler nothing gets lost.
LEMMA OutsideWay ==
    ASSUME Types, ChangesCome, RetriesCome,
           Outside \/ Notified \/ CrawlBlockRunsOut \/ UNCHANGED vars
               \/ (\E p \in Path : UnlockIndex(p) \/ BlockRunsOut(p)) \/ (\E t \in Thread : Report(t))
    PROVE  ChangesCome' /\ RetriesCome'
<1> USE DEF queues, blocks, threads, work, system, retries, history
<1>0. /\ notify \in Seq(Notice) /\ stale \subseteq Path /\ failed \subseteq Path
      /\ noWatch \in [Path -> {"free", "blocked", "over"}]
      /\ pc \in [Thread -> {"idle", "push", "signal"}]
      /\ path \in [Thread -> Path \cup {NoPath}] /\ IsQueue(folders) /\ IsQueue(paths)
  BY DEF Types, TypeOK, Notice
<1>1. ASSUME NEW p \in Path, Change(p) \/ LockIndex(p) \/ UnlockIndex(p)  PROVE ChangesCome' /\ RetriesCome'
  <2>1. PICK k \in {"change", "lock", "unlock"} :
            /\ notify' = Append(notify, [kind |-> k, path |-> p])
            /\ k = "lock" => stale' = stale /\ locked \subseteq locked'
            /\ k # "lock" => stale' = stale \cup {p} /\ locked \ {p} \subseteq locked'
    BY <1>1 DEF Change, LockIndex, UnlockIndex, Happens
  <2>2. UNCHANGED <<queues, blocks, threads, work, erased, failed, dropped>>
    BY <1>1 DEF Change, LockIndex, UnlockIndex, Happens
  <2>3. /\ \A q \in Path : Coming(q) => Coming(q)'
        /\ k # "lock" => Coming(p)'
    BY <1>0, <2>1, NotifyAppend DEF Notice
  <2>4. \A q \in Path : (ComesAsPath(q) => ComesAsPath(q)') /\ (ComesAgain(q) => ComesAgain(q)')
    <3> SUFFICES ASSUME NEW q \in Path
                 PROVE  (ComesAsPath(q) => ComesAsPath(q)') /\ (ComesAgain(q) => ComesAgain(q)')
      OBVIOUS
    <3>1. q \in locked => q \in locked' \/ Coming(q)'
      BY <2>1, <2>3
    <3> QED BY <2>2, <2>3, <3>1, Grows DEF Pushes
  <2>5. ChangesCome'
    BY <1>0, <2>1, <2>2, <2>3, <2>4 DEF ChangesCome, ComesAsPath
  <2>6. RetriesCome'
    BY <1>0, <2>2, <2>4 DEF RetriesCome
  <2> QED BY <2>5, <2>6
<1>k. ASSUME UNCHANGED history,
             \A q \in Path : (ComesAsPath(q) => ComesAsPath(q)') /\ (ComesAgain(q) => ComesAgain(q)')
      PROVE  ChangesCome' /\ RetriesCome'
  BY <1>0, <1>k DEF ChangesCome, RetriesCome
<1>2. CASE (\E p \in Path : BlockRunsOut(p)) \/ CrawlBlockRunsOut
  <2>1. /\ UNCHANGED <<queues, threads, work, system, history>>
        /\ \A q \in Path : noWatch[q] # "free" => noWatch'[q] # "free"
    BY <1>0, <1>2 DEF BlockRunsOut, CrawlBlockRunsOut
  <2>2. \A q \in Path : (ComesAsPath(q) => ComesAsPath(q)') /\ (ComesAgain(q) => ComesAgain(q)')
    BY <2>1, Grows DEF Pushes, Coming
  <2> QED BY <1>k, <2>1, <2>2
<1>3. CASE Notified
  <2>h. Head(notify) \in Notice
    BY <1>0, <1>3, NotifyTail DEF Notified
  <2> PICK n \in Notice : n = Head(notify)
    BY <2>h
  <2>1. /\ pc[Watcher] = "idle" /\ notify # <<>> /\ notify' = Tail(notify) /\ Watcher \in Thread
        /\ UNCHANGED <<queues, work, locked, history>>
    BY <1>3 DEF Notified, Thread
  <2>2. /\ n \in Notice /\ n.path \in Path
        /\ \A q \in Path : Coming(q) => Coming(q)' \/ (n.path = q /\ n.kind # "lock")
    BY <1>0, <2>1, NotifyTail DEF Notice
  <2>3. /\ n.kind = "lock" => UNCHANGED threads
        /\ n.kind # "lock" => Queues(Watcher, n.path)
    BY <1>3 DEF Notified
  <2>n. \A q \in Path : noWatch[q] # "free" => noWatch'[q] # "free"
    BY <1>0, <1>3, <2>2 DEF Notified
  <2>4. /\ \A u \in Thread, q \in Path : Pushes(u, q) => Pushes(u, q)'
        /\ n.kind # "lock" => n.path \in locked \/ Pushes(Watcher, n.path)'
    <3>1. CASE n.kind = "lock"
      BY <2>3, <3>1 DEF Pushes
    <3>2. CASE n.kind # "lock"
      <4>1. Queues(Watcher, n.path)
        BY <2>3, <3>2
      <4> QED BY <2>1, <2>2, <4>1, QueuesFacts
    <3> QED BY <3>1, <3>2
  <2>5. \A q \in Path : (ComesAsPath(q) => ComesAsPath(q)') /\ (ComesAgain(q) => ComesAgain(q)')
    <3> SUFFICES ASSUME NEW q \in Path
                 PROVE  (ComesAsPath(q) => ComesAsPath(q)') /\ (ComesAgain(q) => ComesAgain(q)')
      OBVIOUS
    <3>1. CASE n.path = q /\ n.kind # "lock"
      <4>1. q \in locked' \/ Pushes(Watcher, q)'
        BY <2>1, <2>4, <3>1
      <4>2. ComesAsPath(q)'
        BY <4>1 DEF ComesAsPath
      <4> QED BY <4>2 DEF ComesAgain
    <3>2. CASE ~(n.path = q /\ n.kind # "lock")
      BY <2>1, <2>2, <2>4, <2>n, <3>2, Grows
    <3> QED BY <3>1, <3>2
  <2> QED BY <1>k, <2>1, <2>5
<1>4. ASSUME NEW t \in Asker, NEW p \in Path,
             AddFolderForCrawling(t, p) \/ BlockPath(t, p) \/ UnBlockPath(t, p)
      PROVE  ChangesCome' /\ RetriesCome'
  <2>1. /\ t \in Thread /\ pc[t] = "idle" /\ UNCHANGED <<queues, work, notify, locked, history>>
        /\ (Queues(t, p) \/ UNCHANGED threads)
    BY <1>4 DEF AddFolderForCrawling, BlockPath, UnBlockPath, Called, Thread
  <2>2. \/ \A q \in Path : noWatch[q] # "free" => noWatch'[q] # "free"
        \/ /\ Queues(t, p) /\ noWatch'[p] = "free"
           /\ \A q \in Path : q # p => noWatch'[q] = noWatch[q]
    BY <1>0, <1>4 DEF AddFolderForCrawling, BlockPath, UnBlockPath
  <2>3. /\ \A u \in Thread, q \in Path : Pushes(u, q) => Pushes(u, q)'
        /\ Queues(t, p) /\ noWatch'[p] = "free" => p \in locked \/ Pushes(t, p)'
    BY <2>1, QueuesFacts
  <2>4. ASSUME NEW q \in Path
        PROVE  (ComesAsPath(q) => ComesAsPath(q)') /\ (ComesAgain(q) => ComesAgain(q)')
    <3>1. CASE noWatch[q] # "free" => noWatch'[q] # "free"
      BY <2>1, <2>3, <3>1, Grows DEF Coming
    <3>2. CASE q = p /\ Queues(t, p) /\ noWatch'[p] = "free"
      <4>1. ComesAgain(p)'
        BY <2>1, <2>3, <3>2 DEF ComesAgain, ComesAsPath
      <4>2. ComesAsPath(p) => ComesAsPath(p)'
        BY <2>1, <2>3 DEF ComesAsPath, Coming, Thread
      <4> QED BY <3>2, <4>1, <4>2
    <3> QED BY <2>2, <3>1, <3>2
  <2> QED BY <1>k, <2>1, <2>4
<1>5. ASSUME NEW t \in Thread, Push(t)  PROVE ChangesCome' /\ RetriesCome'
  <2>1. /\ pc[t] = "push" /\ UNCHANGED <<wake, blocks, path, work, system, history>>
        /\ pc' = [pc EXCEPT ![t] = "signal"] /\ path[t] \in Path
    BY <1>5 DEF Push, Types, TypeOK
  <2>2. /\ \A q \in Path : (In(q, paths) => In(q, paths')) /\ (In(q, folders) => In(q, folders'))
        /\ IF t = Watcher THEN In(path[t], paths') ELSE In(path[t], folders')
    BY <1>0, <1>5, <2>1, FoldersPush, PathsPush DEF Push
  <2>3. \A u \in Thread, q \in Path : Pushes(u, q) => Pushes(u, q)' \/ (u = t /\ q = path[t])
    BY <1>0, <2>1 DEF Pushes
  <2>4. ASSUME NEW q \in Path
        PROVE  (ComesAsPath(q) => ComesAsPath(q)') /\ (ComesAgain(q) => ComesAgain(q)')
    <3>1. Coming(q)' <=> Coming(q)
      BY <2>1 DEF Coming
    <3>2. Watcher \in Thread
      BY DEF Thread
    <3>3. ComesAsPath(q) => ComesAsPath(q)'
      BY <2>1, <2>2, <2>3, <3>1, <3>2 DEF ComesAsPath
    <3>4. ComesAgain(q) => ComesAgain(q)'
      BY <2>1, <2>2, <2>3, <3>3 DEF ComesAgain, ComesAsPath
    <3> QED BY <3>3, <3>4
  <2> QED BY <1>k, <2>1, <2>4
<1>6. ASSUME NEW t \in Thread, Signal(t)  PROVE ChangesCome' /\ RetriesCome'
  <2>1. /\ UNCHANGED <<folders, paths, blocks, work, system, history>> /\ pc[t] = "signal"
        /\ pc' = [pc EXCEPT ![t] = "idle"] /\ path' = [path EXCEPT ![t] = NoPath]
    BY <1>6 DEF Signal
  <2>2. \A u \in Thread, q \in Path : Pushes(u, q) => Pushes(u, q)'
    BY <1>0, <2>1 DEF Pushes
  <2>3. \A q \in Path : (ComesAsPath(q) => ComesAsPath(q)') /\ (ComesAgain(q) => ComesAgain(q)')
    BY <2>1, <2>2, Grows DEF Coming
  <2> QED BY <1>k, <2>1, <2>3
<1>7. CASE UNCHANGED vars
  <2>1. UNCHANGED <<queues, blocks, threads, work, system, history>>
    BY <1>7 DEF vars
  <2>2. \A q \in Path : (ComesAsPath(q) => ComesAsPath(q)') /\ (ComesAgain(q) => ComesAgain(q)')
    BY <2>1, Grows DEF Pushes, Coming
  <2> QED BY <1>k, <2>1, <2>2
<1> QED BY <1>1, <1>2, <1>3, <1>4, <1>5, <1>6, <1>7 DEF Outside, Report

\* The crawler loses a path only where it reads it, or marks it as erased.
LEMMA CrawlerWay ==
    ASSUME Types, ChangesCome, RetriesCome, WorkerThread
    PROVE  ChangesCome' /\ RetriesCome'
<1> USE DEF queues, blocks, threads, work, system, retries, history
<1>0. /\ stale \subseteq Path /\ failed \subseteq Path /\ erased \subseteq stale
      /\ dropped \subseteq failed
      /\ noWatch \in [Path -> {"free", "blocked", "over"}]
      /\ IsQueue(folders) /\ IsQueue(paths) /\ itemsAdded \in BOOLEAN /\ wake \in BOOLEAN
  BY DEF Types, TypeOK
<1>w. worker \in Busy => working \in Path
  BY DEF Types
<1> DEFINE Keeps == \A q \in Path : /\ ComesAsPath(q) => ComesAsPath(q)'
                                    /\ ComesAgain(q) => ComesAgain(q)'
<1>k. ASSUME UNCHANGED history, Keeps  PROVE ChangesCome' /\ RetriesCome'
  BY <1>0, <1>k DEF ChangesCome, RetriesCome
<1>1. CASE Wake \/ Rest \/ NoPaths \/ NoFolders
  <2>1. /\ UNCHANGED <<folders, paths, blocks, threads, working, system, history>>
        /\ worker \in {"wait", "pick", "folder"}
    BY <1>1 DEF Wake, Rest, NoPaths, NoFolders
  <2>2. Keeps
    BY <2>1, Grows DEF Pushes, Coming
  <2> QED BY <1>k, <2>1, <2>2
<1>2. CASE Loop
  <2>1. /\ UNCHANGED <<paths, threads, working, system, history>> /\ worker = "loop"
        /\ \/ UNCHANGED <<folders, noWatch>>
           \/ \E p \in Path : noWatch' = [noWatch EXCEPT ![p] = "free"] /\ AddFolder(p)
    BY <1>2 DEF Loop
  <2>2. CASE UNCHANGED <<folders, noWatch>>
    <3>1. Keeps
      BY <2>1, <2>2, Grows DEF Pushes, Coming
    <3> QED BY <1>k, <2>1, <3>1
  <2>3. ASSUME NEW p \in Path, noWatch' = [noWatch EXCEPT ![p] = "free"], AddFolder(p)
        PROVE  ChangesCome' /\ RetriesCome'
    <3>1. (\A q \in Path : In(q, folders) => In(q, folders')) /\ (p \in locked \/ In(p, folders'))
      BY <1>0, <2>3, AddFolderFacts
    <3>2. ASSUME NEW q \in Path, q # p
          PROVE  (ComesAsPath(q) => ComesAsPath(q)') /\ (ComesAgain(q) => ComesAgain(q)')
      <4>1. noWatch'[q] = noWatch[q]
        BY <1>0, <2>3, <3>2
      <4> QED BY <2>1, <3>1, <4>1, Grows DEF Pushes, Coming
    <3>3. ComesAsPath(p) => ComesAsPath(p)'
      BY <2>1 DEF ComesAsPath, Pushes, Coming
    <3>4. ComesAgain(p)'
      <4>1. p \in locked' \/ In(p, folders')
        BY <2>1, <3>1
      <4> QED BY <4>1 DEF ComesAgain, ComesAsPath
    <3>5. Keeps
      BY <3>2, <3>3, <3>4
    <3> QED BY <1>k, <2>1, <3>5
  <2> QED BY <2>1, <2>2, <2>3
<1>3. CASE TakePath
  <2>1. /\ UNCHANGED <<folders, blocks, threads, system, history>> /\ worker = "pick"
        /\ paths # <<>> /\ working' = Head(paths)
        /\ \/ paths' = Append(Tail(paths), Head(paths))
           \/ paths' = Tail(paths) /\ worker' = "path"
    BY <1>3 DEF TakePath
  <2>2. \A q \in Path : In(q, paths) => In(q, paths') \/ (worker' = "path" /\ working' = q)
    <3>1. IsQueue(paths) /\ paths # <<>>
      BY <1>0, <2>1
    <3>2. CASE paths' = Append(Tail(paths), Head(paths))
      <4>1. \A q \in Path : In(q, Append(Tail(paths), Head(paths))) <=> In(q, paths)
        BY ONLY <3>1, RotateQueue
      <4> QED BY ONLY <3>2, <4>1, Zenon
    <3>3. CASE paths' = Tail(paths) /\ worker' = "path" /\ working' = Head(paths)
      <4>1. \A q \in Path : In(q, Tail(paths)) <=> In(q, paths) /\ q # Head(paths)
        BY ONLY <3>1, TailQueue
      <4> QED BY ONLY <3>3, <4>1, Zenon
    <3> QED BY <2>1, <3>2, <3>3
  <2>3. ASSUME NEW q \in Path
        PROVE  (ComesAsPath(q) => ComesAsPath(q)') /\ (ComesAgain(q) => ComesAgain(q)')
    <3>1. (Coming(q)' <=> Coming(q)) /\ \A t \in Thread : Pushes(t, q)' <=> Pushes(t, q)
      BY <2>1 DEF Coming, Pushes
    <3>2. Watcher \in Thread
      BY DEF Thread
    <3>3. ComesAsPath(q) => ComesAsPath(q)'
      BY <2>1, <2>2, <3>1, <3>2 DEF ComesAsPath
    <3> QED BY <2>1, <3>1, <3>3 DEF ComesAgain
  <2> QED BY <1>k, <2>1, <2>3
<1>4. CASE TakeFolder
  <2>1. /\ UNCHANGED <<paths, blocks, threads, system, history>> /\ worker = "folder"
        /\ folders # <<>> /\ working' = Head(folders)
        /\ \/ folders' = Append(Tail(folders), Head(folders))
           \/ folders' = Tail(folders) /\ worker' = "testFolder"
    BY <1>4 DEF TakeFolder
  <2>2. \A q \in Path : In(q, folders) => In(q, folders') \/ (worker' = "testFolder" /\ working' = q)
    <3>1. IsQueue(folders) /\ folders # <<>>
      BY <1>0, <2>1
    <3>2. CASE folders' = Append(Tail(folders), Head(folders))
      <4>1. \A q \in Path : In(q, Append(Tail(folders), Head(folders))) <=> In(q, folders)
        BY ONLY <3>1, RotateQueue
      <4> QED BY ONLY <3>2, <4>1, Zenon
    <3>3. CASE folders' = Tail(folders) /\ worker' = "testFolder" /\ working' = Head(folders)
      <4>1. \A q \in Path : In(q, Tail(folders)) <=> In(q, folders) /\ q # Head(folders)
        BY ONLY <3>1, TailQueue
      <4> QED BY ONLY <3>3, <4>1, Zenon
    <3> QED BY <2>1, <3>2, <3>3
  <2>3. ASSUME NEW q \in Path
        PROVE  (ComesAsPath(q) => ComesAsPath(q)') /\ (ComesAgain(q) => ComesAgain(q)')
    <3>1. (Coming(q)' <=> Coming(q)) /\ \A t \in Thread : Pushes(t, q)' <=> Pushes(t, q)
      BY <2>1 DEF Coming, Pushes
    <3>2. Watcher \in Thread
      BY DEF Thread
    <3>3. ComesAsPath(q) => ComesAsPath(q)'
      BY <2>1, <3>1, <3>2 DEF ComesAsPath
    <3> QED BY <2>1, <2>2, <3>1, <3>3 DEF ComesAgain
  <2> QED BY <1>k, <2>1, <2>3
<1>5. CASE TestPath
  <2>1. /\ UNCHANGED <<folders, blocks, threads, working, system, history>>
        /\ worker = "path" /\ working \in Path
        /\ (worker' = "readPath" /\ paths' = paths) \/ Paths!Push(working)
    BY <1>5, <1>w DEF TestPath, Busy
  <2>2. /\ \A q \in Path : In(q, paths) => In(q, paths')
        /\ worker' = "readPath" \/ In(working, paths')
    BY <1>0, <2>1, PathsPush
  <2>3. ASSUME NEW q \in Path
        PROVE  (ComesAsPath(q) => ComesAsPath(q)') /\ (ComesAgain(q) => ComesAgain(q)')
    <3>1. (Coming(q)' <=> Coming(q)) /\ \A t \in Thread : Pushes(t, q)' <=> Pushes(t, q)
      BY <2>1 DEF Coming, Pushes
    <3>2. Watcher \in Thread
      BY DEF Thread
    <3>3. ComesAsPath(q) => ComesAsPath(q)'
      BY <2>1, <2>2, <3>1, <3>2 DEF ComesAsPath
    <3> QED BY <2>1, <3>1, <3>3 DEF ComesAgain
  <2> QED BY <1>k, <2>1, <2>3
<1>6. CASE TestFolder
  <2>1. /\ UNCHANGED <<queues, blocks, threads, working, system, history>>
        /\ worker = "testFolder" /\ working \in Path
        /\ worker' = IF IsPathGood(working) THEN "readFolder" ELSE "loop"
    BY <1>6, <1>w DEF TestFolder, Busy
  <2>2. ASSUME NEW q \in Path
        PROVE  (ComesAsPath(q) => ComesAsPath(q)') /\ (ComesAgain(q) => ComesAgain(q)')
    <3>1. (Coming(q)' <=> Coming(q)) /\ \A t \in Thread : Pushes(t, q)' <=> Pushes(t, q)
      BY <2>1 DEF Coming, Pushes
    <3>2. Watcher \in Thread
      BY DEF Thread
    <3>3. ComesAsPath(q) => ComesAsPath(q)'
      BY <2>1, <3>1, <3>2 DEF ComesAsPath
    <3> QED BY <2>1, <3>1, <3>3 DEF ComesAgain, IsPathGood
  <2> QED BY <1>k, <2>1, <2>2
<1>7. CASE Gone
  <2>1. /\ UNCHANGED <<queues, blocks, threads, working, system>>
        /\ worker = "path" /\ worker' = "loop" /\ working \in Path
        /\ stale' = stale \ {working} /\ erased' = erased \ {working}
        /\ failed' = failed \ {working} /\ dropped' = dropped \ {working}
    BY <1>7, <1>w DEF Gone, Busy
  <2>2. ASSUME NEW q \in Path, q # working
        PROVE  (ComesAsPath(q) => ComesAsPath(q)') /\ (ComesAgain(q) => ComesAgain(q)')
    BY <2>1, <2>2, Grows DEF Coming, Pushes
  <2> QED BY <1>0, <2>1, <2>2 DEF ChangesCome, RetriesCome
<1>8. CASE ReadPath \/ ReadFolder
  <2>1. /\ worker \in {"readPath", "readFolder"} /\ working \in Path
        /\ UNCHANGED <<paths, noWatch, threads, working, system>>
        /\ stale' = stale \ {working} /\ erased' = erased \ {working}
        /\ dropped' = dropped \ {working}
        /\ \/ failed' = failed \ {working} /\ folders' = folders
           \/ /\ failed' = failed \cup {working}
              /\ IF IsPathGood(working) THEN AddFolder(working) ELSE folders' = folders
    BY <1>8, <1>w DEF ReadPath, ReadFolder, Read, Busy
  <2>2. /\ \A q \in Path : In(q, folders) => In(q, folders')
        /\ working \in failed' =>
               noWatch[working] = "blocked" \/ working \in locked \/ In(working, folders')
    BY <1>0, <2>1, AddFolderFacts DEF IsPathGood
  <2>3. ASSUME NEW q \in Path, q # working
        PROVE  (ComesAsPath(q) => ComesAsPath(q)') /\ (ComesAgain(q) => ComesAgain(q)')
    BY <2>1, <2>2, <2>3, Grows DEF Coming, Pushes
  <2>4. ASSUME NEW q, q = working, q \in failed'  PROVE ComesAgain(q)'
    BY <2>1, <2>2, <2>4 DEF ComesAgain, ComesAsPath
  <2>5. ChangesCome'
    BY <1>0, <2>1, <2>3 DEF ChangesCome
  <2>6. RetriesCome'
    <3> SUFFICES ASSUME NEW q \in failed' \ dropped'  PROVE ComesAgain(q)'
      BY DEF RetriesCome
    <3>1. q \in Path /\ (q # working => q \in failed \ dropped)
      BY <1>0, <2>1
    <3> QED BY <2>3, <2>4, <3>1 DEF RetriesCome
  <2> QED BY <2>5, <2>6
<1>9. CASE ErasePath
  <2>1. /\ UNCHANGED <<folders, blocks, threads, working, system, stale, failed>>
        /\ worker = "erasePath" /\ working \in Path
        /\ \/ UNCHANGED <<paths, erased, dropped>>
           \/ /\ Paths!Erase(working)
              /\ erased' = erased \cup ({working} \cap stale)
              /\ dropped' = dropped \cup ({working} \cap failed)
    BY <1>9, <1>w DEF ErasePath, Busy
  <2>2. /\ \A q \in Path : q # working => (In(q, paths) => In(q, paths'))
        /\ \/ UNCHANGED <<paths, erased, dropped>>
           \/ (working \in stale => working \in erased') /\ (working \in failed => working \in dropped')
    BY <1>0, <2>1, PathsErase
  <2>3. ASSUME NEW q \in Path, q # working \/ paths' = paths
        PROVE  (ComesAsPath(q) => ComesAsPath(q)') /\ (ComesAgain(q) => ComesAgain(q)')
    BY <2>1, <2>2, <2>3, Grows DEF Coming, Pushes
  <2> QED BY <1>0, <2>1, <2>2, <2>3 DEF ChangesCome, RetriesCome
<1>10. CASE EraseFolder
  <2>1. /\ UNCHANGED <<paths, blocks, threads, working, system, stale, failed, erased>>
        /\ worker = "eraseFolder" /\ working \in Path
        /\ \/ UNCHANGED <<folders, dropped>>
           \/ /\ Folders!Erase(working)
              /\ dropped' = dropped \cup ({working} \cap failed)
    BY <1>10, <1>w DEF EraseFolder, Busy
  <2>2. /\ \A q \in Path : q # working => (In(q, folders) => In(q, folders'))
        /\ \/ UNCHANGED <<folders, dropped>>
           \/ working \in failed => working \in dropped'
        /\ dropped \subseteq dropped'
    BY <1>0, <2>1, FoldersErase
  <2>3. ASSUME NEW q \in Path, q # working \/ folders' = folders
        PROVE  (ComesAsPath(q) => ComesAsPath(q)') /\ (ComesAgain(q) => ComesAgain(q)')
    BY <2>1, <2>2, <2>3, Grows DEF Coming, Pushes
  <2>4. \A q \in Path : ComesAsPath(q) => ComesAsPath(q)'
    BY <2>1 DEF ComesAsPath, Coming, Pushes
  <2>5. ChangesCome'
    BY <1>0, <2>1, <2>4 DEF ChangesCome
  <2>6. RetriesCome'
    BY <1>0, <2>1, <2>2, <2>3 DEF RetriesCome
  <2> QED BY <2>5, <2>6
<1> QED
  BY <1>1, <1>2, <1>3, <1>4, <1>5, <1>6, <1>7, <1>8, <1>9, <1>10 DEF WorkerThread

-------------------------------------------------------------------------------
(* The theorems.                                                           *)

\* The inductive invariant holds at the start.
LEMMA InitInv == Init => IInv
<1> SUFFICES ASSUME Init  PROVE IInv
  OBVIOUS
<1> USE DEF Init, Folders!Init, Paths!Init
<1>1. IsQueue(folders) /\ IsQueue(paths)
  BY DEF IsQueue
<1>2. Types
  <2>1. path \in [Thread -> Path \cup {NoPath}] /\ worker \notin Busy
        /\ \A t \in Thread : path[t] \in IF pc[t] = "idle" THEN {NoPath} ELSE Path
    BY DEF Busy
  <2>2. notify \in Seq([kind : {"change", "lock", "unlock"}, path : Path])
    OBVIOUS
  <2>3. events \in 0..MaxEvents
    BY EventsAssumption
  <2>4. noWatch \in [Path -> {"free", "blocked", "over"}]
    OBVIOUS
  <2>5. pc \in [Thread -> {"idle", "push", "signal"}]
    OBVIOUS
  <2>6. /\ locked \subseteq Path
        /\ erased \subseteq stale /\ stale \subseteq Path
        /\ dropped \subseteq failed /\ failed \subseteq Path
    OBVIOUS
  <2>7. itemsAdded \in BOOLEAN /\ wake \in BOOLEAN /\ blockOver \in BOOLEAN
        /\ blocked \in Path \cup {NoPath} /\ working \in Path \cup {NoPath}
        /\ worker \in {"wait", "loop", "pick", "path", "readPath", "erasePath",
                       "folder", "testFolder", "readFolder", "eraseFolder"}
    OBVIOUS
  <2>8. TypeOK
    BY ONLY <1>1, <2>1, <2>2, <2>3, <2>4, <2>5, <2>6, <2>7 DEF TypeOK
  <2> QED BY <2>1, <2>8 DEF Types
<1>3. NoLostWakeup
  BY DEF NoLostWakeup
<1>4. ChangesCome /\ RetriesCome
  BY DEF ChangesCome, RetriesCome
<1> QED BY <1>2, <1>3, <1>4 DEF IInv

\* The inductive invariant of the crawler and of those who give it work.
THEOREM CrawlerInvariance == Spec => []IInv
<1>1. IInv /\ [Next]_vars => IInv'
  <2> SUFFICES ASSUME IInv, [Next]_vars  PROVE IInv'
    OBVIOUS
  <2>1. Types' /\ NoLostWakeup'
    BY TypesStep, WakeupStep DEF IInv
  <2>2. ChangesCome' /\ RetriesCome'
    BY OutsideWay, CrawlerWay DEF IInv, Next
  <2> QED BY <2>1, <2>2 DEF IInv
<1> QED BY InitInv, <1>1, PTL DEF Spec

\* Every variable keeps its type, and the queues hold a path once.
THEOREM CrawlerTypes == Spec => []TypeOK
<1>1. IInv => TypeOK
  BY DEF IInv, Types
<1> QED BY <1>1, CrawlerInvariance, PTL

\* The crawler does not go to sleep on work, though it looks at its queues without the lock.
THEOREM CrawlerNoLostWakeup == Spec => []NoLostWakeup
BY CrawlerInvariance, PTL DEF IInv

\* No order of locks, blocks, reports and crawls loses a change.
THEOREM CrawlerOnItsWay == Spec => []OnItsWay
<1>1. IInv => OnItsWay
  <2>1. ASSUME NEW p, ComesAsPath(p)  PROVE PathOnItsWay(p)
    BY <2>1 DEF ComesAsPath, PathOnItsWay, Coming, Pushes
  <2> QED BY <2>1 DEF IInv, ChangesCome, OnItsWay
<1> QED BY <1>1, CrawlerInvariance, PTL

\* No order of locks, blocks and requests loses the retry of a read that has failed.
THEOREM CrawlerRetryOnItsWay == Spec => []RetryOnItsWay
<1>1. IInv => RetryOnItsWay
  <2>1. ASSUME NEW p, ComesAsPath(p)  PROVE PathOnItsWay(p)
    BY <2>1 DEF ComesAsPath, PathOnItsWay, Coming, Pushes
  <2> QED BY <2>1 DEF IInv, RetriesCome, ComesAgain, RetryOnItsWay, Pushes
<1> QED BY <1>1, CrawlerInvariance, PTL
===============================================================================
