--------------------------- MODULE CacheGuardsProofs ---------------------------
(***************************************************************************)
(* For every tree of directories and every number of threads: the map of   *)
(* directories is free of races, and a request that keeps its read access  *)
(* keeps its pointers.                                                     *)
(***************************************************************************)
EXTENDS CacheGuards, TLAPS

\* Where a thread has which access to m_guard and to m_guardcacheddirectories.
Reading  == {"use", "lookup", "find", "upgrade", "refind", "create"}
Removing == {"delete", "remove", "child", "known"}
Finding  == {"find", "known"}
Changing == {"refind", "evict", "delete", "create"}

GuardInv ==
    /\ \A t \in Thread : t \in gReaders <=> pc[t] \in Reading
    /\ \A t \in Thread : gWriter = t <=> pc[t] \in Removing
    /\ gWriter # NoThread => gReaders = {}

DirsInv ==
    /\ \A t \in Thread : t \in cReaders <=> pc[t] \in Finding
    /\ \A t \in Thread : cWriter = t <=> pc[t] \in Changing
    /\ cWriter # NoThread => cReaders = {}

\* A thread with pointers reads m_guard, or evicts an entry that none of them is to.
PointersInv ==
    \A t \in Thread :
        /\ held[t] # {} => pc[t] \in Reading \cup {"evict", "delete"}
        /\ pc[t] \in Changing \cup {"upgrade"} => path[t] \notin held[t]
        /\ pc[t] = "evict" => lost[t] = TRUE

\* Only threads that wait for write access are queued for it.
QueuesInv ==
    /\ \A t \in gQueued : pc[t] \in {"order", "yield", "evict"}
    /\ \A t \in cQueued : pc[t] = "upgrade"

IInv == TypeOK /\ GuardInv /\ DirsInv /\ QueuesInv /\ PointersInv /\ PointerSafe

\* A new cache satisfies the invariant.
LEMMA InitInv == Init => IInv
  BY ThreadAssumption, TreeAssumption, LookupAssumption
  DEF Init, IInv, TypeOK, GuardInv, DirsInv, QueuesInv, PointersInv, PointerSafe, Guard!Init, Dirs!Init,
      Control, Reading, Removing, Finding, Changing

\* Every step keeps the types.
LEMMA TypeStep == IInv /\ [Next]_vars => TypeOK'
<1> SUFFICES ASSUME IInv, [Next]_vars  PROVE TypeOK'
  OBVIOUS
<1> USE ThreadAssumption, TreeAssumption, LookupAssumption
    DEF IInv, TypeOK, Control, Deleted, Goto, gVars, cVars, ptrs,
        Guard!Read, Guard!StopReading, Guard!Queue, Guard!Write, Guard!StopWriting,
        Dirs!Read, Dirs!StopReading, Dirs!Queue, Dirs!Write, Dirs!StopWriting
<1>1. ASSUME NEW t \in Thread, Ask(t)  PROVE TypeOK'
  BY <1>1 DEF Ask
<1>2. ASSUME NEW t \in Thread, AskGranted(t)  PROVE TypeOK'
  BY <1>2 DEF AskGranted
<1>3. ASSUME NEW t \in Thread, AskTimesOut(t)  PROVE TypeOK'
  BY <1>3 DEF AskTimesOut
<1>4. ASSUME NEW t \in Thread, Lookup(t)  PROVE TypeOK'
  BY <1>4 DEF Lookup
<1>5. ASSUME NEW t \in Thread, Answer(t)  PROVE TypeOK'
  BY <1>5 DEF Answer
<1>6. ASSUME NEW t \in Thread, EnterLookup(t)  PROVE TypeOK'
  BY <1>6 DEF EnterLookup
<1>7. ASSUME NEW t \in Thread, Find(t)  PROVE TypeOK'
  BY <1>7 DEF Find
<1>8. ASSUME NEW t \in Thread, FindOnly(t)  PROVE TypeOK'
  BY <1>8 DEF FindOnly
<1>9. ASSUME NEW t \in Thread, Upgraded(t)  PROVE TypeOK'
  BY <1>9 DEF Upgraded
<1>10. ASSUME NEW t \in Thread, Refind(t)  PROVE TypeOK'
  <2>1. CASE path[t] \notin cached
    BY <1>10, <2>1 DEF Refind
  <2>2. CASE path[t] \in cached /\ gReaders = {t}
    BY <1>10, <2>2 DEF Refind
  <2>3. CASE path[t] \in cached /\ gReaders # {t}
    <3>1. lost' \in [Thread -> BOOLEAN]
      <4>1. lost' = [lost EXCEPT ![t] = TRUE] /\ lost \in [Thread -> BOOLEAN]
        BY <1>10, <2>3 DEF Refind
      <4> QED BY <4>1
    <3> QED BY <1>10, <2>3, <3>1 DEF Refind
  <2> QED BY <2>1, <2>2, <2>3
<1>11. ASSUME NEW t \in Thread, Evict(t)  PROVE TypeOK'
  BY <1>11 DEF Evict
<1>12. ASSUME NEW t \in Thread, DeleteEntry(t)  PROVE TypeOK'
  BY <1>12 DEF DeleteEntry
<1>13. ASSUME NEW t \in Thread, Create(t)  PROVE TypeOK'
  BY <1>13 DEF Create
<1>14. ASSUME NEW t \in Thread, Order(t)  PROVE TypeOK'
  BY <1>14 DEF Order
<1>15. ASSUME NEW t \in Thread, OrderQueues(t)  PROVE TypeOK'
  BY <1>15 DEF OrderQueues
<1>16. ASSUME NEW t \in Thread, OrderGranted(t)  PROVE TypeOK'
  BY <1>16 DEF OrderGranted
<1>17. ASSUME NEW t \in Thread, CrawlerYields(t)  PROVE TypeOK'
  BY <1>17 DEF CrawlerYields
<1>18. ASSUME NEW t \in Thread, YieldGranted(t)  PROVE TypeOK'
  BY <1>18 DEF YieldGranted
<1>19. ASSUME NEW t \in Thread, KnowsChild(t)  PROVE TypeOK'
  BY <1>19 DEF KnowsChild
<1>20. ASSUME NEW t \in Thread, LookupChild(t)  PROVE TypeOK'
  BY <1>20 DEF LookupChild
<1>21. ASSUME NEW t \in Thread, RemoveChild(t)  PROVE TypeOK'
  BY <1>21 DEF RemoveChild
<1>22. ASSUME NEW t \in Thread, Remove(t)  PROVE TypeOK'
  BY <1>22 DEF Remove
<1>23. CASE UNCHANGED vars
  BY <1>23 DEF vars
<1> QED
  BY <1>1, <1>2, <1>3, <1>4, <1>5, <1>6, <1>7, <1>8, <1>9, <1>10,
     <1>11, <1>12, <1>13, <1>14, <1>15, <1>16, <1>17, <1>18, <1>19, <1>20,
     <1>21, <1>22, <1>23
     DEF Next

\* Who has access to m_guard is where the code says.
LEMMA GuardStep == IInv /\ [Next]_vars => GuardInv'
<1> SUFFICES ASSUME IInv, [Next]_vars  PROVE GuardInv'
  OBVIOUS
<1> USE ThreadAssumption, TreeAssumption, LookupAssumption
    DEF IInv, TypeOK, GuardInv, Control, Reading, Removing, Goto, gVars, cVars, ptrs,
        Guard!Read, Guard!StopReading, Guard!Queue, Guard!Write, Guard!StopWriting,
        Dirs!Read, Dirs!StopReading, Dirs!Queue, Dirs!Write, Dirs!StopWriting
<1>1. ASSUME NEW t \in Thread, Ask(t)  PROVE GuardInv'
  BY <1>1 DEF Ask
<1>2. ASSUME NEW t \in Thread, AskGranted(t)  PROVE GuardInv'
  BY <1>2 DEF AskGranted
<1>3. ASSUME NEW t \in Thread, AskTimesOut(t)  PROVE GuardInv'
  BY <1>3 DEF AskTimesOut
<1>4. ASSUME NEW t \in Thread, Lookup(t)  PROVE GuardInv'
  BY <1>4 DEF Lookup
<1>5. ASSUME NEW t \in Thread, Answer(t)  PROVE GuardInv'
  BY <1>5 DEF Answer
<1>6. ASSUME NEW t \in Thread, EnterLookup(t)  PROVE GuardInv'
  BY <1>6 DEF EnterLookup
<1>7. ASSUME NEW t \in Thread, Find(t)  PROVE GuardInv'
  BY <1>7 DEF Find
<1>8. ASSUME NEW t \in Thread, FindOnly(t)  PROVE GuardInv'
  BY <1>8 DEF FindOnly
<1>9. ASSUME NEW t \in Thread, Upgraded(t)  PROVE GuardInv'
  BY <1>9 DEF Upgraded
<1>10. ASSUME NEW t \in Thread, Refind(t)  PROVE GuardInv'
  BY <1>10 DEF Refind
<1>11. ASSUME NEW t \in Thread, Evict(t)  PROVE GuardInv'
  BY <1>11 DEF Evict
<1>12. ASSUME NEW t \in Thread, DeleteEntry(t)  PROVE GuardInv'
  BY <1>12 DEF DeleteEntry
<1>13. ASSUME NEW t \in Thread, Create(t)  PROVE GuardInv'
  BY <1>13 DEF Create
<1>14. ASSUME NEW t \in Thread, Order(t)  PROVE GuardInv'
  BY <1>14 DEF Order
<1>15. ASSUME NEW t \in Thread, OrderQueues(t)  PROVE GuardInv'
  BY <1>15 DEF OrderQueues
<1>16. ASSUME NEW t \in Thread, OrderGranted(t)  PROVE GuardInv'
  BY <1>16 DEF OrderGranted
<1>17. ASSUME NEW t \in Thread, CrawlerYields(t)  PROVE GuardInv'
  BY <1>17 DEF CrawlerYields
<1>18. ASSUME NEW t \in Thread, YieldGranted(t)  PROVE GuardInv'
  BY <1>18 DEF YieldGranted
<1>19. ASSUME NEW t \in Thread, KnowsChild(t)  PROVE GuardInv'
  BY <1>19 DEF KnowsChild
<1>20. ASSUME NEW t \in Thread, LookupChild(t)  PROVE GuardInv'
  BY <1>20 DEF LookupChild
<1>21. ASSUME NEW t \in Thread, RemoveChild(t)  PROVE GuardInv'
  BY <1>21 DEF RemoveChild
<1>22. ASSUME NEW t \in Thread, Remove(t)  PROVE GuardInv'
  BY <1>22 DEF Remove
<1>23. CASE UNCHANGED vars
  BY <1>23 DEF vars
<1> QED
  BY <1>1, <1>2, <1>3, <1>4, <1>5, <1>6, <1>7, <1>8, <1>9, <1>10,
     <1>11, <1>12, <1>13, <1>14, <1>15, <1>16, <1>17, <1>18, <1>19, <1>20,
     <1>21, <1>22, <1>23
     DEF Next

\* Who has access to m_guardcacheddirectories is where the code says.
LEMMA DirsStep == IInv /\ [Next]_vars => DirsInv'
<1> SUFFICES ASSUME IInv, [Next]_vars  PROVE DirsInv'
  OBVIOUS
<1> USE ThreadAssumption, TreeAssumption, LookupAssumption
    DEF IInv, TypeOK, DirsInv, Control, Finding, Changing, Goto, gVars, cVars, ptrs,
        Guard!Read, Guard!StopReading, Guard!Queue, Guard!Write, Guard!StopWriting,
        Dirs!Read, Dirs!StopReading, Dirs!Queue, Dirs!Write, Dirs!StopWriting
<1>1. ASSUME NEW t \in Thread, Ask(t)  PROVE DirsInv'
  BY <1>1 DEF Ask
<1>2. ASSUME NEW t \in Thread, AskGranted(t)  PROVE DirsInv'
  BY <1>2 DEF AskGranted
<1>3. ASSUME NEW t \in Thread, AskTimesOut(t)  PROVE DirsInv'
  BY <1>3 DEF AskTimesOut
<1>4. ASSUME NEW t \in Thread, Lookup(t)  PROVE DirsInv'
  BY <1>4 DEF Lookup
<1>5. ASSUME NEW t \in Thread, Answer(t)  PROVE DirsInv'
  BY <1>5 DEF Answer
<1>6. ASSUME NEW t \in Thread, EnterLookup(t)  PROVE DirsInv'
  BY <1>6 DEF EnterLookup
<1>7. ASSUME NEW t \in Thread, Find(t)  PROVE DirsInv'
  BY <1>7 DEF Find
<1>8. ASSUME NEW t \in Thread, FindOnly(t)  PROVE DirsInv'
  BY <1>8 DEF FindOnly
<1>9. ASSUME NEW t \in Thread, Upgraded(t)  PROVE DirsInv'
  BY <1>9 DEF Upgraded
<1>10. ASSUME NEW t \in Thread, Refind(t)  PROVE DirsInv'
  BY <1>10 DEF Refind
<1>11. ASSUME NEW t \in Thread, Evict(t)  PROVE DirsInv'
  BY <1>11 DEF Evict
<1>12. ASSUME NEW t \in Thread, DeleteEntry(t)  PROVE DirsInv'
  BY <1>12 DEF DeleteEntry
<1>13. ASSUME NEW t \in Thread, Create(t)  PROVE DirsInv'
  BY <1>13 DEF Create
<1>14. ASSUME NEW t \in Thread, Order(t)  PROVE DirsInv'
  BY <1>14 DEF Order
<1>15. ASSUME NEW t \in Thread, OrderQueues(t)  PROVE DirsInv'
  BY <1>15 DEF OrderQueues
<1>16. ASSUME NEW t \in Thread, OrderGranted(t)  PROVE DirsInv'
  BY <1>16 DEF OrderGranted
<1>17. ASSUME NEW t \in Thread, CrawlerYields(t)  PROVE DirsInv'
  BY <1>17 DEF CrawlerYields
<1>18. ASSUME NEW t \in Thread, YieldGranted(t)  PROVE DirsInv'
  BY <1>18 DEF YieldGranted
<1>19. ASSUME NEW t \in Thread, KnowsChild(t)  PROVE DirsInv'
  BY <1>19 DEF KnowsChild
<1>20. ASSUME NEW t \in Thread, LookupChild(t)  PROVE DirsInv'
  BY <1>20 DEF LookupChild
<1>21. ASSUME NEW t \in Thread, RemoveChild(t)  PROVE DirsInv'
  BY <1>21 DEF RemoveChild
<1>22. ASSUME NEW t \in Thread, Remove(t)  PROVE DirsInv'
  BY <1>22 DEF Remove
<1>23. CASE UNCHANGED vars
  BY <1>23 DEF vars
<1> QED
  BY <1>1, <1>2, <1>3, <1>4, <1>5, <1>6, <1>7, <1>8, <1>9, <1>10,
     <1>11, <1>12, <1>13, <1>14, <1>15, <1>16, <1>17, <1>18, <1>19, <1>20,
     <1>21, <1>22, <1>23
     DEF Next

\* A thread leaves the queue with what it waits for.
LEMMA QueuesStep == IInv /\ [Next]_vars => QueuesInv'
<1> SUFFICES ASSUME IInv, [Next]_vars  PROVE QueuesInv'
  OBVIOUS
<1> USE ThreadAssumption, TreeAssumption, LookupAssumption
    DEF IInv, TypeOK, GuardInv, DirsInv, QueuesInv, Control, Removing, Changing, Goto, gVars, cVars, ptrs,
        Guard!Read, Guard!StopReading, Guard!Queue, Guard!Write, Guard!StopWriting,
        Dirs!Read, Dirs!StopReading, Dirs!Queue, Dirs!Write, Dirs!StopWriting
<1>1. ASSUME NEW t \in Thread, Ask(t)  PROVE QueuesInv'
  BY <1>1 DEF Ask
<1>2. ASSUME NEW t \in Thread, AskGranted(t)  PROVE QueuesInv'
  BY <1>2 DEF AskGranted
<1>3. ASSUME NEW t \in Thread, AskTimesOut(t)  PROVE QueuesInv'
  BY <1>3 DEF AskTimesOut
<1>4. ASSUME NEW t \in Thread, Lookup(t)  PROVE QueuesInv'
  BY <1>4 DEF Lookup
<1>5. ASSUME NEW t \in Thread, Answer(t)  PROVE QueuesInv'
  BY <1>5 DEF Answer
<1>6. ASSUME NEW t \in Thread, EnterLookup(t)  PROVE QueuesInv'
  BY <1>6 DEF EnterLookup
<1>7. ASSUME NEW t \in Thread, Find(t)  PROVE QueuesInv'
  BY <1>7 DEF Find
<1>8. ASSUME NEW t \in Thread, FindOnly(t)  PROVE QueuesInv'
  BY <1>8 DEF FindOnly
<1>9. ASSUME NEW t \in Thread, Upgraded(t)  PROVE QueuesInv'
  BY <1>9 DEF Upgraded
<1>10. ASSUME NEW t \in Thread, Refind(t)  PROVE QueuesInv'
  BY <1>10 DEF Refind
<1>11. ASSUME NEW t \in Thread, Evict(t)  PROVE QueuesInv'
  BY <1>11 DEF Evict
<1>12. ASSUME NEW t \in Thread, DeleteEntry(t)  PROVE QueuesInv'
  BY <1>12 DEF DeleteEntry
<1>13. ASSUME NEW t \in Thread, Create(t)  PROVE QueuesInv'
  BY <1>13 DEF Create
<1>14. ASSUME NEW t \in Thread, Order(t)  PROVE QueuesInv'
  BY <1>14 DEF Order
<1>15. ASSUME NEW t \in Thread, OrderQueues(t)  PROVE QueuesInv'
  BY <1>15 DEF OrderQueues
<1>16. ASSUME NEW t \in Thread, OrderGranted(t)  PROVE QueuesInv'
  BY <1>16 DEF OrderGranted
<1>17. ASSUME NEW t \in Thread, CrawlerYields(t)  PROVE QueuesInv'
  BY <1>17 DEF CrawlerYields
<1>18. ASSUME NEW t \in Thread, YieldGranted(t)  PROVE QueuesInv'
  BY <1>18 DEF YieldGranted
<1>19. ASSUME NEW t \in Thread, KnowsChild(t)  PROVE QueuesInv'
  BY <1>19 DEF KnowsChild
<1>20. ASSUME NEW t \in Thread, LookupChild(t)  PROVE QueuesInv'
  BY <1>20 DEF LookupChild
<1>21. ASSUME NEW t \in Thread, RemoveChild(t)  PROVE QueuesInv'
  BY <1>21 DEF RemoveChild
<1>22. ASSUME NEW t \in Thread, Remove(t)  PROVE QueuesInv'
  BY <1>22 DEF Remove
<1>23. CASE UNCHANGED vars
  BY <1>23 DEF vars
<1> QED
  BY <1>1, <1>2, <1>3, <1>4, <1>5, <1>6, <1>7, <1>8, <1>9, <1>10,
     <1>11, <1>12, <1>13, <1>14, <1>15, <1>16, <1>17, <1>18, <1>19, <1>20,
     <1>21, <1>22, <1>23
     DEF Next

\* Entries are deleted only by a writer of m_guard, so only under threads that gave
\* their read access up, or by the thread that has no pointer to them.
LEMMA PointersStep == IInv /\ [Next]_vars => (PointersInv /\ PointerSafe)'
<1> SUFFICES ASSUME IInv, [Next]_vars  PROVE (PointersInv /\ PointerSafe)'
  OBVIOUS
<1> USE ThreadAssumption, TreeAssumption, LookupAssumption
    DEF IInv, TypeOK, GuardInv, PointersInv, PointerSafe, Control, Reading, Removing, Changing,
        Deleted, Goto, gVars, cVars, ptrs,
        Guard!Read, Guard!StopReading, Guard!Queue, Guard!Write, Guard!StopWriting,
        Dirs!Read, Dirs!StopReading, Dirs!Queue, Dirs!Write, Dirs!StopWriting
<1>1. ASSUME NEW t \in Thread, Ask(t)  PROVE (PointersInv /\ PointerSafe)'
  BY <1>1 DEF Ask
<1>2. ASSUME NEW t \in Thread, AskGranted(t)  PROVE (PointersInv /\ PointerSafe)'
  BY <1>2 DEF AskGranted
<1>3. ASSUME NEW t \in Thread, AskTimesOut(t)  PROVE (PointersInv /\ PointerSafe)'
  BY <1>3 DEF AskTimesOut
<1>4. ASSUME NEW t \in Thread, Lookup(t)  PROVE (PointersInv /\ PointerSafe)'
  BY <1>4 DEF Lookup
<1>5. ASSUME NEW t \in Thread, Answer(t)  PROVE (PointersInv /\ PointerSafe)'
  BY <1>5 DEF Answer
<1>6. ASSUME NEW t \in Thread, EnterLookup(t)  PROVE (PointersInv /\ PointerSafe)'
  BY <1>6 DEF EnterLookup
<1>7. ASSUME NEW t \in Thread, Find(t)  PROVE (PointersInv /\ PointerSafe)'
  BY <1>7 DEF Find
<1>8. ASSUME NEW t \in Thread, FindOnly(t)  PROVE (PointersInv /\ PointerSafe)'
  BY <1>8 DEF FindOnly
<1>9. ASSUME NEW t \in Thread, Upgraded(t)  PROVE (PointersInv /\ PointerSafe)'
  BY <1>9 DEF Upgraded
<1>10. ASSUME NEW t \in Thread, Refind(t)  PROVE (PointersInv /\ PointerSafe)'
  BY <1>10 DEF Refind
<1>11. ASSUME NEW t \in Thread, Evict(t)  PROVE (PointersInv /\ PointerSafe)'
  BY <1>11 DEF Evict
<1>12. ASSUME NEW t \in Thread, DeleteEntry(t)  PROVE (PointersInv /\ PointerSafe)'
  BY <1>12 DEF DeleteEntry
<1>13. ASSUME NEW t \in Thread, Create(t)  PROVE (PointersInv /\ PointerSafe)'
  BY <1>13 DEF Create
<1>14. ASSUME NEW t \in Thread, Order(t)  PROVE (PointersInv /\ PointerSafe)'
  BY <1>14 DEF Order
<1>15. ASSUME NEW t \in Thread, OrderQueues(t)  PROVE (PointersInv /\ PointerSafe)'
  BY <1>15 DEF OrderQueues
<1>16. ASSUME NEW t \in Thread, OrderGranted(t)  PROVE (PointersInv /\ PointerSafe)'
  BY <1>16 DEF OrderGranted
<1>17. ASSUME NEW t \in Thread, CrawlerYields(t)  PROVE (PointersInv /\ PointerSafe)'
  BY <1>17 DEF CrawlerYields
<1>18. ASSUME NEW t \in Thread, YieldGranted(t)  PROVE (PointersInv /\ PointerSafe)'
  BY <1>18 DEF YieldGranted
<1>19. ASSUME NEW t \in Thread, KnowsChild(t)  PROVE (PointersInv /\ PointerSafe)'
  BY <1>19 DEF KnowsChild
<1>20. ASSUME NEW t \in Thread, LookupChild(t)  PROVE (PointersInv /\ PointerSafe)'
  BY <1>20 DEF LookupChild
<1>21. ASSUME NEW t \in Thread, RemoveChild(t)  PROVE (PointersInv /\ PointerSafe)'
  BY <1>21 DEF RemoveChild
<1>22. ASSUME NEW t \in Thread, Remove(t)  PROVE (PointersInv /\ PointerSafe)'
  BY <1>22 DEF Remove
<1>23. CASE UNCHANGED vars
  BY <1>23 DEF vars
<1> QED
  BY <1>1, <1>2, <1>3, <1>4, <1>5, <1>6, <1>7, <1>8, <1>9, <1>10,
     <1>11, <1>12, <1>13, <1>14, <1>15, <1>16, <1>17, <1>18, <1>19, <1>20,
     <1>21, <1>22, <1>23
     DEF Next

\* The inductive invariant holds in every behaviour.
LEMMA Invariance == Spec => []IInv
<1>1. IInv /\ [Next]_vars => IInv'
  BY TypeStep, GuardStep, DirsStep, QueuesStep, PointersStep DEF IInv
<1> QED BY InitInv, <1>1, PTL DEF Spec

\* For every tree and any number of threads the state keeps its types; a pointer that
\* does not dangle is to an entry of the cache (GITStatusCache.cpp:348-398).
THEOREM Types == Spec => []TypeOK
<1>1. IInv => TypeOK
  BY DEF IInv
<1> QED BY Invariance, <1>1, PTL

\* No thread is in m_directoryCache while another one changes it, although lookups and
\* removals do it under different locks (GITStatusCache.cpp:400-476 and 348-398).
THEOREM RaceFree == Spec => []MapRaceFree
<1>1. IInv => MapRaceFree
  BY ThreadAssumption
  DEF IInv, TypeOK, GuardInv, DirsInv, MapRaceFree, Changes, Reading, Removing, Finding, Changing
<1> QED BY Invariance, <1>1, PTL

\* A request that keeps its read access to m_guard across its lookups has no pointer to
\* a deleted directory (CachedDirectory.cpp:191-212, 572-574).
THEOREM PointersSafe == Spec => []PointerSafe
<1>1. IInv => PointerSafe
  BY DEF IInv
<1> QED BY Invariance, <1>1, PTL

\* When all threads wait or have nothing to do, and none of them waits to evict an entry,
\* none waits at all: who has the inner lock goes on, so nobody waits for it, so who has
\* m_guard goes on, too.
LEMMA NobodyWaits ==
    ASSUME IInv,
           \A t \in Thread : pc[t] = "idle" \/ Waits(t),
           \A t \in Thread : pc[t] # "evict"
    PROVE  \A t \in Thread : pc[t] = "idle"
<1> USE ThreadAssumption
<1>1. \A t \in Thread : pc[t] \in {"idle", "ask", "order", "yield", "lookup", "child", "upgrade"}
  BY DEF Waits
<1>2. cWriter = NoThread /\ cReaders = {}
  BY <1>1 DEF IInv, TypeOK, DirsInv, Finding, Changing
<1>3. \A t \in Thread : pc[t] # "upgrade"
  BY <1>2 DEF Waits
<1>4. cQueued = {}
  BY <1>3 DEF IInv, TypeOK, QueuesInv
<1>5. \A t \in Thread : pc[t] \notin {"lookup", "child"}
  BY <1>2, <1>4 DEF Waits
<1>6. gWriter = NoThread /\ gReaders = {}
  BY <1>1, <1>3, <1>5 DEF IInv, TypeOK, GuardInv, Reading, Removing
<1>7. \A t \in Thread : pc[t] \notin {"order", "yield"}
  BY <1>6 DEF Waits
<1>8. gQueued = {}
  BY <1>7 DEF IInv, TypeOK, QueuesInv
<1>9. \A t \in Thread : pc[t] # "ask"
  BY <1>6, <1>8 DEF Waits
<1> QED BY <1>1, <1>3, <1>5, <1>7, <1>9

\* Only where an entry is evicted under the inner lock (GITStatusCache.cpp:440) can all
\* threads that have work wait for one another.
THEOREM OnlyEvictionCanBlock == Spec => []OnlyEvictionBlocks
<1>1. IInv => OnlyEvictionBlocks
  BY NobodyWaits DEF OnlyEvictionBlocks
<1> QED BY Invariance, <1>1, PTL
===============================================================================
