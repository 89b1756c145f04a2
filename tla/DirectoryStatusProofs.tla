------------------------- MODULE DirectoryStatusProofs -------------------------
(***************************************************************************)
(* For every tree of directories and every number of threads: the types,   *)
(* and that the maps of children keep in step while one is rebuilt.        *)
(***************************************************************************)
EXTENDS DirectoryStatus, TLAPS

Control == {"idle", "own", "children", "store", "tell", "compare", "set",
            "enum", "refresh", "stamp", "failed", "unversioned",
            "forgetfull", "forgetfiles", "forgetchildren"}

\* Only a directory with a parent is compared with what the parent knows, and only
\* the crawler's read collects children.
TypeInv ==
    /\ TypeOK
    /\ pc \in [Thread -> Control] /\ dir \in [Thread -> Dir \cup {NoDir}]
    /\ \A t \in Thread : pc[t] \in {"compare", "set"} => Parent[dir[t]] # NoDir
    /\ reported # {} => pc[Crawler] = "enum"

\* While a directory is read, the new map holds of every child nothing, or what is
\* known of it, unless SetChildStatus is under way.
NewMapAgrees ==
    pc[Crawler] = "enum" =>
        \A c \in Children(dir[Crawler]) :
            \/ knownTmp[c] \in {Absent, known[c]}
            \/ \E t \in Thread : pc[t] = "set" /\ dir[t] = c

IInv == TypeInv /\ NewMapAgrees /\ MapsInStep

\* The largest of some status is one of them, and none is larger.
LEMMA MaxIsMember ==
    ASSUME NEW S, S \subseteq Entry, S # {}
    PROVE  Max(S) \in S /\ \A y \in S : Max(S) >= y
<1> DEFINE Best(x) == \A y \in S : x >= y
<1>1. \E x \in S : Best(x)
  <2>1. S \subseteq {-1, 0, 1, 2, 3}
    BY DEF Entry, Status, None, Modified, Deleted, Absent
  <2>2. CASE 3 \in S  BY <2>1, <2>2
  <2>3. CASE 3 \notin S /\ 2 \in S  BY <2>1, <2>3
  <2>4. CASE 3 \notin S /\ 2 \notin S /\ 1 \in S  BY <2>1, <2>4
  <2>5. CASE 3 \notin S /\ 2 \notin S /\ 1 \notin S /\ 0 \in S  BY <2>1, <2>5
  <2>6. CASE 3 \notin S /\ 2 \notin S /\ 1 \notin S /\ 0 \notin S
    <3>1. -1 \in S  BY <2>1, <2>6
    <3> QED BY <2>1, <2>6, <3>1
  <2> QED BY <2>2, <2>3, <2>4, <2>5, <2>6
<1>2. Max(S) = CHOOSE x \in S : Best(x)
  BY DEF Max
<1> HIDE DEF Best
<1>3. Max(S) \in S /\ Best(Max(S))
  BY <1>1, <1>2
<1> QED BY <1>3 DEF Best

\* Statuses are folded upwards without leaving their range, but for deleted, which a
\* folder shows as modified.
LEMMA MaxIsStatus ==
    ASSUME NEW x \in Status, NEW T, T \subseteq Entry
    PROVE  Adjust(Max({x} \cup T)) \in Status
<1> DEFINE S == {x} \cup T
<1>1. S \subseteq Entry /\ S # {} /\ x \in S
  BY DEF Entry
<1> HIDE DEF S
<1>2. Max(S) \in S /\ \A y \in S : Max(S) >= y
  BY <1>1, MaxIsMember
<1>3. Max(S) >= x /\ Max(S) \in Entry
  BY <1>1, <1>2
<1>4. Max(S) \in Status \cup {Deleted}
  BY <1>3 DEF Entry, Status, None, Modified, Deleted, Absent
<1>5. Adjust(Max(S)) \in Status
  BY <1>4 DEF Adjust, Status, None, Modified, Deleted
<1> QED BY <1>5 DEF S

\* The same for two: statuses give a status, and an entry that is not there is replaced.
LEMMA MaxOfTwo ==
    ASSUME NEW x \in Status, NEW y \in Entry
    PROVE  /\ Max({y, x}) \in Entry \ {Absent}
           /\ y \in Status => Max({y, x}) \in Status
<1> DEFINE S == {y, x}
<1>1. S \subseteq Entry /\ S # {} /\ x \in S /\ (y \in Status => S \subseteq Status)
  BY DEF Entry
<1> HIDE DEF S
<1>2. Max(S) \in S /\ Max(S) >= x
  BY <1>1, MaxIsMember
<1>3. Max(S) \in Entry /\ Max(S) # Absent
  <2>1. ASSUME NEW m \in Entry, m >= x  PROVE m # Absent
    BY <2>1 DEF Entry, Status, None, Modified, Deleted, Absent
  <2>2. Max(S) \in Entry /\ Max(S) >= x
    BY <1>1, <1>2
  <2> QED BY <2>1, <2>2
<1>4. Max(S) \in Entry \ {Absent} /\ (y \in Status => Max(S) \in Status)
  BY <1>1, <1>2, <1>3
<1> QED BY <1>4 DEF S

\* A new cache satisfies the invariant.
LEMMA InitInv == Init => IInv
<1> SUFFICES ASSUME Init PROVE IInv
  OBVIOUS
<1>1. TypeInv
  <2> USE DEF Init, Entry, Status, None, Normal, Modified, Absent
  <2>1. TypeOK
    BY EventsAssumption DEF TypeOK
  <2> QED BY <2>1 DEF TypeInv, Control
<1>2. NewMapAgrees /\ MapsInStep
  BY ThreadAssumption DEF Init, NewMapAgrees, MapsInStep, Thread
<1> QED BY <1>1, <1>2 DEF IInv

\* Every step keeps the types.
LEMMA TypeStep == TypeInv /\ [Next]_vars => TypeInv'
<1> SUFFICES ASSUME TypeInv, [Next]_vars  PROVE TypeInv'
  OBVIOUS
<1> USE ThreadAssumption, DirAssumption, EventsAssumption
    DEF TypeInv, TypeOK, Control, Children, Thread, Goto, Update, Return,
        cached, maps, threads, crawl
<1>1. ASSUME NEW t \in Thread, CalculateOwn(t)  PROVE TypeInv'
  <2>1. Max({files[dir[t]], own[dir[t]]}) \in Status
    <3>1. files[dir[t]] \in Status /\ own[dir[t]] \in Status
      BY <1>1 DEF CalculateOwn, Status, None, Normal, Modified
    <3>2. files[dir[t]] \in Entry
      BY <3>1 DEF Entry
    <3> QED BY <3>1, <3>2, MaxOfTwo
  <2> QED BY <1>1, <2>1 DEF CalculateOwn
<1>2. ASSUME NEW t \in Thread, CalculateChildren(t)  PROVE TypeInv'
  <2> DEFINE T == {known[c] : c \in Children(dir[t])}
  <2>1. Adjust(Max({val[t]} \cup T)) \in Status
    <3>1. val[t] \in Status /\ T \subseteq Entry
      OBVIOUS
    <3> QED BY <3>1, MaxIsStatus
  <2>2. val' = [val EXCEPT ![t] = Adjust(Max({val[t]} \cup T))]
    BY <1>2 DEF CalculateChildren
  <2> HIDE DEF T
  <2> QED BY <1>2, <2>1, <2>2 DEF CalculateChildren
<1>3. ASSUME NEW t \in Thread, Store(t)  PROVE TypeInv'
  BY <1>3 DEF Store
<1>4. ASSUME NEW t \in Thread, Tell(t)  PROVE TypeInv'
  BY <1>4 DEF Tell
<1>5. ASSUME NEW t \in Thread, Compare(t)  PROVE TypeInv'
  <2>1. dir[t] \in Dir /\ known[dir[t]] \in Entry /\ None \in Status
    BY <1>5 DEF Compare, Status, None, Modified
  <2>2. Max({known[dir[t]], None}) \in Entry
    BY <2>1, MaxOfTwo
  <2>3. known' \in [Dir -> Entry] /\ knownTmp' \in [Dir -> Entry]
    BY <1>5, <2>2 DEF Compare, Entry
  <2>4. \/ pc' = [pc EXCEPT ![t] = "set"] /\ dir' = dir
        \/ pc' = [pc EXCEPT ![t] = "idle"] /\ dir' = [dir EXCEPT ![t] = NoDir]
    BY <1>5 DEF Compare
  <2>5. UNCHANGED <<cached, val, crawl>> /\ pc[t] = "compare"
    BY <1>5 DEF Compare
  <2> QED BY <2>1, <2>3, <2>4, <2>5
<1>6. ASSUME NEW t \in Thread, SetAndUpdate(t)  PROVE TypeInv'
  <2>1. dir[t] \in Dir /\ Parent[dir[t]] \in Dir /\ val[t] \in Status
    BY <1>6 DEF SetAndUpdate
  <2>2. known' \in [Dir -> Entry] /\ knownTmp' \in [Dir -> Entry]
    BY <1>6, <2>1 DEF SetAndUpdate, SetChildStatus, Entry
  <2>3. /\ pc' = [pc EXCEPT ![t] = "own"] /\ dir' = [dir EXCEPT ![t] = Parent[dir[t]]]
        /\ UNCHANGED <<cached, val, crawl>> /\ pc[t] = "set"
    BY <1>6 DEF SetAndUpdate
  <2> QED BY <2>1, <2>2, <2>3
<1>7. ASSUME NEW t \in Asker, NEW d \in Dir, Ask(t, d)  PROVE TypeInv'
  BY <1>7 DEF Ask
<1>8. ASSUME NEW d \in Dir, Expire(d)  PROVE TypeInv'
  BY <1>8 DEF Expire
<1>9. ASSUME NEW d \in Dir, ReadFile(d)  PROVE TypeInv'
  <2>1. files' \in [Dir -> Status]
    BY <1>9 DEF ReadFile, Start, Status, None, Normal, Modified
  <2>2. events' \in 0..MaxEvents
    BY <1>9 DEF ReadFile, Start
  <2> QED BY <1>9, <2>1, <2>2 DEF ReadFile, Start
<1>10. ASSUME NEW d \in Dir, ReadFileFails(d)  PROVE TypeInv'
  <2>1. events' \in 0..MaxEvents
    BY <1>10 DEF ReadFileFails, Start
  <2> QED BY <1>10, <2>1 DEF ReadFileFails, Start
<1>11. ASSUME NEW d \in Dir, BeginEnum(d)  PROVE TypeInv'
  <2>1. files' \in [Dir -> Status] /\ knownTmp' \in [Dir -> Entry]
    BY <1>11 DEF BeginEnum, Entry, Status, None, Modified
  <2>2. events' \in 0..MaxEvents
    BY <1>11 DEF BeginEnum, Start
  <2>3. valid' \in [Dir -> BOOLEAN]
    <3>1. valid \in [Dir -> BOOLEAN]
      OBVIOUS
    <3>2. valid' = valid \/ valid' = [valid EXCEPT ![d] = FALSE]
      BY <1>11 DEF BeginEnum
    <3> QED BY <3>1, <3>2
  <2> QED BY <1>11, <2>1, <2>2, <2>3 DEF BeginEnum, Start
<1>12. ASSUME NEW d \in Dir, KeepChildStatus(d)  PROVE TypeInv'
  BY <1>12 DEF KeepChildStatus
<1>13. ASSUME NEW d \in Dir, ChildDeleted(d)  PROVE TypeInv'
  <2>1. {Modified, Deleted} \subseteq Entry
    BY DEF Entry, Status, None, Modified
  <2> QED BY <1>13, <2>1 DEF ChildDeleted, SetChildStatus
<1>14. ASSUME SwapMaps  PROVE TypeInv'
  <2>1. known' \in [Dir -> Entry] /\ knownTmp' \in [Dir -> Entry]
    BY <1>14 DEF SwapMaps, Entry
  <2>2. seen' \in Status
    BY <1>14 DEF SwapMaps, Status, None, Normal, Modified
  <2> QED BY <1>14, <2>1, <2>2 DEF SwapMaps
<1>15. ASSUME RefreshMostImportant  PROVE TypeInv'
  BY <1>15 DEF RefreshMostImportant
<1>16. ASSUME EnumFails  PROVE TypeInv'
  BY <1>16 DEF EnumFails
<1>17. ASSUME ForgetOwn  PROVE TypeInv'
  BY <1>17 DEF ForgetOwn
<1>18. ASSUME ForgetFull  PROVE TypeInv'
  <2>1. None \in Status
    BY DEF Status, None, Modified
  <2> QED BY <1>18, <2>1 DEF ForgetFull
<1>19. CASE UNCHANGED vars
  BY <1>19 DEF vars
<1>20. ASSUME ForgetFiles  PROVE TypeInv'
  <2>1. None \in Status
    BY DEF Status, None, Modified
  <2> QED BY <1>20, <2>1 DEF ForgetFiles
<1>21. ASSUME StampOwn  PROVE TypeInv'
  BY <1>21 DEF StampOwn
<1>22. ASSUME NEW d \in Dir, Unversioned(d)  PROVE TypeInv'
  <2>1. events' \in 0..MaxEvents
    BY <1>22 DEF Unversioned, Start
  <2> QED BY <1>22, <2>1 DEF Unversioned, Start
<1>23. ASSUME ForgetChildren  PROVE TypeInv'
  BY <1>23 DEF ForgetChildren, Entry
<1> QED
  BY <1>1, <1>2, <1>3, <1>4, <1>5, <1>6, <1>7, <1>8, <1>9, <1>10, <1>11, <1>12,
     <1>13, <1>14, <1>15, <1>16, <1>17, <1>18, <1>19, <1>20, <1>21, <1>22, <1>23
     DEF Next, UpdateCurrentStatus, Crawl

\* Every step keeps the maps in step.
LEMMA MapsStep == IInv /\ [Next]_vars => (NewMapAgrees /\ MapsInStep)'
<1> SUFFICES ASSUME IInv, [Next]_vars  PROVE (NewMapAgrees /\ MapsInStep)'
  OBVIOUS
<1> USE ThreadAssumption, DirAssumption
    DEF IInv, TypeInv, TypeOK, NewMapAgrees, MapsInStep, Control, Children, Thread,
        Goto, Update, Return, cached, maps, threads, crawl
<1>1. ASSUME NEW t \in Thread, CalculateOwn(t)  PROVE (NewMapAgrees /\ MapsInStep)'
  BY <1>1 DEF CalculateOwn
<1>2. ASSUME NEW t \in Thread, CalculateChildren(t)  PROVE (NewMapAgrees /\ MapsInStep)'
  BY <1>2 DEF CalculateChildren
<1>3. ASSUME NEW t \in Thread, Store(t)  PROVE (NewMapAgrees /\ MapsInStep)'
  BY <1>3 DEF Store
<1>4. ASSUME NEW t \in Thread, Tell(t)  PROVE (NewMapAgrees /\ MapsInStep)'
  BY <1>4 DEF Tell
<1>5. ASSUME NEW t \in Thread, Compare(t)  PROVE (NewMapAgrees /\ MapsInStep)'
  <2> DEFINE c == dir[t]
             Pending(e) == \E u \in Thread : pc[u] = "set" /\ dir[u] = e
             Pending2(e) == \E u \in Thread : pc'[u] = "set" /\ dir'[u] = e
  <2>1. c \in Dir /\ t \in Thread /\ pc[t] = "compare"
    BY <1>5 DEF Compare
  <2>2. /\ \A e \in Dir \ {c} : known'[e] = known[e] /\ knownTmp'[e] = knownTmp[e]
        /\ knownTmp'[c] = val[t] /\ reported' = reported
    BY <1>5, <2>1 DEF Compare
  <2>3. \/ pc' = [pc EXCEPT ![t] = "set"] /\ dir' = dir
        \/ /\ pc' = [pc EXCEPT ![t] = "idle"] /\ dir' = [dir EXCEPT ![t] = NoDir]
           /\ known'[c] = val[t]
    BY <1>5 DEF Compare
  <2>4. knownTmp'[c] = known'[c] \/ Pending2(c)
    BY <2>1, <2>2, <2>3
  <2>5. \A e \in Dir : Pending(e) => Pending2(e)
    BY <2>1, <2>3
  <2>6. NewMapAgrees'
    <3>1. pc'[Crawler] = "enum" => pc[Crawler] = "enum" /\ dir'[Crawler] = dir[Crawler]
      BY <2>1, <2>3
    <3>2. ASSUME pc[Crawler] = "enum", NEW e \in Children(dir[Crawler])
          PROVE  knownTmp'[e] \in {Absent, known'[e]} \/ Pending2(e)
      BY <3>2, <2>2, <2>4, <2>5
    <3> QED BY <3>1, <3>2
  <2>7. MapsInStep'
    <3>1. ASSUME NEW e \in reported
          PROVE  \/ knownTmp'[e] = known'[e]
                 \/ Pending2(e)
                 \/ known'[e] = Deleted /\ knownTmp'[e] = Absent
      <4>1. e \in Dir
        OBVIOUS
      <4>2. CASE e = c
        BY <4>2, <2>4
      <4>3. CASE e # c
        BY <4>1, <4>3, <2>2, <2>5
      <4> QED BY <4>2, <4>3
    <3> QED BY <3>1, <2>2
  <2> QED BY <2>6, <2>7
<1>6. ASSUME NEW t \in Thread, SetAndUpdate(t)  PROVE (NewMapAgrees /\ MapsInStep)'
  BY <1>6 DEF SetAndUpdate, SetChildStatus
<1>7. ASSUME NEW t \in Asker, NEW d \in Dir, Ask(t, d)  PROVE (NewMapAgrees /\ MapsInStep)'
  BY <1>7 DEF Ask
<1>8. ASSUME NEW d \in Dir, Expire(d)  PROVE (NewMapAgrees /\ MapsInStep)'
  BY <1>8 DEF Expire
<1>9. ASSUME NEW d \in Dir, ReadFile(d)  PROVE (NewMapAgrees /\ MapsInStep)'
  BY <1>9 DEF ReadFile, Start
<1>10. ASSUME NEW d \in Dir, ReadFileFails(d)  PROVE (NewMapAgrees /\ MapsInStep)'
  BY <1>10 DEF ReadFileFails, Start
<1>11. ASSUME NEW d \in Dir, BeginEnum(d)  PROVE (NewMapAgrees /\ MapsInStep)'
  BY <1>11 DEF BeginEnum, Start
<1>12. ASSUME NEW d \in Dir, KeepChildStatus(d)  PROVE (NewMapAgrees /\ MapsInStep)'
  BY <1>12 DEF KeepChildStatus
<1>13. ASSUME NEW d \in Dir, ChildDeleted(d)  PROVE (NewMapAgrees /\ MapsInStep)'
  BY <1>13 DEF ChildDeleted, SetChildStatus
<1>14. ASSUME SwapMaps  PROVE (NewMapAgrees /\ MapsInStep)'
  BY <1>14 DEF SwapMaps
<1>15. ASSUME RefreshMostImportant  PROVE (NewMapAgrees /\ MapsInStep)'
  BY <1>15 DEF RefreshMostImportant
<1>16. ASSUME EnumFails  PROVE (NewMapAgrees /\ MapsInStep)'
  BY <1>16 DEF EnumFails
<1>17. ASSUME ForgetOwn  PROVE (NewMapAgrees /\ MapsInStep)'
  BY <1>17 DEF ForgetOwn
<1>18. ASSUME ForgetFull  PROVE (NewMapAgrees /\ MapsInStep)'
  BY <1>18 DEF ForgetFull
<1>19. CASE UNCHANGED vars
  BY <1>19 DEF vars
<1>20. ASSUME ForgetFiles  PROVE (NewMapAgrees /\ MapsInStep)'
  BY <1>20 DEF ForgetFiles
<1>21. ASSUME StampOwn  PROVE (NewMapAgrees /\ MapsInStep)'
  BY <1>21 DEF StampOwn
<1>22. ASSUME NEW d \in Dir, Unversioned(d)  PROVE (NewMapAgrees /\ MapsInStep)'
  BY <1>22 DEF Unversioned, Start
<1>23. ASSUME ForgetChildren  PROVE (NewMapAgrees /\ MapsInStep)'
  BY <1>23 DEF ForgetChildren
<1> QED
  BY <1>1, <1>2, <1>3, <1>4, <1>5, <1>6, <1>7, <1>8, <1>9, <1>10, <1>11, <1>12,
     <1>13, <1>14, <1>15, <1>16, <1>17, <1>18, <1>19, <1>20, <1>21, <1>22, <1>23
     DEF Next, UpdateCurrentStatus, Crawl

\* The inductive invariant holds in every behaviour.
LEMMA Invariance == Spec => []IInv
<1>1. IInv /\ [Next]_vars => IInv'
  BY TypeStep, MapsStep DEF IInv
<1> QED BY InitInv, <1>1, PTL DEF Spec

\* For every tree of directories and every number of threads, statuses stay in their
\* range and an update always works on a directory (CachedDirectory.cpp:513-619).
THEOREM Types == Spec => []TypeOK
<1>1. IInv => TypeOK
  BY DEF IInv, TypeInv
<1> QED BY Invariance, <1>1, PTL

\* For every tree of directories and every number of threads that answer clients while
\* the crawler reads, the map that is being built loses the status of no child that
\* was reported, but for a deleted submodule that is there again
\* (CachedDirectory.cpp:580-619 against 396-419).
THEOREM MapsKept == Spec => []MapsInStep
<1>1. IInv => MapsInStep
  BY DEF IInv
<1> QED BY Invariance, <1>1, PTL
===============================================================================
