--------------------------- MODULE CacheServerProofs ---------------------------
(***************************************************************************)
(* Two parts of TGitCache that share no variable: the directory watcher    *)
(* (Spec) and the life of the process with its clients (ProcessSpec).  For *)
(* any directories: the worker has the information it works on, and no     *)
(* watch is deaf.  For any number of clients and pipe instances: nobody    *)
(* has read access while the cache is cleared, and a torn file crashes one *)
(* start at most.                                                          *)
(***************************************************************************)
EXTENDS DirectoryWatcher, CacheProcess, TLAPS

-------------------------------------------------------------------------------
(* The directory watcher.                                                  *)

\* What the system reports next is about information in watchInfoMap: whoever clears it
\* away closes the port with it.
Known == armed \cup packets \subseteq map

\* The worker has just taken the completion of a watch that neither reads nor has one, and
\* reads again or closes it.
Served(d) == d = pdi /\ pc \in {"got", "failed", "closePort"}

NoneDeaf == \A d \in map \cap open \cap attached : d \in armed \cup packets \/ Served(d)

WatcherInv == Known /\ InfoAlive /\ NoneDeaf

\* Every step of the watcher and of those around it keeps the invariant.
LEMMA WatcherStep == WatcherInv /\ [Next]_vars => WatcherInv'
<1> SUFFICES ASSUME WatcherInv, [Next]_vars  PROVE WatcherInv'
  OBVIOUS
<1> USE DEF WatcherInv, Known, Served, NoneDeaf, InfoAlive,
            At, watch, worker, outside
<1> USE DEF ClosePort, ClearInfoMap, ClearAndCleanup,
            Interrupted
<1>1. CASE Begin
  BY <1>1 DEF Begin
<1>2. CASE NothingCame
  BY <1>2 DEF NothingCame
<1>3. CASE GetQueuedCompletionStatus
  BY <1>3 DEF GetQueuedCompletionStatus
<1>4. CASE Collect
  BY <1>4 DEF Collect
<1>5. CASE Report
  BY <1>5 DEF Report
<1>6. CASE CloseFailed
  BY <1>6 DEF CloseFailed
<1>7. CASE Restart
  BY <1>7 DEF Restart
<1>8. CASE SetupDone
  BY <1>8 DEF SetupDone
<1>9. CASE OpenDir
  BY <1>9 DEF OpenDir
<1>10. CASE OpenDirFails
  BY <1>10 DEF OpenDirFails
<1>11. CASE Register
  BY <1>11 DEF Register
<1>12. CASE Disturbed
  BY <1>12 DEF Disturbed
<1>13. CASE WatchDir
  BY <1>13 DEF WatchDir
<1>14. CASE WatchDirFails
  BY <1>14 DEF WatchDirFails
<1>15. CASE DeviceGuard
  BY <1>15 DEF DeviceGuard
<1>16. CASE CloseInfoMap
  BY <1>16 DEF CloseInfoMap
<1>17. CASE DeviceEvent
  BY <1>17 DEF DeviceEvent
<1>18. CASE CommandEnters
  BY <1>18 DEF CommandEnters
<1>19. CASE CloseHandlesForPath
  BY <1>19 DEF CloseHandlesForPath
<1>20. CASE CrawlerEnters
  BY <1>20 DEF CrawlerEnters
<1>21. CASE CrawlerAdds
  BY <1>21 DEF CrawlerAdds, AddPath
<1>22. CASE BlockOver
  BY <1>22 DEF BlockOver
<1>23. ASSUME NEW d \in Dir, Change(d)  PROVE WatcherInv'
  BY <1>23 DEF Change
<1>24. ASSUME NEW d \in Dir, Vanish(d)  PROVE WatcherInv'
  BY <1>24 DEF Vanish
<1>25. CASE UNCHANGED vars
  BY <1>25 DEF vars
<1> QED
  BY <1>1, <1>2, <1>3, <1>4, <1>5, <1>6, <1>7, <1>8, <1>9, <1>10, <1>11, <1>12, <1>13,
     <1>14, <1>15, <1>16, <1>17, <1>18, <1>19, <1>20, <1>21, <1>22, <1>23, <1>24, <1>25
     DEF Next, Worker, Ui

\* Nothing is watched at first, and every step keeps the invariant.
THEOREM WatcherInvariance == Spec => []WatcherInv
<1>1. Init => WatcherInv
  BY DEF Init, WatcherInv, Known, NoneDeaf, InfoAlive
<1> QED BY <1>1, WatcherStep, PTL DEF Spec

\* The worker does not work on deleted information, whoever clears the watches meanwhile
\* (DirectoryWatcher.cpp:402-411), but for the use after line 516.
THEOREM WatcherInfoAlive == Spec => []InfoAlive
<1>1. WatcherInv => InfoAlive
  BY DEF WatcherInv
<1> QED BY WatcherInvariance, <1>1, PTL

\* While the worker waits at its port every watch that belongs to it has a pending read or
\* a completion (DirectoryWatcher.cpp:494-504).
THEOREM WatcherListens == Spec => []WatchesListen
<1>1. WatcherInv => WatchesListen
  BY DEF WatcherInv, NoneDeaf, Served, WatchesListen
<1> QED BY WatcherInvariance, <1>1, PTL

-------------------------------------------------------------------------------
(* The process and its clients.                                            *)

\* The window procedure has write access to the cache while it saves it.
SavedUnread == proc = "saving" => Readers = {}

\* The cache is there from the start until it has been saved.
CacheThere == proc \in {"up", "saving"} => cache = "there"

\* Each torn file there is, and each copy of one that is about to be read, is counted; the
\* original is gone before its copy is read.
TornCounted ==
  /\ torn \in Int /\ torn >= 0
  /\ disk = "torn" /\ ~Incomplete => torn >= 1
  /\ copy = "torn" /\ proc \in {"copied", "load"} => torn >= 1
  /\ proc = "load" => disk = "sound"

\* Where the thread of an instance can be.
Instances == st \in [Conn -> {"free", "connected", "starting"} \cup Counted]

ProcessInv == Instances /\ SavedUnread /\ CacheThere /\ ClearedUnread /\ TornCounted

\* A thread that replies or mishaps leaves the cache alone.
LEMMA WriteFileFacts ==
  ASSUME Instances, NEW k \in Conn, NEW result, WriteFile(k, result)
  PROVE  /\ st' \in {[st EXCEPT ![k] = "free"], [st EXCEPT ![k] = "read"]}
         /\ UNCHANGED <<proc, cache, disk, copy, torn>>
<1>1. CASE Leave(k)
  BY <1>1 DEF Leave, Goto
<1>2. CASE Loop(k)
  BY <1>1, <1>2 DEF Loop, Goto, server
<1> QED BY <1>1, <1>2 DEF WriteFile

\* Every step of the process, its threads and its clients keeps the invariant.
LEMMA ProcessStep == ProcessInv /\ [ProcessNext]_processVars => ProcessInv'
<1> SUFFICES ASSUME ProcessInv, [ProcessNext]_processVars  PROVE ProcessInv'
  OBVIOUS
<1> USE DEF ProcessInv, Instances, Counted, SavedUnread, CacheThere, TornCounted, ClearedUnread,
            Readers, server, pipe, client, Hangs, Ends,
            Serves, bRun, Locked, Incomplete, Goto, Leave,
            Loop, Connect
<1>1. CASE CopyFile
  BY <1>1 DEF CopyFile
<1>2. CASE DeleteFile
  BY <1>2 DEF DeleteFile
<1>3. CASE Load
  BY <1>3 DEF Load
<1>4. CASE Close
  BY <1>4 DEF Close
<1>5. CASE SaveCache
  BY <1>5 DEF SaveCache
<1>6. CASE FailedCloses
  BY <1>6 DEF FailedCloses
<1>7. CASE Destroy
  BY <1>7 DEF Destroy
<1>8. CASE Exit
  BY <1>8 DEF Exit
<1>9. CASE WantsClose
  BY <1>9 DEF WantsClose
<1>10. CASE Kill
  BY <1>10 DEF Kill
<1>11. CASE Hang
  BY <1>11 DEF Hang
<1>12. CASE DialogClosed
  BY <1>12 DEF DialogClosed
<1>13. CASE SaveCacheFails
  BY <1>13 DEF SaveCacheFails
<1>14. CASE CreateNamedPipe
  BY <1>14 DEF CreateNamedPipe
<1>15. ASSUME NEW k \in Conn, CreateThread(k)  PROVE ProcessInv'
  BY <1>15 DEF CreateThread
<1>16. ASSUME NEW k \in Conn, CreateThreadFails(k)  PROVE ProcessInv'
  BY <1>16 DEF CreateThreadFails
<1>17. ASSUME NEW k \in Conn, InstanceThread(k)  PROVE ProcessInv'
  BY <1>17 DEF InstanceThread
<1>18. ASSUME NEW k \in Conn, ReadFile(k)  PROVE ProcessInv'
  BY <1>18, WriteFileFacts DEF ReadFile
<1>19. ASSUME NEW k \in Conn, ReadLock(k)  PROVE ProcessInv'
  BY <1>19 DEF ReadLock
<1>20. ASSUME NEW k \in Conn, ReadLockTimesOut(k)  PROVE ProcessInv'
  BY <1>20, WriteFileFacts DEF ReadLockTimesOut
<1>21. ASSUME NEW k \in Conn, ReadFreed(k)  PROVE ProcessInv'
  BY <1>21 DEF ReadFreed
<1>22. ASSUME NEW k \in Conn, GetStatusForPath(k)  PROVE ProcessInv'
  BY <1>22, WriteFileFacts DEF GetStatusForPath
<1>23. ASSUME NEW c \in Client, GetStatusFromRemoteCache(c)  PROVE ProcessInv'
  BY <1>23 DEF GetStatusFromRemoteCache
<1>24. ASSUME NEW c \in Client, Open(c)  PROVE ProcessInv'
  BY <1>24 DEF Open
<1>25. ASSUME NEW c \in Client, OpenFails(c)  PROVE ProcessInv'
  BY <1>25 DEF OpenFails
<1>26. ASSUME NEW c \in Client, RunTGitCacheProcess(c)  PROVE ProcessInv'
  BY <1>26 DEF RunTGitCacheProcess
<1>27. ASSUME NEW c \in Client, OpenStarted(c)  PROVE ProcessInv'
  BY <1>27 DEF OpenStarted
<1>28. ASSUME NEW c \in Client, StartTimesOut(c)  PROVE ProcessInv'
  BY <1>28 DEF StartTimesOut
<1>29. ASSUME NEW c \in Client, TransactionFails(c)  PROVE ProcessInv'
  BY <1>29 DEF TransactionFails
<1>30. ASSUME NEW c \in Client, TransactionTimesOut(c)  PROVE ProcessInv'
  BY <1>30 DEF TransactionTimesOut
<1>31. ASSUME NEW c \in Client, BackoffOver(c)  PROVE ProcessInv'
  BY <1>31 DEF BackoffOver
<1>32. ASSUME NEW c \in Client, Unload(c)  PROVE ProcessInv'
  BY <1>32 DEF Unload
<1>33. CASE UNCHANGED processVars
  BY <1>33 DEF processVars
<1>34. CASE DeleteIncomplete
  BY <1>34 DEF DeleteIncomplete
<1>35. CASE ClearCache
  BY <1>35 DEF ClearCache
<1>36. CASE Free
  BY <1>36 DEF Free
<1> QED
  BY <1>1, <1>2, <1>3, <1>4, <1>5, <1>6, <1>7, <1>8, <1>9, <1>10, <1>11, <1>12, <1>13,
     <1>14, <1>15, <1>16, <1>17, <1>18, <1>19, <1>20, <1>21, <1>22, <1>23, <1>24, <1>25,
     <1>26, <1>27, <1>28, <1>29, <1>30, <1>31, <1>32, <1>33, <1>34, <1>35, <1>36
     DEF ProcessNext, Process, PipeThread, Thread, Inside,
         Environment

\* No thread reads the cache and no torn file is left out at first, and every step keeps
\* the invariant.
THEOREM ProcessInvariance == ProcessSpec => []ProcessInv
<1>1. ProcessInit => ProcessInv
  BY DEF ProcessInit, ProcessInv, Instances, Counted, SavedUnread, CacheThere, TornCounted,
         ClearedUnread, Readers
<1> QED BY <1>1, ProcessStep, PTL DEF ProcessSpec

\* However many threads read the cache, none has read access while its directories are
\* deleted, whoever destroys it (GITStatusCache.cpp:192, 203, 234-238).
THEOREM ProcessClearedUnread == ProcessSpec => []ClearedUnread
<1>1. ProcessInv => ClearedUnread
  BY DEF ProcessInv
<1> QED BY ProcessInvariance, <1>1, PTL

\* There are no more starts that crash on a torn file than torn files
\* (GITStatusCache.cpp:69-74).
THEOREM ProcessCrashesOnce == ProcessSpec => []CrashesOnce
<1>1. ProcessInv => CrashesOnce
  BY DEF ProcessInv, TornCounted, CrashesOnce
<1> QED BY ProcessInvariance, <1>1, PTL

\* The types but for the counters.
PlaceTypes ==
  /\ proc \in {"none", "create", "copied", "load", "up", "saving", "failed", "unsaved",
               "saved", "exit", "hung"}
  /\ close \in BOOLEAN
  /\ listening \in {"no", "yes", "dead"}
  /\ cache \in {"none", "there", "clearing", "cleared", "freed"}
  /\ disk \in {"sound", "torn"} /\ copy \in {"sound", "torn"}
  /\ st \in [Conn -> {"free", "connected", "starting"} \cup Counted]
  /\ call \in [Client -> {"idle", "answered", "open", "start", "sent"}]
  /\ link \in [Client -> Conn \cup {NoConn}]
  /\ backoff \in [Client -> BOOLEAN]

\* A client connects to an instance that nobody uses.
LEMMA ConnectTypes ==
  ASSUME ProcessTypeOK, NEW c \in Client, Connect(c)
  PROVE  /\ st' \in [Conn -> {"free", "connected", "starting"} \cup Counted]
         /\ call' \in [Client -> {"idle", "answered", "open", "start", "sent"}]
         /\ link' \in [Client -> Conn \cup {NoConn}]
         /\ listening' = "no"
<1> DEFINE k == CHOOSE j \in Unused : TRUE
<1>1. k \in Conn
  BY DEF Connect, CanConnect, Unused
<1>2. /\ st' = [st EXCEPT ![k] = "connected"] /\ link' = [link EXCEPT ![c] = k]
      /\ call' = [call EXCEPT ![c] = "sent"] /\ listening' = "no"
  BY DEF Connect, Goto, Move
<1> HIDE DEF k
<1> QED BY <1>1, <1>2 DEF ProcessTypeOK

\* Every step of the process, its threads and its clients keeps the types.
LEMMA ProcessTypesStep ==
  ASSUME MaxMishaps \in Nat
  PROVE  ProcessTypeOK /\ [ProcessNext]_processVars => ProcessTypeOK'
<1> SUFFICES ASSUME ProcessTypeOK, [ProcessNext]_processVars  PROVE ProcessTypeOK'
  OBVIOUS
<1> USE DEF ProcessTypeOK, Counted, Mishap, Move, ClosePipe,
            server, pipe, client, Hangs, Ends,
            Serves, bRun, Locked, Incomplete, Goto, Leave,
            Loop, WriteFile
<1>1. CASE CopyFile
  BY <1>1 DEF CopyFile
<1>2. CASE DeleteFile
  BY <1>2 DEF DeleteFile
<1>3. CASE Load
  <2>1. CASE proc' = "up"
    BY <1>3, <2>1 DEF Load
  <2>2. CASE proc' = "hung"
    <3>1. PlaceTypes'
      BY <1>3, <2>2 DEF Load, PlaceTypes
    <3>2. torn' \in Int /\ mishaps' \in 0 .. MaxMishaps
      BY <1>3, <2>2 DEF Load
    <3> QED BY <3>1, <3>2 DEF PlaceTypes, ProcessTypeOK
  <2> QED BY <1>3, <2>1, <2>2 DEF Load
<1>4. CASE Close
  BY <1>4 DEF Close
<1>5. CASE SaveCache
  BY <1>5 DEF SaveCache
<1>6. CASE FailedCloses
  BY <1>6 DEF FailedCloses
<1>7. CASE Destroy
  BY <1>7 DEF Destroy
<1>8. CASE Exit
  BY <1>8 DEF Exit
<1>9. CASE WantsClose
  BY <1>9 DEF WantsClose
<1>10. CASE Kill
  <2>1. torn' \in Int /\ mishaps' \in 0 .. MaxMishaps
    BY <1>10 DEF Kill
  <2>2. PlaceTypes'
    BY <1>10 DEF Kill, PlaceTypes
  <2> QED BY <2>1, <2>2 DEF PlaceTypes, ProcessTypeOK
<1>11. CASE Hang
  <2>1. torn' \in Int /\ mishaps' \in 0 .. MaxMishaps
    BY <1>11 DEF Hang
  <2>2. st' \in [Conn -> {"free", "connected", "starting"} \cup Counted]
    BY <1>11 DEF Hang
  <2>3. PlaceTypes'
    BY <1>11, <2>2 DEF Hang, PlaceTypes
  <2> QED BY <2>1, <2>3 DEF PlaceTypes, ProcessTypeOK
<1>12. CASE DialogClosed
  BY <1>12 DEF DialogClosed
<1>13. CASE SaveCacheFails
  BY <1>13 DEF SaveCacheFails
<1>14. CASE CreateNamedPipe
  BY <1>14 DEF CreateNamedPipe
<1>15. ASSUME NEW k \in Conn, CreateThread(k)  PROVE ProcessTypeOK'
  BY <1>15 DEF CreateThread
<1>16. ASSUME NEW k \in Conn, CreateThreadFails(k)  PROVE ProcessTypeOK'
  BY <1>16 DEF CreateThreadFails
<1>17. ASSUME NEW k \in Conn, InstanceThread(k)  PROVE ProcessTypeOK'
  BY <1>17 DEF InstanceThread
<1>18. ASSUME NEW k \in Conn, ReadFile(k)  PROVE ProcessTypeOK'
  BY <1>18 DEF ReadFile
<1>19. ASSUME NEW k \in Conn, ReadLock(k)  PROVE ProcessTypeOK'
  BY <1>19 DEF ReadLock
<1>20. ASSUME NEW k \in Conn, ReadLockTimesOut(k)  PROVE ProcessTypeOK'
  BY <1>20 DEF ReadLockTimesOut
<1>21. ASSUME NEW k \in Conn, ReadFreed(k)  PROVE ProcessTypeOK'
  <2>1. torn' \in Int /\ mishaps' \in 0 .. MaxMishaps
    BY <1>21 DEF ReadFreed
  <2>2. st' \in [Conn -> {"free", "connected", "starting"} \cup Counted]
    BY <1>21 DEF ReadFreed
  <2>3. PlaceTypes'
    BY <1>21, <2>2 DEF ReadFreed, PlaceTypes
  <2> QED BY <2>1, <2>3 DEF PlaceTypes, ProcessTypeOK
<1>22. ASSUME NEW k \in Conn, GetStatusForPath(k)  PROVE ProcessTypeOK'
  BY <1>22 DEF GetStatusForPath
<1>23. ASSUME NEW c \in Client, GetStatusFromRemoteCache(c)  PROVE ProcessTypeOK'
  BY <1>23 DEF GetStatusFromRemoteCache
<1>24. ASSUME NEW c \in Client, Open(c)  PROVE ProcessTypeOK'
  BY <1>24, ConnectTypes DEF Open
<1>25. ASSUME NEW c \in Client, OpenFails(c)  PROVE ProcessTypeOK'
  BY <1>25 DEF OpenFails
<1>26. ASSUME NEW c \in Client, RunTGitCacheProcess(c)  PROVE ProcessTypeOK'
  BY <1>26 DEF RunTGitCacheProcess
<1>27. ASSUME NEW c \in Client, OpenStarted(c)  PROVE ProcessTypeOK'
  <2>1. backoff' \in [Client -> BOOLEAN]
    <3>1. backoff' = [backoff EXCEPT ![c] = TRUE] /\ backoff \in [Client -> BOOLEAN]
      BY <1>27 DEF OpenStarted
    <3> QED BY <3>1
  <2> QED BY <1>27, <2>1, ConnectTypes DEF OpenStarted
<1>28. ASSUME NEW c \in Client, StartTimesOut(c)  PROVE ProcessTypeOK'
  BY <1>28 DEF StartTimesOut
<1>29. ASSUME NEW c \in Client, TransactionFails(c)  PROVE ProcessTypeOK'
  BY <1>29 DEF TransactionFails
<1>30. ASSUME NEW c \in Client, TransactionTimesOut(c)  PROVE ProcessTypeOK'
  BY <1>30 DEF TransactionTimesOut
<1>31. ASSUME NEW c \in Client, BackoffOver(c)  PROVE ProcessTypeOK'
  BY <1>31 DEF BackoffOver
<1>32. ASSUME NEW c \in Client, Unload(c)  PROVE ProcessTypeOK'
  BY <1>32 DEF Unload
<1>33. CASE UNCHANGED processVars
  BY <1>33 DEF processVars
<1>34. CASE DeleteIncomplete
  BY <1>34 DEF DeleteIncomplete
<1>35. CASE ClearCache
  BY <1>35 DEF ClearCache
<1>36. CASE Free
  BY <1>36 DEF Free
<1> QED
  BY <1>1, <1>2, <1>3, <1>4, <1>5, <1>6, <1>7, <1>8, <1>9, <1>10, <1>11, <1>12, <1>13,
     <1>14, <1>15, <1>16, <1>17, <1>18, <1>19, <1>20, <1>21, <1>22, <1>23, <1>24, <1>25,
     <1>26, <1>27, <1>28, <1>29, <1>30, <1>31, <1>32, <1>33, <1>34, <1>35, <1>36
     DEF ProcessNext, Process, PipeThread, Thread, Inside,
         Environment

\* The members and the clients keep their types; a client's pipe is one of the instances.
THEOREM ProcessTypes ==
  ASSUME MaxMishaps \in Nat
  PROVE  ProcessSpec => []ProcessTypeOK
<1>1. ProcessInit => ProcessTypeOK
  <2> SUFFICES ASSUME ProcessInit  PROVE ProcessTypeOK
    OBVIOUS
  <2>1. torn \in Int
    BY DEF ProcessInit
  <2>2. PlaceTypes
    BY DEF ProcessInit, PlaceTypes
  <2>3. mishaps \in 0 .. MaxMishaps
    BY DEF ProcessInit
  <2> QED BY <2>1, <2>2, <2>3 DEF PlaceTypes, ProcessTypeOK
<1> QED BY <1>1, ProcessTypesStep, PTL DEF ProcessSpec
===============================================================================
