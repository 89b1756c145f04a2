----------------------------- MODULE JobScheduler -----------------------------
(***************************************************************************)
(* Job schedulers and the pool of threads they share                       *)
(* (AsyncFramework/JobScheduler.cpp).  A job is only counted here; what    *)
(* happens to it is AsyncJob.  Every step is one critical section, and a   *)
(* scheduler's mutex that is held across the mutex of the pool or of       *)
(* another scheduler is modelled as such.                                  *)
(***************************************************************************)
EXTENDS Integers, Sequences, FiniteSets

CONSTANTS Scheduler, NoScheduler,
          Info,            \* SThreadInfo objects, each with its thread
          Client, Nobody,
          threadCount, sharedThreads,   \* arguments of the constructor
          maxCount,        \* of the pool
          MaxJobs,         \* bound: jobs in the queue of each scheduler
          MaxStops         \* bound: nested calls of Stop

Thread == Client \cup Info

ASSUME SchedulerAssumption == NoScheduler \notin Scheduler
ASSUME ThreadAssumption == Client \cap Info = {} /\ Nobody \notin Thread
ASSUME CountAssumption == /\ threadCount \in [Scheduler -> Nat]
                          /\ sharedThreads \in [Scheduler -> Nat]
                          /\ maxCount \in Nat /\ MaxJobs \in [Scheduler -> Nat] /\ MaxStops \in Nat

VARIABLES
    pool, allocCount, poolToCreate, starving,            \* CThreadPool
    aggressive, mutex, queue, emptyEvent,                \* CJobScheduler
    running, suspended, toCreate, fromShared, unused, starved, stopCount,  \* SThreads
    owner,    \* SThreadInfo::owner
    at,       \* where a thread is
    serves,   \* the scheduler a thread acts for, whose mutex it holds or wants
    thrown    \* history: what emptied the queue was a waiter that threw jobs away,
              \* with no thread left to set emptyEvent

poolVars == <<pool, allocCount, poolToCreate, starving>>
lists    == <<running, suspended, toCreate, fromShared, unused>>
jobs     == <<queue, emptyEvent, thrown, stopCount>>
threads  == <<owner, at, serves>>
vars     == <<poolVars, lists, jobs, threads, aggressive, mutex, starved>>

(*  worker:  "none"    does not exist        "assign"   at AssignJob             *)
(*           "asleep"  suspended             "run"      executes a job           *)
(*           "stop"    StopStarvation        "release"  about to return itself   *)
(*           "select"  SelectStarving        "notify"   at ThreadAvailable       *)
(*           "offer"   in ThreadAvailable                                        *)
(*  client:  "idle"    "wait" for emptyEvent "schedule", "resume" allocate       *)
(*  both:    "starve"  about to register as starving                             *)
Control == {"none", "asleep", "assign", "run", "stop", "release", "select", "notify",
            "offer", "idle", "wait", "schedule", "resume", "starve"}

Init == /\ pool = {} /\ allocCount = 0 /\ poolToCreate = maxCount /\ starving = <<>>
        /\ aggressive \in SUBSET Scheduler
        /\ mutex = [s \in Scheduler |-> Nobody]
        /\ queue = [s \in Scheduler |-> 0]
        /\ emptyEvent = [s \in Scheduler |-> FALSE]
        /\ running = [s \in Scheduler |-> {}]
        /\ suspended = [s \in Scheduler |-> {}]
        /\ toCreate = threadCount
        /\ fromShared = [s \in Scheduler |-> 0]
        /\ unused = [s \in Scheduler |-> threadCount[s] + sharedThreads[s]]
        /\ starved = [s \in Scheduler |-> FALSE]
        /\ stopCount = [s \in Scheduler |-> 0]
        /\ owner = [i \in Info |-> NoScheduler]
        /\ at = [t \in Thread |-> IF t \in Client THEN "idle" ELSE "none"]
        /\ serves = [t \in Thread |-> NoScheduler]
        /\ thrown = [s \in Scheduler |-> FALSE]

Add(f, s, n) == [f EXCEPT ![s] = @ + n]
Free(s)      == mutex[s] = Nobody
Active(s)    == Cardinality(running[s])          \* threads.runningCount
Goto(t, l)   == at' = [at EXCEPT ![t] = l]
Serve(t, s)  == serves' = [serves EXCEPT ![t] = s]
Lock(t, s)   == mutex' = [mutex EXCEPT ![s] = t]
Unlock(s)    == mutex' = [mutex EXCEPT ![s] = Nobody]

\* The other scheduler whose mutex a thread holds while it looks for one to serve.
Home(i) == CHOOSE s \in Scheduler : mutex[s] = i /\ s # serves[i]

-------------------------------------------------------------------------------
(* Faults for the mutation runs.                                           *)

\* The waiting threads are not told of the last job's end.
GoesIdleSilent(s, i) ==
    /\ running' = [running EXCEPT ![s] = @ \ {i}]
    /\ unused' = Add(unused, s, 1)
    /\ UNCHANGED <<emptyEvent, thrown>>

\* A thread goes to the local pool though the shared one is owed a thread.
ParkFirst(i) ==
    /\ at[i] = "assign" /\ Free(owner[i])
    /\ LET s == owner[i] IN
         /\ queue[s] = 0 \/ stopCount[s] # 0
         /\ s \notin aggressive
         /\ running' = [running EXCEPT ![s] = @ \ {i}]
         /\ unused' = Add(unused, s, 1)
         /\ emptyEvent' = IF running[s] = {i} THEN [emptyEvent EXCEPT ![s] = TRUE]
                          ELSE emptyEvent
         /\ suspended' = [suspended EXCEPT ![s] = @ \cup {i}]
    /\ Goto(i, "asleep")
    /\ UNCHANGED <<poolVars, toCreate, fromShared, queue, thrown, stopCount, owner, serves,
                   aggressive, mutex, starved>>

\* A scheduler is still registered as starving when it returns a thread.
ReturnStarving(i) ==
    /\ at[i] = "assign" /\ Free(owner[i])
    /\ LET s == owner[i] IN
         /\ queue[s] = 0 \/ stopCount[s] # 0
         /\ fromShared[s] > 0
         /\ Lock(i, s) /\ Serve(i, s) /\ Goto(i, "release")
    /\ UNCHANGED <<poolVars, lists, jobs, owner, aggressive, starved>>

\* A thread that is handed out stays in the pool.
TryAllocPeeks(i) ==
    /\ allocCount' = allocCount + 1
    /\ \/ i \in pool /\ UNCHANGED <<pool, poolToCreate>>
       \/ /\ pool = {} /\ poolToCreate > 0 /\ at[i] = "none"
          /\ poolToCreate' = poolToCreate - 1
          /\ UNCHANGED pool

\* A thread that is created is not counted.
TryAllocUncounted(i) ==
    /\ \/ /\ i \in pool
          /\ pool' = pool \ {i} /\ allocCount' = allocCount + 1 /\ UNCHANGED poolToCreate
       \/ /\ pool = {} /\ poolToCreate > 0 /\ at[i] = "none"
          /\ poolToCreate' = poolToCreate - 1
          /\ UNCHANGED <<pool, allocCount>>

\* ThreadAvailable leaves the scheduler starving.
ThreadAvailableKeepsFlag(i) ==
    /\ at[i] = "notify" /\ Free(serves[i])
    /\ Lock(i, serves[i]) /\ Goto(i, "offer")
    /\ UNCHANGED <<poolVars, lists, jobs, owner, serves, aggressive, starved>>

-------------------------------------------------------------------------------
(* ThreadFunc and AssignJob.                                               *)

\* The bookkeeping of AssignJob for a thread that goes idle.
GoesIdle(s, i) ==
    /\ running' = [running EXCEPT ![s] = @ \ {i}]
    /\ unused' = Add(unused, s, 1)
    /\ IF running[s] = {i}
       THEN /\ emptyEvent' = [emptyEvent EXCEPT ![s] = TRUE]
            /\ thrown' = [thrown EXCEPT ![s] = FALSE]
       ELSE UNCHANGED <<emptyEvent, thrown>>

TakeJob(i) ==
    /\ at[i] = "assign" /\ Free(owner[i])
    /\ queue[owner[i]] > 0 /\ stopCount[owner[i]] = 0
    /\ queue' = Add(queue, owner[i], -1)
    /\ Goto(i, "run")
    /\ UNCHANGED <<poolVars, lists, emptyEvent, thrown, stopCount, owner, serves, aggressive,
                   mutex, starved>>

RunJob(i) ==
    /\ at[i] = "run"
    /\ Goto(i, "assign")
    /\ UNCHANGED <<poolVars, lists, jobs, owner, serves, aggressive, mutex, starved>>

Idles(i) == /\ at[i] = "assign" /\ Free(owner[i])
            /\ queue[owner[i]] = 0 \/ stopCount[owner[i]] # 0

Park(i) ==
    /\ Idles(i) /\ owner[i] \notin aggressive /\ fromShared[owner[i]] = 0
    /\ GoesIdle(owner[i], i)
    /\ suspended' = [suspended EXCEPT ![owner[i]] = @ \cup {i}]
    /\ Goto(i, "asleep")
    /\ UNCHANGED <<poolVars, toCreate, fromShared, queue, stopCount, owner, serves,
                   aggressive, mutex, starved>>

Terminate(i) ==
    /\ Idles(i) /\ owner[i] \in aggressive /\ fromShared[owner[i]] = 0
    /\ GoesIdle(owner[i], i)
    /\ toCreate' = Add(toCreate, owner[i], 1)
    /\ owner' = [owner EXCEPT ![i] = NoScheduler]
    /\ Goto(i, "none")
    /\ UNCHANGED <<poolVars, suspended, fromShared, queue, stopCount, serves,
                   aggressive, mutex, starved>>

\* The scheduler is in debt of the shared pool.
Return(i) ==
    /\ Idles(i) /\ fromShared[owner[i]] > 0
    /\ Lock(i, owner[i]) /\ Serve(i, owner[i])
    /\ Goto(i, IF starved[owner[i]] THEN "stop" ELSE "release")
    /\ UNCHANGED <<poolVars, lists, jobs, owner, aggressive, starved>>

\* The loop ends only once the scheduler is found in the list, where it is once.
StopStarvation(i) ==
    /\ at[i] = "stop"
    /\ \E n \in DOMAIN starving :
           /\ starving[n] = serves[i]
           /\ starving' = SubSeq(starving, 1, n - 1) \o SubSeq(starving, n + 1, Len(starving))
    /\ starved' = [starved EXCEPT ![serves[i]] = FALSE]
    /\ Goto(i, "release")
    /\ UNCHANGED <<pool, allocCount, poolToCreate, lists, jobs, owner, serves,
                   aggressive, mutex>>

Disowned(s, i) == owner' = [owner EXCEPT ![i] = NoScheduler]

\* Any idle thread settles the debt, not only one that was borrowed.
Release(i) ==
    /\ at[i] = "release"
    /\ Disowned(serves[i], i) /\ GoesIdle(serves[i], i)
    /\ fromShared' = Add(fromShared, serves[i], -1)
    /\ pool' = pool \cup {i} /\ allocCount' = allocCount - 1
    /\ Serve(i, NoScheduler)
    /\ IF starving = <<>>
       THEN Goto(i, "asleep") /\ Unlock(serves[i])
       ELSE Goto(i, "select") /\ UNCHANGED mutex
    /\ UNCHANGED <<poolToCreate, starving, suspended, toCreate, queue, stopCount,
                   aggressive, starved>>

\* By now another scheduler may have taken the thread itself from the pool.
SelectStarving(i) ==
    /\ at[i] = "select"
    /\ IF starving = <<>> \/ pool = {}
       THEN /\ Unlock(Home(i))
            /\ Goto(i, IF owner[i] = NoScheduler THEN "asleep" ELSE "assign")
            /\ UNCHANGED <<starving, serves>>
       ELSE /\ Serve(i, Head(starving)) /\ starving' = Tail(starving)
            /\ Goto(i, "notify")
            /\ UNCHANGED mutex
    /\ UNCHANGED <<pool, allocCount, poolToCreate, lists, jobs, owner, aggressive, starved>>

ThreadAvailable(i) ==
    /\ at[i] = "notify" /\ Free(serves[i])
    /\ Lock(i, serves[i]) /\ Goto(i, "offer")
    /\ starved' = [starved EXCEPT ![serves[i]] = FALSE]
    /\ UNCHANGED <<poolVars, lists, jobs, owner, serves, aggressive>>

-------------------------------------------------------------------------------
(* AllocateThread, for Schedule (once), for Resume and ThreadAvailable (as *)
(* long as their conditions hold).                                         *)

WantsThread(t) ==
    LET s == serves[t] IN
    CASE at[t] = "schedule" -> TRUE
      [] at[t] = "resume" ->
             \/ queue[s] > Active(s) /\ s \in aggressive
             \/ queue[s] > 4 * Active(s) /\ unused[s] > 0
      [] at[t] = "offer" ->
             /\ stopCount[s] # 0 /\ queue[s] > 2 * Active(s)
             /\ suspended[s] = {} /\ toCreate[s] = 0
             /\ fromShared[s] < sharedThreads[s]
      [] OTHER -> FALSE

\* The end of the call: the scheduler's mutex is left.
Leave(t) == /\ Unlock(serves[t]) /\ Serve(t, NoScheduler)

After(t) == IF t \in Client THEN "idle" ELSE "select"

\* Thread i runs for the scheduler that t serves, and t goes on or is done.
Started(t, i) ==
    LET s == serves[t] IN
    /\ running' = [running EXCEPT ![s] = @ \cup {i}]
    /\ unused' = Add(unused, s, -1)
    /\ owner' = [owner EXCEPT ![i] = s]
    /\ at' = [at EXCEPT ![i] = IF @ \in {"none", "asleep"} THEN "assign" ELSE @,
                        ![t] = IF @ = "schedule" THEN "idle" ELSE @]
    /\ IF at[t] = "schedule" THEN Leave(t) ELSE UNCHANGED <<mutex, serves>>

ResumePrivate(t) ==
    /\ at[t] \in {"schedule", "resume"} /\ WantsThread(t)
    /\ \E i \in suspended[serves[t]] :
           /\ Started(t, i)
           /\ suspended' = [suspended EXCEPT ![serves[t]] = @ \ {i}]
    /\ UNCHANGED <<poolVars, toCreate, fromShared, jobs, aggressive, starved>>

CreatePrivate(t) ==
    /\ at[t] \in {"schedule", "resume"} /\ WantsThread(t)
    /\ suspended[serves[t]] = {} /\ toCreate[serves[t]] > 0
    /\ \E i \in Info : at[i] = "none" /\ Started(t, i)
    /\ toCreate' = Add(toCreate, serves[t], -1)
    /\ UNCHANGED <<poolVars, suspended, fromShared, jobs, aggressive, starved>>

MayBorrow(t) ==
    /\ WantsThread(t)
    /\ suspended[serves[t]] = {} /\ toCreate[serves[t]] = 0
    /\ fromShared[serves[t]] < sharedThreads[serves[t]]
    /\ ~starved[serves[t]]

TryAlloc(i) ==
    /\ allocCount' = allocCount + 1
    /\ \/ i \in pool /\ pool' = pool \ {i} /\ UNCHANGED poolToCreate
       \/ /\ pool = {} /\ poolToCreate > 0 /\ at[i] = "none"
          /\ poolToCreate' = poolToCreate - 1
          /\ UNCHANGED pool

AllocateSharedThread(t) ==
    /\ MayBorrow(t)
    /\ \E i \in Info : TryAlloc(i) /\ Started(t, i)
    /\ fromShared' = Add(fromShared, serves[t], 1)
    /\ UNCHANGED <<starving, suspended, toCreate, jobs, aggressive, starved>>

Starve(t) ==
    /\ MayBorrow(t) /\ pool = {} /\ poolToCreate = 0
    /\ starved' = [starved EXCEPT ![serves[t]] = TRUE]
    /\ Goto(t, "starve")
    /\ UNCHANGED <<poolVars, lists, jobs, owner, serves, aggressive, mutex>>

\* A thread that came back to the pool in the meantime went unnoticed.
AddStarving(t) ==
    /\ at[t] = "starve"
    /\ starving' = Append(starving, serves[t])
    /\ Leave(t) /\ Goto(t, After(t))
    /\ UNCHANGED <<pool, allocCount, poolToCreate, lists, jobs, owner, aggressive, starved>>

NoThread(t) ==
    /\ at[t] \in {"schedule", "resume", "offer"}
    /\ \/ ~WantsThread(t)
       \/ /\ suspended[serves[t]] = {} /\ toCreate[serves[t]] = 0 /\ ~MayBorrow(t)
    /\ Leave(t) /\ Goto(t, After(t))
    /\ UNCHANGED <<poolVars, lists, jobs, owner, aggressive, starved>>

-------------------------------------------------------------------------------
(* The interface for clients.                                              *)

Schedule(c, s) ==
    /\ at[c] = "idle" /\ Free(s) /\ queue[s] < MaxJobs[s]
    /\ queue' = Add(queue, s, 1)
    /\ emptyEvent' = IF queue[s] = 0 THEN [emptyEvent EXCEPT ![s] = FALSE] ELSE emptyEvent
    /\ IF /\ stopCount[s] = 0
          /\ s \in aggressive \/ (queue'[s] > 2 * Active(s) /\ unused[s] > 0)
       THEN Lock(c, s) /\ Serve(c, s) /\ Goto(c, "schedule")
       ELSE UNCHANGED <<mutex, serves, at>>
    /\ UNCHANGED <<poolVars, lists, thrown, stopCount, owner, aggressive, starved>>

Stop(c, s) ==
    /\ at[c] = "idle" /\ Free(s) /\ stopCount[s] < MaxStops
    /\ stopCount' = Add(stopCount, s, 1)
    /\ UNCHANGED <<poolVars, lists, queue, emptyEvent, thrown, threads, aggressive, mutex,
                   starved>>

Resume(c, s) ==
    /\ at[c] = "idle" /\ Free(s) /\ stopCount[s] > 0
    /\ stopCount' = Add(stopCount, s, -1)
    /\ IF stopCount[s] = 1
       THEN Lock(c, s) /\ Serve(c, s) /\ Goto(c, "resume")
       ELSE UNCHANGED <<mutex, serves, at>>
    /\ UNCHANGED <<poolVars, lists, queue, emptyEvent, thrown, owner, aggressive, starved>>

\* One turn of the loop; a stopped scheduler throws its queued jobs away.  Other threads
\* that wait are not told, though nothing is left if no job was running.
Look(c, s) ==
    /\ Free(s)
    /\ queue' = IF stopCount[s] = 0 THEN queue ELSE [queue EXCEPT ![s] = 0]
    /\ thrown' = IF running[s] = {} /\ queue'[s] # queue[s] THEN [thrown EXCEPT ![s] = TRUE]
                 ELSE thrown
    /\ IF running[s] = {} /\ queue'[s] = 0
       THEN Goto(c, "idle") /\ Serve(c, NoScheduler) /\ UNCHANGED emptyEvent
       ELSE /\ Goto(c, "wait") /\ Serve(c, s)
            /\ emptyEvent' = [emptyEvent EXCEPT ![s] = FALSE]
    /\ UNCHANGED <<poolVars, lists, stopCount, owner, aggressive, mutex, starved>>

WaitForEmptyQueue(c, s) == at[c] = "idle" /\ Look(c, s)
LookAgain(c) == at[c] = "wait" /\ emptyEvent[serves[c]] /\ Look(c, serves[c])

-------------------------------------------------------------------------------
Worker(i) == \/ TakeJob(i) \/ RunJob(i) \/ Park(i) \/ Terminate(i) \/ Return(i)
             \/ StopStarvation(i) \/ Release(i) \/ SelectStarving(i) \/ ThreadAvailable(i)
Allocate(t) == \/ ResumePrivate(t) \/ CreatePrivate(t) \/ AllocateSharedThread(t)
               \/ Starve(t) \/ AddStarving(t) \/ NoThread(t)
Call(c) == \/ LookAgain(c)
           \/ \E s \in Scheduler : \/ Schedule(c, s) \/ Stop(c, s) \/ Resume(c, s)
                                   \/ WaitForEmptyQueue(c, s)

Next == \/ \E i \in Info : Worker(i)
        \/ \E t \in Thread : Allocate(t)
        \/ \E c \in Client : Call(c)

Spec == Init /\ [][Next]_vars

-------------------------------------------------------------------------------
(* Properties.                                                             *)

\* A thread has an owner exactly while it exists and is not in the shared pool.
TypeOK ==
    /\ pool \subseteq Info /\ allocCount \in Nat /\ poolToCreate \in Nat
    /\ starving \in Seq(Scheduler) /\ aggressive \subseteq Scheduler
    /\ mutex \in [Scheduler -> Thread \cup {Nobody}]
    /\ queue \in [Scheduler -> Nat] /\ emptyEvent \in [Scheduler -> BOOLEAN]
    /\ running \in [Scheduler -> SUBSET Info] /\ suspended \in [Scheduler -> SUBSET Info]
    /\ toCreate \in [Scheduler -> Nat] /\ fromShared \in [Scheduler -> Nat]
    /\ unused \in [Scheduler -> Nat] /\ starved \in [Scheduler -> BOOLEAN]
    /\ stopCount \in [Scheduler -> 0..MaxStops] /\ thrown \in [Scheduler -> BOOLEAN]
    /\ at \in [Thread -> Control] /\ serves \in [Thread -> Scheduler \cup {NoScheduler}]
    /\ owner \in [Info -> Scheduler \cup {NoScheduler}]
    /\ \A i \in Info : owner[i] = NoScheduler <=> i \in pool \/ at[i] = "none"

\* The counters of SThreads and CThreadPool (JobScheduler.h:229-234, 349-369): all
\* threads are private or borrowed, unusedCount says how many more there can be, and
\* no more than maxCount are shared.
CountersMatch ==
    /\ \A s \in Scheduler :
           /\ Active(s) + Cardinality(suspended[s]) + toCreate[s]
                  = threadCount[s] + fromShared[s]
           /\ unused[s] = Cardinality(suspended[s]) + toCreate[s]
                              + sharedThreads[s] - fromShared[s]
    /\ Cardinality(pool) + allocCount + poolToCreate = maxCount

\* Nothing is borrowed as long as there are private threads: fromShared "must be 0, if
\* suspended is not empty" (JobScheduler.h:357-359), though any idle thread may settle
\* the debt.
BorrowsOnlyInNeed ==
    \A s \in Scheduler : fromShared[s] > 0 => suspended[s] = {} /\ toCreate[s] = 0

\* A thread is in one list at a time, also while it hands itself over to another
\* scheduler from inside of AssignJob (JobScheduler.cpp:250-253).
OneList ==
    /\ \A s \in Scheduler : running[s] \cap suspended[s] = {}
    /\ \A s \in Scheduler : (running[s] \cup suspended[s]) \cap pool = {}
    /\ \A s, r \in Scheduler :
           s # r => (running[s] \cup suspended[s]) \cap (running[r] \cup suspended[r]) = {}

\* The flag starved says that the pool will notify the scheduler: it is in the list,
\* about to get there, or just being notified.
StarvedIsKnown ==
    \A s \in Scheduler :
        starved[s] <=> \/ \E n \in DOMAIN starving : starving[n] = s
                       \/ \E t \in Thread : serves[t] = s /\ at[t] \in {"starve", "notify"}

\* JobScheduler.cpp:532: threads that wait for the queue to run empty are woken up as
\* soon as it is and no job is running, though each of them resets the event they share.
\* Excepted is what the code misses: another waiter has thrown the last jobs away.
EmptySignalled ==
    \A c \in Client :
        at[c] = "wait" /\ running[serves[c]] = {} /\ queue[serves[c]] = 0
            => emptyEvent[serves[c]] \/ thrown[serves[c]]

\* The mutexes of several schedulers are taken one inside of the other
\* (JobScheduler.cpp:251, 486).  This never ends in a circle but through the loop of
\* StopStarvation, which waits for a notification with its scheduler's mutex in hand.
Busy(t)  == at[t] \notin {"none", "asleep", "idle", "wait"}
Waits(t) == \/ at[t] = "assign" /\ ~Free(owner[t])
            \/ at[t] = "notify" /\ ~Free(serves[t])
            \/ at[t] = "stop" /\ \A n \in DOMAIN starving : starving[n] # serves[t]
OnlyStopStarvationBlocks ==
    (\E t \in Thread : Busy(t)) /\ (\A t \in Thread : Busy(t) => Waits(t))
        => \E t \in Thread : at[t] = "stop"

\* Schedulers that would like to have more threads "will be notified in a FCFS pattern
\* as soon as a thread gets returned to the pool.  Hence, it's their chance to allocate
\* additional threads" (JobScheduler.h:236-240): one that has jobs, is not stopped and
\* has no thread at all is registered for that.
NotStranded ==
    \A s \in Scheduler :
        queue[s] > 0 /\ stopCount[s] = 0 /\ running[s] = {} /\ Free(s) => starved[s]
===============================================================================
