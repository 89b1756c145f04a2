------------------------------- MODULE AsyncJob -------------------------------
(***************************************************************************)
(* CJobBase (AsyncFramework/JobBase.cpp) with the COneShotEvent it is made *)
(* of and the pool of event handles below (WaitableEvent.cpp).             *)
(*                                                                         *)
(* Every job has one client, the thread that created it, here named by the *)
(* job itself; workers are the threads of the scheduler, of which only the *)
(* part that touches a job is here (ThreadFunc, Schedule and               *)
(* RemoveJobFromQueue of JobScheduler.cpp).  Each access to a member that  *)
(* another thread can see is a step of its own.                            *)
(***************************************************************************)
EXTENDS Naturals, Sequences

CONSTANTS Job, Worker,
          Handle,           \* OS events; two per job are always enough
          NoHandle, NoJob

ASSUME JobAssumption == NoJob \notin Job /\ NoHandle \notin Handle
ASSUME ThreadAssumption == Job \cap Worker = {}

VARIABLES waiting, terminated, scheduled,  \* the flags of each job
          state, event,     \* its events executionDone and deletable
          signalled, pool,  \* OS events that are set; CWaitableEventPool::handles
          queue, owned,     \* jobs in the scheduler; those it has to delete
          alive,            \* the job object exists
          th,               \* each thread: where it is and in which job
          runs,             \* history: InternalExecute calls per job
          waited            \* history: how the client's last wait ended

jobVars == <<waiting, terminated, scheduled>>
osVars  == <<event, signalled, pool>>
vars == <<jobVars, state, osVars, queue, owned, alive, th, runs, waited>>

Event  == {"done", "deletable"}
Thread == Job \cup Worker

\* CreateEvent always finds another handle than those the jobs have.
ASSUME HandleAssumption ==
    \A f \in [Job -> [Event -> Handle \cup {NoHandle}]] :
        (\E j \in Job, e \in Event : f[j][e] = NoHandle) =>
            \E h \in Handle : \A j \in Job, e \in Event : f[j][e] # h

(* Where a thread can be:                                                  *)
(*   "new"                    the client has just created the job          *)
(*   "ready", "gone"          the client between calls; after its last one *)
(*   "back"                   the client took an unstarted job back        *)
(*   "idle"                   a worker without a job                       *)
(*   "claim", "run", "after"  Execute: take waiting, run, look at scheduled *)
(*   "flag", "signal"         COneShotEvent::Set of th.ev                  *)
(*   "unschedule", "test"     OnUnSchedule                                 *)
(*   "check", "alloc", "recheck", "block"   WaitFor of th.goal             *)
(*   "deleting"               Delete, before its test of waiting           *)
(*   "destroy"                before the delete expression                 *)
(* th.next is where Execute or OnUnSchedule return to.                     *)
Control == {"new", "ready", "back", "gone", "idle", "claim", "run", "after", "flag",
            "signal", "unschedule", "test", "check", "alloc", "recheck",
            "block", "deleting", "destroy"}

Context == [pc : Control, job : Job \cup {NoJob}, ev : Event, next : Control,
            goal : Event, timed : BOOLEAN]

Start(label, j) == [pc |-> label, job |-> j, ev |-> "done", next |-> label,
                    goal |-> "done", timed |-> FALSE]

Init == /\ waiting = [j \in Job |-> TRUE]
        /\ terminated = [j \in Job |-> FALSE]
        /\ scheduled = [j \in Job |-> FALSE]
        /\ state = [j \in Job |-> [e \in Event |-> FALSE]]
        /\ event = [j \in Job |-> [e \in Event |-> NoHandle]]
        /\ signalled = {} /\ pool = <<>>
        /\ queue = {} /\ owned = [j \in Job |-> FALSE]
        /\ alive = [j \in Job |-> TRUE]
        /\ th = [t \in Thread |-> IF t \in Job THEN Start("new", t)
                                               ELSE Start("idle", NoJob)]
        /\ runs = [j \in Job |-> 0]
        /\ waited = [j \in Job |-> "no"]

At(t, label)   == th[t].pc = label
Goto(t, label) == th' = [th EXCEPT ![t].pc = label]
Return(t)      == Goto(t, th[t].next)

-------------------------------------------------------------------------------
(* Faults for the mutation runs; see the actions of the same names.        *)

\* Execute tests waiting and clears it later, instead of exchanging it.
ClaimUnsynchronized(t) ==
    LET j == th[t].job
    IN  /\ At(t, "claim") /\ waiting[j]
        /\ Goto(t, "run")
        /\ UNCHANGED <<jobVars, state, osVars, queue, owned, alive, runs, waited>>

\* Execute sets deletable without a look at scheduled.
AfterRunAlwaysDeletable(t) ==
    /\ At(t, "after")
    /\ th' = [th EXCEPT ![t].pc = "flag", ![t].ev = "deletable"]
    /\ UNCHANGED <<jobVars, state, osVars, queue, owned, alive, runs, waited>>

\* OnUnSchedule sets deletable whether or not the job is done.
TestDoneNever(t) ==
    /\ At(t, "test")
    /\ th' = [th EXCEPT ![t].pc = "flag", ![t].ev = "deletable"]
    /\ UNCHANGED <<jobVars, state, osVars, queue, owned, alive, runs, waited>>

\* WaitFor does not look at the state again once it has its event.
RecheckNot(t) ==
    /\ At(t, "recheck")
    /\ Goto(t, "block")
    /\ UNCHANGED <<jobVars, state, osVars, queue, owned, alive, runs, waited>>

\* WaitUntilDoneOrTimeout takes every end of the wait for success.
TimeoutTakenForEnd(c) ==
    /\ At(c, "block") /\ th[c].timed /\ event[c][th[c].goal] \notin signalled
    /\ Goto(c, "ready")
    /\ waited' = [waited EXCEPT ![c] = "set"]
    /\ UNCHANGED <<jobVars, state, osVars, queue, owned, alive, runs>>

-------------------------------------------------------------------------------
(* The client.                                                             *)

Schedule(c) ==
    /\ At(c, "new")
    /\ scheduled' = [scheduled EXCEPT ![c] = TRUE]
    /\ queue' = queue \cup {c}
    /\ \E transfer \in BOOLEAN :
           /\ owned' = [owned EXCEPT ![c] = transfer]
           /\ Goto(c, IF transfer THEN "gone" ELSE "ready")
    /\ UNCHANGED <<waiting, terminated, state, osVars, alive, runs, waited>>

\* A job nobody will run has to be run inline.
WaitUntilDone(c) ==
    /\ th[c].pc \in {"new", "ready", "back"}
    /\ \E inline \in IF At(c, "ready") THEN BOOLEAN ELSE {TRUE} :
           th' = [th EXCEPT ![c].pc = IF inline THEN "claim" ELSE "check",
                            ![c].next = "check", ![c].goal = "done", ![c].timed = FALSE]
    /\ UNCHANGED <<jobVars, state, osVars, queue, owned, alive, runs, waited>>

WaitUntilDoneOrTimeout(c) ==
    /\ At(c, "ready")
    /\ th' = [th EXCEPT ![c].pc = "check", ![c].goal = "done", ![c].timed = TRUE]
    /\ UNCHANGED <<jobVars, state, osVars, queue, owned, alive, runs, waited>>

Terminate(c) ==
    /\ At(c, "ready")
    /\ terminated' = [terminated EXCEPT ![c] = TRUE]
    /\ UNCHANGED <<waiting, scheduled, state, osVars, queue, owned, alive, th, runs, waited>>

Delete(c) ==
    /\ th[c].pc \in {"new", "ready", "back"}
    /\ \E terminate \in BOOLEAN :
           terminated' = [terminated EXCEPT ![c] = @ \/ terminate]
    /\ Goto(c, "deleting")
    /\ UNCHANGED <<waiting, scheduled, state, osVars, queue, owned, alive, runs, waited>>

DeleteTestsWaiting(c) ==
    /\ At(c, "deleting")
    /\ th' = [th EXCEPT ![c].pc = IF waiting[c] THEN "claim" ELSE "check",
                        ![c].next = "check", ![c].goal = "deletable", ![c].timed = FALSE]
    /\ UNCHANGED <<jobVars, state, osVars, queue, owned, alive, runs, waited>>

\* CJobScheduler::RemoveJobFromQueue hands a queued job back to its client.
RemoveJobFromQueue(c) ==
    /\ At(c, "ready") /\ c \in queue
    /\ queue' = queue \ {c}
    /\ th' = [th EXCEPT ![c].pc = "unschedule", ![c].next = "back"]
    /\ UNCHANGED <<jobVars, state, osVars, owned, alive, runs, waited>>

-------------------------------------------------------------------------------
(* The worker: ThreadFunc.                                                 *)

AssignJob(w, j) ==
    /\ At(w, "idle") /\ j \in queue
    /\ queue' = queue \ {j}
    /\ th' = [th EXCEPT ![w] = [Start("claim", j) EXCEPT !.next = "unschedule"]]
    /\ UNCHANGED <<jobVars, state, osVars, owned, alive, runs, waited>>

\* WaitForEmptyQueueOrTimeout of a stopped scheduler throws a job away; any
\* thread may call it.
DrainQueue(w, j) ==
    /\ At(w, "idle") /\ j \in queue
    /\ queue' = queue \ {j}
    /\ th' = [th EXCEPT ![w] = Start("unschedule", j)]
    /\ UNCHANGED <<jobVars, state, osVars, owned, alive, runs, waited>>

-------------------------------------------------------------------------------
(* Execute, by whoever.                                                    *)

Claim(t) ==
    LET j == th[t].job
    IN  /\ At(t, "claim") /\ waiting[j]
        /\ waiting' = [waiting EXCEPT ![j] = FALSE]
        /\ Goto(t, "run")
        /\ UNCHANGED <<terminated, scheduled, state, osVars, queue, owned, alive, runs, waited>>

ClaimedByOther(t) ==
    /\ At(t, "claim") /\ ~waiting[th[t].job]
    /\ Return(t)
    /\ UNCHANGED <<jobVars, state, osVars, queue, owned, alive, runs, waited>>

Run(t) ==
    LET j == th[t].job
    IN  /\ At(t, "run")
        /\ runs' = [runs EXCEPT ![j] = IF terminated[j] THEN @ ELSE @ + 1]
        /\ th' = [th EXCEPT ![t].pc = "flag", ![t].ev = "done"]
        /\ UNCHANGED <<jobVars, state, osVars, queue, owned, alive, waited>>

AfterRun(t) ==
    LET j == th[t].job
    IN  /\ At(t, "after")
        /\ IF scheduled[j] THEN Return(t)
           ELSE th' = [th EXCEPT ![t].pc = "flag", ![t].ev = "deletable"]
        /\ UNCHANGED <<jobVars, state, osVars, queue, owned, alive, runs, waited>>

OnUnSchedule(t) ==
    LET j == th[t].job
    IN  /\ At(t, "unschedule")
        /\ scheduled' = [scheduled EXCEPT ![j] = FALSE]
        /\ th' = [th EXCEPT ![t].pc = "test",
                            ![t].next = IF t \in Job THEN @
                                        ELSE IF owned[j] THEN "destroy" ELSE "idle"]
        /\ UNCHANGED <<waiting, terminated, state, osVars, queue, owned, alive, runs, waited>>

\* The job may be gone by now: then the test reads freed memory.
TestDone(t) ==
    LET j == th[t].job
    IN  /\ At(t, "test")
        /\ \E done \in IF alive[j] THEN {state[j]["done"]} ELSE BOOLEAN :
               IF done THEN th' = [th EXCEPT ![t].pc = "flag", ![t].ev = "deletable"]
                       ELSE Return(t)
        /\ UNCHANGED <<jobVars, state, osVars, queue, owned, alive, runs, waited>>

-------------------------------------------------------------------------------
(* COneShotEvent::Set: exchange the state, then look for an event to set.  *)

AfterSet(t) == IF th[t].ev = "done" THEN Goto(t, "after") ELSE Return(t)

SetFlag(t) ==
    LET j == th[t].job
    IN  /\ At(t, "flag")
        /\ state' = [state EXCEPT ![j][th[t].ev] = TRUE]
        /\ IF state[j][th[t].ev] THEN AfterSet(t) ELSE Goto(t, "signal")
        /\ UNCHANGED <<jobVars, osVars, queue, owned, alive, runs, waited>>

\* In freed memory the handle may still be there, or not.
SetSignal(t) ==
    LET j == th[t].job
    IN  /\ At(t, "signal")
        /\ \E h \in {event[j][th[t].ev]} \cup (IF alive[j] THEN {} ELSE {NoHandle}) :
               signalled' = signalled \cup ({h} \ {NoHandle})
        /\ AfterSet(t)
        /\ UNCHANGED <<jobVars, state, event, pool, queue, owned, alive, runs, waited>>

-------------------------------------------------------------------------------
(* COneShotEvent::WaitFor and WaitForEndOrTimeout of th.goal.              *)

\* The wait is over.
WaitEnds(c, how) ==
    /\ Goto(c, IF th[c].goal = "deletable" THEN "destroy" ELSE "ready")
    /\ waited' = [waited EXCEPT ![c] = IF th[c].goal = "done" THEN how ELSE @]

Check(c) ==
    /\ At(c, "check")
    /\ IF state[c][th[c].goal]
       THEN WaitEnds(c, "set")
       ELSE Goto(c, "alloc") /\ UNCHANGED waited
    /\ UNCHANGED <<jobVars, state, osVars, queue, owned, alive, runs>>

\* CreateEvent.
NewHandle == CHOOSE h \in Handle : \A j \in Job, e \in Event : event[j][e] # h

\* CWaitableEventPool::AutoAlloc, then the kernel wait or the second look.
Alloc(c) ==
    LET e == th[c].goal
    IN  /\ At(c, "alloc")
        /\ Goto(c, IF th[c].timed THEN "block" ELSE "recheck")
        /\ \/ /\ event[c][e] # NoHandle
              /\ UNCHANGED <<event, pool>>
           \/ /\ event[c][e] = NoHandle /\ pool # <<>>
              /\ event' = [event EXCEPT ![c][e] = pool[Len(pool)]]
              /\ pool' = SubSeq(pool, 1, Len(pool) - 1)
           \/ /\ event[c][e] = NoHandle /\ pool = <<>>
              /\ event' = [event EXCEPT ![c][e] = NewHandle]
              /\ UNCHANGED pool
        /\ UNCHANGED <<jobVars, state, signalled, queue, owned, alive, runs, waited>>

Recheck(c) ==
    /\ At(c, "recheck")
    /\ IF state[c][th[c].goal]
       THEN WaitEnds(c, "set")
       ELSE Goto(c, "block") /\ UNCHANGED waited
    /\ UNCHANGED <<jobVars, state, osVars, queue, owned, alive, runs>>

Wake(c) ==
    /\ At(c, "block") /\ event[c][th[c].goal] \in signalled
    /\ WaitEnds(c, "set")
    /\ UNCHANGED <<jobVars, state, osVars, queue, owned, alive, runs>>

Timeout(c) ==
    /\ At(c, "block") /\ th[c].timed /\ event[c][th[c].goal] \notin signalled
    /\ WaitEnds(c, "timeout")
    /\ UNCHANGED <<jobVars, state, osVars, queue, owned, alive, runs>>

\* The handle of an event, if it has got one.
Back(j, e) == IF event[j][e] = NoHandle THEN <<>> ELSE <<event[j][e]>>

\* delete: the destructors return the handles to the pool, reset.
Destroy(t) ==
    LET j == th[t].job
    IN  /\ At(t, "destroy")
        /\ alive' = [alive EXCEPT ![j] = FALSE]
        /\ signalled' = signalled \ {event[j][e] : e \in Event}
        /\ pool' = pool \o Back(j, "deletable") \o Back(j, "done")
        /\ th' = [th EXCEPT ![t].pc = IF t \in Job THEN "gone" ELSE "idle"]
        /\ UNCHANGED <<jobVars, state, event, queue, owned, runs, waited>>

-------------------------------------------------------------------------------
\* What a thread does inside of a call, without a choice of its own.
Inside(t) == \/ Claim(t) \/ ClaimedByOther(t) \/ Run(t) \/ AfterRun(t)
             \/ OnUnSchedule(t) \/ TestDone(t) \/ SetFlag(t) \/ SetSignal(t)
             \/ Destroy(t)

ClientInside(c) == \/ Inside(c) \/ DeleteTestsWaiting(c)
                   \/ Check(c) \/ Alloc(c) \/ Recheck(c) \/ Wake(c) \/ Timeout(c)

WorkerStep(w) == Inside(w) \/ \E j \in Job : AssignJob(w, j) \/ DrainQueue(w, j)

Client(c) == \/ Schedule(c) \/ WaitUntilDone(c) \/ WaitUntilDoneOrTimeout(c)
             \/ Terminate(c) \/ Delete(c) \/ RemoveJobFromQueue(c)
             \/ ClientInside(c)

Next == (\E c \in Job : Client(c)) \/ (\E w \in Worker : WorkerStep(w))

Spec == Init /\ [][Next]_vars

\* The OS runs every thread that is inside of a call.  Whether and when a
\* queued job gets a thread is up to the scheduler: nothing is assumed of it.
FairSpec == Spec /\ (\A c \in Job : WF_vars(ClientInside(c)))
                 /\ (\A w \in Worker : WF_vars(Inside(w)))

-------------------------------------------------------------------------------
TypeOK == /\ waiting \in [Job -> BOOLEAN] /\ terminated \in [Job -> BOOLEAN]
          /\ scheduled \in [Job -> BOOLEAN] /\ owned \in [Job -> BOOLEAN]
          /\ state \in [Job -> [Event -> BOOLEAN]]
          /\ event \in [Job -> [Event -> Handle \cup {NoHandle}]]
          /\ signalled \subseteq Handle /\ pool \in Seq(Handle)
          /\ queue \subseteq Job /\ alive \in [Job -> BOOLEAN]
          /\ th \in [Thread -> Context]
          /\ runs \in [Job -> Nat] /\ waited \in [Job -> {"no", "set", "timeout"}]

(* IJob.h:34: jobs are executed only once, however the scheduler's thread, *)
(* an inline wait and Delete compete for them.                             *)
ExecutedAtMostOnce == \A j \in Job : runs[j] <= 1

(* JobBase.h:43: a job is deletable only once its execution is over and *)
(* the scheduler has let go of it, whichever of Execute and OnUnSchedule   *)
(* comes last and sets it.                                                 *)
DeletableWhenOver ==
    \A j \in Job : state[j]["deletable"] =>
        state[j]["done"] /\ ~scheduled[j] /\ j \notin queue

(* IJob.h:92: a job is not deleted before OnUnSchedule has been called:    *)
(* no thread still has to enter its Execute or OnUnSchedule.               *)
DeletedAfterUnschedule ==
    \A j \in Job : ~alive[j] =>
        /\ ~scheduled[j] /\ j \notin queue
        /\ \A t \in Thread : th[t].job = j =>
               ~(th[t].pc \in {"claim", "run", "after", "unschedule"})

\* A job that is left to nobody: thrown away before it was executed.
ThrownAway(j) == waiting[j] /\ ~scheduled[j] /\ j \notin queue

(* IJob.h:76: a wait that ends without a timeout ends because the job has  *)
(* reached done, and then it has run unless it was terminated.             *)
WaitMeansDone ==
    \A j \in Job : waited[j] = "set" =>
        state[j]["done"] /\ (runs[j] = 1 \/ terminated[j])

\* The client waits without a timeout for what only a thread that takes the job
\* from the queue could do: execute it or, before it is deleted, unschedule it.
LeftWaiting(c) == /\ At(c, "block") /\ ~th[c].timed
                  /\ \/ c \in queue /\ (waiting[c] \/ th[c].goal = "deletable")
                     \/ ThrownAway(c)

(* JobBase.cpp:98 and 125: every call a client has made returns: the end of *)
(* the execution, and the moment the job becomes deletable, are never      *)
(* missed by a wait for them.  The only wait that need not end is one for  *)
(* a job that nobody ever takes from the queue, or that was thrown away.   *)
CallsReturn ==
    \A c \in Job : []<>(th[c].pc \in {"new", "ready", "back", "gone"})
                        \/ <>[]LeftWaiting(c)
===============================================================================
