---------------------------- MODULE AsyncJobProofs ----------------------------
(***************************************************************************)
(* A job is executed at most once and deletable only when it is over, for  *)
(* every number of jobs and workers.  The two promises that rest on the    *)
(* handles of the pool, that a wait does not end too early and a job is    *)
(* not deleted too early, are proved up to the first deletion: then a      *)
(* thread that is still inside of a deleted job's Set may signal a handle  *)
(* that another job has got from the pool.  For the behaviours in which no *)
(* thread does so they are proved for all jobs.                            *)
(***************************************************************************)
EXTENDS AsyncJob, SequenceTheorems, TLAPS

\* It has claimed the job, and the end of the execution is not yet recorded.
Executes(t, j) == /\ th[t].job = j
                  /\ At(t, "run") \/ (At(t, "flag") /\ th[t].ev = "done")

\* It is inside of Set for one event or the other.
Sets(t, e) == th[t].pc \in {"flag", "signal"} /\ th[t].ev = e

\* It has taken the job from the queue and has not finished with it.
Holds(t, j) == /\ th[t].job = j
               /\ IF t \in Worker THEN ~At(t, "idle")
                  ELSE \/ th[t].pc \in {"unschedule", "test"}
                       \/ th[t].pc \in {"flag", "signal"} /\ th[t].next = "back"

\* It will still call OnUnSchedule.
Serves(t, j) == Holds(t, j) /\ (At(t, "unschedule") \/ th[t].next = "unschedule")

\* Where Execute and OnUnSchedule return to, and in which job a thread can be.
ClientPlaces ==
    \A c \in Job :
        /\ th[c].job = c /\ ~At(c, "idle")
        /\ th[c].pc \in {"claim", "run", "after"} \/ Sets(c, "done") => th[c].next = "check"
        /\ th[c].pc \in {"unschedule", "test"} => th[c].next = "back"
        /\ Sets(c, "deletable") => th[c].next \in {"check", "back"}
        /\ At(c, "destroy") => th[c].goal = "deletable"
        /\ th[c].timed => th[c].goal = "done"
        /\ owned[c] \/ ~alive[c] => At(c, "gone")

WorkerPlaces ==
    \A w \in Worker :
        /\ th[w].pc \in {"idle", "claim", "run", "after", "flag", "signal", "unschedule",
                         "test", "destroy"}
        /\ ~At(w, "idle") => th[w].job \in Job
        /\ th[w].pc \in {"claim", "run", "after"} \/ Sets(w, "done")
               => th[w].next = "unschedule"
        /\ th[w].pc \in {"test", "destroy"} \/ Sets(w, "deletable")
               => th[w].next \in {"idle", "destroy"}
        /\ At(w, "destroy") \/ (~At(w, "idle") /\ th[w].next = "destroy")
               => owned[th[w].job]

\* A job is scheduled once: it is in the queue, or one thread has it from there.
Token ==
    \A j \in Job :
        /\ scheduled[j] <=> j \in queue \/ \E t \in Thread : Serves(t, j)
        /\ j \in queue => \A t \in Thread : ~Holds(t, j)
        /\ \A t, u \in Thread : Holds(t, j) /\ Holds(u, j) => t = u
        /\ At(j, "new") => ~scheduled[j] /\ waiting[j] /\ \A t \in Thread : ~Holds(t, j)

\* The exchange of waiting lets one thread execute the job.
Execution ==
    \A j \in Job :
        /\ waiting[j] => runs[j] = 0 /\ ~state[j]["done"]
        /\ \A t \in Thread : Executes(t, j) =>
               /\ ~waiting[j] /\ ~state[j]["done"]
               /\ At(t, "run") => runs[j] = 0
               /\ At(t, "flag") => runs[j] = 1 \/ terminated[j]
        /\ \A t, u \in Thread : Executes(t, j) /\ Executes(u, j) => t = u
        /\ ~waiting[j] /\ ~state[j]["done"] => \E t \in Thread : Executes(t, j)
        /\ state[j]["done"] => runs[j] = 1 \/ terminated[j]

\* What a thread inside of Execute, OnUnSchedule or Delete knows.
Known ==
    /\ \A t \in Thread :
           LET j == th[t].job IN
           /\ At(t, "after") \/ (At(t, "signal") /\ th[t].ev = "done") => state[j]["done"]
           /\ Sets(t, "deletable") => state[j]["done"] /\ ~scheduled[j]
           /\ At(t, "signal") => state[j][th[t].ev]
    /\ \A c \in Job :
           /\ th[c].pc \in {"check", "alloc", "recheck", "block", "destroy"}
                  /\ th[c].goal = "deletable" => ~waiting[c]

\* A deleted job has been executed, or belonged to a scheduler that threw it away.
Dead == \A j \in Job : ~alive[j] =>
            IF owned[j] THEN j \notin queue /\ \A t \in Thread : ~Holds(t, j) ELSE ~waiting[j]

AllAlive == \A k \in Job : alive[k]

\* Before the first deletion every handle belongs to one event, and is signalled only
\* for this one.
Handles ==
    AllAlive =>
        /\ pool = <<>>
        /\ \A j, k \in Job, e, f \in Event :
               event[j][e] = event[k][f] /\ event[j][e] # NoHandle => j = k /\ e = f
        /\ \A j \in Job, e \in Event : event[j][e] \in signalled => state[j][e]
        /\ \A h \in signalled : \E j \in Job, e \in Event : event[j][e] = h
        /\ \A c \in Job : At(c, "destroy") => state[c]["deletable"]

OthersAlive(j) == \A k \in Job \ {j} : alive[k]

\* What the handles promise: for the first job that is deleted, and all before that.
FirstDeletion ==
    \A j \in Job : OthersAlive(j) =>
        /\ waited[j] = "set" => state[j]["done"]
        /\ ~alive[j] => ~scheduled[j]

IInv == /\ TypeOK /\ ExecutedAtMostOnce /\ DeletableWhenOver
        /\ ClientPlaces /\ WorkerPlaces /\ Token /\ Execution /\ Known /\ Dead
        /\ Handles /\ FirstDeletion

-------------------------------------------------------------------------------
(* Types.                                                                  *)

\* There is a handle for an event that has none.
LEMMA FreshHandle ==
    ASSUME TypeOK, NEW c \in Job, NEW e \in Event, event[c][e] = NoHandle
    PROVE  NewHandle \in Handle /\ \A j \in Job, f \in Event : event[j][f] # NewHandle
<1>1. PICK x \in Handle : \A j \in Job, f \in Event : event[j][f] # x
  BY HandleAssumption DEF TypeOK
<1> QED BY <1>1 DEF NewHandle

\* Thread t has gone on: where it is now, and that no other thread has moved.
Moves(t, pc, job, ev, next, goal) ==
    /\ th' \in [Thread -> Context]
    /\ th'[t].pc = pc /\ th'[t].job = job /\ th'[t].ev = ev
    /\ th'[t].next = next /\ th'[t].goal = goal
    /\ th'[t].timed => goal = "done" \/ (th[t].timed /\ goal = th[t].goal)
    /\ \A u \in Thread \ {t} : th'[u] = th[u]

GoesTo(t, pc) == Moves(t, pc, th[t].job, th[t].ev, th[t].next, th[t].goal)

\* The places are values of pc, and the two events are events.
LEMMA Places ==
    /\ \A l \in {"new", "ready", "back", "gone", "idle", "claim", "run", "after", "flag",
                 "signal", "unschedule", "test", "check", "alloc", "recheck", "block",
                 "deleting", "destroy"} : l \in Control
    /\ "done" \in Event /\ "deletable" \in Event
    /\ \A e \in Event : e = "done" \/ e = "deletable"
BY DEF Control, Event

\* The fields of a thread have their types.
LEMMA ThreadTypes ==
    ASSUME TypeOK, NEW t \in Thread
    PROVE  /\ th \in [Thread -> Context]
           /\ th[t].pc \in Control /\ th[t].job \in Job \cup {NoJob} /\ th[t].ev \in Event
           /\ th[t].next \in Control /\ th[t].goal \in Event
BY DEF TypeOK, Context

\* What the assignments to th do.
LEMMA GotoMoves ==
    ASSUME TypeOK, NEW t \in Thread
    PROVE  /\ \A l \in Control : Goto(t, l) => GoesTo(t, l)
           /\ Return(t) => GoesTo(t, th[t].next)
           /\ AfterSet(t) => GoesTo(t, IF th[t].ev = "done" THEN "after" ELSE th[t].next)
           /\ \A l \in Control, e \in Event :
                  th' = [th EXCEPT ![t].pc = l, ![t].ev = e]
                      => Moves(t, l, th[t].job, e, th[t].next, th[t].goal)
           /\ \A l, n \in Control :
                  th' = [th EXCEPT ![t].pc = l, ![t].next = n]
                      => Moves(t, l, th[t].job, th[t].ev, n, th[t].goal)
           /\ \A l \in Control, g \in Event, b \in BOOLEAN :
                  /\ b => g = "done"
                  /\ th' = [th EXCEPT ![t].pc = l, ![t].goal = g, ![t].timed = b]
                  => Moves(t, l, th[t].job, th[t].ev, th[t].next, g)
           /\ \A l, n \in Control, g \in Event, b \in BOOLEAN :
                  /\ b => g = "done"
                  /\ th' = [th EXCEPT ![t].pc = l, ![t].next = n, ![t].goal = g, ![t].timed = b]
                  => Moves(t, l, th[t].job, th[t].ev, n, g)
<1>0. /\ th \in [Thread -> Context] /\ th[t].next \in Control
      /\ th[t] \in Context
  BY ThreadTypes
<1> USE <1>0
<1>1. ASSUME NEW l \in Control, Goto(t, l)  PROVE GoesTo(t, l)
  BY <1>1 DEF Goto, GoesTo, Moves, Context
<1>2. Return(t) => GoesTo(t, th[t].next)
  BY <1>1 DEF Return
<1>3. AfterSet(t) => GoesTo(t, IF th[t].ev = "done" THEN "after" ELSE th[t].next)
  BY <1>1, <1>2, Places DEF AfterSet
<1>4. ASSUME NEW l \in Control, NEW e \in Event, th' = [th EXCEPT ![t].pc = l, ![t].ev = e]
      PROVE  Moves(t, l, th[t].job, e, th[t].next, th[t].goal)
  BY <1>4 DEF Moves, Context
<1>5. ASSUME NEW l \in Control, NEW n \in Control,
             th' = [th EXCEPT ![t].pc = l, ![t].next = n]
      PROVE  Moves(t, l, th[t].job, th[t].ev, n, th[t].goal)
  BY <1>5 DEF Moves, Context
<1>6. ASSUME NEW l \in Control, NEW n \in Control, NEW g \in Event, NEW b \in BOOLEAN,
             b => g = "done",
             th' = [th EXCEPT ![t].pc = l, ![t].next = n, ![t].goal = g, ![t].timed = b]
      PROVE  Moves(t, l, th[t].job, th[t].ev, n, g)
  BY <1>6 DEF Moves, Context
<1>7. ASSUME NEW l \in Control, NEW g \in Event, NEW b \in BOOLEAN, b => g = "done",
             th' = [th EXCEPT ![t].pc = l, ![t].goal = g, ![t].timed = b]
      PROVE  Moves(t, l, th[t].job, th[t].ev, th[t].next, g)
  BY <1>7 DEF Moves, Context
<1> QED BY <1>1, <1>2, <1>3, <1>4, <1>5, <1>6, <1>7

\* A thread that begins anew, with another place to return to.
LEMMA ContextChange ==
    ASSUME TypeOK, NEW t \in Thread, NEW x \in Context, NEW n \in Control, ~x.timed
    PROVE  /\ th' = [th EXCEPT ![t] = x] => Moves(t, x.pc, x.job, x.ev, x.next, x.goal)
           /\ th' = [th EXCEPT ![t] = [x EXCEPT !.next = n]]
                  => Moves(t, x.pc, x.job, x.ev, n, x.goal)
<1>1. ASSUME NEW y \in Context, ~y.timed, th' = [th EXCEPT ![t] = y]
      PROVE  Moves(t, y.pc, y.job, y.ev, y.next, y.goal)
  BY <1>1, ThreadTypes DEF Moves
<1>2. DEFINE y == [x EXCEPT !.next = n]
<1>3. /\ y \in Context /\ y.pc = x.pc /\ y.job = x.job /\ y.ev = x.ev /\ y.next = n
      /\ y.goal = x.goal /\ ~y.timed
  BY DEF Context
<1> QED BY <1>1, <1>3

\* What each call of a client does to its thread.
LEMMA ClientMoves ==
    ASSUME TypeOK, NEW c \in Job
    PROVE  /\ Schedule(c) => \/ owned'[c] /\ GoesTo(c, "gone")
                             \/ ~owned'[c] /\ GoesTo(c, "ready")
           /\ WaitUntilDone(c) =>
                  \E l \in {"claim", "check"} :
                      /\ At(c, "ready") \/ l = "claim"
                      /\ Moves(c, l, th[c].job, th[c].ev, "check", "done")
           /\ WaitUntilDoneOrTimeout(c) =>
                  Moves(c, "check", th[c].job, th[c].ev, th[c].next, "done")
           /\ Delete(c) => GoesTo(c, "deleting")
           /\ DeleteTestsWaiting(c) =>
                  Moves(c, IF waiting[c] THEN "claim" ELSE "check",
                        th[c].job, th[c].ev, "check", "deletable")
           /\ RemoveJobFromQueue(c) =>
                  Moves(c, "unschedule", th[c].job, th[c].ev, "back", th[c].goal)
           /\ Check(c) \/ Recheck(c) =>
                  IF state[c][th[c].goal]
                  THEN GoesTo(c, IF th[c].goal = "deletable" THEN "destroy" ELSE "ready")
                  ELSE \E l \in {"alloc", "block"} : GoesTo(c, l)
           /\ Alloc(c) => \E l \in {"recheck", "block"} : GoesTo(c, l)
           /\ Wake(c) \/ Timeout(c) =>
                  GoesTo(c, IF th[c].goal = "deletable" THEN "destroy" ELSE "ready")
<1> c \in Thread
  BY DEF Thread
<1>0. /\ th \in [Thread -> Context] /\ th[c].next \in Control /\ owned \in [Job -> BOOLEAN]
      /\ th[c] \in Context /\ th[c].goal \in Event
  BY ThreadTypes DEF TypeOK
<1> USE <1>0, Places, GotoMoves
<1>1. Schedule(c) => \/ owned'[c] /\ GoesTo(c, "gone")
                     \/ ~owned'[c] /\ GoesTo(c, "ready")
  BY DEF Schedule
<1>2. WaitUntilDone(c) =>
          \E l \in {"claim", "check"} :
              /\ At(c, "ready") \/ l = "claim"
              /\ Moves(c, l, th[c].job, th[c].ev, "check", "done")
  BY DEF WaitUntilDone
<1>3. WaitUntilDoneOrTimeout(c) =>
                  Moves(c, "check", th[c].job, th[c].ev, th[c].next, "done")
  BY DEF WaitUntilDoneOrTimeout
<1>4. Delete(c) => GoesTo(c, "deleting")
  BY DEF Delete
<1>5. DeleteTestsWaiting(c) =>
                  Moves(c, IF waiting[c] THEN "claim" ELSE "check",
                        th[c].job, th[c].ev, "check", "deletable")
  BY DEF DeleteTestsWaiting
<1>6. RemoveJobFromQueue(c) =>
                  Moves(c, "unschedule", th[c].job, th[c].ev, "back", th[c].goal)
  BY DEF RemoveJobFromQueue
<1>7. Check(c) \/ Recheck(c) =>
                  IF state[c][th[c].goal]
                  THEN GoesTo(c, IF th[c].goal = "deletable" THEN "destroy" ELSE "ready")
                  ELSE \E l \in {"alloc", "block"} : GoesTo(c, l)
  BY DEF Check, Recheck, WaitEnds
<1>8. Alloc(c) => \E l \in {"recheck", "block"} : GoesTo(c, l)
  <2>1. Alloc(c) => Goto(c, IF th[c].timed THEN "block" ELSE "recheck")
    BY DEF Alloc
  <2> QED BY <2>1
<1>9. Wake(c) \/ Timeout(c) =>
                  GoesTo(c, IF th[c].goal = "deletable" THEN "destroy" ELSE "ready")
  BY DEF Wake, Timeout, WaitEnds
<1> QED BY <1>1, <1>2, <1>3, <1>4, <1>5, <1>6, <1>7, <1>8, <1>9

\* What a step inside of a call, and a step of a worker, does to its thread.
LEMMA InsideMoves ==
    ASSUME TypeOK, NEW t \in Thread
    PROVE  /\ Claim(t) => GoesTo(t, "run")
           /\ ClaimedByOther(t) => GoesTo(t, th[t].next)
           /\ Run(t) => Moves(t, "flag", th[t].job, "done", th[t].next, th[t].goal)
           /\ AfterRun(t) =>
                  IF scheduled[th[t].job] THEN GoesTo(t, th[t].next)
                  ELSE Moves(t, "flag", th[t].job, "deletable", th[t].next, th[t].goal)
           /\ OnUnSchedule(t) =>
                  Moves(t, "test", th[t].job, th[t].ev,
                        IF t \in Job THEN th[t].next
                        ELSE IF owned[th[t].job] THEN "destroy" ELSE "idle", th[t].goal)
           /\ TestDone(t) =>
                  \/ /\ alive[th[t].job] => state[th[t].job]["done"]
                     /\ Moves(t, "flag", th[t].job, "deletable", th[t].next, th[t].goal)
                  \/ /\ alive[th[t].job] => ~state[th[t].job]["done"]
                     /\ GoesTo(t, th[t].next)
           /\ SetFlag(t) =>
                  GoesTo(t, IF ~state[th[t].job][th[t].ev] THEN "signal"
                            ELSE IF th[t].ev = "done" THEN "after" ELSE th[t].next)
           /\ SetSignal(t) =>
                  GoesTo(t, IF th[t].ev = "done" THEN "after" ELSE th[t].next)
           /\ Destroy(t) => GoesTo(t, IF t \in Job THEN "gone" ELSE "idle")
           /\ \A j \in Job :
                  /\ AssignJob(t, j) => Moves(t, "claim", j, "done", "unschedule", "done")
                  /\ DrainQueue(t, j) => Moves(t, "unschedule", j, "done", "unschedule", "done")
<1>0. /\ th \in [Thread -> Context] /\ th[t].next \in Control
      /\ th[t] \in Context /\ th[t].goal \in Event
  BY ThreadTypes
<1> USE <1>0, Places, GotoMoves
<1>1. Claim(t) => GoesTo(t, "run")
  BY DEF Claim
<1>2. ClaimedByOther(t) => GoesTo(t, th[t].next)
  BY DEF ClaimedByOther
<1>3. Run(t) => Moves(t, "flag", th[t].job, "done", th[t].next, th[t].goal)
  BY DEF Run
<1>4. AfterRun(t) =>
                  IF scheduled[th[t].job] THEN GoesTo(t, th[t].next)
                  ELSE Moves(t, "flag", th[t].job, "deletable", th[t].next, th[t].goal)
  BY DEF AfterRun
<1>5. OnUnSchedule(t) =>
                  Moves(t, "test", th[t].job, th[t].ev,
                        IF t \in Job THEN th[t].next
                        ELSE IF owned[th[t].job] THEN "destroy" ELSE "idle", th[t].goal)
  BY DEF OnUnSchedule
<1>6. TestDone(t) =>
                  \/ /\ alive[th[t].job] => state[th[t].job]["done"]
                     /\ Moves(t, "flag", th[t].job, "deletable", th[t].next, th[t].goal)
                  \/ /\ alive[th[t].job] => ~state[th[t].job]["done"]
                     /\ GoesTo(t, th[t].next)
  BY DEF TestDone
<1>7. SetFlag(t) =>
                  GoesTo(t, IF ~state[th[t].job][th[t].ev] THEN "signal"
                            ELSE IF th[t].ev = "done" THEN "after" ELSE th[t].next)
  BY DEF SetFlag
<1>8. SetSignal(t) =>
                  GoesTo(t, IF th[t].ev = "done" THEN "after" ELSE th[t].next)
  BY DEF SetSignal
<1>9. Destroy(t) => GoesTo(t, IF t \in Job THEN "gone" ELSE "idle")
  BY DEF Destroy, Goto
<1>10. ASSUME NEW j \in Job
       PROVE  /\ AssignJob(t, j) => Moves(t, "claim", j, "done", "unschedule", "done")
              /\ DrainQueue(t, j) => Moves(t, "unschedule", j, "done", "unschedule", "done")
  <2>1. Start("claim", j) \in Context /\ Start("unschedule", j) \in Context
    BY DEF Start, Context
  <2>2. ASSUME AssignJob(t, j)
        PROVE  Moves(t, "claim", j, "done", "unschedule", "done")
    <3>1. th' = [th EXCEPT ![t] = [Start("claim", j) EXCEPT !.next = "unschedule"]]
      BY <2>2 DEF AssignJob
    <3> QED BY <2>1, <3>1, ContextChange DEF Start
  <2>3. ASSUME DrainQueue(t, j)
        PROVE  Moves(t, "unschedule", j, "done", "unschedule", "done")
    <3>1. th' = [th EXCEPT ![t] = Start("unschedule", j)]
      BY <2>3 DEF DrainQueue
    <3> QED BY <2>1, <3>1, ContextChange DEF Start
  <2> QED BY <2>2, <2>3
<1> QED BY <1>1, <1>2, <1>3, <1>4, <1>5, <1>6, <1>7, <1>8, <1>9, <1>10

\* Every step keeps the types.
LEMMA TypeStep == TypeOK /\ ClientPlaces /\ WorkerPlaces /\ [Next]_vars => TypeOK'
<1> SUFFICES ASSUME TypeOK, ClientPlaces, WorkerPlaces, [Next]_vars  PROVE TypeOK'
  OBVIOUS
<1>0. \A t \in Thread : /\ ~At(t, "idle") => th[t].job \in Job
                        /\ th[t].ev \in Event /\ th[t].goal \in Event
  BY ThreadTypes DEF ClientPlaces, WorkerPlaces, Thread
<1>1. ASSUME NEW c \in Job, Schedule(c)  PROVE TypeOK'
  <2>1. th' \in [Thread -> Context]
    BY <1>1, ClientMoves DEF Moves, GoesTo
  <2> QED BY <1>1, <2>1 DEF TypeOK, Schedule, osVars
<1>2. ASSUME NEW c \in Job, WaitUntilDone(c) \/ WaitUntilDoneOrTimeout(c) \/ DeleteTestsWaiting(c)
      PROVE  TypeOK'
  <2>1. th' \in [Thread -> Context]
    BY <1>2, ClientMoves DEF Moves
  <2> QED BY <1>2, <2>1 DEF TypeOK, WaitUntilDone, WaitUntilDoneOrTimeout, DeleteTestsWaiting, jobVars, osVars
<1>4. ASSUME NEW c \in Job, Terminate(c) \/ Delete(c) \/ RemoveJobFromQueue(c)  PROVE TypeOK'
  <2>1. th' \in [Thread -> Context]
    BY <1>4, ClientMoves DEF Moves, GoesTo, Terminate, TypeOK
  <2> QED BY <1>4, <2>1 DEF TypeOK, Terminate, Delete, RemoveJobFromQueue, jobVars, osVars
<1>6. ASSUME NEW c \in Job, Check(c) \/ Recheck(c) \/ Wake(c) \/ Timeout(c)  PROVE TypeOK'
  <2>1. th' \in [Thread -> Context]
    BY <1>6, ClientMoves DEF Moves, GoesTo
  <2>2. waited' \in [Job -> {"no", "set", "timeout"}]
    BY <1>6 DEF TypeOK, Check, Recheck, Wake, Timeout, WaitEnds
  <2> QED BY <1>6, <2>1, <2>2 DEF TypeOK, Check, Recheck, Wake, Timeout, jobVars, osVars
<1>7. ASSUME NEW c \in Job, Alloc(c)  PROVE TypeOK'
  <2>1. th' \in [Thread -> Context]
    BY <1>7, ClientMoves DEF Moves, GoesTo
  <2>2. event' \in [Job -> [Event -> Handle \cup {NoHandle}]] /\ pool' \in Seq(Handle)
    <3>1. c \in Thread /\ th[c].goal \in Event
      BY <1>0 DEF Thread
    <3>0. ASSUME NEW h \in Handle
          PROVE  [event EXCEPT ![c][th[c].goal] = h] \in [Job -> [Event -> Handle \cup {NoHandle}]]
      BY <3>1 DEF TypeOK
    <3>2. CASE event[c][th[c].goal] # NoHandle
      BY <1>7, <3>2 DEF Alloc, TypeOK
    <3>3. CASE event[c][th[c].goal] = NoHandle /\ pool # <<>>
      <4>1. pool[Len(pool)] \in Handle /\ SubSeq(pool, 1, Len(pool) - 1) \in Seq(Handle)
        BY <3>3 DEF TypeOK
      <4>2. /\ event' = [event EXCEPT ![c][th[c].goal] = pool[Len(pool)]]
            /\ pool' = SubSeq(pool, 1, Len(pool) - 1)
        BY <1>7, <3>3 DEF Alloc
      <4> QED BY <3>0, <4>1, <4>2
    <3>4. CASE event[c][th[c].goal] = NoHandle /\ pool = <<>>
      <4>1. event' = [event EXCEPT ![c][th[c].goal] = NewHandle] /\ pool' = pool
        BY <1>7, <3>4 DEF Alloc
      <4>2. NewHandle \in Handle
        BY <3>1, <3>4, FreshHandle
      <4> QED BY <3>0, <4>1, <4>2 DEF TypeOK
    <3> QED BY <3>2, <3>3, <3>4
  <2> QED BY <1>7, <2>1, <2>2 DEF TypeOK, Alloc, jobVars
<1>8. ASSUME NEW w \in Worker, NEW j \in Job, AssignJob(w, j) \/ DrainQueue(w, j)
      PROVE  TypeOK'
  <2>1. th' \in [Thread -> Context]
    BY <1>8, InsideMoves DEF Moves, Thread
  <2> QED BY <1>8, <2>1 DEF TypeOK, AssignJob, DrainQueue, jobVars, osVars
<1>9. ASSUME NEW t \in Thread, Inside(t)  PROVE TypeOK'
  <2>1. th' \in [Thread -> Context]
    BY <1>9, InsideMoves DEF Moves, GoesTo, Inside
  <2>2. CASE Claim(t) \/ ClaimedByOther(t) \/ AfterRun(t) \/ OnUnSchedule(t) \/ TestDone(t)
    BY <2>1, <2>2, <1>0 DEF TypeOK, Claim, ClaimedByOther, AfterRun, OnUnSchedule, TestDone, jobVars, osVars, At
  <2>3. CASE Run(t)
    BY <2>1, <2>3, <1>0 DEF TypeOK, Run, jobVars, osVars, At
  <2>4. CASE SetFlag(t)
    BY <2>1, <2>4, <1>0 DEF TypeOK, SetFlag, jobVars, osVars, At
  <2>5. CASE SetSignal(t)
    <3>1. th[t].job \in Job /\ th[t].ev \in Event
      BY <2>5, <1>0 DEF SetSignal, At
    <3> QED BY <2>1, <2>5, <3>1, JobAssumption DEF TypeOK, SetSignal, jobVars, osVars
  <2>6. CASE Destroy(t)
    <3>1. th[t].job \in Job
      BY <2>6, <1>0 DEF Destroy, At
    <3>2. \A e \in Event : Back(th[t].job, e) \in Seq(Handle)
      BY <3>1 DEF Back, TypeOK
    <3>3. pool' \in Seq(Handle)
      BY <2>6, <3>2, Places DEF Destroy, TypeOK
    <3>4. signalled' \subseteq Handle /\ alive' \in [Job -> BOOLEAN]
      BY <2>6 DEF Destroy, TypeOK
    <3> QED BY <2>1, <2>6, <3>3, <3>4 DEF TypeOK, Destroy, jobVars
  <2> QED BY <1>9, <2>2, <2>3, <2>4, <2>5, <2>6 DEF Inside
<1>13. ASSUME UNCHANGED vars  PROVE TypeOK'
  BY <1>13 DEF vars, TypeOK, jobVars, osVars
<1> QED
  BY <1>1, <1>2, <1>4, <1>6, <1>7, <1>8, <1>9, <1>13
     DEF Next, Client, WorkerStep, ClientInside, Thread

-------------------------------------------------------------------------------
(* Places.                                                                 *)

\* What clients and workers do apart from moving.
LEMMA PlacesStep ==
    TypeOK /\ ClientPlaces /\ WorkerPlaces /\ Token /\ [Next]_vars => ClientPlaces' /\ WorkerPlaces'
<1> SUFFICES ASSUME TypeOK, ClientPlaces, WorkerPlaces, Token, [Next]_vars
             PROVE  ClientPlaces' /\ WorkerPlaces'
  OBVIOUS
<1> USE DEF ClientPlaces, WorkerPlaces, Sets, At, Moves, GoesTo
<1>0. /\ \A c \in Job : c \in Thread /\ c \notin Worker
      /\ \A w \in Worker : w \in Thread /\ w \notin Job
      /\ \A t \in Thread : t \in Job \/ t \in Worker
      /\ \A t \in Thread : th[t].ev = "done" \/ th[t].ev = "deletable"
  BY ThreadAssumption, ThreadTypes, Places DEF Thread
<1>t. /\ owned \in [Job -> BOOLEAN] /\ alive \in [Job -> BOOLEAN]
  BY DEF TypeOK
<1>1. ASSUME NEW c \in Job, Schedule(c)  PROVE ClientPlaces' /\ WorkerPlaces'
  <2>1. alive' = alive /\ At(c, "new") /\ owned' \in [Job -> BOOLEAN]
        /\ \A k \in Job : k # c => owned'[k] = owned[k]
    BY <1>t, <1>1 DEF Schedule
  <2>2. (owned'[c] /\ GoesTo(c, "gone")) \/ (~owned'[c] /\ GoesTo(c, "ready"))
    BY <1>1, ClientMoves
  <2>3. ~owned[c]
    BY <2>1
  <2>4. \A w \in Worker : ~At(w, "idle") /\ owned[th[w].job] => owned'[th[w].job]
    BY <2>1, <2>3
  <2>5. ClientPlaces'
    BY <1>0, <1>t, <2>1, <2>2
  <2> QED BY <1>0, <1>t, <2>1, <2>2, <2>4, <2>5
<1>2. ASSUME NEW c \in Job, WaitUntilDone(c) \/ WaitUntilDoneOrTimeout(c) \/ DeleteTestsWaiting(c)
      PROVE  ClientPlaces' /\ WorkerPlaces'
  <2>1. UNCHANGED <<owned, alive>>
    BY <1>2 DEF WaitUntilDone, WaitUntilDoneOrTimeout, DeleteTestsWaiting
  <2>2. \E l \in {"claim", "check"}, n \in {"check", th[c].next}, g \in Event :
          /\ n = "check" \/ l = "check"
          /\ Moves(c, l, th[c].job, th[c].ev, n, g)
    <3> HIDE DEF Moves
    <3> QED BY <1>2, ClientMoves, Places
  <2>3. ~At(c, "gone")
    BY <1>2 DEF WaitUntilDone, WaitUntilDoneOrTimeout, DeleteTestsWaiting
  <2> QED BY <1>0, <1>t, <2>1, <2>2, <2>3
<1>3. ASSUME NEW c \in Job, Terminate(c) \/ Delete(c) \/ RemoveJobFromQueue(c)
      PROVE  ClientPlaces' /\ WorkerPlaces'
  <2>1. UNCHANGED <<owned, alive>> /\ ~At(c, "gone")
    BY <1>3 DEF Terminate, Delete, RemoveJobFromQueue
  <2>2. \/ th' = th \/ GoesTo(c, "deleting")
        \/ Moves(c, "unschedule", th[c].job, th[c].ev, "back", th[c].goal)
    BY <1>3, ClientMoves DEF Terminate
  <2> QED BY <1>0, <1>t, <2>1, <2>2
<1>4. ASSUME NEW c \in Job, Check(c) \/ Recheck(c) \/ Wake(c) \/ Timeout(c) \/ Alloc(c)
      PROVE  ClientPlaces' /\ WorkerPlaces'
  <2>1. UNCHANGED <<owned, alive>> /\ ~At(c, "gone")
    BY <1>4 DEF Check, Recheck, Wake, Timeout, Alloc
  <2>2. \/ \E l \in {"alloc", "block", "recheck"} : GoesTo(c, l)
        \/ GoesTo(c, IF th[c].goal = "deletable" THEN "destroy" ELSE "ready")
    <3> HIDE DEF Moves, GoesTo
    <3> QED BY <1>4, ClientMoves
  <2> QED BY <1>0, <1>t, <2>1, <2>2
<1>5. ASSUME NEW w \in Worker, NEW j \in Job, AssignJob(w, j) \/ DrainQueue(w, j)
      PROVE  ClientPlaces' /\ WorkerPlaces'
  <2>1. UNCHANGED <<owned, alive>>
    BY <1>5 DEF AssignJob, DrainQueue
  <2>2. \E l \in {"claim", "unschedule"} : Moves(w, l, j, "done", "unschedule", "done")
    BY <1>0, <1>5, InsideMoves
  <2> QED BY <1>0, <1>t, <2>1, <2>2
<1>6. ASSUME NEW t \in Thread, Claim(t) \/ ClaimedByOther(t) \/ Run(t) \/ AfterRun(t)
      PROVE  ClientPlaces' /\ WorkerPlaces'
  <2>1. UNCHANGED <<owned, alive>> /\ th[t].pc \in {"claim", "run", "after"}
    BY <1>6 DEF Claim, ClaimedByOther, Run, AfterRun
  <2>2. \/ GoesTo(t, "run") \/ GoesTo(t, th[t].next)
        \/ Moves(t, "flag", th[t].job, "done", th[t].next, th[t].goal)
        \/ t \in Job /\ Moves(t, "flag", th[t].job, "deletable", th[t].next, th[t].goal)
    <3>1. CASE t \in Worker /\ At(t, "after")
      <4>1. scheduled[th[t].job]
        BY <1>0, <3>1 DEF Token, Serves, Holds
      <4> QED BY <1>6, <3>1, <4>1, InsideMoves DEF Claim, ClaimedByOther, Run
    <3> QED BY <1>0, <1>6, <3>1, InsideMoves DEF AfterRun
  <2> QED BY <1>0, <1>t, <2>1, <2>2
<1>7. ASSUME NEW t \in Thread, OnUnSchedule(t) \/ TestDone(t)
      PROVE  ClientPlaces' /\ WorkerPlaces'
  <2>1. UNCHANGED <<owned, alive>> /\ th[t].pc \in {"unschedule", "test"}
    BY <1>7 DEF OnUnSchedule, TestDone
  <2>2. \/ /\ At(t, "unschedule")
           /\ Moves(t, "test", th[t].job, th[t].ev,
                    IF t \in Job THEN th[t].next
                    ELSE IF owned[th[t].job] THEN "destroy" ELSE "idle", th[t].goal)
        \/ /\ At(t, "test")
           /\ \/ Moves(t, "flag", th[t].job, "deletable", th[t].next, th[t].goal)
              \/ GoesTo(t, th[t].next)
    <3> HIDE DEF Moves, GoesTo
    <3> QED BY <1>7, InsideMoves DEF OnUnSchedule, TestDone
  <2> QED BY <1>0, <1>t, <2>1, <2>2
<1>8. ASSUME NEW t \in Thread, SetFlag(t) \/ SetSignal(t)
      PROVE  ClientPlaces' /\ WorkerPlaces'
  <2>1. UNCHANGED <<owned, alive>> /\ th[t].pc \in {"flag", "signal"}
    BY <1>8 DEF SetFlag, SetSignal
  <2>2. GoesTo(t, "signal") \/ GoesTo(t, IF th[t].ev = "done" THEN "after" ELSE th[t].next)
    BY <1>8, InsideMoves
  <2> QED BY <1>0, <1>t, <2>1, <2>2
<1>9. ASSUME NEW t \in Thread, Destroy(t)  PROVE ClientPlaces' /\ WorkerPlaces'
  <2>1. owned' = owned /\ alive' = [alive EXCEPT ![th[t].job] = FALSE] /\ At(t, "destroy")
    BY <1>9 DEF Destroy
  <2>2. GoesTo(t, IF t \in Job THEN "gone" ELSE "idle")
    BY <1>9, InsideMoves
  <2> QED BY <1>0, <1>t, <2>1, <2>2
<1>10. ASSUME UNCHANGED vars  PROVE ClientPlaces' /\ WorkerPlaces'
  BY <1>10 DEF vars
<1> QED
  BY <1>0, <1>1, <1>2, <1>3, <1>4, <1>5, <1>6, <1>7, <1>8, <1>9, <1>10
     DEF Next, Client, WorkerStep, ClientInside, Inside

-------------------------------------------------------------------------------
(* The job in the scheduler.                                               *)

\* Only thread t has moved.
OnlyMoves(t) == \A u \in Thread \ {t} : th'[u] = th[u]

\* A step that neither schedules a job nor takes one from the queue or out of service.
LEMMA TokenFrame ==
    ASSUME Token, NEW t \in Thread, OnlyMoves(t), UNCHANGED <<scheduled, queue>>,
           \A k \in Job : /\ Holds(t, k)' => Holds(t, k)
                          /\ Serves(t, k)' <=> Serves(t, k),
           At(t, "new")' => At(t, "new"),
           \A k \in Job : At(k, "new") /\ waiting[k] => waiting'[k]
    PROVE  Token'
<1>1. \A u \in Thread, k \in Job : /\ Holds(u, k)' => Holds(u, k)
                                   /\ Serves(u, k)' <=> Serves(u, k)
                                   /\ At(u, "new")' => At(u, "new")
  BY DEF OnlyMoves, Holds, Serves, At
<1>2. \A k \in Job : k \in Thread
  BY DEF Thread
<1> QED BY <1>1, <1>2 DEF Token

\* The thread that holds a job is in it; a worker that is not idle holds one.
LEMMA HoldsFacts ==
    ASSUME TypeOK, ClientPlaces, WorkerPlaces
    PROVE  /\ \A w \in Worker : ~At(w, "idle") => th[w].job \in Job /\ Holds(w, th[w].job)
           /\ \A t \in Thread, j \in Job : Holds(t, j) => th[t].job = j /\ (t \in Job => t = j)
           /\ \A t \in Thread, j \in Job : Serves(t, j) => Holds(t, j)
           /\ \A c, j \in Job : Serves(c, j) <=> c = j /\ At(c, "unschedule")
  BY ThreadAssumption DEF ClientPlaces, WorkerPlaces, Holds, Serves, Thread, At, Sets

\* A job is taken from the queue once, and scheduled as long as somebody has to.
LEMMA TokenStep ==
    TypeOK /\ ClientPlaces /\ WorkerPlaces /\ Token /\ [Next]_vars => Token'
<1> SUFFICES ASSUME TypeOK, ClientPlaces, WorkerPlaces, Token, [Next]_vars
             PROVE  Token'
  OBVIOUS
<1>0. /\ \A c \in Job : c \in Thread /\ c \notin Worker
      /\ \A w \in Worker : w \in Thread /\ w \notin Job
      /\ \A t \in Thread : t \in Job \/ t \in Worker
      /\ \A t \in Thread : th[t].ev = "done" \/ th[t].ev = "deletable"
      /\ scheduled \in [Job -> BOOLEAN] /\ waiting \in [Job -> BOOLEAN]
  BY ThreadAssumption, ThreadTypes, Places DEF Thread, TypeOK
<1>p. ClientPlaces' /\ WorkerPlaces' /\ TypeOK'
  BY PlacesStep, TypeStep
<1>1. ASSUME NEW c \in Job, Schedule(c)  PROVE Token'
  <2>1. /\ At(c, "new") /\ waiting' = waiting
        /\ scheduled' = [scheduled EXCEPT ![c] = TRUE] /\ queue' = queue \cup {c}
    BY <1>1 DEF Schedule
  <2>2. GoesTo(c, "gone") \/ GoesTo(c, "ready")
    BY <1>1, ClientMoves
  <2>3. \A u \in Thread, k \in Job : /\ Holds(u, k)' <=> Holds(u, k)
                                     /\ Serves(u, k)' <=> Serves(u, k)
                                     /\ At(u, "new")' => u # c /\ At(u, "new")
    BY <1>0, <2>1, <2>2 DEF Holds, Serves, At, GoesTo, Moves
  <2>4. \A u \in Thread : ~Holds(u, c)
    BY <2>1 DEF Token
  <2> QED BY <1>0, <2>1, <2>3, <2>4 DEF Token
<1>2. ASSUME NEW c \in Job, RemoveJobFromQueue(c)  PROVE Token'
  <2>1. At(c, "ready") /\ c \in queue /\ queue' = queue \ {c} /\ UNCHANGED <<waiting, scheduled>>
    BY <1>2 DEF RemoveJobFromQueue, jobVars
  <2>2. Moves(c, "unschedule", th[c].job, th[c].ev, "back", th[c].goal)
    BY <1>2, ClientMoves
  <2>3. \A u \in Thread \ {c}, k \in Job : /\ Holds(u, k)' <=> Holds(u, k)
                                           /\ Serves(u, k)' <=> Serves(u, k)
                                           /\ At(u, "new")' => At(u, "new")
    BY <2>2 DEF Holds, Serves, At, Moves
  <2>4. \A k \in Job : (Holds(c, k)' <=> k = c) /\ (Serves(c, k)' <=> k = c) /\ ~At(c, "new")'
    BY <1>0, <2>2 DEF Holds, Serves, At, Moves, ClientPlaces
  <2>5. \A k \in Job : ~Holds(c, k) /\ ~Serves(c, k)
    BY <1>0, <2>1 DEF Holds, Serves, At
  <2> QED BY <1>0, <2>1, <2>3, <2>4, <2>5 DEF Token
<1>3. ASSUME NEW w \in Worker, NEW j \in Job, AssignJob(w, j) \/ DrainQueue(w, j)  PROVE Token'
  <2>1. At(w, "idle") /\ j \in queue /\ queue' = queue \ {j} /\ UNCHANGED <<waiting, scheduled>>
    BY <1>3 DEF AssignJob, DrainQueue, jobVars
  <2>2. \E l \in {"claim", "unschedule"} : Moves(w, l, j, "done", "unschedule", "done")
    BY <1>0, <1>3, InsideMoves
  <2>3. \A u \in Thread \ {w}, k \in Job : /\ Holds(u, k)' <=> Holds(u, k)
                                           /\ Serves(u, k)' <=> Serves(u, k)
                                           /\ At(u, "new")' => At(u, "new")
    BY <2>2 DEF Holds, Serves, At, Moves
  <2>4. \A k \in Job : (Holds(w, k)' <=> k = j) /\ (Serves(w, k)' <=> k = j) /\ ~At(w, "new")'
    BY <1>0, <2>2 DEF Holds, Serves, At, Moves
  <2>5. \A k \in Job : ~Holds(w, k) /\ ~Serves(w, k)
    BY <1>0, <2>1 DEF Holds, Serves, At
  <2> QED BY <1>0, <2>1, <2>3, <2>4, <2>5 DEF Token
<1>4. ASSUME NEW t \in Thread, OnUnSchedule(t)  PROVE Token'
  <2> DEFINE j == th[t].job
  <2>1. At(t, "unschedule") /\ scheduled' = [scheduled EXCEPT ![j] = FALSE] /\ UNCHANGED <<waiting, queue>>
    BY <1>4 DEF OnUnSchedule
  <2>2. Moves(t, "test", j, th[t].ev, IF t \in Job THEN th[t].next
              ELSE IF owned[j] THEN "destroy" ELSE "idle", th[t].goal)
    BY <1>4, InsideMoves
  <2>3. \A u \in Thread \ {t}, k \in Job : /\ Holds(u, k)' <=> Holds(u, k)
                                           /\ Serves(u, k)' <=> Serves(u, k)
                                           /\ At(u, "new")' => At(u, "new")
    BY <2>2 DEF Holds, Serves, At, Moves
  <2>4. j \in Job /\ \A k \in Job : Holds(t, k) <=> k = j
    BY <1>0, <2>1 DEF Holds, At, ClientPlaces, WorkerPlaces
  <2>5. \A k \in Job : (Holds(t, k)' <=> k = j) /\ ~At(t, "new")'
    BY <1>0, <2>2, <2>4 DEF Holds, At, Moves
  <2>6. \A k \in Job : ~Serves(t, k)' /\ (Serves(t, k) <=> k = j)
    BY <1>0, <2>1, <2>2, <2>4 DEF Serves, At, Moves, ClientPlaces
  <2>7. \A u \in Thread : Serves(u, j) => u = t
    BY <2>4 DEF Token, Serves
  <2> HIDE DEF j
  <2> QED BY <1>0, <2>1, <2>3, <2>4, <2>5, <2>6, <2>7 DEF Token
<1>5. ASSUME NEW c \in Job, \/ WaitUntilDone(c) \/ WaitUntilDoneOrTimeout(c) \/ Terminate(c)
                            \/ Delete(c) \/ DeleteTestsWaiting(c) \/ Check(c) \/ Recheck(c)
                            \/ Wake(c) \/ Timeout(c) \/ Alloc(c)
      PROVE  Token'
  <2>1. UNCHANGED <<scheduled, queue, waiting>>
        /\ th[c].pc \in {"new", "ready", "back", "deleting", "check", "alloc", "recheck", "block"}
    BY <1>5 DEF WaitUntilDone, WaitUntilDoneOrTimeout, Terminate, Delete, DeleteTestsWaiting,
                Check, Recheck, Wake, Timeout, Alloc, At, jobVars
  <2>2. \/ th' = th
        \/ \E l \in {"claim", "check", "alloc", "recheck", "block", "deleting", "ready", "destroy"},
              n \in Control, g \in Event : Moves(c, l, th[c].job, th[c].ev, n, g)
    BY <1>0, <1>5, ClientMoves, Places, ThreadTypes DEF Terminate, GoesTo
  <2>3. OnlyMoves(c) /\ (At(c, "new")' => At(c, "new"))
    BY <2>2 DEF OnlyMoves, Moves, At
  <2>4. \A k \in Job : ~Holds(c, k) /\ ~Holds(c, k)' /\ ~Serves(c, k) /\ ~Serves(c, k)'
    BY <1>0, <2>1, <2>2 DEF Holds, Serves, At, Moves
  <2> QED BY <1>0, <2>1, <2>3, <2>4, TokenFrame
<1>6. ASSUME NEW t \in Thread, Claim(t) \/ ClaimedByOther(t) \/ Run(t) \/ AfterRun(t)  PROVE Token'
  <2>1. UNCHANGED <<scheduled, queue>> /\ th[t].pc \in {"claim", "run", "after"}
        /\ \A k \in Job : waiting[k] => waiting'[k] \/ k = th[t].job
    BY <1>0, <1>6 DEF Claim, ClaimedByOther, Run, AfterRun, jobVars, At
  <2>2. \/ GoesTo(t, "run") \/ GoesTo(t, th[t].next)
        \/ \E e \in Event : Moves(t, "flag", th[t].job, e, th[t].next, th[t].goal)
    BY <1>6, InsideMoves, Places
  <2>3. OnlyMoves(t) /\ (At(t, "new")' => At(t, "new"))
    BY <1>0, <2>1, <2>2 DEF OnlyMoves, Moves, GoesTo, At, ClientPlaces, WorkerPlaces
  <2>4. \A k \in Job : (Holds(t, k)' <=> Holds(t, k)) /\ (Serves(t, k)' <=> Serves(t, k))
    <3>1. CASE t \in Job
      BY <1>0, <2>1, <2>2, <3>1 DEF Holds, Serves, Moves, GoesTo, At, ClientPlaces
    <3>2. CASE t \in Worker
      BY <1>0, <2>1, <2>2, <3>2 DEF Holds, Serves, Moves, GoesTo, At, WorkerPlaces
    <3> QED BY <1>0, <3>1, <3>2
  <2>5. \A k \in Job : At(k, "new") => k # th[t].job
    <3>1. CASE t \in Job
      BY <2>1, <3>1 DEF At, ClientPlaces
    <3>2. CASE t \in Worker
      BY <1>0, <2>1, <3>2 DEF Token, Holds, At
    <3> QED BY <1>0, <3>1, <3>2
  <2> QED BY <2>1, <2>3, <2>4, <2>5, TokenFrame
<1>7. ASSUME NEW t \in Thread, TestDone(t) \/ SetFlag(t) \/ SetSignal(t) \/ Destroy(t)  PROVE Token'
  <2>1. UNCHANGED <<scheduled, queue, waiting>>
        /\ th[t].pc \in {"test", "flag", "signal", "destroy"}
    BY <1>7 DEF TestDone, SetFlag, SetSignal, Destroy, jobVars, At
  <2>2. \/ /\ At(t, "test")
           /\ \/ Moves(t, "flag", th[t].job, "deletable", th[t].next, th[t].goal)
              \/ GoesTo(t, th[t].next)
        \/ /\ th[t].pc \in {"flag", "signal"}
           /\ \/ GoesTo(t, "signal")
              \/ GoesTo(t, IF th[t].ev = "done" THEN "after" ELSE th[t].next)
        \/ At(t, "destroy") /\ GoesTo(t, IF t \in Job THEN "gone" ELSE "idle")
    BY <1>7, InsideMoves DEF TestDone, SetFlag, SetSignal, Destroy, At
  <2>3. OnlyMoves(t)
    BY <2>2 DEF OnlyMoves, Moves, GoesTo
  <2>4. /\ \A k \in Job : (Holds(t, k)' => Holds(t, k)) /\ (Serves(t, k)' <=> Serves(t, k))
        /\ ~At(t, "new")'
    <3>1. CASE t \in Job
      BY <1>0, <2>2, <3>1 DEF Holds, Serves, Moves, GoesTo, At, ClientPlaces, Sets
    <3>2. CASE t \in Worker
      BY <1>0, <2>2, <3>2 DEF Holds, Serves, Moves, GoesTo, At, WorkerPlaces, Sets
    <3> QED BY <1>0, <3>1, <3>2
  <2> QED BY <2>1, <2>3, <2>4, TokenFrame
<1>8. ASSUME UNCHANGED vars  PROVE Token'
  BY <1>8 DEF vars, jobVars, Token, Holds, Serves, At
<1> QED
  BY <1>0, <1>1, <1>2, <1>3, <1>4, <1>5, <1>6, <1>7, <1>8
     DEF Next, Client, WorkerStep, ClientInside, Inside

-------------------------------------------------------------------------------
(* The execution.                                                          *)

\* A step that is no part of the execution itself.
LEMMA ExecutionFrame ==
    ASSUME Execution, NEW t \in Thread, OnlyMoves(t), UNCHANGED <<waiting, runs>>,
           \A k \in Job : /\ ~Executes(t, k) /\ ~Executes(t, k)'
                          /\ state'[k]["done"] = state[k]["done"]
                          /\ terminated[k] => terminated'[k]
    PROVE  Execution'
<1>1. \A u \in Thread, k \in Job : /\ Executes(u, k)' <=> Executes(u, k)
                                   /\ Executes(u, k) => (At(u, "run")' <=> At(u, "run"))
                                   /\ Executes(u, k) => (At(u, "flag")' <=> At(u, "flag"))
  BY DEF OnlyMoves, Executes, At
<1> QED BY <1>1 DEF Execution

\* The exchange of waiting lets one thread execute the job, and once.
LEMMA ExecutionStep ==
    TypeOK /\ ClientPlaces /\ WorkerPlaces /\ Token /\ Execution /\ [Next]_vars => Execution'
<1> SUFFICES ASSUME TypeOK, ClientPlaces, WorkerPlaces, Token, Execution, [Next]_vars
             PROVE  Execution'
  OBVIOUS
<1>0. /\ \A c \in Job : c \in Thread /\ c \notin Worker
      /\ \A w \in Worker : w \in Thread /\ w \notin Job
      /\ \A t \in Thread : t \in Job \/ t \in Worker
      /\ \A t \in Thread : th[t].ev = "done" \/ th[t].ev = "deletable"
      /\ waiting \in [Job -> BOOLEAN] /\ terminated \in [Job -> BOOLEAN]
      /\ state \in [Job -> [Event -> BOOLEAN]] /\ runs \in [Job -> Nat]
  BY ThreadAssumption, ThreadTypes, Places DEF Thread, TypeOK
<1>j. \A t \in Thread : ~At(t, "idle") => th[t].job \in Job
  BY <1>0 DEF ClientPlaces, WorkerPlaces
<1>1. ASSUME NEW t \in Thread, Claim(t)  PROVE Execution'
  <2> DEFINE j == th[t].job
  <2>1. /\ At(t, "claim") /\ waiting[j] /\ waiting' = [waiting EXCEPT ![j] = FALSE]
        /\ UNCHANGED <<runs, state, terminated>> /\ j \in Job
    BY <1>1, <1>j DEF Claim, At
  <2>2. GoesTo(t, "run")
    BY <1>1, InsideMoves
  <2>3. \A u \in Thread, k \in Job : u # t => /\ Executes(u, k)' <=> Executes(u, k)
                                              /\ At(u, "run")' <=> At(u, "run")
                                              /\ At(u, "flag")' <=> At(u, "flag")
    BY <2>2 DEF GoesTo, Moves, Executes, At
  <2>4. At(t, "run")' /\ ~At(t, "flag")' /\ \A k \in Job : (Executes(t, k)' <=> k = j)
    BY <2>2 DEF GoesTo, Moves, Executes, At
  <2>5. \A k \in Job : ~Executes(t, k)
    BY <2>1 DEF Executes, At
  <2>6. \A u \in Thread : ~Executes(u, j)
    BY <2>1 DEF Execution
  <2> HIDE DEF j
  <2> QED BY <1>0, <2>1, <2>3, <2>4, <2>5, <2>6 DEF Execution
<1>2. ASSUME NEW t \in Thread, Run(t)  PROVE Execution'
  <2> DEFINE j == th[t].job
  <2>1. /\ At(t, "run") /\ runs' = [runs EXCEPT ![j] = IF terminated[j] THEN @ ELSE @ + 1]
        /\ UNCHANGED <<waiting, state, terminated>> /\ j \in Job
    BY <1>2, <1>j DEF Run, At, jobVars
  <2>2. Moves(t, "flag", j, "done", th[t].next, th[t].goal)
    BY <1>2, InsideMoves
  <2>3. \A u \in Thread, k \in Job : u # t => /\ Executes(u, k)' <=> Executes(u, k)
                                              /\ At(u, "run")' <=> At(u, "run")
                                              /\ At(u, "flag")' <=> At(u, "flag")
    BY <2>2 DEF Moves, Executes, At
  <2>4. ~At(t, "run")' /\ At(t, "flag")' /\ \A k \in Job : (Executes(t, k)' <=> k = j)
    BY <2>2 DEF Moves, Executes, At
  <2>5. \A k \in Job : Executes(t, k) <=> k = j
    BY <2>1 DEF Executes, At
  <2>6. runs[j] = 0 /\ ~waiting[j] /\ ~state[j]["done"] /\ \A u \in Thread : Executes(u, j) => u = t
    BY <2>1, <2>5 DEF Execution
  <2>7. runs'[j] = 1 \/ terminated'[j]
    BY <1>0, <2>1, <2>6
  <2> HIDE DEF j
  <2>8. \A k \in Job : k # j => runs'[k] = runs[k]
    BY <1>0, <2>1
  <2> QED BY <2>1, <2>3, <2>4, <2>5, <2>6, <2>7, <2>8 DEF Execution
<1>3. ASSUME NEW t \in Thread, SetFlag(t)  PROVE Execution'
  <2> DEFINE j == th[t].job
  <2>1. /\ At(t, "flag") /\ state' = [state EXCEPT ![j][th[t].ev] = TRUE]
        /\ UNCHANGED <<waiting, runs, terminated>> /\ j \in Job
    BY <1>3, <1>j DEF SetFlag, At, jobVars
  <2>2. \/ \E l \in {"signal", "after"} : GoesTo(t, l)
        \/ th[t].ev = "deletable" /\ GoesTo(t, th[t].next)
    BY <1>0, <1>3, InsideMoves
  <2>o. OnlyMoves(t)
    BY <2>2 DEF GoesTo, Moves, OnlyMoves
  <2>3. CASE th[t].ev = "deletable"
    <3>1. \A k \in Job : ~Executes(t, k)
      BY <2>1, <2>3 DEF Executes, At
    <3>2. th'[t].pc # "run" /\ th'[t].ev = "deletable"
      BY <1>0, <2>1, <2>2, <2>3 DEF GoesTo, Moves, ClientPlaces, WorkerPlaces, Sets, At
    <3>3. \A k \in Job : state'[k]["done"] = state[k]["done"]
      BY <1>0, <2>1, <2>3, Places
    <3> QED BY <2>1, <2>o, <3>1, <3>2, <3>3, ExecutionFrame DEF Executes, At
  <2>4. CASE th[t].ev = "done"
    <3>1. \A k \in Job : Executes(t, k) <=> k = j
      BY <2>1, <2>4 DEF Executes, At
    <3>2. /\ \A u \in Thread : Executes(u, j) => u = t
          /\ ~waiting[j] /\ (runs[j] = 1 \/ terminated[j])
      BY <2>1, <3>1 DEF Execution
    <3>3. \A k \in Job : ~Executes(t, k)'
      BY <2>2, <2>4 DEF GoesTo, Moves, Executes, At
    <3>4. \A u \in Thread, k \in Job : u # t => /\ Executes(u, k)' <=> Executes(u, k)
                                                /\ At(u, "run")' <=> At(u, "run")
                                                /\ At(u, "flag")' <=> At(u, "flag")
      BY <2>o DEF OnlyMoves, Executes, At
    <3>5. state'[j]["done"] /\ \A k \in Job : k # j => state'[k]["done"] = state[k]["done"]
      BY <1>0, <2>1, <2>4, Places
    <3> HIDE DEF j
    <3> QED BY <2>1, <3>1, <3>2, <3>3, <3>4, <3>5 DEF Execution
  <2> QED BY <1>0, <2>3, <2>4
<1>4. ASSUME NEW c \in Job,
             \/ Schedule(c) \/ WaitUntilDone(c) \/ WaitUntilDoneOrTimeout(c) \/ Terminate(c)
             \/ Delete(c) \/ RemoveJobFromQueue(c) \/ DeleteTestsWaiting(c)
             \/ Check(c) \/ Recheck(c) \/ Wake(c) \/ Timeout(c) \/ Alloc(c)
      PROVE  Execution'
  <2>1. /\ UNCHANGED <<waiting, runs, state>>
        /\ \A k \in Job : terminated[k] => terminated'[k]
        /\ th[c].pc \in {"new", "ready", "back", "deleting", "check", "alloc", "recheck", "block"}
    BY <1>0, <1>4 DEF Schedule, WaitUntilDone, WaitUntilDoneOrTimeout, Terminate, Delete,
       RemoveJobFromQueue, DeleteTestsWaiting, Check, Recheck, Wake, Timeout, Alloc, At, jobVars
  <2>2. \/ th' = th
        \/ \E l \in {"claim", "check", "alloc", "recheck", "block", "deleting", "ready",
                     "destroy", "gone", "unschedule"},
              n \in Control, g \in Event : Moves(c, l, th[c].job, th[c].ev, n, g)
    BY <1>0, <1>4, ClientMoves, Places, ThreadTypes DEF Terminate, GoesTo
  <2>3. OnlyMoves(c)
    BY <2>2 DEF OnlyMoves, Moves
  <2>4. \A k \in Job : ~Executes(c, k) /\ ~Executes(c, k)'
    BY <1>0, <2>1, <2>2 DEF Executes, At, Moves
  <2> QED BY <1>0, <2>1, <2>3, <2>4, ExecutionFrame
<1>5. ASSUME NEW w \in Worker, NEW j \in Job, AssignJob(w, j) \/ DrainQueue(w, j)
      PROVE  Execution'
  <2>1. At(w, "idle") /\ UNCHANGED <<waiting, runs, state, terminated>>
    BY <1>5 DEF AssignJob, DrainQueue, jobVars
  <2>2. \E l \in {"claim", "unschedule"} : Moves(w, l, j, "done", "unschedule", "done")
    BY <1>0, <1>5, InsideMoves
  <2>3. OnlyMoves(w)
    BY <2>2 DEF OnlyMoves, Moves
  <2>4. \A k \in Job : ~Executes(w, k) /\ ~Executes(w, k)'
    BY <1>0, <2>1, <2>2 DEF Executes, At, Moves
  <2> QED BY <1>0, <2>1, <2>3, <2>4, ExecutionFrame
<1>6. ASSUME NEW t \in Thread, \/ ClaimedByOther(t) \/ AfterRun(t) \/ OnUnSchedule(t)
                               \/ TestDone(t) \/ SetSignal(t) \/ Destroy(t)
      PROVE  Execution'
  <2>1. /\ UNCHANGED <<waiting, runs, state, terminated>>
        /\ th[t].pc \in {"claim", "after", "unschedule", "test", "signal", "destroy"}
    BY <1>6 DEF ClaimedByOther, AfterRun, OnUnSchedule, TestDone, SetSignal, Destroy, jobVars, At
  <2>2. \/ \E n \in Control : Moves(t, "flag", th[t].job, "deletable", n, th[t].goal)
        \/ \E l \in {"test", "after", "gone", "idle"}, n \in Control :
               Moves(t, l, th[t].job, th[t].ev, n, th[t].goal)
        \/ /\ ~At(t, "unschedule") /\ ~At(t, "destroy")
           /\ At(t, "signal") => th[t].ev = "deletable"
           /\ GoesTo(t, th[t].next)
    BY <1>0, <1>6, InsideMoves, Places, ThreadTypes
       DEF ClaimedByOther, AfterRun, TestDone, SetSignal, At, GoesTo
  <2>3. OnlyMoves(t)
    BY <2>2 DEF OnlyMoves, Moves, GoesTo
  <2>4. \A k \in Job : ~Executes(t, k) /\ ~Executes(t, k)'
    BY <1>0, <2>1, <2>2 DEF Executes, At, Moves, GoesTo, ClientPlaces, WorkerPlaces, Sets
  <2> QED BY <1>0, <2>1, <2>3, <2>4, ExecutionFrame
<1>7. ASSUME UNCHANGED vars  PROVE Execution'
  BY <1>7 DEF vars, jobVars, Execution, Executes, At
<1> QED
  BY <1>0, <1>1, <1>2, <1>3, <1>4, <1>5, <1>6, <1>7
     DEF Next, Client, WorkerStep, ClientInside, Inside

-------------------------------------------------------------------------------
(* What threads know about their jobs.                                     *)

\* What a step does to the events and the flags that others rely on.
LEMMA Monotone ==
    ASSUME TypeOK, ClientPlaces, WorkerPlaces, Token, Execution, [Next]_vars, NEW j \in Job
    PROVE  /\ \A e \in Event : state[j][e] => state'[j][e]
           /\ ~waiting[j] => ~waiting'[j]
           /\ (~waiting[j] \/ ~alive[j]) /\ ~scheduled[j] => ~scheduled'[j]
           /\ ~alive[j] => ~alive'[j] /\ owned'[j] = owned[j]
<1>0. /\ waiting \in [Job -> BOOLEAN] /\ scheduled \in [Job -> BOOLEAN]
      /\ state \in [Job -> [Event -> BOOLEAN]] /\ alive \in [Job -> BOOLEAN]
  BY DEF TypeOK
<1>j. /\ \A t \in Thread : ~At(t, "idle") => th[t].job \in Job
      /\ \A t \in Thread : th[t].ev \in Event
  BY ThreadTypes DEF ClientPlaces, WorkerPlaces, Thread
<1>1. ASSUME NEW c \in Job,
             \/ WaitUntilDone(c) \/ WaitUntilDoneOrTimeout(c) \/ Terminate(c)
             \/ Delete(c) \/ RemoveJobFromQueue(c) \/ DeleteTestsWaiting(c)
             \/ Check(c) \/ Recheck(c) \/ Wake(c) \/ Timeout(c) \/ Alloc(c)
      PROVE  UNCHANGED <<waiting, scheduled, state, alive, owned>>
  BY <1>1 DEF WaitUntilDone, WaitUntilDoneOrTimeout, Terminate, Delete,
       RemoveJobFromQueue, DeleteTestsWaiting, Check, Recheck, Wake, Timeout, Alloc, jobVars
<1>2. ASSUME NEW t \in Thread, \/ ClaimedByOther(t) \/ Run(t) \/ AfterRun(t)
                               \/ TestDone(t) \/ SetSignal(t)
                               \/ \E k \in Job : AssignJob(t, k) \/ DrainQueue(t, k)
      PROVE  UNCHANGED <<waiting, scheduled, state, alive, owned>>
  BY <1>2 DEF ClaimedByOther, Run, AfterRun, TestDone, SetSignal, AssignJob, DrainQueue, jobVars
<1>3. ASSUME NEW c \in Job, Schedule(c)
      PROVE  /\ UNCHANGED <<waiting, state, alive>> /\ waiting[c] /\ alive[c]
             /\ scheduled' = [scheduled EXCEPT ![c] = TRUE]
             /\ \A k \in Job : k # c => owned'[k] = owned[k]
  BY <1>0, <1>3 DEF Schedule, Token, ClientPlaces, At, TypeOK
<1>4. ASSUME NEW t \in Thread, Claim(t)
      PROVE  /\ UNCHANGED <<scheduled, state, alive, owned>>
             /\ waiting' = [waiting EXCEPT ![th[t].job] = FALSE]
  BY <1>4 DEF Claim
<1>5. ASSUME NEW t \in Thread, OnUnSchedule(t)
      PROVE  /\ UNCHANGED <<waiting, state, alive, owned>>
             /\ scheduled' = [scheduled EXCEPT ![th[t].job] = FALSE]
  BY <1>5 DEF OnUnSchedule
<1>6. ASSUME NEW t \in Thread, SetFlag(t)
      PROVE  /\ UNCHANGED <<waiting, scheduled, alive, owned>>
             /\ state' = [state EXCEPT ![th[t].job][th[t].ev] = TRUE]
  BY <1>6 DEF SetFlag, jobVars
<1>7. ASSUME NEW t \in Thread, Destroy(t)
      PROVE  /\ UNCHANGED <<waiting, scheduled, state, owned>>
             /\ alive' = [alive EXCEPT ![th[t].job] = FALSE]
  BY <1>7 DEF Destroy, jobVars
<1>8. CASE UNCHANGED <<waiting, scheduled, state, alive, owned>>
  BY <1>8
<1>9. ASSUME NEW c \in Job, Client(c), ~ClientInside(c)
      PROVE  Schedule(c) \/ WaitUntilDone(c) \/ WaitUntilDoneOrTimeout(c) \/ Terminate(c)
             \/ Delete(c) \/ RemoveJobFromQueue(c)
  BY <1>9 DEF Client
<1>10. CASE \E c \in Job : Schedule(c)
  BY <1>0, <1>3, <1>10
<1>11. CASE \E t \in Thread : Inside(t)
  <2>1. PICK t \in Thread : Inside(t)
    BY <1>11
  <2>2. CASE Claim(t)
    BY <1>0, <1>4, <2>2
  <2>3. CASE OnUnSchedule(t)
    BY <1>0, <1>5, <2>3
  <2>4. CASE SetFlag(t)
    <3>1. th[t].job \in Job /\ th[t].ev \in Event
      BY <1>j, <2>4 DEF SetFlag, At
    <3>2. ASSUME NEW e \in Event, state[j][e]  PROVE state'[j][e]
      <4>1. state' = [state EXCEPT ![th[t].job][th[t].ev] = TRUE]
        BY <1>6, <2>4
      <4>2. CASE j = th[t].job /\ e = th[t].ev
        BY <1>0, <4>1, <4>2
      <4>3. CASE j = th[t].job /\ e # th[t].ev
        BY <1>0, <3>2, <4>1, <4>3
      <4>4. CASE j # th[t].job
        BY <1>0, <3>2, <4>1, <4>4
      <4> QED BY <4>2, <4>3, <4>4
    <3>3. UNCHANGED <<waiting, scheduled, alive, owned>>
      BY <1>6, <2>4
    <3> QED BY <3>2, <3>3
  <2>5. CASE Destroy(t)
    BY <1>0, <1>7, <2>5
  <2> QED BY <1>2, <1>8, <2>1, <2>2, <2>3, <2>4, <2>5 DEF Inside
<1>12. CASE UNCHANGED vars
  BY <1>8, <1>12 DEF vars, jobVars
<1> QED
  BY <1>1, <1>2, <1>8, <1>10, <1>11, <1>12
     DEF Next, Client, WorkerStep, ClientInside, Thread

\* A deleted job is never tested as if it were not done.
LEMMA DeadIsDone ==
    ASSUME TypeOK, ClientPlaces, WorkerPlaces, Token, Execution, Dead,
           NEW t \in Thread, NEW j \in Job, Holds(t, j), At(t, "test"), ~alive[j]
    PROVE  state[j]["done"]
<1>1. ~owned[j] /\ ~waiting[j]
  BY DEF Dead
<1>2. SUFFICES ASSUME ~state[j]["done"]  PROVE FALSE
  OBVIOUS
<1>3. PICK u \in Thread : Executes(u, j)
  BY <1>1, <1>2 DEF Execution
<1>4. CASE u \in Job
  BY <1>3, <1>4 DEF ClientPlaces, Executes, At
<1>5. CASE u \in Worker
  <2>1. Holds(u, j)
    BY <1>3, <1>5 DEF Executes, Holds, At
  <2>2. u = t
    BY <2>1 DEF Token
  <2> QED BY <1>3, <2>2 DEF Executes, At
<1> QED BY <1>4, <1>5 DEF Thread

\* A thread that holds a job and has taken it out of service has it unscheduled.
LEMMA Unscheduled ==
    ASSUME TypeOK, Token, NEW t \in Thread, NEW j \in Job, Holds(t, j), ~Serves(t, j)
    PROVE  ~scheduled[j] /\ j \notin queue
<1>1. j \notin queue
  BY DEF Token
<1>2. \A u \in Thread : ~Serves(u, j)
  BY DEF Token, Serves
<1> QED BY <1>1, <1>2 DEF Token

\* A thread that sets an event knows that it may.
LEMMA KnownStep ==
    TypeOK /\ ClientPlaces /\ WorkerPlaces /\ Token /\ Execution /\ Dead /\ Known
        /\ [Next]_vars => Known'
<1> SUFFICES ASSUME TypeOK, ClientPlaces, WorkerPlaces, Token, Execution, Dead, Known, [Next]_vars
             PROVE  Known'
  OBVIOUS
<1>0. /\ \A c \in Job : c \in Thread /\ c \notin Worker
      /\ \A w \in Worker : w \in Thread /\ w \notin Job
      /\ \A t \in Thread : t \in Job \/ t \in Worker
      /\ \A t \in Thread : th[t].ev = "done" \/ th[t].ev = "deletable"
      /\ \A t \in Thread : ~At(t, "idle") => th[t].job \in Job
      /\ waiting \in [Job -> BOOLEAN] /\ scheduled \in [Job -> BOOLEAN]
      /\ state \in [Job -> [Event -> BOOLEAN]]
  BY ThreadAssumption, ThreadTypes, Places DEF Thread, TypeOK, ClientPlaces, WorkerPlaces
<1> DEFINE KnownOf(t) ==
        LET j == th[t].job IN
           /\ At(t, "after") \/ (At(t, "signal") /\ th[t].ev = "done") => state[j]["done"]
           /\ Sets(t, "deletable") => state[j]["done"] /\ ~scheduled[j]
           /\ At(t, "signal") => state[j][th[t].ev]
           /\ t \in Job /\ th[t].pc \in {"check", "alloc", "recheck", "block", "destroy"}
                  /\ th[t].goal = "deletable" => ~waiting[t]
<1>k. \A t \in Thread : KnownOf(t)
  BY DEF Known
<1>m. \A j \in Job : /\ \A e \in Event : state[j][e] => state'[j][e]
                     /\ ~waiting[j] => ~waiting'[j]
                     /\ state[j]["done"] /\ ~scheduled[j] => ~scheduled'[j]
  BY Monotone DEF Execution
<1>f. ASSUME NEW t \in Thread, OnlyMoves(t), KnownOf(t)'  PROVE Known'
  <2>1. ASSUME NEW u \in Thread, u # t  PROVE KnownOf(u)'
    <3>1. th'[u] = th[u] /\ KnownOf(u)
      BY <1>f, <1>k, <2>1 DEF OnlyMoves
    <3> QED BY <1>0, <1>m, <3>1, Places DEF At, Sets
  <2>2. \A u \in Thread : KnownOf(u)'
    BY <1>f, <2>1
  <2> HIDE DEF KnownOf
  <2>3. \A c \in Job : KnownOf(c)'
    BY <1>0, <2>2
  <2> QED BY <2>2, <2>3 DEF Known, KnownOf
<1>1. ASSUME NEW c \in Job,
             \/ Schedule(c) \/ WaitUntilDone(c) \/ WaitUntilDoneOrTimeout(c)
             \/ Delete(c) \/ RemoveJobFromQueue(c) \/ DeleteTestsWaiting(c)
             \/ Check(c) \/ Recheck(c) \/ Wake(c) \/ Timeout(c) \/ Alloc(c)
      PROVE  Known'
  <2>1. UNCHANGED waiting
    BY <1>1 DEF Schedule, WaitUntilDone, WaitUntilDoneOrTimeout, Delete,
       RemoveJobFromQueue, DeleteTestsWaiting, Check, Recheck, Wake, Timeout, Alloc, jobVars
  <2>2. \/ \E l \in {"claim", "deleting", "ready", "gone", "unschedule"}, n \in Control, g \in Event :
               Moves(c, l, th[c].job, th[c].ev, n, g)
        \/ \E n \in Control : Moves(c, "check", th[c].job, th[c].ev, n, "done")
        \/ ~waiting[c] /\ Moves(c, "check", th[c].job, th[c].ev, "check", "deletable")
        \/ /\ th[c].pc \in {"check", "alloc", "recheck", "block"}
           /\ \E l \in {"alloc", "block", "recheck", "destroy", "ready"} : GoesTo(c, l)
    <3>1. CASE Schedule(c) \/ WaitUntilDone(c) \/ WaitUntilDoneOrTimeout(c)
      BY <1>0, <3>1, ClientMoves, Places, ThreadTypes DEF GoesTo
    <3>2. CASE Delete(c) \/ RemoveJobFromQueue(c) \/ DeleteTestsWaiting(c)
      BY <1>0, <3>2, ClientMoves, Places, ThreadTypes DEF GoesTo
    <3>3. CASE Check(c) \/ Recheck(c) \/ Wake(c) \/ Timeout(c) \/ Alloc(c)
      <4>1. th[c].pc \in {"check", "alloc", "recheck", "block"}
        BY <3>3 DEF Check, Recheck, Wake, Timeout, Alloc, At
      <4> QED BY <3>3, <4>1, ClientMoves
    <3> QED BY <1>1, <3>1, <3>2, <3>3
  <2>3. OnlyMoves(c)
    BY <2>2 DEF OnlyMoves, Moves, GoesTo
  <2>4. KnownOf(c)'
    BY <1>0, <1>k, <2>1, <2>2 DEF GoesTo, Moves, At, Sets
  <2> QED BY <1>0, <1>f, <2>3, <2>4
<1>2. ASSUME NEW c \in Job, Terminate(c)  PROVE Known'
  BY <1>2 DEF Terminate, Known, Sets, At
<1>3. ASSUME NEW w \in Worker, NEW j \in Job, AssignJob(w, j) \/ DrainQueue(w, j)
      PROVE  Known'
  <2>2. \E l \in {"claim", "unschedule"} : Moves(w, l, j, "done", "unschedule", "done")
    BY <1>0, <1>3, InsideMoves
  <2>3. OnlyMoves(w) /\ KnownOf(w)'
    BY <1>0, <2>2 DEF OnlyMoves, Moves, At, Sets
  <2> QED BY <1>0, <1>f, <2>3
<1>4. ASSUME NEW t \in Thread, Claim(t) \/ ClaimedByOther(t) \/ Run(t)  PROVE Known'
  <2>1. th[t].pc \in {"claim", "run"}
        /\ (Claim(t) \/ Run(t) => At(t, "claim") \/ At(t, "run"))
        /\ (ClaimedByOther(t) => At(t, "claim") /\ ~waiting[th[t].job])
        /\ (Claim(t) => ~waiting'[th[t].job])
    BY <1>0, <1>4 DEF Claim, ClaimedByOther, Run, At
  <2>2. \/ GoesTo(t, "run")
        \/ /\ ~waiting[th[t].job]
           /\ th[t].next = IF t \in Job THEN "check" ELSE "unschedule"
           /\ GoesTo(t, th[t].next)
        \/ Moves(t, "flag", th[t].job, "done", th[t].next, th[t].goal)
    BY <1>0, <1>4, <2>1, InsideMoves DEF At, ClientPlaces, WorkerPlaces
  <2>3. OnlyMoves(t)
    BY <2>2 DEF OnlyMoves, Moves, GoesTo
  <2>4. KnownOf(t)'
    BY <1>0, <1>m, <2>1, <2>2 DEF GoesTo, Moves, At, Sets, ClientPlaces
  <2> QED BY <1>f, <2>3, <2>4
<1>5. ASSUME NEW t \in Thread, AfterRun(t)  PROVE Known'
  <2>1. At(t, "after") /\ UNCHANGED <<waiting, scheduled, state>>
    BY <1>5 DEF AfterRun, jobVars
  <2>2. state[th[t].job]["done"] /\ ~waiting[th[t].job]
    BY <1>0, <1>k, <2>1 DEF Execution, At
  <2>3. \/ /\ th[t].next = IF t \in Job THEN "check" ELSE "unschedule"
           /\ GoesTo(t, th[t].next)
        \/ ~scheduled[th[t].job]
           /\ Moves(t, "flag", th[t].job, "deletable", th[t].next, th[t].goal)
    BY <1>0, <1>5, <2>1, InsideMoves DEF At, ClientPlaces, WorkerPlaces
  <2>4. OnlyMoves(t)
    BY <2>3 DEF OnlyMoves, Moves, GoesTo
  <2>5. KnownOf(t)'
    BY <1>0, <2>1, <2>2, <2>3 DEF GoesTo, Moves, At, Sets, ClientPlaces
  <2> QED BY <1>f, <2>4, <2>5
<1>6. ASSUME NEW t \in Thread, OnUnSchedule(t)  PROVE Known'
  <2>1. \E n \in Control : Moves(t, "test", th[t].job, th[t].ev, n, th[t].goal)
    BY <1>6, InsideMoves, Places, ThreadTypes
  <2>2. OnlyMoves(t) /\ KnownOf(t)'
    BY <1>0, <2>1 DEF OnlyMoves, Moves, At, Sets
  <2> QED BY <1>f, <2>2
<1>7. ASSUME NEW t \in Thread, TestDone(t)  PROVE Known'
  <2> DEFINE j == th[t].job
  <2>1. At(t, "test") /\ UNCHANGED <<waiting, scheduled, state>> /\ j \in Job
    BY <1>0, <1>7 DEF TestDone, jobVars, At
  <2>2. Holds(t, j) /\ ~Serves(t, j)
    BY <1>0, <2>1 DEF Holds, Serves, At, ClientPlaces, WorkerPlaces
  <2>3. ~scheduled[j] /\ (~alive[j] => state[j]["done"])
    BY <2>1, <2>2, DeadIsDone, Unscheduled
  <2>4. \/ state[j]["done"] /\ Moves(t, "flag", j, "deletable", th[t].next, th[t].goal)
        \/ th[t].next \in {"back", "idle", "destroy"} /\ GoesTo(t, th[t].next)
           /\ (t \in Job => th[t].next = "back")
    BY <1>0, <1>7, <2>1, <2>3, InsideMoves DEF ClientPlaces, WorkerPlaces, At
  <2>5. OnlyMoves(t)
    BY <2>4 DEF OnlyMoves, Moves, GoesTo
  <2>6. KnownOf(t)'
    BY <1>0, <2>1, <2>3, <2>4 DEF GoesTo, Moves, At, Sets
  <2> QED BY <1>f, <2>5, <2>6
<1>8. ASSUME NEW t \in Thread, SetFlag(t) \/ SetSignal(t)  PROVE Known'
  <2> DEFINE j == th[t].job
  <2>1. /\ th[t].pc \in {"flag", "signal"} /\ UNCHANGED <<waiting, scheduled>> /\ j \in Job
        /\ state'[j][th[t].ev]
    BY <1>0, <1>8, <1>k, Places DEF SetFlag, SetSignal, jobVars, At
  <2>2. \/ GoesTo(t, "signal")
        \/ th[t].ev = "done" /\ GoesTo(t, "after")
        \/ th[t].ev = "deletable" /\ GoesTo(t, th[t].next)
           /\ IF t \in Job THEN th[t].next \in {"check", "back"} ELSE th[t].next \in {"idle", "destroy"}
    BY <1>0, <1>8, <2>1, InsideMoves DEF ClientPlaces, WorkerPlaces, Sets
  <2>3. OnlyMoves(t)
    BY <2>2 DEF OnlyMoves, Moves, GoesTo
  <2>4. th[t].ev = "deletable" => state[j]["done"] /\ ~scheduled[j] /\ ~waiting[j]
    BY <1>k, <2>1 DEF Sets, Execution
  <2>5. th[t].ev = "deletable" => state'[j]["done"]
    BY <1>m, <2>1, <2>4, Places
  <2>6. KnownOf(t)'
    BY <1>0, <2>1, <2>2, <2>4, <2>5 DEF GoesTo, Moves, At, Sets, ClientPlaces
  <2> QED BY <1>f, <2>3, <2>6
<1>9. ASSUME NEW t \in Thread, Destroy(t)  PROVE Known'
  <2>1. \E l \in {"gone", "idle"} : GoesTo(t, l)
    BY <1>9, InsideMoves
  <2>2. OnlyMoves(t) /\ KnownOf(t)'
    BY <1>0, <2>1 DEF OnlyMoves, GoesTo, Moves, At, Sets
  <2> QED BY <1>f, <2>2
<1>10. ASSUME UNCHANGED vars  PROVE Known'
  BY <1>10 DEF vars, jobVars, Known, Sets, At
<1> QED
  BY <1>0, <1>1, <1>2, <1>3, <1>4, <1>5, <1>6, <1>7, <1>8, <1>9, <1>10
     DEF Next, Client, WorkerStep, ClientInside, Inside

-------------------------------------------------------------------------------
(* The end of a job.                                                       *)

\* An event becomes set by SetFlag only.
LEMMA SetByFlag ==
    ASSUME TypeOK, ClientPlaces, WorkerPlaces, [Next]_vars, NEW j \in Job, NEW e \in Event,
           ~state[j][e], state'[j][e]
    PROVE  /\ \E t \in Thread : At(t, "flag") /\ th[t].job = j /\ th[t].ev = e
           /\ UNCHANGED <<scheduled, queue>>
<1>1. ASSUME NEW c \in Job, Client(c)  PROVE UNCHANGED state \/ Inside(c)
  BY <1>1 DEF Client, ClientInside, Schedule, WaitUntilDone, WaitUntilDoneOrTimeout, Terminate,
       Delete, RemoveJobFromQueue, DeleteTestsWaiting, Check, Recheck, Wake, Timeout, Alloc
<1>2. ASSUME NEW t \in Thread, Inside(t)  PROVE UNCHANGED state \/ SetFlag(t)
  BY <1>2 DEF Inside, Claim, ClaimedByOther, Run, AfterRun, OnUnSchedule, TestDone,
       SetSignal, Destroy
<1>3. ASSUME NEW w \in Worker, WorkerStep(w)  PROVE UNCHANGED state \/ Inside(w)
  BY <1>3 DEF WorkerStep, AssignJob, DrainQueue
<1>4. PICK t \in Thread : SetFlag(t)
  <2>1. ~UNCHANGED state
    OBVIOUS
  <2>2. UNCHANGED vars => UNCHANGED state
    BY DEF vars
  <2> QED BY <1>1, <1>2, <1>3, <2>1, <2>2 DEF Next, Thread
<1>5. /\ At(t, "flag") /\ state' = [state EXCEPT ![th[t].job][th[t].ev] = TRUE]
      /\ UNCHANGED <<scheduled, queue>>
  BY <1>4 DEF SetFlag, jobVars
<1>6. state \in [Job -> [Event -> BOOLEAN]] /\ th[t].job \in Job /\ th[t].ev \in Event
  BY <1>5, ThreadTypes DEF TypeOK, ClientPlaces, WorkerPlaces, Thread, At
<1>7. CASE j = th[t].job /\ e # th[t].ev
  BY <1>5, <1>6, <1>7
<1>8. CASE j # th[t].job
  BY <1>5, <1>6, <1>8
<1> QED BY <1>5, <1>7, <1>8

\* A thread that sets deletable knows that the job is over, and it stays so.
LEMMA DeletableStep ==
    ASSUME TypeOK, ClientPlaces, WorkerPlaces, Token, Execution, Known, DeletableWhenOver, [Next]_vars
    PROVE  DeletableWhenOver'
<1> SUFFICES ASSUME NEW j \in Job, state'[j]["deletable"]
             PROVE  state'[j]["done"] /\ ~scheduled'[j] /\ j \notin queue'
  BY DEF DeletableWhenOver
<1>1. state'[j]["done"] /\ ~scheduled'[j]
  <2>1. CASE state[j]["deletable"]
    <3>1. state[j]["done"] /\ ~scheduled[j] /\ ~waiting[j]
      BY <2>1 DEF DeletableWhenOver, Execution
    <3> QED BY <3>1, Monotone, Places
  <2>2. CASE ~state[j]["deletable"]
    <3>1. PICK t \in Thread : At(t, "flag") /\ th[t].job = j /\ th[t].ev = "deletable"
      BY <2>2, SetByFlag, Places
    <3>2. state[j]["done"] /\ ~scheduled[j]
      BY <3>1 DEF Known, Sets, At
    <3> QED BY <2>2, <3>2, SetByFlag, Monotone, Places
  <2> QED BY <2>1, <2>2
<1>2. j \notin queue'
  BY <1>1, TokenStep DEF Token
<1> QED BY <1>1, <1>2

\* The thread that runs the job is the only one, and has not run it before.
LEMMA RunsStep ==
    ASSUME TypeOK, ClientPlaces, WorkerPlaces, Execution, ExecutedAtMostOnce, [Next]_vars
    PROVE  ExecutedAtMostOnce'
<1>1. ASSUME NEW c \in Job, Client(c)  PROVE UNCHANGED runs \/ Inside(c)
  BY <1>1 DEF Client, ClientInside, Schedule, WaitUntilDone, WaitUntilDoneOrTimeout, Terminate,
       Delete, RemoveJobFromQueue, DeleteTestsWaiting, Check, Recheck, Wake, Timeout, Alloc
<1>2. ASSUME NEW t \in Thread, Inside(t)  PROVE UNCHANGED runs \/ Run(t)
  BY <1>2 DEF Inside, Claim, ClaimedByOther, AfterRun, OnUnSchedule, TestDone,
       SetFlag, SetSignal, Destroy
<1>3. ASSUME NEW w \in Worker, WorkerStep(w)  PROVE UNCHANGED runs \/ Inside(w)
  BY <1>3 DEF WorkerStep, AssignJob, DrainQueue
<1>4. UNCHANGED vars => UNCHANGED runs
  BY DEF vars
<1>5. CASE UNCHANGED runs
  BY <1>5 DEF ExecutedAtMostOnce
<1>6. ASSUME NEW t \in Thread, Run(t)  PROVE ExecutedAtMostOnce'
  <2>1. At(t, "run") /\ runs' = [runs EXCEPT ![th[t].job] = IF terminated[th[t].job] THEN @ ELSE @ + 1]
    BY <1>6 DEF Run
  <2>2. runs \in [Job -> Nat] /\ th[t].job \in Job
    BY <2>1 DEF TypeOK, ClientPlaces, WorkerPlaces, Thread, At
  <2>3. runs[th[t].job] = 0
    BY <2>1, <2>2 DEF Execution, Executes
  <2> QED BY <2>1, <2>2, <2>3 DEF ExecutedAtMostOnce
<1> QED BY <1>1, <1>2, <1>3, <1>4, <1>5, <1>6 DEF Next, Thread

\* A thread comes to hold a job by taking it from the queue only, and only a client with a
\* new job puts one there.
LEMMA TakenFromQueue ==
    ASSUME TypeOK, ClientPlaces, WorkerPlaces, [Next]_vars
    PROVE  /\ \A t \in Thread, j \in Job : Holds(t, j)' => Holds(t, j) \/ j \in queue
           /\ \A j \in Job : j \in queue' => j \in queue \/ At(j, "new")
<1>0. /\ \A c \in Job : c \in Thread /\ c \notin Worker
      /\ \A w \in Worker : w \in Thread /\ w \notin Job
      /\ \A t \in Thread : t \in Job \/ t \in Worker
      /\ \A t \in Thread : th[t].ev = "done" \/ th[t].ev = "deletable"
  BY ThreadAssumption, ThreadTypes, Places DEF Thread
<1> DEFINE Goal == /\ \A t \in Thread, j \in Job : Holds(t, j)' => Holds(t, j) \/ j \in queue
                   /\ \A j \in Job : j \in queue' => j \in queue \/ At(j, "new")
<1>f. ASSUME NEW t \in Thread, OnlyMoves(t), \A j \in Job : Holds(t, j)' => Holds(t, j) \/ j \in queue
      PROVE  \A u \in Thread, j \in Job : Holds(u, j)' => Holds(u, j) \/ j \in queue
  BY <1>f DEF OnlyMoves, Holds, At
<1>1. ASSUME NEW c \in Job,
             \/ Schedule(c) \/ WaitUntilDone(c) \/ WaitUntilDoneOrTimeout(c) \/ Terminate(c)
             \/ Delete(c) \/ DeleteTestsWaiting(c) \/ Check(c) \/ Recheck(c)
             \/ Wake(c) \/ Timeout(c) \/ Alloc(c)
      PROVE  Goal
  <2>1. \A j \in Job : j \in queue' => j \in queue \/ At(j, "new")
    BY <1>1 DEF Schedule, WaitUntilDone, WaitUntilDoneOrTimeout, Terminate, Delete,
                DeleteTestsWaiting, Check, Recheck, Wake, Timeout, Alloc
  <2>2. \/ th' = th
        \/ \E l \in {"claim", "check", "alloc", "recheck", "block", "deleting", "ready", "destroy",
                     "gone"},
              n \in Control, g \in Event : Moves(c, l, th[c].job, th[c].ev, n, g)
    BY <1>0, <1>1, ClientMoves, Places, ThreadTypes DEF Terminate, GoesTo
  <2>3. OnlyMoves(c)
    BY <2>2 DEF OnlyMoves, Moves
  <2>4. \A j \in Job : Holds(c, j)' => Holds(c, j)
    BY <1>0, <2>2 DEF Holds, At, Moves
  <2> QED BY <1>0, <1>f, <2>1, <2>3, <2>4
<1>2. ASSUME NEW c \in Job, RemoveJobFromQueue(c)  PROVE Goal
  <2>1. c \in queue /\ queue' = queue \ {c}
    BY <1>2 DEF RemoveJobFromQueue
  <2>2. Moves(c, "unschedule", th[c].job, th[c].ev, "back", th[c].goal)
    BY <1>2, ClientMoves
  <2>3. OnlyMoves(c) /\ th'[c].job = c
    BY <2>2 DEF OnlyMoves, Moves, ClientPlaces
  <2> QED BY <1>0, <1>f, <2>1, <2>3 DEF Holds
<1>3. ASSUME NEW w \in Worker, NEW j \in Job, AssignJob(w, j) \/ DrainQueue(w, j)  PROVE Goal
  <2>1. j \in queue /\ queue' = queue \ {j}
    BY <1>3 DEF AssignJob, DrainQueue
  <2>2. \E l \in {"claim", "unschedule"} : Moves(w, l, j, "done", "unschedule", "done")
    BY <1>0, <1>3, InsideMoves
  <2>3. OnlyMoves(w) /\ th'[w].job = j
    BY <2>2 DEF OnlyMoves, Moves
  <2> QED BY <1>0, <1>f, <2>1, <2>3 DEF Holds
<1>4. ASSUME NEW t \in Thread, Inside(t)  PROVE Goal
  <2>1. queue' = queue /\ ~At(t, "idle")
    BY <1>4 DEF Inside, Claim, ClaimedByOther, Run, AfterRun, OnUnSchedule, TestDone,
       SetFlag, SetSignal, Destroy, At
  <2>2. CASE Claim(t) \/ ClaimedByOther(t) \/ Run(t) \/ AfterRun(t) \/ OnUnSchedule(t)
    <3>1. /\ th[t].pc \in {"claim", "run", "after", "unschedule"}
          /\ OnUnSchedule(t) => At(t, "unschedule")
          /\ ~OnUnSchedule(t) => th[t].pc \in {"claim", "run", "after"}
      BY <2>2 DEF Claim, ClaimedByOther, Run, AfterRun, OnUnSchedule, At
    <3>2. \/ /\ th[t].pc \in {"claim", "run", "after"}
             /\ \/ GoesTo(t, "run") \/ GoesTo(t, th[t].next)
                \/ \E e \in Event : Moves(t, "flag", th[t].job, e, th[t].next, th[t].goal)
          \/ At(t, "unschedule") /\ \E n \in Control : Moves(t, "test", th[t].job, th[t].ev, n, th[t].goal)
      BY <2>2, <3>1, InsideMoves, Places, ThreadTypes
    <3>3. OnlyMoves(t)
      BY <3>2 DEF OnlyMoves, Moves, GoesTo
    <3>4. \A j \in Job : Holds(t, j)' => Holds(t, j)
      BY <1>0, <3>2 DEF Holds, At, Moves, GoesTo, ClientPlaces
    <3> QED BY <1>f, <2>1, <3>3, <3>4
  <2>3. CASE TestDone(t) \/ SetFlag(t) \/ SetSignal(t) \/ Destroy(t)
    <3>2. \/ /\ At(t, "test")
             /\ \/ Moves(t, "flag", th[t].job, "deletable", th[t].next, th[t].goal)
                \/ GoesTo(t, th[t].next)
          \/ /\ th[t].pc \in {"flag", "signal"}
             /\ \/ GoesTo(t, "signal")
                \/ GoesTo(t, IF th[t].ev = "done" THEN "after" ELSE th[t].next)
          \/ At(t, "destroy") /\ GoesTo(t, IF t \in Job THEN "gone" ELSE "idle")
      BY <2>3, InsideMoves DEF TestDone, SetFlag, SetSignal, Destroy, At
    <3>3. OnlyMoves(t)
      BY <3>2 DEF OnlyMoves, Moves, GoesTo
    <3>4. \A j \in Job : Holds(t, j)' => Holds(t, j)
      BY <1>0, <3>2 DEF Holds, At, Moves, GoesTo, ClientPlaces, Sets
    <3> QED BY <1>f, <2>1, <3>3, <3>4
  <2> QED BY <1>4, <2>2, <2>3 DEF Inside
<1>5. ASSUME UNCHANGED vars  PROVE Goal
  BY <1>5 DEF vars, Holds, At
<1> QED
  BY <1>0, <1>1, <1>2, <1>3, <1>4, <1>5 DEF Next, Client, WorkerStep, ClientInside

\* The only step that ends the life of a job.
LEMMA DestroyedBy ==
    ASSUME TypeOK, ClientPlaces, WorkerPlaces, [Next]_vars, NEW j \in Job, alive[j], ~alive'[j]
    PROVE  \E t \in Thread : /\ Destroy(t) /\ At(t, "destroy") /\ th[t].job = j
                             /\ t \in Job => t = j
                             /\ t \in Worker => Holds(t, j) /\ ~Serves(t, j) /\ owned[j]
                             /\ \A k \in Job : k # j => alive'[k] = alive[k]
                             /\ GoesTo(t, IF t \in Job THEN "gone" ELSE "idle")
                             /\ UNCHANGED <<scheduled, waiting, owned, queue, waited>>
<1>1. ASSUME NEW c \in Job, Client(c)  PROVE UNCHANGED alive \/ Inside(c)
  BY <1>1 DEF Client, ClientInside, Schedule, WaitUntilDone, WaitUntilDoneOrTimeout, Terminate,
       Delete, RemoveJobFromQueue, DeleteTestsWaiting, Check, Recheck, Wake, Timeout, Alloc
<1>2. ASSUME NEW t \in Thread, Inside(t)  PROVE UNCHANGED alive \/ Destroy(t)
  BY <1>2 DEF Inside, Claim, ClaimedByOther, Run, AfterRun, OnUnSchedule, TestDone,
       SetFlag, SetSignal
<1>3. ASSUME NEW w \in Worker, WorkerStep(w)  PROVE UNCHANGED alive \/ Inside(w)
  BY <1>3 DEF WorkerStep, AssignJob, DrainQueue
<1>4. PICK t \in Thread : Destroy(t)
  <2>1. ~UNCHANGED alive
    OBVIOUS
  <2>2. UNCHANGED vars => UNCHANGED alive
    BY DEF vars
  <2> QED BY <1>1, <1>2, <1>3, <2>1, <2>2 DEF Next, Thread
<1>5. /\ At(t, "destroy") /\ alive' = [alive EXCEPT ![th[t].job] = FALSE]
      /\ UNCHANGED <<scheduled, waiting, owned, queue, waited>>
  BY <1>4 DEF Destroy, jobVars
<1>6. alive \in [Job -> BOOLEAN]
  BY DEF TypeOK
<1>7. th[t].job = j /\ \A k \in Job : k # j => alive'[k] = alive[k]
  BY <1>5, <1>6
<1>8. t \in Job => t = j
  BY <1>7 DEF ClientPlaces
<1>9. t \in Worker => Holds(t, j) /\ ~Serves(t, j) /\ owned[j]
  BY <1>5, <1>7 DEF Holds, Serves, WorkerPlaces, At
<1> QED BY <1>4, <1>5, <1>7, <1>8, <1>9, InsideMoves

\* What is true of a deleted job stays true.
LEMMA DeadStep ==
    ASSUME TypeOK, ClientPlaces, WorkerPlaces, Token, Execution, Known, Dead, [Next]_vars
    PROVE  Dead'
<1> SUFFICES ASSUME NEW j \in Job, ~alive'[j]
             PROVE  IF owned'[j] THEN j \notin queue' /\ \A t \in Thread : ~Holds(t, j)'
                    ELSE ~waiting'[j]
  BY DEF Dead
<1>1. CASE ~alive[j]
  <2>1. owned'[j] = owned[j] /\ (~waiting[j] => ~waiting'[j]) /\ ~At(j, "new")
    BY <1>1, Monotone DEF ClientPlaces, At
  <2> QED BY <1>1, <2>1, TakenFromQueue DEF Dead
<1>2. CASE alive[j]
  <2>1. PICK t \in Thread : /\ Destroy(t) /\ At(t, "destroy") /\ th[t].job = j
                            /\ t \in Job => t = j
                            /\ t \in Worker => Holds(t, j) /\ owned[j]
                            /\ GoesTo(t, IF t \in Job THEN "gone" ELSE "idle")
                            /\ UNCHANGED <<waiting, owned, queue>>
    BY <1>2, DestroyedBy
  <2>2. CASE t \in Job
    <3>1. ~owned[j] /\ ~waiting[j]
      BY <2>1, <2>2 DEF ClientPlaces, Known, At
    <3> QED BY <2>1, <3>1
  <2>3. CASE t \in Worker
    <3>1. j \notin queue /\ \A u \in Thread : Holds(u, j) => u = t
      BY <2>1, <2>3 DEF Token
    <3>2. t \notin Job /\ ~Holds(t, j)'
      BY <2>1, <2>3, ThreadAssumption DEF GoesTo, Moves, Holds, At
    <3>3. \A u \in Thread : u # t => (Holds(u, j)' <=> Holds(u, j))
      BY <2>1 DEF GoesTo, Moves, Holds, At
    <3> QED BY <2>1, <2>3, <3>1, <3>2, <3>3
  <2> QED BY <2>2, <2>3 DEF Thread
<1> QED BY <1>1, <1>2

-------------------------------------------------------------------------------
(* The handles.                                                            *)

\* A client comes to delete its job from a wait only.
LEMMA ComesToDestroy ==
    ASSUME TypeOK, ClientPlaces, WorkerPlaces, [Next]_vars, NEW c \in Job,
           ~At(c, "destroy"), At(c, "destroy")'
    PROVE  Check(c) \/ Recheck(c) \/ Wake(c) \/ Timeout(c)
<1>0. c \in Thread /\ c \notin Worker
  BY ThreadAssumption DEF Thread
<1>1. ASSUME NEW t \in Thread, OnlyMoves(t)  PROVE t = c
  BY <1>0, <1>1 DEF OnlyMoves, At
<1>2. ASSUME NEW d \in Job,
             \/ Schedule(d) \/ WaitUntilDone(d) \/ WaitUntilDoneOrTimeout(d) \/ Terminate(d)
             \/ Delete(d) \/ RemoveJobFromQueue(d) \/ DeleteTestsWaiting(d) \/ Alloc(d)
      PROVE  FALSE
  <2>1. \/ th' = th
        \/ \E l \in {"claim", "check", "recheck", "block", "deleting", "ready", "gone",
                     "unschedule"},
              n \in Control, g \in Event : Moves(d, l, th[d].job, th[d].ev, n, g)
    BY <1>2, ClientMoves, Places, ThreadTypes DEF Terminate, GoesTo, Thread
  <2>2. \/ th' = th
        \/ \E l \in {"claim", "check", "recheck", "block", "deleting", "ready", "gone",
                     "unschedule"} : th'[d].pc = l /\ OnlyMoves(d)
    BY <2>1 DEF Moves, OnlyMoves
  <2> QED BY <1>0, <1>1, <2>2 DEF At, Thread
<1>3. ASSUME NEW t \in Thread, Inside(t)  PROVE FALSE
  <2>1. \/ \E l \in {"flag", "test", "run", "signal", "after", "gone", "idle"}, e \in Event, n \in Control :
               Moves(t, l, th[t].job, e, n, th[t].goal)
        \/ /\ GoesTo(t, th[t].next)
           /\ \/ th[t].pc \in {"claim", "after", "test"}
              \/ th[t].pc \in {"flag", "signal"} /\ th[t].ev = "deletable"
    <3>1. CASE Claim(t) \/ ClaimedByOther(t) \/ Run(t) \/ AfterRun(t)
      BY <3>1, InsideMoves, Places, ThreadTypes DEF ClaimedByOther, AfterRun, At, GoesTo
    <3>2. CASE OnUnSchedule(t) \/ TestDone(t) \/ Destroy(t)
      BY <3>2, InsideMoves, Places, ThreadTypes DEF TestDone, At, GoesTo
    <3>3. CASE SetFlag(t) \/ SetSignal(t)
      BY <3>3, InsideMoves, Places, ThreadTypes DEF SetFlag, SetSignal, At, GoesTo
    <3> QED BY <1>3, <3>1, <3>2, <3>3 DEF Inside
  <2>2. OnlyMoves(t)
    BY <2>1 DEF OnlyMoves, Moves, GoesTo
  <2>3. t = c
    BY <1>1, <2>2
  <2> QED BY <2>1, <2>3 DEF Moves, GoesTo, At, ClientPlaces, Sets
<1>4. ASSUME NEW w \in Worker, NEW j \in Job, AssignJob(w, j) \/ DrainQueue(w, j)  PROVE FALSE
  <2>1. w \in Thread /\ \E l \in {"claim", "unschedule"} : Moves(w, l, j, "done", "unschedule", "done")
    BY <1>4, InsideMoves DEF Thread
  <2>2. OnlyMoves(w)
    BY <2>1 DEF OnlyMoves, Moves
  <2> QED BY <1>0, <1>1, <2>1, <2>2
<1>5. ASSUME NEW d \in Job, Check(d) \/ Recheck(d) \/ Wake(d) \/ Timeout(d)  PROVE d = c
  <2>1. \E l \in {"alloc", "block", "destroy", "ready"} : GoesTo(d, l)
    BY <1>5, ClientMoves
  <2> QED BY <1>1, <2>1 DEF OnlyMoves, Moves, GoesTo, Thread
<1>6. ~UNCHANGED vars
  BY DEF vars, At
<1> QED BY <1>0, <1>2, <1>3, <1>4, <1>5, <1>6 DEF Next, Client, WorkerStep, ClientInside, Thread

\* Before the first deletion nobody signals the handle of an event that is not set.
LEMMA HandlesStep ==
    ASSUME TypeOK, ClientPlaces, WorkerPlaces, Token, Execution, Known, Handles, [Next]_vars
    PROVE  Handles'
<1> SUFFICES ASSUME AllAlive'
             PROVE  /\ pool' = <<>>
                    /\ \A j, k \in Job, e, f \in Event :
                           event'[j][e] = event'[k][f] /\ event'[j][e] # NoHandle => j = k /\ e = f
                    /\ \A j \in Job, e \in Event : event'[j][e] \in signalled' => state'[j][e]
                    /\ \A h \in signalled' : \E j \in Job, e \in Event : event'[j][e] = h
                    /\ \A c \in Job : At(c, "destroy")' => state'[c]["deletable"]
  BY DEF Handles
<1>a. AllAlive
  BY Monotone DEF AllAlive
<1>b. /\ pool = <<>>
      /\ \A j, k \in Job, e, f \in Event :
             event[j][e] = event[k][f] /\ event[j][e] # NoHandle => j = k /\ e = f
      /\ \A j \in Job, e \in Event : event[j][e] \in signalled => state[j][e]
      /\ \A h \in signalled : \E j \in Job, e \in Event : event[j][e] = h
      /\ \A c \in Job : At(c, "destroy") => state[c]["deletable"]
  BY <1>a DEF Handles
<1>m. \A j \in Job, e \in Event : state[j][e] => state'[j][e]
  BY Monotone
<1>t. /\ signalled \subseteq Handle /\ NoHandle \notin Handle
      /\ event \in [Job -> [Event -> Handle \cup {NoHandle}]]
      /\ state \in [Job -> [Event -> BOOLEAN]]
  BY JobAssumption DEF TypeOK
<1>0. /\ \A c \in Job : c \in Thread /\ th[c].goal \in Event
      /\ \A e \in Event : e = "done" \/ e = "deletable"
  BY ThreadTypes, Places DEF Thread
<1>1. \A c \in Job : At(c, "destroy")' => state'[c]["deletable"]
  <2> SUFFICES ASSUME NEW c \in Job, At(c, "destroy")'  PROVE state'[c]["deletable"]
    OBVIOUS
  <2>1. CASE At(c, "destroy")
    BY <1>b, <1>m, <2>1, Places
  <2>2. CASE ~At(c, "destroy")
    <3>1. ASSUME Check(c) \/ Recheck(c)  PROVE state[c]["deletable"]
      <4>1. /\ state[c][th[c].goal]
               \/ \E l \in {"alloc", "block"} : GoesTo(c, l)
            /\ th[c].goal = "deletable"
               \/ \E l \in {"alloc", "block", "ready"} : GoesTo(c, l)
        BY <3>1, ClientMoves
      <4> QED BY <4>1 DEF GoesTo, Moves, At
    <3>2. ASSUME Wake(c) \/ Timeout(c)  PROVE state[c]["deletable"]
      <4>1. th[c].goal = "deletable"
        <5>1. th[c].goal = "deletable" \/ GoesTo(c, "ready")
          BY <3>2, ClientMoves
        <5> QED BY <5>1 DEF GoesTo, Moves, At
      <4>2. CASE Wake(c)
        BY <1>0, <1>b, <4>1, <4>2 DEF Wake
      <4>3. CASE Timeout(c)
        BY <4>1, <4>3 DEF Timeout, ClientPlaces
      <4> QED BY <3>2, <4>2, <4>3
    <3>3. ASSUME ~(Check(c) \/ Recheck(c) \/ Wake(c) \/ Timeout(c))  PROVE FALSE
      BY <2>2, <3>3, ComesToDestroy
    <3> QED BY <1>m, <3>1, <3>2, <3>3, Places
  <2> QED BY <2>1, <2>2
<1>2. CASE UNCHANGED <<event, signalled, pool>>
  BY <1>b, <1>m, <1>1, <1>2
<1>3. ASSUME NEW c \in Job, Alloc(c)
      PROVE  /\ pool' = <<>> /\ signalled' = signalled
             /\ \/ event' = event
                \/ /\ event' = [event EXCEPT ![c][th[c].goal] = NewHandle]
                   /\ event[c][th[c].goal] = NoHandle
                   /\ NewHandle \in Handle
                   /\ \A j \in Job, e \in Event : event[j][e] # NewHandle
  <2>1. CASE event[c][th[c].goal] # NoHandle
    BY <1>b, <1>3, <2>1 DEF Alloc
  <2>2. CASE event[c][th[c].goal] = NoHandle
    <3>1. NewHandle \in Handle /\ \A j \in Job, e \in Event : event[j][e] # NewHandle
      BY <1>0, <2>2, FreshHandle
    <3>2. /\ event' = [event EXCEPT ![c][th[c].goal] = NewHandle]
          /\ pool' = pool /\ signalled' = signalled
      BY <1>b, <1>3, <2>2 DEF Alloc
    <3> QED BY <1>b, <2>2, <3>1, <3>2
  <2> QED BY <2>1, <2>2
<1>4. CASE \E c \in Job : Alloc(c)
  <2>1. PICK c \in Job : Alloc(c)
    BY <1>4
  <2>2. CASE event' = event
    BY <1>b, <1>m, <1>1, <1>3, <2>1, <2>2
  <2>3. CASE event' # event
    <3> DEFINE g == th[c].goal
    <3>1. /\ pool' = <<>> /\ signalled' = signalled
          /\ event' = [event EXCEPT ![c][g] = NewHandle]
          /\ event[c][g] = NoHandle
          /\ \A j \in Job, e \in Event : event[j][e] # NewHandle
      BY <1>3, <2>1, <2>3
    <3>2. NewHandle \notin signalled
      BY <1>b, <3>1
    <3>g. g \in Event
      BY <1>0
    <3> HIDE DEF g
    <3>3. event'[c][g] = NewHandle
      BY <1>t, <3>1, <3>g
    <3>4. ASSUME NEW j \in Job, NEW e \in Event, j # c \/ e # g
          PROVE  event'[j][e] = event[j][e]
      <4>1. CASE j # c
        BY <1>t, <3>1, <4>1
      <4>2. CASE j = c /\ e # g
        BY <1>t, <3>1, <4>2
      <4> QED BY <3>4, <4>1, <4>2
    <3>5. \A j, k \in Job, e, f \in Event :
              event'[j][e] = event'[k][f] /\ event'[j][e] # NoHandle => j = k /\ e = f
      BY <1>b, <3>1, <3>3, <3>4
    <3>6. \A j \in Job, e \in Event : event'[j][e] \in signalled' => state'[j][e]
      BY <1>b, <1>m, <3>1, <3>2, <3>3, <3>4
    <3>7. \A h \in signalled' : \E j \in Job, e \in Event : event'[j][e] = h
      BY <1>b, <1>t, <3>1, <3>4
    <3> QED BY <1>1, <3>1, <3>5, <3>6, <3>7
  <2> QED BY <2>2, <2>3
<1>5. CASE \E t \in Thread : SetSignal(t)
  <2>1. PICK t \in Thread : SetSignal(t)
    BY <1>5
  <2> DEFINE j == th[t].job
             e == th[t].ev
  <2>2. At(t, "signal") /\ event' = event /\ pool' = pool
        /\ \E h \in {event[j][e]} \cup (IF alive[j] THEN {} ELSE {NoHandle}) :
               signalled' = signalled \cup ({h} \ {NoHandle})
    BY <2>1 DEF SetSignal
  <2>3. j \in Job /\ e \in Event /\ state[j][e]
    BY <2>2, ThreadTypes DEF Known, ClientPlaces, WorkerPlaces, Thread, At
  <2> HIDE DEF j, e
  <2>4. signalled' = signalled \cup ({event[j][e]} \ {NoHandle})
    BY <1>a, <2>2, <2>3 DEF AllAlive
  <2> QED BY <1>b, <1>m, <1>1, <2>2, <2>3, <2>4
<1>6. ASSUME NEW t \in Thread, Destroy(t)  PROVE FALSE
  <2>1. th[t].job \in Job /\ alive' = [alive EXCEPT ![th[t].job] = FALSE]
    BY <1>6 DEF Destroy, ClientPlaces, WorkerPlaces, Thread, At
  <2> QED BY <2>1 DEF AllAlive, TypeOK
<1>7. ASSUME NEW c \in Job, Client(c)
      PROVE  UNCHANGED <<event, signalled, pool>> \/ Alloc(c) \/ Inside(c)
  BY <1>7 DEF Client, ClientInside, Schedule, WaitUntilDone, WaitUntilDoneOrTimeout, Terminate,
       Delete, RemoveJobFromQueue, DeleteTestsWaiting, Check, Recheck, Wake, Timeout, osVars
<1>8. ASSUME NEW t \in Thread, Inside(t)
      PROVE  UNCHANGED <<event, signalled, pool>> \/ SetSignal(t) \/ Destroy(t)
  BY <1>8 DEF Inside, Claim, ClaimedByOther, Run, AfterRun, OnUnSchedule, TestDone,
       SetFlag, osVars
<1>9. ASSUME NEW w \in Worker, WorkerStep(w)
      PROVE  UNCHANGED <<event, signalled, pool>> \/ Inside(w)
  BY <1>9 DEF WorkerStep, AssignJob, DrainQueue, osVars
<1>10. UNCHANGED vars => UNCHANGED <<event, signalled, pool>>
  BY DEF vars, osVars
<1> QED BY <1>2, <1>4, <1>5, <1>6, <1>7, <1>8, <1>9, <1>10 DEF Next, Thread

\* Who finds that a wait for the end of the execution is over.
LEMMA EndOfWait ==
    ASSUME TypeOK, [Next]_vars, NEW j \in Job, waited[j] # "set", waited'[j] = "set"
    PROVE  /\ Check(j) \/ Recheck(j) \/ Wake(j)
           /\ th[j].goal = "done"
<1>1. ASSUME NEW c \in Job, Client(c)
      PROVE  UNCHANGED waited \/ Check(c) \/ Recheck(c) \/ Wake(c) \/ Timeout(c)
  BY <1>1 DEF Client, ClientInside, Inside, Schedule, WaitUntilDone, WaitUntilDoneOrTimeout,
     Terminate, Delete, RemoveJobFromQueue, DeleteTestsWaiting, Alloc, Claim, ClaimedByOther,
     Run, AfterRun, OnUnSchedule, TestDone, SetFlag, SetSignal, Destroy
<1>2. ASSUME NEW w \in Worker, WorkerStep(w)  PROVE UNCHANGED waited
  BY <1>2 DEF WorkerStep, Inside, AssignJob, DrainQueue, Claim, ClaimedByOther,
     Run, AfterRun, OnUnSchedule, TestDone, SetFlag, SetSignal, Destroy
<1>3. UNCHANGED vars => UNCHANGED waited
  BY DEF vars
<1>4. PICK c \in Job : Check(c) \/ Recheck(c) \/ Wake(c) \/ Timeout(c)
  BY <1>1, <1>2, <1>3 DEF Next
<1>5. waited \in [Job -> {"no", "set", "timeout"}]
  BY DEF TypeOK
<1>6. \A k \in Job : k # c => waited'[k] = waited[k]
  BY <1>4, <1>5 DEF Check, Recheck, Wake, Timeout, WaitEnds
<1>7. c = j
  BY <1>6
<1>8. Timeout(j) => waited'[j] # "set"
  BY <1>5 DEF Timeout, WaitEnds
<1>9. Check(j) \/ Recheck(j) \/ Wake(j)
  BY <1>4, <1>7, <1>8
<1> QED BY <1>5, <1>9 DEF Check, Recheck, Wake, WaitEnds

\* A wait for the end of the execution ends when it is over, up to the first deletion, and
\* the first job that is deleted has been let go by the scheduler.
LEMMA FirstDeletionStep ==
    ASSUME TypeOK, ClientPlaces, WorkerPlaces, Token, Execution, Known, DeletableWhenOver,
           Handles, FirstDeletion, [Next]_vars
    PROVE  FirstDeletion'
<1> SUFFICES ASSUME NEW j \in Job, OthersAlive(j)'
             PROVE  /\ waited'[j] = "set" => state'[j]["done"]
                    /\ ~alive'[j] => ~scheduled'[j]
  BY DEF FirstDeletion
<1>0. OthersAlive(j) /\ j \in Thread
  BY Monotone DEF OthersAlive, Thread
<1>1. ASSUME waited'[j] = "set"  PROVE state'[j]["done"]
  <2>1. CASE waited[j] = "set"
    BY <1>0, <2>1, Monotone, Places DEF FirstDeletion
  <2>2. CASE waited[j] # "set"
    <3>1. /\ Check(j) \/ Recheck(j) \/ Wake(j)
          /\ th[j].goal = "done"
      BY <1>1, <2>2, EndOfWait
    <3>2. waited \in [Job -> {"no", "set", "timeout"}]
      BY DEF TypeOK
    <3>3. th[j].goal = "done"
      BY <3>1
    <3>4. CASE Check(j) \/ Recheck(j)
      BY <1>1, <2>2, <3>2, <3>3, <3>4, Monotone, Places DEF Check, Recheck
    <3>5. CASE Wake(j)
      <4>1. At(j, "block") /\ event[j]["done"] \in signalled
        BY <3>3, <3>5 DEF Wake
      <4>2. AllAlive
        BY <1>0, <4>1 DEF ClientPlaces, At, AllAlive, OthersAlive
      <4> QED BY <4>1, <4>2, Monotone, Places DEF Handles
    <3> QED BY <3>1, <3>4, <3>5
  <2> QED BY <2>1, <2>2
<1>2. ASSUME ~alive'[j]  PROVE ~scheduled'[j]
  <2>1. CASE ~alive[j]
    BY <1>0, <2>1, Monotone DEF FirstDeletion
  <2>2. CASE alive[j]
    <3>1. PICK t \in Thread : /\ At(t, "destroy") /\ th[t].job = j
                              /\ t \in Job => t = j
                              /\ t \in Worker => Holds(t, j) /\ ~Serves(t, j)
                              /\ UNCHANGED scheduled
      BY <1>2, <2>2, DestroyedBy
    <3>2. CASE t \in Job
      <4>1. AllAlive
        BY <1>0, <2>2 DEF AllAlive, OthersAlive
      <4>2. state[j]["deletable"]
        BY <3>1, <3>2, <4>1 DEF Handles
      <4> QED BY <3>1, <4>2 DEF DeletableWhenOver
    <3>3. CASE t \in Worker
      BY <3>1, <3>3, Unscheduled
    <3> QED BY <3>2, <3>3 DEF Thread
  <2> QED BY <2>1, <2>2
<1> QED BY <1>1, <1>2

-------------------------------------------------------------------------------
(* The theorems.                                                           *)

\* All jobs are new and all workers idle at first.
LEMMA InitInv == Init => IInv
<1> SUFFICES ASSUME Init  PROVE IInv
  OBVIOUS
<1>0. /\ \A t \in Thread : th[t] = IF t \in Job THEN Start("new", t) ELSE Start("idle", NoJob)
      /\ \A c \in Job : c \in Thread /\ c \notin Worker
      /\ \A w \in Worker : w \in Thread /\ w \notin Job
  BY ThreadAssumption DEF Init, Thread
<1>1. \A t \in Thread : /\ th[t].pc = IF t \in Job THEN "new" ELSE "idle"
                        /\ th[t].job = IF t \in Job THEN t ELSE NoJob
                        /\ ~th[t].timed /\ th[t] \in Context
  <2>1. \A j \in Job \cup {NoJob} :
            /\ Start("new", j) \in Context /\ Start("idle", j) \in Context
            /\ Start("new", j).pc = "new" /\ Start("idle", j).pc = "idle"
            /\ Start("new", j).job = j /\ Start("idle", j).job = j
            /\ ~Start("new", j).timed /\ ~Start("idle", j).timed
    BY DEF Start, Context, Control, Event
  <2> QED BY <1>0, <2>1
<1>2. TypeOK
  <2>1. th \in [Thread -> Context]
    BY <1>1 DEF Init
  <2> QED BY <2>1 DEF Init, TypeOK
<1>3. ExecutedAtMostOnce /\ DeletableWhenOver
  BY Places DEF Init, ExecutedAtMostOnce, DeletableWhenOver
<1>4. ClientPlaces /\ WorkerPlaces
  BY <1>0, <1>1 DEF Init, ClientPlaces, WorkerPlaces, Sets, At
<1>5. \A t \in Thread, j \in Job : ~Holds(t, j) /\ ~Executes(t, j)
  BY <1>0, <1>1 DEF Holds, Executes, At, Thread
<1>6. Token
  BY <1>5 DEF Init, Token, Serves
<1>7. Execution
  BY <1>5, Places DEF Init, Execution
<1>8. Known
  BY <1>0, <1>1 DEF Known, Sets, At, Thread
<1>9. Dead /\ FirstDeletion
  BY DEF Init, Dead, FirstDeletion
<1>10. Handles
  BY <1>0, <1>1 DEF Init, Handles, At
<1> QED BY <1>2, <1>3, <1>4, <1>6, <1>7, <1>8, <1>9, <1>10 DEF IInv

\* The inductive invariant: whoever takes part, a job goes from its client to the scheduler
\* and back by one thread at a time, and is executed by one.
THEOREM Invariance == Spec => []IInv
<1>1. IInv /\ [Next]_vars => IInv'
  BY TypeStep, PlacesStep, TokenStep, ExecutionStep, KnownStep, DeletableStep, RunsStep,
     DeadStep, HandlesStep, FirstDeletionStep DEF IInv
<1> QED BY InitInv, <1>1, PTL DEF Spec

\* Every variable keeps its type, for every set of jobs and workers.
THEOREM JobTypes == Spec => []TypeOK
BY Invariance, PTL DEF IInv

\* The scheduler's thread, an inline wait and Delete compete for a job, and one of them
\* executes it.
THEOREM JobExecutedAtMostOnce == Spec => []ExecutedAtMostOnce
BY Invariance, PTL DEF IInv

\* A job whose deletable event is set is done, no longer scheduled and not in the queue,
\* whichever of Execute and OnUnSchedule has set it.
THEOREM JobDeletableWhenOver == Spec => []DeletableWhenOver
BY Invariance, PTL DEF IInv

\* The scheduler and its threads have called OnUnSchedule of job j and left its Execute.
AfterUnschedule(j) ==
    /\ ~scheduled[j] /\ j \notin queue
    /\ \A t \in Thread : th[t].job = j => ~(th[t].pc \in {"claim", "run", "after", "unschedule"})

\* The first job that is deleted is deleted after OnUnSchedule, and a wait that ends before
\* any other job is deleted ends for the end of the execution.
UntilFirstDeletion ==
    \A j \in Job : OthersAlive(j) =>
        /\ ~alive[j] => AfterUnschedule(j)
        /\ waited[j] = "set" => state[j]["done"] /\ (runs[j] = 1 \/ terminated[j])

\* What the invariant says of a job whose handles nobody else has had.
LEMMA InvUntilFirstDeletion == IInv => UntilFirstDeletion
<1> SUFFICES ASSUME IInv, NEW j \in Job, OthersAlive(j)
             PROVE  /\ ~alive[j] => AfterUnschedule(j)
                    /\ waited[j] = "set" => state[j]["done"] /\ (runs[j] = 1 \/ terminated[j])
  BY DEF UntilFirstDeletion
<1>1. ASSUME ~alive[j]  PROVE AfterUnschedule(j)
  <2>1. ~scheduled[j]
    BY <1>1 DEF IInv, FirstDeletion
  <2>2. j \notin queue /\ \A t \in Thread : ~Serves(t, j)
    BY <2>1 DEF IInv, Token
  <2>3. ASSUME NEW t \in Thread, th[t].job = j, th[t].pc \in {"claim", "run", "after", "unschedule"}
        PROVE  FALSE
    <3>1. CASE t \in Job
      BY <1>1, <2>3, <3>1 DEF IInv, ClientPlaces, At
    <3>2. CASE t \in Worker
      BY <2>2, <2>3, <3>2 DEF IInv, WorkerPlaces, Serves, Holds, At
    <3> QED BY <3>1, <3>2 DEF Thread
  <2> QED BY <2>1, <2>2, <2>3 DEF AfterUnschedule
<1>2. ASSUME waited[j] = "set"  PROVE state[j]["done"] /\ (runs[j] = 1 \/ terminated[j])
  BY <1>2 DEF IInv, FirstDeletion, Execution
<1> QED BY <1>1, <1>2

\* Up to the first deletion a client's wait and Delete keep what the comments promise, for
\* every set of jobs and workers.
THEOREM JobsUntilFirstDeletion == Spec => []UntilFirstDeletion
BY Invariance, InvUntilFirstDeletion, PTL

-------------------------------------------------------------------------------
(* Many deletions.  Set reads its event's handle after it has published    *)
(* the state (WaitableEvent.cpp:164), and Delete may have freed the job by *)
(* then.  As long as no thread is caught there, the handles that go back   *)
(* to the pool are not signalled, and the promises hold for every job.     *)

\* No step signals through the event of a job that has been deleted.
NoLateSet == \A t \in Thread : SetSignal(t) => alive[th[t].job]

\* Every handle belongs to one event of a job that exists, or to the pool, and is
\* signalled only for this event.
LiveHandles ==
    /\ \A j, k \in Job, e, f \in Event :
           alive[j] /\ alive[k] /\ event[j][e] = event[k][f] /\ event[j][e] # NoHandle
               => j = k /\ e = f
    /\ \A j \in Job, e \in Event, i \in 1 .. Len(pool) : alive[j] => event[j][e] # pool[i]
    /\ \A i, k \in 1 .. Len(pool) : pool[i] = pool[k] => i = k
    /\ \A j \in Job, e \in Event : alive[j] /\ event[j][e] \in signalled => state[j][e]
    /\ \A h \in signalled : \E j \in Job, e \in Event : alive[j] /\ event[j][e] = h
    /\ \A c \in Job : At(c, "destroy") => state[c]["deletable"]

\* What the handles promise, for every job.
Promises == \A j \in Job : /\ waited[j] = "set" => state[j]["done"]
                           /\ ~alive[j] => ~scheduled[j]

\* A client that is inside of a call has a job, and so has a thread that destroys one.
LEMMA InUse ==
    ASSUME TypeOK, ClientPlaces, WorkerPlaces, Token, Dead
    PROVE  /\ \A c \in Job : ~At(c, "gone") => alive[c]
           /\ \A t \in Thread : At(t, "destroy") => th[t].job \in Job /\ alive[th[t].job]
<1>1. \A c \in Job : ~At(c, "gone") => alive[c]
  BY DEF ClientPlaces
<1>2. ASSUME NEW t \in Thread, At(t, "destroy")
      PROVE  th[t].job \in Job /\ alive[th[t].job]
  <2>1. CASE t \in Job
    BY <1>1, <1>2, <2>1 DEF ClientPlaces, At
  <2>2. CASE t \in Worker
    <3>1. th[t].job \in Job /\ owned[th[t].job] /\ Holds(t, th[t].job)
      BY <1>2, <2>2 DEF WorkerPlaces, Holds, At
    <3> QED BY <3>1 DEF Dead
  <2> QED BY <2>1, <2>2 DEF Thread
<1> QED BY <1>1, <1>2

\* A sequence without its last element, and with one more.
LEMMA LastTaken ==
    ASSUME NEW S, NEW q \in Seq(S), q # <<>>
    PROVE  LET r == SubSeq(q, 1, Len(q) - 1) IN
           /\ Len(q) \in 1 .. Len(q) /\ q[Len(q)] \in S
           /\ Len(r) = Len(q) - 1 /\ r \in Seq(S)
           /\ \A i \in 1 .. Len(r) : r[i] = q[i] /\ i \in 1 .. Len(q) /\ i # Len(q)
<1>1. Len(q) \in Nat /\ Len(q) # 0
  OBVIOUS
<1>2. PICK n \in Nat : Len(q) = n + 1
  <2>1. \A m \in Nat : m # 0 => m - 1 \in Nat /\ m = (m - 1) + 1
    OBVIOUS
  <2> QED BY <1>1, <2>1
<1>3. Len(q) - 1 = n
  BY <1>2
<1>4. SubSeq(q, 1, n) \in Seq(S) /\ Len(SubSeq(q, 1, n)) = n
  BY <1>2
<1>5. \A i \in 1 .. n : SubSeq(q, 1, n)[i] = q[i]
  BY <1>2
<1>6. Len(q) \in 1 .. Len(q) /\ q[Len(q)] \in S /\ \A i \in 1 .. n : i \in 1 .. Len(q) /\ i # Len(q)
  BY <1>2
<1> QED BY <1>3, <1>4, <1>5, <1>6

LEMMA OneMore ==
    ASSUME NEW S, NEW q \in Seq(S), NEW x \in S
    PROVE  q \o <<x>> = Append(q, x) /\ q \o <<>> = q /\ Append(q, x) \in Seq(S)
<1>1. Append(q, x) = q \o <<x>> /\ q \o <<>> = q
  BY AppendIsConcat, ConcatEmptySeq
<1> QED BY <1>1

\* AutoAlloc gives an event that has no handle one that no job and not the pool has.
LEMMA AllocGives ==
    ASSUME TypeOK, ClientPlaces, LiveHandles, NEW c \in Job, Alloc(c), event' # event
    PROVE  \E h \in Handle :
               /\ event' = [event EXCEPT ![c][th[c].goal] = h]
               /\ event[c][th[c].goal] = NoHandle
               /\ \A j \in Job, e \in Event : alive[j] => event[j][e] # h
               /\ pool' \in Seq(Handle) /\ Len(pool') <= Len(pool)
               /\ \A i \in 1 .. Len(pool') : pool'[i] = pool[i] /\ pool[i] # h
<1>0. th[c].goal \in Event /\ pool \in Seq(Handle)
  BY ThreadTypes DEF TypeOK, Thread
<1>1. event[c][th[c].goal] = NoHandle
  BY DEF Alloc
<1>2. CASE pool # <<>>
  <2>1. /\ event' = [event EXCEPT ![c][th[c].goal] = pool[Len(pool)]]
        /\ pool' = SubSeq(pool, 1, Len(pool) - 1)
    BY <1>1, <1>2 DEF Alloc
  <2>2. /\ Len(pool) \in 1 .. Len(pool) /\ pool[Len(pool)] \in Handle
        /\ Len(pool') = Len(pool) - 1 /\ pool' \in Seq(Handle)
        /\ \A i \in 1 .. Len(pool') : pool'[i] = pool[i] /\ i \in 1 .. Len(pool) /\ i # Len(pool)
    BY <1>0, <1>2, <2>1, LastTaken
  <2>3. \A i \in 1 .. Len(pool') : pool[i] # pool[Len(pool)]
    BY <2>2 DEF LiveHandles
  <2>4. \A j \in Job, e \in Event : alive[j] => event[j][e] # pool[Len(pool)]
    BY <2>2 DEF LiveHandles
  <2>5. Len(pool') <= Len(pool)
    BY <1>0, <2>2
  <2> QED BY <1>1, <2>1, <2>2, <2>3, <2>4, <2>5
<1>3. CASE pool = <<>>
  <2>1. NewHandle \in Handle /\ \A j \in Job, e \in Event : event[j][e] # NewHandle
    BY <1>0, <1>1, FreshHandle
  <2>2. event' = [event EXCEPT ![c][th[c].goal] = NewHandle] /\ pool' = pool
    BY <1>1, <1>3 DEF Alloc
  <2>3. Len(pool') = 0 /\ Len(pool') <= Len(pool) /\ pool' \in Seq(Handle)
    BY <1>0, <1>3, <2>2
  <2>4. \A i \in 1 .. Len(pool') : pool'[i] = pool[i] /\ pool[i] # NewHandle
    BY <2>3
  <2>5. PICK h \in Handle : h = NewHandle
    BY <2>1
  <2> QED BY <1>1, <2>1, <2>2, <2>3, <2>4, <2>5
<1> QED BY <1>2, <1>3

\* It leaves the pool alone when the event has a handle.
LEMMA AllocKeeps ==
    ASSUME TypeOK, NEW c \in Job, Alloc(c), event' = event
    PROVE  pool' = pool
<1>0. /\ th[c].goal \in Event /\ pool \in Seq(Handle) /\ NoHandle \notin Handle
      /\ event \in [Job -> [Event -> Handle \cup {NoHandle}]]
  BY JobAssumption, ThreadTypes DEF TypeOK, Thread
<1>1. CASE event[c][th[c].goal] = NoHandle /\ pool # <<>>
  <2>1. pool[Len(pool)] \in Handle
    BY <1>0, <1>1, LastTaken
  <2>2. event' = [event EXCEPT ![c][th[c].goal] = pool[Len(pool)]]
    BY <1>1 DEF Alloc
  <2> QED BY <1>0, <1>1, <2>1, <2>2
<1>2. CASE event[c][th[c].goal] # NoHandle \/ pool = <<>>
  BY <1>2 DEF Alloc
<1> QED BY <1>1, <1>2

\* The destructors give back the handles of the deleted job, each of them once.
LEMMA DestroyGivesBack ==
    ASSUME TypeOK, LiveHandles, NEW t \in Thread, Destroy(t),
           th[t].job \in Job, alive[th[t].job]
    PROVE  /\ pool' \in Seq(Handle)
           /\ \A i \in 1 .. Len(pool') :
                  \/ i \in 1 .. Len(pool) /\ pool'[i] = pool[i]
                  \/ \E e \in Event : pool'[i] = event[th[t].job][e] /\ pool'[i] # NoHandle
           /\ \A i, k \in 1 .. Len(pool') : pool'[i] = pool'[k] => i = k
<1> DEFINE j == th[t].job
<1>0. /\ pool \in Seq(Handle) /\ NoHandle \notin Handle
      /\ \A e \in Event : event[j][e] \in Handle \cup {NoHandle}
      /\ "done" \in Event /\ "deletable" \in Event
  BY JobAssumption, Places DEF TypeOK
<1>1. pool' = pool \o Back(j, "deletable") \o Back(j, "done")
  BY DEF Destroy
<1>2. /\ \A e \in Event, i \in 1 .. Len(pool) : event[j][e] # pool[i]
      /\ event[j]["done"] = event[j]["deletable"] => event[j]["done"] = NoHandle
      /\ \A i, k \in 1 .. Len(pool) : pool[i] = pool[k] => i = k
  BY <1>0 DEF LiveHandles
<1> DEFINE d == event[j]["deletable"]
           e == event[j]["done"]
<1>3. d \in Handle \cup {NoHandle} /\ e \in Handle \cup {NoHandle} /\ (d = e => e = NoHandle)
  BY <1>0, <1>2
<1>4. /\ Back(j, "deletable") = IF d = NoHandle THEN <<>> ELSE <<d>>
      /\ Back(j, "done") = IF e = NoHandle THEN <<>> ELSE <<e>>
  BY DEF Back
<1>5. \A i \in 1 .. Len(pool) : pool[i] # d /\ pool[i] # e
  BY <1>0, <1>2
<1>6. \E f \in Event : d = event[j][f]
  BY <1>0
<1>7. \E f \in Event : e = event[j][f]
  BY <1>0
<1> HIDE DEF j, d, e
<1>8. CASE d = NoHandle /\ e = NoHandle
  <2>1. pool' = pool
    BY <1>0, <1>1, <1>4, <1>8
  <2> QED BY <1>0, <1>2, <2>1
<1>9. CASE (d = NoHandle /\ e # NoHandle) \/ (d # NoHandle /\ e = NoHandle)
  <2>1. PICK h \in Handle : /\ pool' = Append(pool, h)
                            /\ \E f \in Event : h = event[j][f]
                            /\ \A i \in 1 .. Len(pool) : pool[i] # h
    <3>1. CASE d = NoHandle
      <4>1. pool' = Append(pool, e)
        BY <1>0, <1>1, <1>3, <1>4, <1>9, <3>1, OneMore
      <4> QED BY <1>3, <1>5, <1>7, <1>9, <3>1, <4>1
    <3>2. CASE e = NoHandle
      <4>1. pool' = Append(pool, d)
        BY <1>0, <1>1, <1>3, <1>4, <1>9, <3>2, OneMore
      <4> QED BY <1>3, <1>5, <1>6, <1>9, <3>2, <4>1
    <3> QED BY <1>9, <3>1, <3>2
  <2>2. /\ pool' \in Seq(Handle) /\ Len(pool') = Len(pool) + 1 /\ Len(pool) \in Nat
        /\ pool'[Len(pool) + 1] = h
        /\ \A i \in 1 .. Len(pool) : pool'[i] = pool[i]
    BY <1>0, <2>1
  <2>3. \A i \in 1 .. Len(pool') : i \in 1 .. Len(pool) \/ i = Len(pool) + 1
    BY <2>2
  <2> QED BY <1>0, <1>2, <2>1, <2>2, <2>3 DEF j
<1>10. CASE d # NoHandle /\ e # NoHandle
  <2>1. pool' = Append(Append(pool, d), e)
    <3>1. pool \o <<d>> = Append(pool, d) /\ Append(pool, d) \in Seq(Handle)
      BY <1>0, <1>3, <1>10, OneMore
    <3>2. Append(pool, d) \o <<e>> = Append(Append(pool, d), e)
      BY <1>3, <1>10, <3>1, OneMore
    <3> QED BY <1>1, <1>4, <1>10, <3>1, <3>2
  <2>2. /\ pool' \in Seq(Handle) /\ Len(pool') = Len(pool) + 2 /\ Len(pool) \in Nat
        /\ pool'[Len(pool) + 1] = d /\ pool'[Len(pool) + 2] = e
        /\ \A i \in 1 .. Len(pool) : pool'[i] = pool[i]
    BY <1>0, <1>3, <1>10, <2>1
  <2>3. \A i \in 1 .. Len(pool') : i \in 1 .. Len(pool) \/ i = Len(pool) + 1 \/ i = Len(pool) + 2
    BY <2>2
  <2> QED BY <1>0, <1>2, <1>3, <1>5, <1>6, <1>7, <1>10, <2>2, <2>3 DEF j
<1> QED BY <1>8, <1>9, <1>10

\* A step that does not signal through a deleted job keeps handles apart.
LEMMA LiveHandlesStep ==
    ASSUME TypeOK, ClientPlaces, WorkerPlaces, Token, Execution, Known, Dead, LiveHandles,
           [Next]_vars, [NoLateSet]_vars
    PROVE  LiveHandles'
<1>m. /\ \A j \in Job, e \in Event : state[j][e] => state'[j][e]
      /\ \A j \in Job : alive'[j] => alive[j]
  BY Monotone
<1>t. /\ signalled \subseteq Handle /\ NoHandle \notin Handle
      /\ event \in [Job -> [Event -> Handle \cup {NoHandle}]]
      /\ state \in [Job -> [Event -> BOOLEAN]] /\ alive \in [Job -> BOOLEAN]
  BY JobAssumption DEF TypeOK
<1>0. /\ \A c \in Job : c \in Thread /\ th[c].goal \in Event
      /\ \A e \in Event : e = "done" \/ e = "deletable"
  BY ThreadTypes, Places DEF Thread
<1>1. \A c \in Job : At(c, "destroy")' => state'[c]["deletable"]
  <2> SUFFICES ASSUME NEW c \in Job, At(c, "destroy")'  PROVE state'[c]["deletable"]
    OBVIOUS
  <2>1. CASE At(c, "destroy")
    BY <1>m, <2>1, Places DEF LiveHandles
  <2>2. CASE ~At(c, "destroy")
    <3>1. ASSUME Check(c) \/ Recheck(c)  PROVE state[c]["deletable"]
      <4>1. /\ state[c][th[c].goal]
               \/ \E l \in {"alloc", "block"} : GoesTo(c, l)
            /\ th[c].goal = "deletable"
               \/ \E l \in {"alloc", "block", "ready"} : GoesTo(c, l)
        BY <3>1, ClientMoves
      <4> QED BY <4>1 DEF GoesTo, Moves, At
    <3>2. ASSUME Wake(c) \/ Timeout(c)  PROVE state[c]["deletable"]
      <4>1. th[c].goal = "deletable"
        <5>1. th[c].goal = "deletable" \/ GoesTo(c, "ready")
          BY <3>2, ClientMoves
        <5> QED BY <5>1 DEF GoesTo, Moves, At
      <4>2. CASE Wake(c)
        <5>1. ~At(c, "gone") /\ event[c][th[c].goal] \in signalled
          BY <4>2 DEF Wake, At
        <5>2. alive[c]
          BY <5>1, InUse
        <5> QED BY <1>0, <4>1, <5>1, <5>2 DEF LiveHandles
      <4>3. CASE Timeout(c)
        BY <4>1, <4>3 DEF Timeout, ClientPlaces
      <4> QED BY <3>2, <4>2, <4>3
    <3>3. ASSUME ~(Check(c) \/ Recheck(c) \/ Wake(c) \/ Timeout(c))  PROVE FALSE
      BY <2>2, <3>3, ComesToDestroy
    <3> QED BY <1>m, <3>1, <3>2, <3>3, Places
  <2> QED BY <2>1, <2>2
<1>2. CASE UNCHANGED <<event, signalled, pool, alive>>
  BY <1>m, <1>1, <1>2 DEF LiveHandles
<1>3. ASSUME NEW c \in Job, Alloc(c)  PROVE LiveHandles'
  <2>1. signalled' = signalled /\ alive' = alive
    BY <1>3 DEF Alloc
  <2>2. CASE event' = event
    <3>1. pool' = pool
      BY <1>0, <1>3, <1>t, <2>2, AllocKeeps
    <3> QED BY <1>2, <2>1, <2>2, <3>1
  <2>3. CASE event' # event
    <3> DEFINE g == th[c].goal
    <3>1. PICK h \in Handle :
               /\ event' = [event EXCEPT ![c][g] = h]
               /\ event[c][g] = NoHandle
               /\ \A j \in Job, e \in Event : alive[j] => event[j][e] # h
               /\ Len(pool') <= Len(pool) /\ Len(pool') \in Nat /\ Len(pool) \in Nat
               /\ \A i \in 1 .. Len(pool') : pool'[i] = pool[i] /\ pool[i] # h
      <4>1. pool \in Seq(Handle)
        BY DEF TypeOK
      <4> QED BY <1>3, <2>3, <4>1, AllocGives
    <3>2. h \notin signalled
      BY <3>1 DEF LiveHandles
    <3>g. g \in Event
      BY <1>0
    <3> HIDE DEF g
    <3>3. event'[c][g] = h
      BY <1>t, <3>1, <3>g
    <3>4. \A j \in Job, e \in Event : j # c \/ e # g => event'[j][e] = event[j][e]
      BY <1>t, <3>1, <3>g
    <3>p. \A i \in 1 .. Len(pool') : i \in 1 .. Len(pool)
      BY <3>1
    <3>5. \A j, k \in Job, e, f \in Event :
              alive'[j] /\ alive'[k] /\ event'[j][e] = event'[k][f] /\ event'[j][e] # NoHandle
                  => j = k /\ e = f
      BY <2>1, <3>1, <3>3, <3>4 DEF LiveHandles
    <3>6. \A j \in Job, e \in Event, i \in 1 .. Len(pool') : alive'[j] => event'[j][e] # pool'[i]
      BY <2>1, <3>1, <3>3, <3>4, <3>p DEF LiveHandles
    <3>7. \A i, k \in 1 .. Len(pool') : pool'[i] = pool'[k] => i = k
      BY <3>1, <3>p DEF LiveHandles
    <3>8. \A j \in Job, e \in Event : alive'[j] /\ event'[j][e] \in signalled' => state'[j][e]
      BY <1>m, <2>1, <3>2, <3>3, <3>4 DEF LiveHandles
    <3>9. \A x \in signalled' : \E j \in Job, e \in Event : alive'[j] /\ event'[j][e] = x
      BY <1>t, <2>1, <3>1, <3>4 DEF LiveHandles
    <3> QED BY <1>1, <3>5, <3>6, <3>7, <3>8, <3>9 DEF LiveHandles
  <2> QED BY <2>2, <2>3
<1>4. ASSUME NEW t \in Thread, SetSignal(t)  PROVE LiveHandles'
  <2> DEFINE j == th[t].job
             e == th[t].ev
  <2>1. /\ At(t, "signal") /\ event' = event /\ pool' = pool /\ alive' = alive
        /\ \E h \in {event[j][e]} \cup (IF alive[j] THEN {} ELSE {NoHandle}) :
               signalled' = signalled \cup ({h} \ {NoHandle})
    BY <1>4 DEF SetSignal
  <2>2. j \in Job /\ e \in Event /\ state[j][e]
    BY <2>1, ThreadTypes DEF Known, ClientPlaces, WorkerPlaces, Thread, At
  <2>3. alive[j] \/ UNCHANGED vars
    BY <1>4 DEF NoLateSet
  <2> HIDE DEF j, e
  <2>4. CASE UNCHANGED vars
    BY <1>2, <2>4 DEF vars, osVars
  <2>5. CASE alive[j]
    <3>1. signalled' = signalled \cup ({event[j][e]} \ {NoHandle})
      BY <2>1, <2>5
    <3> QED BY <1>m, <1>1, <2>1, <2>2, <2>5, <3>1 DEF LiveHandles
  <2> QED BY <2>3, <2>4, <2>5
<1>5. ASSUME NEW t \in Thread, Destroy(t)  PROVE LiveHandles'
  <2> DEFINE j == th[t].job
  <2>1. j \in Job /\ alive[j]
    BY <1>5, InUse DEF Destroy
  <2>2. /\ event' = event /\ state' = state /\ alive' = [alive EXCEPT ![j] = FALSE]
        /\ signalled' = signalled \ {event[j][e] : e \in Event}
    BY <1>5 DEF Destroy
  <2>3. /\ \A i \in 1 .. Len(pool') :
               \/ i \in 1 .. Len(pool) /\ pool'[i] = pool[i]
               \/ \E e \in Event : pool'[i] = event[j][e] /\ pool'[i] # NoHandle
        /\ \A i, k \in 1 .. Len(pool') : pool'[i] = pool'[k] => i = k
    BY <1>5, <2>1, DestroyGivesBack
  <2> HIDE DEF j
  <2>4. ~alive'[j] /\ \A k \in Job : k # j => alive'[k] = alive[k]
    BY <1>t, <2>1, <2>2
  <2>5. \A k \in Job, f \in Event, i \in 1 .. Len(pool') : alive'[k] => event'[k][f] # pool'[i]
    BY <1>m, <2>1, <2>2, <2>3, <2>4 DEF LiveHandles
  <2>6. \A h \in signalled' : \E k \in Job, e \in Event : alive'[k] /\ event'[k][e] = h
    BY <2>1, <2>2, <2>4 DEF LiveHandles
  <2> QED BY <1>m, <1>1, <2>2, <2>3, <2>5, <2>6 DEF LiveHandles
<1>6. ASSUME NEW c \in Job, Client(c)
      PROVE  UNCHANGED <<event, signalled, pool, alive>> \/ Alloc(c) \/ Inside(c)
  <2>1. CASE ClientInside(c)
    BY <2>1 DEF ClientInside, DeleteTestsWaiting, Check, Recheck, Wake, Timeout, osVars
  <2>2. CASE ~ClientInside(c)
    BY <1>6, <2>2 DEF Client, Schedule, WaitUntilDone, WaitUntilDoneOrTimeout, Terminate,
         Delete, RemoveJobFromQueue, osVars
  <2> QED BY <2>1, <2>2
<1>7. ASSUME NEW t \in Thread, Inside(t)
      PROVE  UNCHANGED <<event, signalled, pool, alive>> \/ SetSignal(t) \/ Destroy(t)
  BY <1>7 DEF Inside, Claim, ClaimedByOther, Run, AfterRun, OnUnSchedule, TestDone,
       SetFlag, osVars
<1>8. ASSUME NEW w \in Worker, WorkerStep(w)
      PROVE  UNCHANGED <<event, signalled, pool, alive>> \/ Inside(w)
  BY <1>8 DEF WorkerStep, AssignJob, DrainQueue, osVars
<1>9. UNCHANGED vars => UNCHANGED <<event, signalled, pool, alive>>
  BY DEF vars, osVars
<1> QED BY <1>2, <1>3, <1>4, <1>5, <1>6, <1>7, <1>8, <1>9 DEF Next, Thread

\* A wait ends, and a job is deleted, only when it is over.
LEMMA PromisesStep ==
    ASSUME TypeOK, ClientPlaces, WorkerPlaces, Token, Execution, Known, DeletableWhenOver, Dead,
           LiveHandles, Promises, [Next]_vars
    PROVE  Promises'
<1> SUFFICES ASSUME NEW j \in Job
             PROVE  /\ waited'[j] = "set" => state'[j]["done"]
                    /\ ~alive'[j] => ~scheduled'[j]
  BY DEF Promises
<1>0. /\ state[j]["done"] => state'[j]["done"]
      /\ ~alive[j] /\ ~scheduled[j] => ~scheduled'[j]
      /\ j \in Thread
  BY Monotone, Places DEF Thread, ClientPlaces, At
<1>1. ASSUME waited'[j] = "set", waited[j] # "set"  PROVE state[j]["done"]
  <2>1. /\ Check(j) \/ Recheck(j) \/ Wake(j)
        /\ th[j].goal = "done"
    BY <1>1, EndOfWait
  <2>2. CASE Check(j) \/ Recheck(j)
    BY <1>1, <2>1, <2>2 DEF Check, Recheck
  <2>3. CASE Wake(j)
    <3>1. ~At(j, "gone") /\ event[j]["done"] \in signalled
      BY <2>1, <2>3 DEF Wake, At
    <3> QED BY <3>1, InUse, Places DEF LiveHandles
  <2> QED BY <2>1, <2>2, <2>3
<1>2. ASSUME ~alive'[j], alive[j]  PROVE ~scheduled'[j]
  <2>1. PICK t \in Thread : /\ At(t, "destroy") /\ th[t].job = j
                            /\ t \in Job => t = j
                            /\ t \in Worker => Holds(t, j) /\ ~Serves(t, j)
                            /\ UNCHANGED scheduled
    BY <1>2, DestroyedBy
  <2>2. CASE t \in Job
    BY <2>1, <2>2 DEF LiveHandles, DeletableWhenOver
  <2>3. CASE t \in Worker
    BY <2>1, <2>3, Unscheduled
  <2> QED BY <2>2, <2>3 DEF Thread
<1> QED BY <1>0, <1>1, <1>2 DEF Promises

\* What the handles promise makes the two properties true.
LEMMA PromisesKept ==
    IInv /\ Promises => DeletedAfterUnschedule /\ WaitMeansDone
<1> SUFFICES ASSUME IInv, Promises  PROVE DeletedAfterUnschedule /\ WaitMeansDone
  OBVIOUS
<1>1. ASSUME NEW j \in Job, ~alive[j]
      PROVE  /\ ~scheduled[j] /\ j \notin queue
             /\ \A t \in Thread : th[t].job = j =>
                    ~(th[t].pc \in {"claim", "run", "after", "unschedule"})
  <2>1. ~scheduled[j]
    BY <1>1 DEF Promises
  <2>2. j \notin queue /\ \A t \in Thread : ~Serves(t, j)
    BY <2>1 DEF IInv, Token
  <2>3. ASSUME NEW t \in Thread, th[t].job = j, th[t].pc \in {"claim", "run", "after", "unschedule"}
        PROVE  FALSE
    <3>1. CASE t \in Job
      BY <1>1, <2>3, <3>1 DEF IInv, ClientPlaces, At
    <3>2. CASE t \in Worker
      BY <2>2, <2>3, <3>2 DEF IInv, WorkerPlaces, Serves, Holds, At
    <3> QED BY <3>1, <3>2 DEF Thread
  <2> QED BY <2>1, <2>2, <2>3
<1>2. WaitMeansDone
  BY DEF WaitMeansDone, Promises, IInv, Execution
<1> QED BY <1>1, <1>2 DEF DeletedAfterUnschedule

\* The invariant of the handles, for as many deletions as there are.
LEMMA PromisesInvariance == Spec /\ [][NoLateSet]_vars => [](LiveHandles /\ Promises)
<1>1. Init => LiveHandles /\ Promises
  <2>1. ASSUME Init  PROVE \A c \in Job : ~At(c, "destroy")
    BY <2>1, InitInv, ThreadAssumption DEF Init, At, Start, Thread
  <2>2. ASSUME Init  PROVE Len(pool) = 0 /\ 1 .. Len(pool) = {}
    BY <2>2 DEF Init
  <2> QED BY <2>1, <2>2 DEF Init, LiveHandles, Promises
<1>2. IInv /\ LiveHandles /\ Promises /\ [Next]_vars /\ [NoLateSet]_vars => (LiveHandles /\ Promises)'
  BY LiveHandlesStep, PromisesStep DEF IInv
<1> QED BY <1>1, <1>2, Invariance, PTL DEF Spec

\* With any number of jobs and workers a job is deleted after OnUnSchedule only, as long as
\* no thread is caught in the Set of a job that is being deleted.
THEOREM JobsDeletedAfterUnschedule ==
    Spec /\ [][NoLateSet]_vars => []DeletedAfterUnschedule
BY Invariance, PromisesInvariance, PromisesKept, PTL

\* Likewise a wait that ends without a timeout ends because the job is over.
THEOREM JobsWaitMeansDone == Spec /\ [][NoLateSet]_vars => []WaitMeansDone
BY Invariance, PromisesInvariance, PromisesKept, PTL
===============================================================================
