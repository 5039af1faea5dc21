---------------------------- MODULE TaskScheduler ----------------------------
(***************************************************************************)
(* TaskScheduler of the scheduler starter: workers take the task that is   *)
(* due first from a priority queue, run it outside the mutex and push it   *)
(* again when it is periodic.  Code under mutex_ is one step; a task's     *)
(* body, the decision to push it again and the push are three.             *)
(*                                                                         *)
(* Any thread may call any method.  start and stop work on workers_        *)
(* without the mutex: when one of them is called while the other is at     *)
(* work on it, the program has a data race and the model says no more.     *)
(***************************************************************************)
EXTENDS Integers, FiniteSets, FiniteSetsExt

CONSTANTS
    Tasks,      \* the calls of schedule, scheduleOnce and schedulePeriodic
    Workers,    \* the threads of the pool
    kind,       \* kind[t]: "once", "interval" or "cron"
    period,     \* period[t]: the delay, the interval or the step of the cron fields
    MaxTime,    \* bound on the clock
    NoTask

VARIABLES
    running,    \* running_
    owner,      \* what start and stop do with workers_: "idle", "starting", "joining",
                \* "overlap" of two of them, or "terminated" by std::terminate
    now,        \* std::chrono::system_clock::now()
    queue,      \* the tasks in task_queue_
    next_execution,
    cancelled,
    pc,         \* of each worker
    holds,      \* next_task of each worker
    wakeup,     \* the end of its wait_for
    stopped,    \* history: stop was called
    accepted,   \* history: the tasks that were scheduled
    ran         \* history: the tasks scheduled once that were started

vars == <<running, owner, now, queue, next_execution, cancelled, pc, holds, wakeup,
          stopped, accepted, ran>>

Init ==
    /\ running = FALSE
    /\ owner = "idle"
    /\ now = 0
    /\ queue = {}
    /\ next_execution = [t \in Tasks |-> 0]
    /\ cancelled = {}
    /\ pc = [w \in Workers |-> "none"]
    /\ holds = [w \in Workers |-> NoTask]
    /\ wakeup = [w \in Workers |-> 0]
    /\ stopped = FALSE /\ accepted = {}
    /\ ran = {}

(* nextExecutionTime is strictly later than its argument, at a multiple of  *)
(* the step; an interval counts from the end of the run.                    *)
NextTime(t) ==
    IF kind[t] = "cron" THEN (now \div period[t] + 1) * period[t] ELSE now + period[t]

Wake(ws) ==
    /\ pc' = [w \in Workers |-> IF w \in ws THEN "loop" ELSE pc[w]]
    /\ wakeup' = [w \in Workers |-> IF w \in ws THEN 0 ELSE wakeup[w]]

(* Whom notify_one may wake: one waiting worker, if there is one. *)
Waiting == {w \in Workers : pc[w] = "wait"}
NotifiedNobody == {{}}
Notified == IF Waiting = {} THEN {{}} ELSE {{w} : w \in Waiting}

(* schedule, scheduleOnce, schedulePeriodic: push under mutex_, then notify. *)
schedule(t) ==
    /\ t \notin accepted
    /\ accepted' = accepted \cup {t}
    /\ queue' = queue \cup {t}
    /\ next_execution' = [next_execution EXCEPT ![t] = NextTime(t)]
    /\ \E ws \in Notified : Wake(ws)
    /\ UNCHANGED <<running, owner, now, cancelled, holds, stopped, ran>>

(* cancel marks the task only where it finds it, which is in the queue. *)
cancel(t) ==
    /\ t \in queue \ cancelled
    /\ cancelled' = cancelled \cup {t}
    /\ UNCHANGED <<running, owner, now, queue, next_execution, pc, holds, wakeup,
                   stopped, accepted, ran>>

(* exchange(true): whoever finds FALSE makes the workers, one by one.       *)
start ==
    /\ ~running
    /\ running' = TRUE
    /\ owner' = IF owner = "idle" THEN "starting" ELSE "overlap"
    /\ UNCHANGED <<now, queue, next_execution, cancelled, pc, holds, wakeup,
                   stopped, accepted, ran>>

EmplaceWorker(w) ==
    /\ owner = "starting" /\ pc[w] = "none"
    /\ pc' = [pc EXCEPT ![w] = "loop"]
    /\ owner' = IF \A v \in Workers \ {w} : pc[v] # "none" THEN "idle" ELSE "starting"
    /\ UNCHANGED <<running, now, queue, next_execution, cancelled, holds, wakeup,
                   stopped, accepted, ran>>

(* exchange(false): whoever finds TRUE notifies all, without the mutex, and *)
(* joins the workers.  The queue is left as it is.                          *)
stop ==
    /\ running
    /\ running' = FALSE
    /\ stopped' = TRUE
    /\ owner' = IF owner = "idle" THEN "joining" ELSE "overlap"
    /\ Wake(Waiting)
    /\ UNCHANGED <<now, queue, next_execution, cancelled, holds, accepted, ran>>

Joined ==
    /\ owner = "joining"
    /\ \A w \in Workers : pc[w] = "none"
    /\ owner' = "idle"
    /\ UNCHANGED <<running, now, queue, next_execution, cancelled, pc, holds, wakeup,
                   stopped, accepted, ran>>

(* The test of the loop; running_ is read before mutex_ is taken. *)
WorkerLoop(w) ==
    /\ pc[w] = "loop"
    /\ pc' = [pc EXCEPT ![w] = IF running THEN "locked" ELSE "none"]
    /\ UNCHANGED <<running, owner, now, queue, next_execution, cancelled, holds, wakeup,
                   stopped, accepted, ran>>

(* top(): one of the tasks with the earliest time. *)
Tops == {t \in queue : \A u \in queue : next_execution[t] <= next_execution[u]}

(* What the worker does under mutex_: wait, drop a cancelled task, or take  *)
(* a due one.  An empty queue is looked at again after 100 ms.              *)
TakeNext(w) ==
    /\ pc[w] = "locked"
    /\ \/ /\ queue = {}
          /\ pc' = [pc EXCEPT ![w] = "wait"]
          /\ wakeup' = [wakeup EXCEPT ![w] = now + 1]
          /\ UNCHANGED <<queue, holds, ran>>
       \/ \E t \in Tops :
             \/ /\ t \in cancelled
                /\ queue' = queue \ {t}
                /\ pc' = [pc EXCEPT ![w] = "loop"]
                /\ UNCHANGED <<holds, wakeup, ran>>
             \/ /\ t \notin cancelled /\ next_execution[t] <= now
                /\ queue' = queue \ {t}
                /\ holds' = [holds EXCEPT ![w] = t]
                /\ ran' = ran \cup {u \in {t} : kind[u] = "once"}
                /\ pc' = [pc EXCEPT ![w] = "task"]
                /\ UNCHANGED wakeup
             \/ /\ t \notin cancelled /\ next_execution[t] > now
                /\ pc' = [pc EXCEPT ![w] = "wait"]
                /\ wakeup' = [wakeup EXCEPT ![w] = next_execution[t]]
                /\ UNCHANGED <<queue, holds, ran>>
    /\ UNCHANGED <<running, owner, now, next_execution, cancelled, stopped, accepted>>

(* What is pushed again: next_task->interval or cron, not cancelled. *)
PushAgainEvenOnce(t) == t \notin cancelled /\ running
PushAgain(t) == kind[t] # "once" /\ t \notin cancelled /\ running

(* The task ends, or throws a std::exception that is logged; then the       *)
(* worker decides, without the mutex, whether to push it again.             *)
TaskEnds(w) ==
    /\ pc[w] = "task"
    /\ LET t == holds[w] IN
       IF PushAgain(t)
       THEN /\ next_execution' = [next_execution EXCEPT ![t] = NextTime(t)]
            /\ pc' = [pc EXCEPT ![w] = "push"]
            /\ UNCHANGED holds
       ELSE /\ pc' = [pc EXCEPT ![w] = "loop"]
            /\ holds' = [holds EXCEPT ![w] = NoTask]
            /\ UNCHANGED next_execution
    /\ UNCHANGED <<running, owner, now, queue, cancelled, wakeup, stopped, accepted, ran>>

(* The search for the next time of a cron expression gives up with an       *)
(* exception that nobody catches in workerLoop: std::terminate.             *)
CronSearchThrows(w) ==
    /\ pc[w] = "task"
    /\ kind[holds[w]] = "cron" /\ PushAgain(holds[w])
    /\ owner' = "terminated"
    /\ UNCHANGED <<running, now, queue, next_execution, cancelled, pc, holds, wakeup,
                   stopped, accepted, ran>>

Repush(w) ==
    /\ pc[w] = "push"
    /\ queue' = queue \cup {holds[w]}
    /\ holds' = [holds EXCEPT ![w] = NoTask]
    /\ \E ws \in Notified : Wake(ws \cup {w})
    /\ UNCHANGED <<running, owner, now, next_execution, cancelled, stopped, accepted, ran>>

(* wait_for ends at its time, or when the bounded clock has run out; a      *)
(* spurious end would only look earlier.                                    *)
WaitEnds(w) ==
    /\ pc[w] = "wait"
    /\ now >= Min({wakeup[w], MaxTime})
    /\ Wake({w})
    /\ UNCHANGED <<running, owner, now, queue, next_execution, cancelled, holds,
                   stopped, accepted, ran>>

Tick ==
    /\ now < MaxTime
    /\ now' = now + 1
    /\ UNCHANGED <<running, owner, queue, next_execution, cancelled, pc, holds, wakeup,
                   stopped, accepted, ran>>

WorkerStep(w) ==
    WorkerLoop(w) \/ TakeNext(w) \/ TaskEnds(w) \/ Repush(w) \/ WaitEnds(w)

OwnerGoesOn == Joined \/ \E w \in Workers : EmplaceWorker(w)

Alive == owner \notin {"overlap", "terminated"}

Next ==
    /\ Alive
    /\ \/ \E t \in Tasks : schedule(t) \/ cancel(t)
       \/ start \/ stop \/ OwnerGoesOn \/ Tick
       \/ \E w \in Workers : WorkerStep(w) \/ CronSearchThrows(w)

(* Threads are scheduled, tasks end and time passes. *)
Fairness ==
    /\ \A w \in Workers : WF_vars(Alive /\ WorkerStep(w))
    /\ WF_vars(OwnerGoesOn) /\ WF_vars(Alive /\ Tick)

-----------------------------------------------------------------------------
(* A task is in one place: in the queue once or with one worker, and no     *)
(* task runs before its time.                                               *)
TasksAreInOnePlace ==
    /\ \A t \in Tasks :
          Cardinality({w \in Workers : holds[w] = t}) <= (IF t \in queue THEN 0 ELSE 1)
    /\ \A w \in Workers : pc[w] = "task" => next_execution[holds[w]] <= now

(* While the scheduler has never been stopped, a task that is to run again  *)
(* is in the queue or with a worker: none is forgotten.                     *)
PeriodicTasksSurvive ==
    running /\ ~stopped => \A t \in accepted :
        \/ kind[t] = "once" /\ t \in ran
        \/ t \in cancelled
        \/ t \in queue \/ \E w \in Workers : holds[w] = t

(* When a task is due, some worker is awake, or busy, or about to be woken  *)
(* by the clock: notify_one never leaves a due task to sleeping workers,    *)
(* and start leaves none without a worker.                                  *)
NobodyOversleeps ==
    running /\ owner = "idle" /\ (\E t \in queue : next_execution[t] <= now)
        => \E w \in Workers :
              pc[w] \notin {"none", "wait"} \/ (pc[w] = "wait" /\ wakeup[w] <= now)

(* The inductive invariant.  A task in a worker's hands has been started    *)
(* and is not in the queue; workers exist from start until stop has joined  *)
(* them, so that no accepted task is lost before the first stop; a worker   *)
(* that waits for the first task of the queue is late for none of them, and *)
(* whoever adds a task wakes somebody.                                      *)
Typed ==
    /\ running \in BOOLEAN
    /\ owner \in {"idle", "starting", "joining", "overlap", "terminated"}
    /\ now \in Nat
    /\ queue \subseteq accepted /\ accepted \subseteq Tasks
    /\ next_execution \in [Tasks -> Nat]
    /\ pc \in [Workers -> {"none", "loop", "locked", "wait", "task", "push"}]
    /\ holds \in [Workers -> Tasks \cup {NoTask}]
    /\ wakeup \in [Workers -> Nat]
    /\ stopped \in BOOLEAN /\ ran \subseteq accepted

HeldTasks ==
    /\ \A w \in Workers :
          /\ holds[w] # NoTask <=> pc[w] \in {"task", "push"}
          /\ holds[w] # NoTask => holds[w] \in accepted /\ holds[w] \notin queue
          /\ holds[w] # NoTask /\ kind[holds[w]] = "once" => holds[w] \in ran
          /\ pc[w] = "task" => next_execution[holds[w]] <= now
          /\ pc[w] = "push" => kind[holds[w]] # "once"
    /\ \A v, w \in Workers : holds[v] # NoTask /\ holds[v] = holds[w] => v = w
    /\ \A t \in queue : kind[t] = "once" => t \notin ran

WorkersAreJoined ==
    /\ owner = "joining" => ~running /\ stopped
    /\ owner = "starting" => running
    /\ owner = "idle" => \A w \in Workers : pc[w] = "none" <=> ~running

NoneForgotten ==
    ~stopped => \A t \in accepted :
        \/ kind[t] = "once" /\ t \in ran
        \/ t \in cancelled
        \/ t \in queue \/ \E w \in Workers : holds[w] = t

SomebodyLooks ==
    queue # {} => \E w \in Workers :
        pc[w] # "wait" \/ \A t \in queue : wakeup[w] <= next_execution[t]

IInv == Typed /\ HeldTasks /\ WorkersAreJoined /\ NoneForgotten /\ SomebodyLooks

(* A task for which cancel answered true is not started afterwards, and a   *)
(* task scheduled once is not started again.  What stop left in the queue   *)
(* may be started after the next start: StopCancelsPending.                 *)
StartsAreAllowed ==
    \A w \in Workers : pc[w] = "locked" /\ pc'[w] = "task" =>
        /\ holds'[w] \notin cancelled
        /\ kind[holds'[w]] = "once" => holds'[w] \notin ran

(* "Stop the scheduler and cancel all pending tasks" (TaskScheduler.hpp):   *)
(* when stop returns, no task that is left in the queue can be started.     *)
StopCancelsPending ==
    owner = "joining" /\ owner' = "idle" => queue' \subseteq cancelled'

(* "All public methods can be called from any thread" (TaskScheduler.hpp):  *)
(* no two calls of start and stop work on workers_ at the same time.        *)
CallsAreThreadSafe == owner # "overlap"

(* What somebody waits for: stop returns, although its notification may     *)
(* come between a worker's test of running_ and its wait, because the wait  *)
(* has a time limit.                                                        *)
Awaited == IF owner = "joining" THEN {"stop"} ELSE {}

=============================================================================
