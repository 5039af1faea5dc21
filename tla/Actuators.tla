--------------------------------- MODULE Actuators --------------------------
(***************************************************************************)
(* thread::DelayedTaskActuator and thread::PeriodicActuator.               *)
(***************************************************************************)
EXTENDS Integers, FiniteSets

CONSTANTS
    Ids,       \* the task identifiers that nextTaskId hands out
    Getters,   \* the threads that call getTaskResult
    Nobody,
    MaxReady   \* start is called while fewer handlers are queued

VARIABLES
    nextTaskId,
    alive,
    mutex,         \* the task that holds the mutex while it runs, or Nobody
    pendingTasks,
    results,       \* the identifiers whose future is in results
    thread,        \* of each task: "none", "sleeping", "running" or "gone"
    promise,       \* what the future of a task holds: "empty", "value" or "broken"
    wants,         \* the task a getter waits for, or Nobody
    got,           \* the tasks whose future a getter received
    canceled,      \* history: the tasks for which cancelTask returned true
    isRunning,
    armed,         \* the timer has a pending wait
    ready,         \* how many handlers are queued
    stopped,       \* the io_context is stopped
    worker,        \* "none", "run", "task", "check", "arm" or "left"
    owner          \* where the call of start or stop is: "idle", "starting", "started",
                   \* "stopping", "cancel", "halt", "join", or "overlap" of two of them

-----------------------------------------------------------------------------
(* DelayedTaskActuator: scheduleTask starts a detached thread that sleeps, *)
(* takes the mutex of the shared state and runs the task while it holds    *)
(* it.  The state outlives the actuator.                                   *)

DelayedTaskActuator_vars == <<nextTaskId, alive, mutex, pendingTasks, results, thread, promise, wants, got, canceled>>

DelayedTaskActuator_Init ==
    /\ nextTaskId = 0
    /\ alive = TRUE
    /\ mutex = Nobody
    /\ pendingTasks = {} /\ results = {}
    /\ thread = [i \in Ids |-> "none"]
    /\ promise = [i \in Ids |-> "empty"]
    /\ wants = [g \in Getters |-> Nobody]
    /\ got = {} /\ canceled = {}

scheduleTask ==
    /\ alive /\ mutex = Nobody
    /\ nextTaskId \in Ids
    /\ nextTaskId' = nextTaskId + 1
    /\ pendingTasks' = pendingTasks \cup {nextTaskId}
    /\ results' = results \cup {nextTaskId}
    /\ thread' = [thread EXCEPT ![nextTaskId] = "sleeping"]
    /\ UNCHANGED <<alive, mutex, promise, wants, got, canceled>>

(* The sleep is over and the thread has the mutex.  If the actuator is      *)
(* gone it returns, which destroys the packaged task and breaks its promise. *)
WakeUp(i) ==
    /\ thread[i] = "sleeping" /\ mutex = Nobody
    /\ \/ /\ alive
          /\ mutex' = i
          /\ thread' = [thread EXCEPT ![i] = "running"]
          /\ UNCHANGED promise
       \/ /\ ~alive
          /\ thread' = [thread EXCEPT ![i] = "gone"]
          /\ promise' = [promise EXCEPT ![i] = "broken"]
          /\ UNCHANGED mutex
    /\ UNCHANGED <<nextTaskId, alive, pendingTasks, results, wants, got, canceled>>

(* The task returns or throws; either is stored in its future. *)
DelayedTaskActuator_TaskEnds(i) ==
    /\ thread[i] = "running"
    /\ promise' = [promise EXCEPT ![i] = "value"]
    /\ pendingTasks' = pendingTasks \ {i}
    /\ mutex' = Nobody
    /\ thread' = [thread EXCEPT ![i] = "gone"]
    /\ UNCHANGED <<nextTaskId, alive, results, wants, got, canceled>>

(* The predicate of the wait, and the waiting itself: who waits is looked   *)
(* at again only after cv is notified, which TaskEnds and the destructor do. *)
ReadyWhenHeld(i) == i \in results
Ready(i) == i \in results \/ i \notin pendingTasks

Answer(g, i) ==
    /\ wants' = [wants EXCEPT ![g] = Nobody]
    /\ IF alive /\ i \in results
       THEN got' = got \cup {i} /\ results' = results \ {i}
       ELSE UNCHANGED <<got, results>>

getTaskResult(g, i) ==
    /\ alive /\ mutex = Nobody
    /\ wants[g] = Nobody /\ i < nextTaskId
    /\ IF Ready(i)
       THEN Answer(g, i)
       ELSE /\ wants' = [wants EXCEPT ![g] = i]
            /\ UNCHANGED <<got, results>>
    /\ UNCHANGED <<nextTaskId, alive, mutex, pendingTasks, thread, promise, canceled>>

(* A getter that was notified finds the predicate true and goes on. *)
Resume(g) ==
    /\ wants[g] # Nobody /\ mutex = Nobody
    /\ thread[wants[g]] = "gone" \/ ~alive
    /\ Ready(wants[g])
    /\ Answer(g, wants[g])
    /\ UNCHANGED <<nextTaskId, alive, mutex, pendingTasks, thread, promise, canceled>>

(* cancelTask takes the task from both maps; its thread is not told. *)
cancelTask(i) ==
    /\ alive /\ mutex = Nobody
    /\ i \in pendingTasks /\ i \in results
    /\ results' = results \ {i}
    /\ pendingTasks' = pendingTasks \ {i}
    /\ canceled' = canceled \cup {i}
    /\ UNCHANGED <<nextTaskId, alive, mutex, thread, promise, wants, got>>

(* The destructor. *)
Destroy ==
    /\ alive /\ mutex = Nobody
    /\ alive' = FALSE
    /\ pendingTasks' = {} /\ results' = {}
    /\ UNCHANGED <<nextTaskId, mutex, thread, promise, wants, got, canceled>>

DelayedTaskActuator_Next ==
    \/ scheduleTask \/ Destroy
    \/ \E i \in Ids : WakeUp(i) \/ DelayedTaskActuator_TaskEnds(i) \/ cancelTask(i)
    \/ \E g \in Getters : Resume(g) \/ \E i \in Ids : getTaskResult(g, i)

(* Delays end, tasks end and notified threads go on. *)
DelayedTaskActuator_Fairness ==
    /\ \A i \in Ids : WF_DelayedTaskActuator_vars(WakeUp(i) \/ DelayedTaskActuator_TaskEnds(i))
    /\ \A g \in Getters : WF_DelayedTaskActuator_vars(Resume(g))

-----------------------------------------------------------------------------
(* A pending task has a thread that will run it and is in results unless a  *)
(* getter has its future; a future is taken by one getter only, and never   *)
(* after its task was canceled.                                             *)
PendingTasksHaveThreads ==
    /\ \A i \in pendingTasks : thread[i] \in {"sleeping", "running"}
    /\ alive => pendingTasks \ results \subseteq got
    /\ got \cap results = {}
    /\ mutex # Nobody => thread[mutex] = "running"

(* The inductive invariant: an identifier is handed out once, so that a     *)
(* future that was received is not in results again; the destructor leaves  *)
(* nothing pending to the threads that still sleep.                         *)
DelayedTaskActuator_IInv ==
    /\ nextTaskId \in Int
    /\ thread \in [Ids -> {"none", "sleeping", "running", "gone"}]
    /\ pendingTasks \cup results \cup got \subseteq Ids
    /\ mutex \in Ids \cup {Nobody}
    /\ wants \in [Getters -> Ids \cup {Nobody}]
    /\ \A i \in results \cup got : i < nextTaskId
    /\ ~ alive => pendingTasks = {} /\ results = {}
    /\ PendingTasksHaveThreads

(* What somebody waits for: every future that a getter received gets a      *)
(* value or a broken promise, and no getter waits for ever, cancelTask and  *)
(* the destructor included.                                                 *)
DelayedTaskActuator_Awaited ==
    {"future" : i \in {i \in got : promise[i] = "empty"}}
        \cup {"getter" : g \in {g \in Getters : wants[g] # Nobody}}

(* What the comment of cancelTask says: a task it canceled before it        *)
(* started is not run.                                                      *)
CanceledTasksDoNotRun == \A i \in canceled : promise[i] # "value"

-----------------------------------------------------------------------------
(* PeriodicActuator: a steady_timer of an io_context whose handler runs    *)
(* the task and arms the timer again, on a worker thread that start makes  *)
(* and stop joins.  The io_context is external: an armed wait becomes a    *)
(* queued handler when it expires, and handlers stay queued while the      *)
(* context is stopped.  The handler of a cancelled wait does nothing and   *)
(* is left out.                                                            *)

PeriodicActuator_vars == <<isRunning, armed, ready, stopped, worker, owner>>

PeriodicActuator_Init ==
    /\ isRunning = FALSE /\ armed = FALSE /\ ready = 0
    /\ stopped = FALSE /\ worker = "none" /\ owner = "idle"

(* expires_after cancels the pending wait, async_wait makes a new one. *)
Arm == armed' = TRUE

(* start and stop look at isRunning and change it later, without a mutex:   *)
(* a call that passes its test while another is under way overlaps with it  *)
(* (a data race on the thread and the timer), and the model says no more.   *)
Enter(place) == owner' = IF owner = "idle" THEN place ELSE "overlap"

start ==
    /\ ~isRunning /\ ready < MaxReady
    /\ Enter("starting")
    /\ UNCHANGED <<isRunning, armed, ready, stopped, worker>>

(* restart the context *)
StartRestarts ==
    /\ owner = "starting"
    /\ stopped' = FALSE
    /\ isRunning' = TRUE
    /\ owner' = "started"
    /\ UNCHANGED <<armed, ready, worker>>

(* arm the timer, make the thread *)
StartArms ==
    /\ owner = "started"
    /\ Arm
    /\ worker' = "run"
    /\ owner' = "idle"
    /\ UNCHANGED <<isRunning, ready, stopped>>

(* stop, in the order of its statements. *)
stop ==
    /\ isRunning
    /\ Enter("stopping")
    /\ UNCHANGED <<isRunning, armed, ready, stopped, worker>>

StopClears ==
    /\ owner = "stopping"
    /\ isRunning' = FALSE
    /\ owner' = "cancel"
    /\ UNCHANGED <<armed, ready, stopped, worker>>

StopCancels ==
    /\ owner = "cancel"
    /\ armed' = FALSE
    /\ owner' = "halt"
    /\ UNCHANGED <<isRunning, ready, stopped, worker>>

StopHalts ==
    /\ owner = "halt"
    /\ stopped' = TRUE
    /\ owner' = "join"
    /\ UNCHANGED <<isRunning, armed, ready, worker>>

StopJoins ==
    /\ owner = "join" /\ worker = "left"
    /\ owner' = "idle"
    /\ worker' = "none"
    /\ UNCHANGED <<isRunning, armed, ready, stopped>>

(* External: the interval is over.  The context sees to it, so nothing      *)
(* expires while nobody runs it.                                            *)
Expire ==
    /\ armed /\ worker # "none" /\ ~stopped
    /\ armed' = FALSE
    /\ ready' = ready + 1
    /\ UNCHANGED <<isRunning, stopped, worker, owner>>

(* run(): leave when stopped or when there is no work, else a handler. *)
RunHandler ==
    /\ worker = "run"
    /\ \/ /\ stopped \/ (ready = 0 /\ ~armed)
          /\ worker' = "left"
          /\ UNCHANGED ready
       \/ /\ ~stopped /\ ready > 0
          /\ ready' = ready - 1
          /\ worker' = (IF isRunning THEN "task" ELSE "run")
    /\ UNCHANGED <<isRunning, armed, stopped, owner>>

(* execute ends, with or without an exception. *)
PeriodicActuator_TaskEnds ==
    /\ worker = "task"
    /\ worker' = "check"
    /\ UNCHANGED <<isRunning, armed, ready, stopped, owner>>

(* isRunning is read before the timer is armed, and may change in between. *)
ScheduleNext ==
    /\ worker = "check"
    /\ worker' = (IF isRunning THEN "arm" ELSE "run")
    /\ UNCHANGED <<isRunning, armed, ready, stopped, owner>>

ArmAgain ==
    /\ worker = "arm"
    /\ Arm
    /\ worker' = "run"
    /\ UNCHANGED <<isRunning, ready, stopped, owner>>

WorkerStep == RunHandler \/ PeriodicActuator_TaskEnds \/ ScheduleNext \/ ArmAgain
StopGoesOn == StopClears \/ StopCancels \/ StopHalts \/ StopJoins
StartGoesOn == StartRestarts \/ StartArms

PeriodicActuator_Next ==
    /\ owner # "overlap"
    /\ start \/ stop \/ StartGoesOn \/ StopGoesOn \/ Expire \/ WorkerStep

(* Threads are scheduled, the task ends and timers expire. *)
PeriodicActuator_Fairness ==
    /\ WF_PeriodicActuator_vars(StartGoesOn \/ StopGoesOn)
    /\ WF_PeriodicActuator_vars(owner # "overlap" /\ Expire)
    /\ WF_PeriodicActuator_vars(owner # "overlap" /\ WorkerStep)

-----------------------------------------------------------------------------
(* What will run the task: an armed wait, expired handlers, and the worker  *)
(* from the task to the timer.                                              *)
Chains ==
    ready + (IF armed THEN 1 ELSE 0)
        + (IF worker \in {"task", "check", "arm"} THEN 1 ELSE 0)

(* As long as calls do not overlap, an actuator that was started never      *)
(* loses its last chain, and nothing runs once stop has returned.           *)
ChainSurvives ==
    /\ isRunning /\ owner \notin {"started", "overlap"} => Chains >= 1
    /\ ~isRunning /\ owner = "idle" => worker = "none"

(* The inductive invariant: stop has cleared isRunning before it takes the  *)
(* timer away, and start has set it before there is one.                    *)
PeriodicActuator_IInv ==
    /\ isRunning \in BOOLEAN /\ armed \in BOOLEAN /\ stopped \in BOOLEAN
    /\ ready \in Nat
    /\ worker \in {"none", "run", "task", "check", "arm", "left"}
    /\ owner \in {"idle", "starting", "started", "stopping", "cancel", "halt", "join",
                  "overlap"}
    /\ owner \in {"started", "stopping"} => isRunning
    /\ owner \in {"starting", "cancel", "halt", "join"} => ~ isRunning
    /\ owner \in {"starting", "started"} => worker = "none"
    /\ ChainSurvives

(* Only start adds a chain: a handler that expired before a stop and runs   *)
(* after the next start arms the timer in place of the new wait.            *)
ChainsDoNotMultiply == Chains' > Chains => owner = "started"

(* "All public methods are thread-safe" (PeriodicActuator.hpp): no two      *)
(* calls of start and stop are under way at the same time.                  *)
ActuatorIsThreadSafe == owner # "overlap"

(* What somebody waits for: stop ends, also when the handler arms the timer *)
(* between the cancel and the stop of the context; and a running actuator   *)
(* runs its task again.                                                     *)
PeriodicActuator_Awaited ==
    (IF owner \in {"stopping", "cancel", "halt", "join"} THEN {"stop"} ELSE {})
        \cup (IF isRunning /\ owner # "overlap" /\ worker # "task" THEN {"task"} ELSE {})
=============================================================================
