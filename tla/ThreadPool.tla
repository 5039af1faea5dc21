---------------------------- MODULE ThreadPool ----------------------------
(***************************************************************************)
(* cppforge::thread::ThreadPool: the workers created by the constructor,   *)
(* a bounded queue of tasks, one mutex, one condition variable and the     *)
(* flag stop_.                                                             *)
(*                                                                         *)
(* A critical section of queue_mutex_ is one step.  What the code does     *)
(* outside it is a step of its own: submit reads stop_ before it locks the *)
(* mutex and notifies after it unlocks it, shutdown notifies and joins     *)
(* after it unlocks it, and a worker runs its task unlocked.               *)
(*                                                                         *)
(* A worker in condition_.wait_for is "waiting" until a notification, a    *)
(* spurious wakeup or the idle time moves it to "loop", where it takes the *)
(* mutex and evaluates the predicate (again).  A task does not call back   *)
(* into its pool's shutdown: the worker would join itself.                 *)
(***************************************************************************)
EXTENDS Integers, Sequences, FiniteSets

CONSTANTS
    Workers,         \* the core threads
    Clients,         \* threads that call submit, shutdown and shutdownNow
    Tasks,           \* callables, each submitted at most once
    max_queue_size,
    None

ASSUME ThreadPoolAssumption ==
    /\ IsFiniteSet(Workers) /\ Workers # {}
    /\ IsFiniteSet(Clients)
    /\ max_queue_size \in Nat \ {0}
    /\ None \notin Tasks

VARIABLES
    stop,       \* stop_
    queue,      \* task_queue_
    active,     \* active_thread_count_
    worker,     \* per worker: "loop", "waiting", "running" or "exited"
    doing,      \* per worker: the task it runs
    client,     \* per client: where it is in submit or shutdown
    arg,        \* per client: the task it submits
    fate,       \* history, per task: what has become of it
    owed,       \* history: the tasks queued when shutdown set stop_
    joined      \* history: the shutdown that set stop_ has returned

vars == <<stop, queue, active, worker, doing, client, arg, fate, owed, joined>>

core_thread_count == Cardinality(Workers)

TypeOK ==
    /\ stop \in BOOLEAN
    /\ queue \in Seq(Tasks) /\ Len(queue) <= max_queue_size
    /\ active \in Nat
    /\ worker \in [Workers -> {"loop", "waiting", "running", "exited"}]
    /\ doing \in [Workers -> Tasks \cup {None}]
    /\ client \in [Clients -> {"idle", "push", "notify_one",
                               "notify_all", "join"}]
    /\ arg \in [Clients -> Tasks \cup {None}]
    /\ fate \in [Tasks -> {"new", "submitted", "rejected", "queued",
                           "running", "done", "abandoned"}]
    /\ owed \subseteq Tasks
    /\ joined \in BOOLEAN

Queued == {queue[i] : i \in 1..Len(queue)}

-----------------------------------------------------------------------------
(* submit *)

(* stop_ is read without the mutex. *)
SubmitRejected(c, t) ==
    /\ client[c] = "idle"
    /\ fate[t] = "new"
    /\ stop
    /\ fate' = [fate EXCEPT ![t] = "rejected"]
    /\ UNCHANGED <<stop, queue, active, worker, doing, client, arg, owed, joined>>

SubmitBegin(c, t) ==
    /\ client[c] = "idle"
    /\ fate[t] = "new"
    /\ ~ stop
    /\ fate' = [fate EXCEPT ![t] = "submitted"]
    /\ client' = [client EXCEPT ![c] = "push"]
    /\ arg' = [arg EXCEPT ![c] = t]
    /\ UNCHANGED <<stop, queue, active, worker, doing, owed, joined>>

QueueFullNever == FALSE
QueueFull == Len(queue) >= max_queue_size

SubmitFull(c) ==
    /\ client[c] = "push"
    /\ QueueFull
    /\ fate' = [fate EXCEPT ![arg[c]] = "rejected"]
    /\ client' = [client EXCEPT ![c] = "idle"]
    /\ UNCHANGED <<stop, queue, active, worker, doing, arg, owed, joined>>

SubmitPushSilent(c) ==
    /\ client[c] = "push"
    /\ ~ QueueFull
    /\ queue' = Append(queue, arg[c])
    /\ fate' = [fate EXCEPT ![arg[c]] = "queued"]
    /\ client' = [client EXCEPT ![c] = "idle"]
    /\ UNCHANGED <<stop, active, worker, doing, arg, owed, joined>>

(* stop_ is not read again under the mutex. *)
SubmitPush(c) ==
    /\ client[c] = "push"
    /\ ~ QueueFull
    /\ queue' = Append(queue, arg[c])
    /\ fate' = [fate EXCEPT ![arg[c]] = "queued"]
    /\ client' = [client EXCEPT ![c] = "notify_one"]
    /\ UNCHANGED <<stop, active, worker, doing, arg, owed, joined>>

SubmitNotify(c) ==
    /\ client[c] = "notify_one"
    /\ client' = [client EXCEPT ![c] = "idle"]
    /\ \/ \E w \in Workers :
            /\ worker[w] = "waiting"
            /\ worker' = [worker EXCEPT ![w] = "loop"]
       \/ /\ \A w \in Workers : worker[w] # "waiting"
          /\ UNCHANGED worker
    /\ UNCHANGED <<stop, queue, active, doing, arg, fate, owed, joined>>

-----------------------------------------------------------------------------
(* shutdown, shutdownNow and the destructor, which calls shutdown: one    *)
(* that finds stop_ set returns at once and changes nothing.               *)

shutdown(c) ==
    /\ client[c] = "idle"
    /\ ~ stop
    /\ stop' = TRUE
    /\ owed' = Queued
    /\ client' = [client EXCEPT ![c] = "notify_all"]
    /\ UNCHANGED <<queue, active, worker, doing, arg, fate, joined>>

shutdownNow(c) ==
    /\ client[c] = "idle"
    /\ ~ stop
    /\ stop' = TRUE
    /\ queue' = <<>>
    /\ fate' = [t \in Tasks |-> IF t \in Queued THEN "abandoned" ELSE fate[t]]
    /\ client' = [client EXCEPT ![c] = "notify_all"]
    /\ UNCHANGED <<active, worker, doing, arg, owed, joined>>

NotifyAll(c) ==
    /\ client[c] = "notify_all"
    /\ worker' = [w \in Workers |-> IF worker[w] = "waiting" THEN "loop"
                                                             ELSE worker[w]]
    /\ client' = [client EXCEPT ![c] = "join"]
    /\ UNCHANGED <<stop, queue, active, doing, arg, fate, owed, joined>>

AllJoined == \A w \in Workers : worker[w] = "exited"

Join(c) ==
    /\ client[c] = "join"
    /\ AllJoined
    /\ client' = [client EXCEPT ![c] = "idle"]
    /\ joined' = TRUE
    /\ UNCHANGED <<stop, queue, active, worker, doing, arg, fate, owed>>

-----------------------------------------------------------------------------
(* worker *)

(* The predicate of wait_for is false. *)
Wait(w) ==
    /\ worker[w] = "loop"
    /\ ~ stop
    /\ queue = <<>>
    /\ worker' = [worker EXCEPT ![w] = "waiting"]
    /\ UNCHANGED <<stop, queue, active, doing, client, arg, fate, owed, joined>>

(* The idle time has passed.  If the predicate is still false, a worker in *)
(* excess of the core threads leaves; any other goes round the loop again. *)
Surplus == ~ stop /\ queue = <<>> /\ active > core_thread_count

TimeOutExits(w) ==
    /\ worker[w] = "waiting"
    /\ worker' = [worker EXCEPT ![w] = "exited"]
    /\ UNCHANGED <<stop, queue, active, doing, client, arg, fate, owed, joined>>
TimeOut(w) ==
    /\ worker[w] = "waiting"
    /\ worker' = [worker EXCEPT ![w] = IF Surplus THEN "exited" ELSE "loop"]
    /\ active' = IF Surplus THEN active - 1 ELSE active
    /\ UNCHANGED <<stop, queue, doing, client, arg, fate, owed, joined>>

MayExitWhenStopped == stop
MayExitSurplus == stop /\ queue = <<>> /\ active > core_thread_count
MayExit == stop /\ queue = <<>>

Exit(w) ==
    /\ worker[w] = "loop"
    /\ MayExit
    /\ worker' = [worker EXCEPT ![w] = "exited"]
    /\ UNCHANGED <<stop, queue, active, doing, client, arg, fate, owed, joined>>

TakePeek(w) ==
    /\ worker[w] = "loop"
    /\ queue # <<>>
    /\ doing' = [doing EXCEPT ![w] = Head(queue)]
    /\ fate' = [fate EXCEPT ![Head(queue)] = "running"]
    /\ worker' = [worker EXCEPT ![w] = "running"]
    /\ UNCHANGED <<stop, queue, active, client, arg, owed, joined>>
Take(w) ==
    /\ worker[w] = "loop"
    /\ queue # <<>>
    /\ doing' = [doing EXCEPT ![w] = Head(queue)]
    /\ fate' = [fate EXCEPT ![Head(queue)] = "running"]
    /\ queue' = Tail(queue)
    /\ worker' = [worker EXCEPT ![w] = "running"]
    /\ UNCHANGED <<stop, active, client, arg, owed, joined>>

(* The task returned, or threw: packaged_task keeps the exception and the *)
(* worker swallows any other.                                             *)
Finish(w) ==
    /\ worker[w] = "running"
    /\ fate' = [fate EXCEPT ![doing[w]] = "done"]
    /\ worker' = [worker EXCEPT ![w] = "loop"]
    /\ UNCHANGED <<stop, queue, active, doing, client, arg, owed, joined>>

-----------------------------------------------------------------------------
Init ==
    /\ stop = FALSE
    /\ queue = <<>>
    /\ active = core_thread_count
    /\ worker = [w \in Workers |-> "loop"]
    /\ doing = [w \in Workers |-> None]
    /\ client = [c \in Clients |-> "idle"]
    /\ arg = [c \in Clients |-> None]
    /\ fate = [t \in Tasks |-> "new"]
    /\ owed = {}
    /\ joined = FALSE

SubmitStep(c) == SubmitFull(c) \/ SubmitPush(c) \/ SubmitNotify(c)

ShutdownStep(c) == NotifyAll(c) \/ Join(c)

WorkerStep(w) == Wait(w) \/ TimeOut(w) \/ Exit(w) \/ Take(w) \/ Finish(w)

Next ==
    \/ \E c \in Clients, t \in Tasks : SubmitRejected(c, t) \/ SubmitBegin(c, t)
    \/ \E c \in Clients : SubmitStep(c)
    \/ \E c \in Clients : shutdown(c) \/ shutdownNow(c)
    \/ \E c \in Clients : ShutdownStep(c)
    \/ \E w \in Workers : WorkerStep(w)

Spec == Init /\ [][Next]_vars

(* Threads inside a call run on, every task ends, and the idle time passes: *)
(* wait_for is given a finite duration.                                     *)
FairSpec ==
    /\ Spec
    /\ \A c \in Clients : WF_vars(SubmitStep(c)) /\ WF_vars(ShutdownStep(c))
    /\ \A w \in Workers : WF_vars(WorkerStep(w))

-----------------------------------------------------------------------------
(* Properties *)

Awake == {w \in Workers : worker[w] = "loop"}
Notifiers == {c \in Clients : client[c] = "notify_one"}

(* No wakeup is lost although submit notifies after unlocking and one      *)
(* notification may go to a worker that finds the queue empty: as long as  *)
(* some worker sleeps, every queued task has an awake worker or a pending  *)
(* notify_one of its own, so no task waits for an idle time to pass.       *)
WorkConserving ==
    (\E w \in Workers : worker[w] = "waiting") =>
        Len(queue) <= Cardinality(Awake) + Cardinality(Notifiers)

(* When the shutdown that set stop_ returns, all tasks that were queued    *)
(* when it was called have been executed to the end, and no worker is left.*)
ShutdownCompletesPending ==
    joined => /\ \A t \in owed : fate[t] = "done"
              /\ \A w \in Workers : worker[w] = "exited"

QueueHasNoDuplicate ==
    \A i, j \in 1..Len(queue) : queue[i] = queue[j] => i = j

QueuedIsInQueue ==
    \A t \in Tasks : fate[t] = "queued" <=> t \in Queued

RunningHasOneWorker ==
    /\ \A t \in Tasks : fate[t] = "running" =>
            \E w \in Workers : worker[w] = "running" /\ doing[w] = t
    /\ \A w \in Workers : worker[w] = "running" =>
            doing[w] \in Tasks /\ fate[doing[w]] = "running"
    /\ \A v, w \in Workers :
            worker[v] = "running" /\ worker[w] = "running"
                /\ doing[v] = doing[w] => v = w

SubmittedHasOneClient ==
    /\ \A c \in Clients : client[c] = "push" =>
            arg[c] \in Tasks /\ fate[arg[c]] = "submitted"
    /\ \A c, d \in Clients :
            client[c] = "push" /\ client[d] = "push"
                /\ arg[c] = arg[d] => c = d

(* The queue, the workers and the clients never hold a task twice, and     *)
(* each agrees with the task's fate: no task runs twice, none is dropped   *)
(* between the queue and a worker, none runs once it was rejected or       *)
(* abandoned.                                                              *)
TaskIsInOnePlace ==
    /\ QueueHasNoDuplicate
    /\ QueuedIsInQueue
    /\ RunningHasOneWorker
    /\ SubmittedHasOneClient

(* A shutdown that has begun returns, whatever the workers were doing and  *)
(* whichever of them slept through notify_all.                             *)
ShutdownReturns ==
    \A c \in Clients : client[c] \in {"notify_all", "join"} ~> joined

(* Every task accepted while the pool runs, or queued when shutdown is     *)
(* called, is executed or was discarded by shutdownNow.                    *)
AcceptedTaskEnds ==
    \A t \in Tasks :
        (fate[t] = "queued" /\ (~ stop \/ t \in owed))
            ~> fate[t] \in {"done", "abandoned"}

(* "shutdown joins all threads after completing pending work": no task is  *)
(* left in the queue, its future never ready, once the workers are gone.   *)
NoTaskStranded == joined => queue = <<>>
=============================================================================
