----------------------------- MODULE MCServices -----------------------------
(* The services with small sets of threads, tasks and keys. *)
EXTENDS Services

(* A task scheduled once and a periodic one that are due at the same time,  *)
(* and one by the fields of a cron expression that is due at the end.       *)
TaskKind == <<"once", "interval", "cron">>
TaskPeriod == <<1, 1, 2>>

(* Two keys share a bucket until the table doubles. *)
Hashes == <<0, 4, 1>>

(* Up to three replicas of each node, interleaved on the ring; a key        *)
(* before, between and behind all of them.                                  *)
ReplicaHashes == [n \in 1 .. 3 |-> [i \in 0 .. 2 |-> 1 + ((5 * n + 7 * i) % 16)]]
RingKeyHashes == <<0, 5, 11, 20>>

Service(type, lifetime, needs) == [type |-> type, lifetime |-> lifetime, needs |-> needs]

(* A singleton that needs a transient, a transient that needs both, a       *)
(* second registration of the singleton's type, and a scoped service.       *)
SomeDescriptors ==
    {Service(1, "Singleton", {3}), Service(2, "Transient", {1, 3}),
     Service(3, "Transient", {4}), Service(1, "Transient", {}),
     Service(4, "Scoped", {})}

(* Neighbouring nodes; their sequence has one bit. *)
TwoNodes == {<<0, 31>>, <<1, 0>>}

(* The fairness of the services: threads are scheduled, tasks and callbacks *)
(* return, time passes.  A behaviour has one service, so that a thread of   *)
(* one and a thread of another may share a condition.                       *)
ThreadOne ==
    \/ service = "scheduler" /\ TS!Alive /\ TS!WorkerStep(1) /\ UNCHANGED service
    \/ service = "delayed" /\ (AK!WakeUp(0) \/ AK!DelayedTaskActuator_TaskEnds(0))
                           /\ UNCHANGED <<service, From11>>
    \/ service = "periodic" /\ s6 # "overlap" /\ AK!WorkerStep /\ UNCHANGED <<service, From7>>
    \/ service = "connectivity" /\ ~s8 /\ CM!Monitor /\ UNCHANGED <<service, From10>>
    \/ service = "watcher" /\ s7 # "overlap" /\ OB!watchLoop /\ UNCHANGED <<service, From9>>

ThreadTwo ==
    \/ service = "scheduler" /\ TS!Alive /\ TS!WorkerStep(2) /\ UNCHANGED service
    \/ service = "delayed" /\ (AK!WakeUp(1) \/ AK!DelayedTaskActuator_TaskEnds(1))
                           /\ UNCHANGED <<service, From11>>

FirstCaller ==
    \/ service = "scheduler" /\ TS!OwnerGoesOn /\ UNCHANGED service
    \/ service = "delayed" /\ AK!Resume(1) /\ UNCHANGED <<service, From11>>
    \/ service = "periodic" /\ (AK!StartGoesOn \/ AK!StopGoesOn) /\ UNCHANGED <<service, From7>>
    \/ service = "connectivity" /\ ~s8 /\ CM!OwnerGoesOn(1) /\ UNCHANGED <<service, From10>>
    \/ service = "watcher" /\ (OB!StartThread \/ OB!Joined) /\ UNCHANGED <<service, From9>>

SecondCaller ==
    \/ service = "delayed" /\ AK!Resume(2) /\ UNCHANGED <<service, From11>>
    \/ service = "connectivity" /\ ~s8 /\ CM!OwnerGoesOn(2) /\ UNCHANGED <<service, From10>>

Clock ==
    \/ service = "scheduler" /\ TS!Alive /\ TS!Tick /\ UNCHANGED service
    \/ service = "periodic" /\ s6 # "overlap" /\ AK!Expire /\ UNCHANGED <<service, From7>>

FairSpec ==
    /\ Spec
    /\ WF_vars(ThreadOne) /\ WF_vars(ThreadTwo)
    /\ WF_vars(FirstCaller) /\ WF_vars(SecondCaller) /\ WF_vars(Clock)

(* What is waited for in the service that runs. *)
Awaited ==
    CASE service = "scheduler" -> TS!Awaited
      [] service = "delayed" -> AK!DelayedTaskActuator_Awaited
      [] service = "periodic" -> AK!PeriodicActuator_Awaited
      [] service = "connectivity" -> CM!Awaited
      [] service = "watcher" -> OB!Awaited
      [] OTHER -> {}

(* Nobody waits for ever: stop returns although it may notify before a      *)
(* worker waits; every future is resolved, canceled or not; a running       *)
(* actuator repeats its task; a change that lasts is reported.              *)
CallsReturn ==
    \A w \in {"stop", "task", "future", "getter", "IDLE", "READY", "a", ""} :
        w \in Awaited ~> w \notin Awaited
=============================================================================
