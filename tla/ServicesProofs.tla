--------------------------- MODULE ServicesProofs ---------------------------
(***************************************************************************)
(* Proofs about the services of Services: for each service an inductive    *)
(* invariant, kept by every action of the service.                         *)
(***************************************************************************)
EXTENDS Services, FiniteSetTheorems, TLAPS

-----------------------------------------------------------------------------
(* PeriodicActuator *)

LEMMA PeriodicInit == AK!PeriodicActuator_Init => AK!PeriodicActuator_IInv
<1> SUFFICES ASSUME AK!PeriodicActuator_Init PROVE AK!PeriodicActuator_IInv
  OBVIOUS
<1>1. s1 \in BOOLEAN /\ s2 \in BOOLEAN /\ s4 \in BOOLEAN
  BY Zenon DEF AK!PeriodicActuator_Init
<1>2. ~ s1 /\ s3 = 0 /\ s5 = "none" /\ s6 = "idle"
  BY DEF AK!PeriodicActuator_Init
<1> QED BY <1>1, <1>2 DEF AK!PeriodicActuator_IInv, AK!ChainSurvives

LEMMA PeriodicNext ==
    AK!PeriodicActuator_IInv /\ AK!PeriodicActuator_Next => AK!PeriodicActuator_IInv'
<1> SUFFICES ASSUME AK!PeriodicActuator_IInv, AK!PeriodicActuator_Next
             PROVE  AK!PeriodicActuator_IInv'
  OBVIOUS
<1> USE DEF AK!PeriodicActuator_IInv, AK!ChainSurvives, AK!Chains
<1>1. CASE AK!start \/ AK!stop
  <2>1. s1' = s1 /\ s2' = s2 /\ s4' = s4 /\ s3' = s3 /\ s5' = s5
    BY <1>1 DEF AK!start, AK!stop
  <2>2. CASE s6 = "idle"
    BY <1>1, <2>1, <2>2 DEF AK!start, AK!stop, AK!Enter
  <2>3. CASE s6 # "idle"
    BY <1>1, <2>1, <2>3 DEF AK!start, AK!stop, AK!Enter
  <2> QED BY <2>2, <2>3
<1>2. CASE AK!StartGoesOn
  <2>1. CASE AK!StartRestarts
    <3>1. s1' \in BOOLEAN /\ s2' \in BOOLEAN /\ s4' \in BOOLEAN /\ s1'
      BY <2>1, Zenon DEF AK!StartRestarts
    <3>2. s3' = s3 /\ s5' = s5 /\ s6 = "starting" /\ s6' = "started"
      BY <2>1 DEF AK!StartRestarts
    <3> QED BY <3>1, <3>2
  <2>2. CASE AK!StartArms
    <3>1. s1' \in BOOLEAN /\ s2' \in BOOLEAN /\ s4' \in BOOLEAN /\ s2'
      BY <2>2, Zenon DEF AK!StartArms, AK!Arm
    <3>2. s1' = s1 /\ s3' = s3 /\ s5' = "run" /\ s6 = "started" /\ s6' = "idle"
      BY <2>2 DEF AK!StartArms
    <3> QED BY <3>1, <3>2
  <2> QED BY <1>2, <2>1, <2>2 DEF AK!StartGoesOn
<1>11. CASE AK!StopClears
  BY <1>11 DEF AK!StopClears
<1>3. CASE AK!StopCancels
  BY <1>3 DEF AK!StopCancels
<1>4. CASE AK!StopHalts
  BY <1>4 DEF AK!StopHalts
<1>5. CASE AK!StopJoins
  BY <1>5 DEF AK!StopJoins
<1>6. CASE AK!Expire
  <2>1. s1' \in BOOLEAN /\ s2' \in BOOLEAN /\ s4' \in BOOLEAN
    BY <1>6, Zenon DEF AK!Expire
  <2>2. s3' = s3 + 1 /\ s1' = s1 /\ s5' = s5 /\ s6' = s6
    BY <1>6 DEF AK!Expire
  <2> QED BY <2>1, <2>2
<1>7. CASE AK!RunHandler
  BY <1>7 DEF AK!RunHandler
<1>8. CASE AK!PeriodicActuator_TaskEnds
  BY <1>8 DEF AK!PeriodicActuator_TaskEnds
<1>9. CASE AK!ScheduleNext
  BY <1>9 DEF AK!ScheduleNext
<1>10. CASE AK!ArmAgain
  BY <1>10 DEF AK!ArmAgain, AK!Arm
<1> QED
  BY <1>1, <1>2, <1>3, <1>4, <1>5, <1>6, <1>7, <1>8, <1>9, <1>10, <1>11
  DEF AK!PeriodicActuator_Next, AK!StopGoesOn, AK!WorkerStep

(* Only start adds a chain of timer and task, where it arms the timer. *)
LEMMA PeriodicChains ==
    AK!PeriodicActuator_IInv /\ AK!PeriodicActuator_Next => AK!ChainsDoNotMultiply
<1> SUFFICES ASSUME AK!PeriodicActuator_IInv, AK!PeriodicActuator_Next
             PROVE  AK!ChainsDoNotMultiply
  OBVIOUS
<1> USE DEF AK!PeriodicActuator_IInv, AK!ChainsDoNotMultiply, AK!Chains
<1>1. CASE AK!start \/ AK!stop \/ AK!StartGoesOn
  BY <1>1 DEF AK!start, AK!stop, AK!StartGoesOn, AK!StartRestarts, AK!StartArms, AK!Arm
<1>2. CASE AK!StopGoesOn
  BY <1>2 DEF AK!StopGoesOn, AK!StopClears, AK!StopCancels, AK!StopHalts, AK!StopJoins
<1>3. CASE AK!Expire
  BY <1>3 DEF AK!Expire
<1>4. CASE AK!RunHandler
  BY <1>4 DEF AK!RunHandler
<1>5. CASE AK!PeriodicActuator_TaskEnds \/ AK!ScheduleNext \/ AK!ArmAgain
  BY <1>5 DEF AK!PeriodicActuator_TaskEnds, AK!ScheduleNext, AK!ArmAgain, AK!Arm
<1> QED
  BY <1>1, <1>2, <1>3, <1>4, <1>5 DEF AK!PeriodicActuator_Next, AK!WorkerStep

-----------------------------------------------------------------------------
(* DelayedTaskActuator *)

LEMMA DelayedInit == AK!DelayedTaskActuator_Init => AK!DelayedTaskActuator_IInv
  BY ActuatorAssumption
  DEF AK!DelayedTaskActuator_Init, AK!DelayedTaskActuator_IInv, AK!PendingTasksHaveThreads

LEMMA DelayedNext ==
    AK!DelayedTaskActuator_IInv /\ AK!DelayedTaskActuator_Next => AK!DelayedTaskActuator_IInv'
<1> SUFFICES ASSUME AK!DelayedTaskActuator_IInv, AK!DelayedTaskActuator_Next
             PROVE  AK!DelayedTaskActuator_IInv'
  OBVIOUS
<1> USE ActuatorAssumption DEF AK!DelayedTaskActuator_IInv, AK!PendingTasksHaveThreads
<1>1. CASE AK!scheduleTask
  <2>1. s1 \notin s5 \cup s9 /\ s1 \in Nat
    BY <1>1 DEF AK!scheduleTask
  <2>2. s1' = s1 + 1 /\ s4' = s4 \cup {s1} /\ s5' = s5 \cup {s1} /\ s1 \in Ids
        /\ s6' = [s6 EXCEPT ![s1] = "sleeping"] /\ s3' = s3 /\ s3 = Nobody
        /\ s8' = s8 /\ s9' = s9 /\ s2' = s2
    BY <1>1 DEF AK!scheduleTask
  <2>3. ASSUME NEW i \in s5' \cup s9' PROVE i < s1'
    <3>1. i = s1 \/ (i \in Ids /\ i < s1)
      BY <2>2
    <3>2. i \in Nat /\ s1 \in Nat
      BY <2>1, <3>1
    <3> QED BY <2>2, <3>1, <3>2
  <2>4. s2'
    BY <1>1, Zenon DEF AK!scheduleTask
  <2> QED BY <2>1, <2>2, <2>3, <2>4
<1>2. CASE AK!Destroy
  BY <1>2 DEF AK!Destroy
<1>3. ASSUME NEW i \in Ids, AK!WakeUp(i) PROVE AK!DelayedTaskActuator_IInv'
  <2>1. CASE s2
    BY <1>3, <2>1 DEF AK!WakeUp
  <2>2. CASE ~ s2
    BY <1>3, <2>2 DEF AK!WakeUp
  <2> QED BY <2>1, <2>2
<1>4. ASSUME NEW i \in Ids, AK!DelayedTaskActuator_TaskEnds(i)
      PROVE  AK!DelayedTaskActuator_IInv'
  BY <1>4 DEF AK!DelayedTaskActuator_TaskEnds
<1>5. ASSUME NEW i \in Ids, AK!cancelTask(i) PROVE AK!DelayedTaskActuator_IInv'
  BY <1>5 DEF AK!cancelTask
<1>6. ASSUME NEW g \in Getters, AK!Resume(g) PROVE AK!DelayedTaskActuator_IInv'
  BY <1>6 DEF AK!Resume, AK!Answer
<1>7. ASSUME NEW g \in Getters, NEW i \in Ids, AK!getTaskResult(g, i)
      PROVE  AK!DelayedTaskActuator_IInv'
  BY <1>7 DEF AK!getTaskResult, AK!Answer
<1> QED
  BY <1>1, <1>2, <1>3, <1>4, <1>5, <1>6, <1>7 DEF AK!DelayedTaskActuator_Next

-----------------------------------------------------------------------------
(* GrpcConnectivityManager, called by any number of threads *)

LEMMA ConnectivityInit == CM!Init => CM!IInv
<1> SUFFICES ASSUME CM!Init PROVE CM!IInv
  OBVIOUS
<1>1. s9 \in BOOLEAN /\ s2 \in BOOLEAN /\ s4 \in BOOLEAN /\ ~ s2 /\ ~ s4 /\ ~ s8
  BY Zenon DEF CM!Init
<1> QED BY <1>1 DEF CM!Init, CM!IInv

LEMMA ConnectivityNext == CM!IInv /\ CM!Next => CM!IInv'
<1> SUFFICES ASSUME CM!IInv, CM!Next PROVE CM!IInv'
  OBVIOUS
<1> USE DEF CM!IInv
<1>1. CASE CM!Monitor
  BY <1>1 DEF CM!Monitor, CM!LoopTest, CM!Poll, CM!Callback
<1>2. CASE CM!ChannelChanges
  BY <1>2 DEF CM!ChannelChanges
<1>3. ASSUME NEW o \in Monitors, CM!startMonitoring(o) PROVE CM!IInv'
  BY <1>3 DEF CM!startMonitoring, CM!Goto, CM!Enter
<1>4. ASSUME NEW o \in Monitors, CM!stopMonitoring(o) PROVE CM!IInv'
  BY <1>4 DEF CM!stopMonitoring, CM!Goto, CM!Enter
<1>5. ASSUME NEW o \in Monitors, CM!AssignThread(o) PROVE CM!IInv'
  BY <1>5 DEF CM!AssignThread, CM!Goto
<1>6. ASSUME NEW o \in Monitors, CM!TestJoinable(o) PROVE CM!IInv'
  BY <1>6 DEF CM!TestJoinable, CM!Goto
<1>7. ASSUME NEW o \in Monitors, CM!Join(o) PROVE CM!IInv'
  BY <1>7 DEF CM!Join, CM!Goto
<1> QED
  BY <1>1, <1>2, <1>3, <1>4, <1>5, <1>6, <1>7 DEF CM!Next, CM!OwnerGoesOn

LEMMA MonitorJoined == CM!IInv => CM!MonitorIsJoined
  BY DEF CM!IInv, CM!MonitorIsJoined, CM!ThreadIsJoined

-----------------------------------------------------------------------------
(* ConfigWatcher *)

LEMMA WatcherInit == OB!ConfigWatcher_Init => OB!ConfigWatcher_IInv
<1> SUFFICES ASSUME OB!ConfigWatcher_Init PROVE OB!ConfigWatcher_IInv
  OBVIOUS
<1>1. s2 \in BOOLEAN /\ ~ s2 /\ s7 = "idle" /\ s5 = "none"
  BY Zenon DEF OB!ConfigWatcher_Init
<1>2. s6 \in [content : Contents \cup {Missing}, callback : Callbacks \cup {NoCallback}]
      /\ s1 \in Contents \cup {Missing} /\ s4 \in Callbacks \cup {NoCallback}
  BY DEF OB!ConfigWatcher_Init, OB!NoCopy
<1> QED BY <1>1, <1>2 DEF OB!ConfigWatcher_IInv, OB!CallbacksAreCurrent

LEMMA WatcherNext ==
    OB!ConfigWatcher_IInv /\ OB!ConfigWatcher_Next => OB!ConfigWatcher_IInv'
<1> SUFFICES ASSUME OB!ConfigWatcher_IInv, OB!ConfigWatcher_Next
             PROVE  OB!ConfigWatcher_IInv'
  OBVIOUS
<1> USE DEF OB!ConfigWatcher_IInv, OB!CallbacksAreCurrent
<1>1. CASE OB!start \/ OB!StartThread
  <2>1. CASE OB!start
    <3>1. s2' \in BOOLEAN /\ s2' /\ ~ s2
      BY <2>1, Zenon DEF OB!start
    <3>2. s1' = s1 /\ s3' = s3 /\ s4' = s4 /\ s5' = s5 /\ s6' = s6 /\ s8' = s8
      BY <2>1 DEF OB!start
    <3>3. s7' = IF s7 = "idle" THEN "starting" ELSE "overlap"
      BY <2>1 DEF OB!start, OB!Enter
    <3> QED BY <3>1, <3>2, <3>3
  <2>2. CASE OB!StartThread
    BY <2>2 DEF OB!StartThread
  <2> QED BY <1>1, <2>1, <2>2
<1>2. CASE OB!stop
  BY <1>2 DEF OB!stop, OB!Enter
<1>3. CASE OB!Joined
  BY <1>3 DEF OB!Joined
<1>4. CASE OB!Test
  BY <1>4 DEF OB!Test
<1>5. CASE OB!Read
  BY <1>5 DEF OB!Read
<1>6. CASE OB!CopyCallback
  BY <1>6 DEF OB!CopyCallback
<1>7. CASE OB!CallCallback
  BY <1>7 DEF OB!CallCallback, OB!NoCopy
<1>8. CASE OB!FileChanges
  BY <1>8 DEF OB!FileChanges
<1>9. ASSUME NEW c \in Callbacks, OB!onChange(c) PROVE OB!ConfigWatcher_IInv'
  BY <1>9 DEF OB!onChange
<1> QED
  BY <1>1, <1>2, <1>3, <1>4, <1>5, <1>6, <1>7, <1>8, <1>9
  DEF OB!ConfigWatcher_Next, OB!watchLoop

-----------------------------------------------------------------------------
(* TaskScheduler *)

LEMMA SchedulerInit == TS!Init => TS!IInv
<1> SUFFICES ASSUME TS!Init PROVE TS!IInv
  OBVIOUS
<1>1. s1 \in BOOLEAN /\ s10 \in BOOLEAN /\ ~ s1
  BY Zenon DEF TS!Init
<1>2. TS!Typed
  BY <1>1 DEF TS!Init, TS!Typed
<1> QED
  BY <1>1, <1>2 DEF TS!Init, TS!IInv, TS!HeldTasks, TS!WorkersAreJoined, TS!NoneForgotten,
     TS!SomebodyLooks

LEMMA NextTimeIsTime ==
    ASSUME TS!Typed, NEW t \in Tasks
    PROVE  TS!NextTime(t) \in Nat
<1>1. s3 \in Nat /\ period[t] \in Nat
  BY SchedulerAssumption DEF TS!Typed
<1>2. CASE kind[t] = "cron"
  <2>1. period[t] > 0
    BY <1>2, SchedulerAssumption
  <2>2. s3 \div period[t] \in Nat
    BY <1>1, <2>1
  <2> DEFINE d == s3 \div period[t] + 1
  <2>3. d \in Nat
    BY <2>2
  <2> HIDE DEF d
  <2>4. d * period[t] \in Nat
    BY <1>1, <2>3
  <2> QED BY <1>2, <2>4 DEF TS!NextTime, d
<1> QED BY <1>1, <1>2 DEF TS!NextTime

(* What notify_one and notify_all leave of the workers: who is not woken     *)
(* stays where it was, and somebody is awake when one was to be woken.       *)
LEMMA NotifiedWorkers ==
    ASSUME TS!Typed, NEW ws \in TS!Notified
    PROVE  /\ ws \subseteq TS!Waiting
           /\ TS!Waiting # {} => ws # {}
  BY DEF TS!Notified, TS!Waiting

LEMMA WokenWorkers ==
    ASSUME TS!Typed, NEW ws, ws \subseteq Workers, TS!Wake(ws)
    PROVE  /\ s7' \in [Workers -> {"none", "loop", "locked", "wait", "task", "push"}]
           /\ s9' \in [Workers -> Nat]
           /\ \A w \in Workers : s7'[w] = IF w \in ws THEN "loop" ELSE s7[w]
           /\ \A w \in Workers : w \notin ws => s9'[w] = s9[w]
  BY DEF TS!Typed, TS!Wake

LEMMA ScheduleKeeps ==
    ASSUME TS!IInv, NEW t \in Tasks, TS!schedule(t)
    PROVE  TS!IInv'
<1> USE DEF TS!IInv
<1>1. PICK ws \in TS!Notified : TS!Wake(ws)
  BY DEF TS!schedule
<1>2. ws \subseteq TS!Waiting /\ (TS!Waiting # {} => ws # {}) /\ ws \subseteq Workers
  BY NotifiedWorkers DEF TS!Waiting
<1>3. /\ s7' \in [Workers -> {"none", "loop", "locked", "wait", "task", "push"}]
      /\ s9' \in [Workers -> Nat]
      /\ \A w \in Workers : s7'[w] = IF w \in ws THEN "loop" ELSE s7[w]
  BY <1>1, <1>2, WokenWorkers
<1>4. TS!NextTime(t) \in Nat
  BY NextTimeIsTime
<1>5. /\ t \notin s11 /\ s11' = s11 \cup {t} /\ s4' = s4 \cup {t}
      /\ s5' = [s5 EXCEPT ![t] = TS!NextTime(t)]
      /\ s1' = s1 /\ s2' = s2 /\ s3' = s3 /\ s6' = s6 /\ s8' = s8 /\ s10' = s10 /\ s12' = s12
  BY DEF TS!schedule
<1>6. TS!Typed'
  BY <1>3, <1>4, <1>5 DEF TS!Typed
<1>7. \A w \in Workers : w \in ws => s7[w] = "wait"
  BY <1>2 DEF TS!Waiting
<1>8. TS!HeldTasks'
  BY <1>3, <1>5, <1>7 DEF TS!HeldTasks, TS!Typed
<1>9. TS!WorkersAreJoined'
  BY <1>3, <1>5, <1>7 DEF TS!WorkersAreJoined
<1>10. TS!NoneForgotten'
  BY <1>5 DEF TS!NoneForgotten
<1>11. TS!SomebodyLooks'
  <2>1. PICK w \in Workers : s7'[w] # "wait"
    <3>1. CASE TS!Waiting = {}
      BY <3>1, <1>3, <1>2, SchedulerAssumption DEF TS!Waiting
    <3>2. CASE TS!Waiting # {}
      BY <3>2, <1>2, <1>3
    <3> QED BY <3>1, <3>2
  <2> QED BY <2>1 DEF TS!SomebodyLooks
<1> QED BY <1>6, <1>8, <1>9, <1>10, <1>11

LEMMA OwnerKeeps ==
    ASSUME TS!IInv, TS!start \/ TS!stop \/ TS!Joined
    PROVE  TS!IInv'
<1> USE DEF TS!IInv
<1>1. CASE TS!start
  <2>1. ~ s1 /\ s1' /\ s1' \in BOOLEAN /\ s10' = s10
    BY <1>1, Zenon DEF TS!start
  <2>2. /\ s3' = s3 /\ s4' = s4 /\ s5' = s5 /\ s6' = s6 /\ s7' = s7 /\ s8' = s8
        /\ s9' = s9 /\ s11' = s11 /\ s12' = s12
    BY <1>1 DEF TS!start
  <2>3. s2' \in {"starting", "overlap"}
    BY <1>1 DEF TS!start
  <2>4. TS!Typed'
    BY <2>1, <2>2, <2>3 DEF TS!Typed
  <2>5. TS!HeldTasks' /\ TS!NoneForgotten' /\ TS!SomebodyLooks'
    BY <2>1, <2>2 DEF TS!HeldTasks, TS!NoneForgotten, TS!SomebodyLooks
  <2>6. TS!WorkersAreJoined'
    BY <2>1, <2>3 DEF TS!WorkersAreJoined
  <2> QED BY <2>4, <2>5, <2>6
<1>2. CASE TS!stop
  <2>1. ~ s1' /\ s1' \in BOOLEAN /\ s10' /\ s10' \in BOOLEAN
    BY <1>2, Zenon DEF TS!stop
  <2>2. /\ s3' = s3 /\ s4' = s4 /\ s5' = s5 /\ s6' = s6 /\ s8' = s8
        /\ s11' = s11 /\ s12' = s12 /\ s2' \in {"joining", "overlap"}
    BY <1>2 DEF TS!stop
  <2>3. /\ s7' \in [Workers -> {"none", "loop", "locked", "wait", "task", "push"}]
        /\ s9' \in [Workers -> Nat]
        /\ \A w \in Workers : s7'[w] = IF w \in TS!Waiting THEN "loop" ELSE s7[w]
    BY <1>2, WokenWorkers DEF TS!stop, TS!Waiting
  <2>4. TS!Typed'
    BY <2>1, <2>2, <2>3 DEF TS!Typed
  <2>5. TS!HeldTasks'
    BY <2>2, <2>3 DEF TS!HeldTasks, TS!Waiting
  <2>6. TS!SomebodyLooks'
    BY <2>3, SchedulerAssumption DEF TS!SomebodyLooks, TS!Waiting
  <2> QED
    BY <2>1, <2>2, <2>4, <2>5, <2>6 DEF TS!WorkersAreJoined, TS!NoneForgotten
<1>3. CASE TS!Joined
  <2>1. /\ s2 = "joining" /\ s2' = "idle" /\ \A w \in Workers : s7[w] = "none"
        /\ s1' = s1 /\ s3' = s3 /\ s4' = s4 /\ s5' = s5 /\ s6' = s6 /\ s7' = s7 /\ s8' = s8
        /\ s9' = s9 /\ s10' = s10 /\ s11' = s11 /\ s12' = s12
    BY <1>3 DEF TS!Joined
  <2> QED
    BY <2>1 DEF TS!Typed, TS!HeldTasks, TS!WorkersAreJoined, TS!NoneForgotten, TS!SomebodyLooks
<1> QED BY <1>1, <1>2, <1>3

LEMMA EmplaceWorkerKeeps ==
    ASSUME TS!IInv, NEW w \in Workers, TS!EmplaceWorker(w)
    PROVE  TS!IInv'
<1> USE DEF TS!IInv
<1>1. /\ s2 = "starting" /\ s7[w] = "none" /\ s7' = [s7 EXCEPT ![w] = "loop"]
      /\ s1' = s1 /\ s3' = s3 /\ s4' = s4 /\ s5' = s5 /\ s6' = s6 /\ s8' = s8
      /\ s9' = s9 /\ s10' = s10 /\ s11' = s11 /\ s12' = s12
  BY DEF TS!EmplaceWorker
<1>2. s7'[w] = "loop" /\ \A v \in Workers \ {w} : s7'[v] = s7[v]
  BY <1>1 DEF TS!Typed
<1>3. /\ s2' \in {"idle", "starting"}
      /\ s2' = "idle" => \A v \in Workers \ {w} : s7[v] # "none"
  BY DEF TS!EmplaceWorker
<1>4. TS!Typed'
  BY <1>1, <1>3 DEF TS!Typed
<1>5. TS!HeldTasks'
  BY <1>1, <1>2 DEF TS!HeldTasks
<1>6. TS!WorkersAreJoined'
  BY <1>1, <1>2, <1>3 DEF TS!WorkersAreJoined
<1>7. TS!NoneForgotten' /\ TS!SomebodyLooks'
  BY <1>1, <1>2 DEF TS!NoneForgotten, TS!SomebodyLooks
<1> QED BY <1>4, <1>5, <1>6, <1>7

(* An exception that nobody catches ends the program where it is. *)
LEMMA CronSearchThrowsKeeps ==
    ASSUME TS!IInv, NEW w \in Workers, TS!CronSearchThrows(w)
    PROVE  TS!IInv'
<1>1. /\ s1' = s1 /\ s3' = s3 /\ s4' = s4 /\ s5' = s5 /\ s6' = s6 /\ s7' = s7 /\ s8' = s8
      /\ s9' = s9 /\ s10' = s10 /\ s11' = s11 /\ s12' = s12 /\ s2' = "terminated"
  BY DEF TS!CronSearchThrows
<1> QED
  BY <1>1 DEF TS!IInv, TS!Typed, TS!HeldTasks, TS!WorkersAreJoined, TS!NoneForgotten,
     TS!SomebodyLooks

LEMMA CancelAndTickKeep ==
    ASSUME TS!IInv, TS!Tick \/ \E t \in Tasks : TS!cancel(t)
    PROVE  TS!IInv'
<1> USE DEF TS!IInv, TS!Typed, TS!HeldTasks, TS!WorkersAreJoined, TS!NoneForgotten,
            TS!SomebodyLooks
<1>1. CASE TS!Tick
  <2>1. /\ s3' = s3 + 1 /\ s3' \in Nat
        /\ s1' = s1 /\ s2' = s2 /\ s4' = s4 /\ s5' = s5 /\ s6' = s6 /\ s7' = s7 /\ s8' = s8
        /\ s9' = s9 /\ s10' = s10 /\ s11' = s11 /\ s12' = s12
    BY <1>1 DEF TS!Tick
  <2>2. ASSUME NEW w \in Workers, s7[w] = "task" PROVE s5[s8[w]] <= s3'
    <3>1. s8[w] \in Tasks /\ s5[s8[w]] \in Nat /\ s5[s8[w]] <= s3
      BY <2>2
    <3> QED BY <2>1, <3>1
  <2> QED BY <2>1, <2>2
<1>2. CASE \E t \in Tasks : TS!cancel(t)
  BY <1>2 DEF TS!cancel
<1> QED BY <1>1, <1>2

LEMMA WorkerLoopKeeps ==
    ASSUME TS!IInv, NEW w \in Workers, TS!WorkerLoop(w)
    PROVE  TS!IInv'
<1> USE DEF TS!IInv
<1>1. /\ s7[w] = "loop" /\ s7' = [s7 EXCEPT ![w] = IF s1 THEN "locked" ELSE "none"]
      /\ s1' = s1 /\ s2' = s2 /\ s3' = s3 /\ s4' = s4 /\ s5' = s5 /\ s6' = s6 /\ s8' = s8
      /\ s9' = s9 /\ s10' = s10 /\ s11' = s11 /\ s12' = s12
  BY DEF TS!WorkerLoop
<1>2. s7'[w] \in {"locked", "none"} /\ \A v \in Workers \ {w} : s7'[v] = s7[v]
  BY <1>1 DEF TS!Typed
<1>3. TS!Typed'
  BY <1>1 DEF TS!Typed
<1>4. TS!HeldTasks'
  BY <1>1, <1>2 DEF TS!HeldTasks
<1>5. TS!WorkersAreJoined' /\ TS!NoneForgotten' /\ TS!SomebodyLooks'
  BY <1>1, <1>2 DEF TS!WorkersAreJoined, TS!NoneForgotten, TS!SomebodyLooks
<1> QED BY <1>3, <1>4, <1>5

LEMMA WaitEndsKeeps ==
    ASSUME TS!IInv, NEW w \in Workers, TS!WaitEnds(w)
    PROVE  TS!IInv'
<1> USE DEF TS!IInv
<1>1. /\ s7[w] = "wait" /\ TS!Wake({w})
      /\ s1' = s1 /\ s2' = s2 /\ s3' = s3 /\ s4' = s4 /\ s5' = s5 /\ s6' = s6 /\ s8' = s8
      /\ s10' = s10 /\ s11' = s11 /\ s12' = s12
  BY DEF TS!WaitEnds
<1>2. /\ s7' \in [Workers -> {"none", "loop", "locked", "wait", "task", "push"}]
      /\ s9' \in [Workers -> Nat]
      /\ \A v \in Workers : s7'[v] = IF v \in {w} THEN "loop" ELSE s7[v]
  BY <1>1, WokenWorkers
<1>3. TS!Typed'
  BY <1>1, <1>2 DEF TS!Typed
<1>4. TS!HeldTasks'
  BY <1>1, <1>2 DEF TS!HeldTasks
<1>5. TS!WorkersAreJoined' /\ TS!NoneForgotten' /\ TS!SomebodyLooks'
  BY <1>1, <1>2 DEF TS!WorkersAreJoined, TS!NoneForgotten, TS!SomebodyLooks
<1> QED BY <1>3, <1>4, <1>5

LEMMA TaskEndsKeeps ==
    ASSUME TS!IInv, TS!Alive, NEW w \in Workers, TS!TaskEnds(w)
    PROVE  TS!IInv'
<1> USE DEF TS!IInv
<1> DEFINE t == s8[w]
<1>1. /\ s7[w] = "task" /\ t \in Tasks /\ t \in s11 /\ t \notin s4 /\ t # Absent
  BY SchedulerAssumption DEF TS!TaskEnds, TS!Typed, TS!HeldTasks
<1>6. kind[t] = "once" => t \in s12
  BY <1>1 DEF TS!HeldTasks
<1>2. /\ s1' = s1 /\ s2' = s2 /\ s3' = s3 /\ s4' = s4 /\ s6' = s6
      /\ s9' = s9 /\ s10' = s10 /\ s11' = s11 /\ s12' = s12
  BY DEF TS!TaskEnds
<1>3. s1 \/ (s2 = "joining" /\ s10)
  BY <1>1 DEF TS!WorkersAreJoined, TS!Typed, TS!Alive
<1>4. CASE TS!PushAgain(t)
  <2>1. /\ s5' = [s5 EXCEPT ![t] = TS!NextTime(t)] /\ s7' = [s7 EXCEPT ![w] = "push"]
        /\ s8' = s8 /\ kind[t] # "once"
    BY <1>4 DEF TS!TaskEnds, TS!PushAgain
  <2>2. TS!NextTime(t) \in Nat
    BY <1>1, NextTimeIsTime
  <2>3. TS!Typed'
    BY <1>2, <2>1, <2>2 DEF TS!Typed
  <2>4. s7'[w] = "push" /\ \A v \in Workers \ {w} : s7'[v] = s7[v]
    BY <2>1 DEF TS!Typed
  <2>5. \A u \in Tasks \ {t} : s5'[u] = s5[u]
    BY <2>1 DEF TS!Typed
  <2>6. \A v \in Workers \ {w} : s8[v] # t
    BY <1>1 DEF TS!HeldTasks
  <2>7. TS!HeldTasks'
    BY <1>1, <1>2, <2>1, <2>4, <2>5, <2>6 DEF TS!HeldTasks, TS!Typed
  <2>8. TS!WorkersAreJoined' /\ TS!NoneForgotten' /\ TS!SomebodyLooks'
    BY <1>1, <1>2, <1>3, <2>1, <2>4
    DEF TS!WorkersAreJoined, TS!NoneForgotten, TS!SomebodyLooks
  <2> QED BY <2>3, <2>7, <2>8
<1>5. CASE ~ TS!PushAgain(t)
  <2>1. /\ s5' = s5 /\ s7' = [s7 EXCEPT ![w] = "loop"]
        /\ s8' = [s8 EXCEPT ![w] = Absent]
    BY <1>5 DEF TS!TaskEnds
  <2>2. TS!Typed'
    BY <1>2, <2>1 DEF TS!Typed
  <2>3. /\ s7'[w] = "loop" /\ \A v \in Workers \ {w} : s7'[v] = s7[v]
        /\ s8'[w] = Absent /\ \A v \in Workers \ {w} : s8'[v] = s8[v]
    BY <2>1 DEF TS!Typed
  <2>4. TS!HeldTasks'
    BY <1>1, <1>2, <2>1, <2>3 DEF TS!HeldTasks
  <2>5. TS!WorkersAreJoined'
    BY <1>1, <1>2, <2>3 DEF TS!WorkersAreJoined
  <2>6. TS!NoneForgotten'
    <3> SUFFICES ASSUME ~ s10, NEW u \in s11
                 PROVE  \/ kind[u] = "once" /\ u \in s12
                        \/ u \in s6
                        \/ u \in s4 \/ \E v \in Workers : s8'[v] = u
      BY <1>2 DEF TS!NoneForgotten
    <3>1. s1
      BY <1>3
    <3>2. CASE u = t
      BY <1>1, <1>5, <1>6, <3>1, <3>2 DEF TS!PushAgain
    <3>3. CASE u # t
      BY <1>1, <2>3, <3>3 DEF TS!NoneForgotten
    <3> QED BY <3>2, <3>3
  <2>7. TS!SomebodyLooks'
    BY <2>3 DEF TS!SomebodyLooks
  <2> QED BY <2>2, <2>4, <2>5, <2>6, <2>7
<1> QED BY <1>4, <1>5

LEMMA RepushKeeps ==
    ASSUME TS!IInv, NEW w \in Workers, TS!Repush(w)
    PROVE  TS!IInv'
<1> USE DEF TS!IInv
<1> DEFINE t == s8[w]
<1>1. PICK ws \in TS!Notified : TS!Wake(ws \cup {w})
  BY DEF TS!Repush
<1>2. ws \subseteq TS!Waiting /\ ws \cup {w} \subseteq Workers
  BY NotifiedWorkers DEF TS!Waiting
<1>3. /\ s7' \in [Workers -> {"none", "loop", "locked", "wait", "task", "push"}]
      /\ s9' \in [Workers -> Nat]
      /\ \A v \in Workers : s7'[v] = IF v \in ws \cup {w} THEN "loop" ELSE s7[v]
  BY <1>1, <1>2, WokenWorkers
<1>4. /\ s7[w] = "push" /\ t \in Tasks /\ t \in s11 /\ t # Absent /\ kind[t] # "once"
  BY SchedulerAssumption DEF TS!Repush, TS!Typed, TS!HeldTasks
<1>5. /\ s4' = s4 \cup {t} /\ s8' = [s8 EXCEPT ![w] = Absent]
      /\ s1' = s1 /\ s2' = s2 /\ s3' = s3 /\ s5' = s5 /\ s6' = s6
      /\ s10' = s10 /\ s11' = s11 /\ s12' = s12
  BY DEF TS!Repush
<1>6. TS!Typed'
  BY <1>3, <1>4, <1>5 DEF TS!Typed
<1>7. s8'[w] = Absent /\ \A v \in Workers \ {w} : s8'[v] = s8[v]
  BY <1>5 DEF TS!Typed
<1>8. \A v \in Workers \ {w} : s8[v] # t
  BY <1>4 DEF TS!HeldTasks
<1>9. \A v \in ws : s7[v] = "wait"
  BY <1>2 DEF TS!Waiting
<1>10. TS!HeldTasks'
  BY <1>3, <1>4, <1>5, <1>7, <1>8, <1>9 DEF TS!HeldTasks
<1>11. TS!WorkersAreJoined'
  BY <1>3, <1>4, <1>5, <1>9 DEF TS!WorkersAreJoined
<1>12. TS!NoneForgotten'
  BY <1>5, <1>7 DEF TS!NoneForgotten
<1>13. TS!SomebodyLooks'
  BY <1>3 DEF TS!SomebodyLooks
<1> QED BY <1>6, <1>10, <1>11, <1>12, <1>13

LEMMA TakeNextKeeps ==
    ASSUME TS!IInv, NEW w \in Workers, TS!TakeNext(w)
    PROVE  TS!IInv'
<1> USE DEF TS!IInv
<1>1. /\ s7[w] = "locked" /\ s8[w] = Absent
      /\ s1' = s1 /\ s2' = s2 /\ s3' = s3 /\ s5' = s5 /\ s6' = s6
      /\ s10' = s10 /\ s11' = s11
  BY DEF TS!TakeNext, TS!HeldTasks
<1>3. CASE \/ /\ s4 = {}
              /\ s7' = [s7 EXCEPT ![w] = "wait"]
              /\ s9' = [s9 EXCEPT ![w] = s3 + 1]
              /\ UNCHANGED <<s4, s8, s12>>
           \/ \E t \in TS!Tops :
                 /\ s7' = [s7 EXCEPT ![w] = "wait"]
                 /\ s9' = [s9 EXCEPT ![w] = s5[t]]
                 /\ UNCHANGED <<s4, s8, s12>>
  <2>1. s7' = [s7 EXCEPT ![w] = "wait"] /\ s4' = s4 /\ s8' = s8 /\ s12' = s12
    BY <1>3
  <2>2. s7'[w] = "wait" /\ \A v \in Workers \ {w} : s7'[v] = s7[v]
    BY <2>1 DEF TS!Typed
  <2>3. s9' \in [Workers -> Nat]
    BY <1>3 DEF TS!Typed, TS!Tops
  <2>4. TS!Typed'
    BY <1>1, <2>1, <2>3 DEF TS!Typed
  <2>5. TS!HeldTasks'
    BY <1>1, <2>1, <2>2 DEF TS!HeldTasks
  <2>6. TS!WorkersAreJoined' /\ TS!NoneForgotten'
    BY <1>1, <2>1, <2>2 DEF TS!WorkersAreJoined, TS!NoneForgotten
  <2>7. TS!SomebodyLooks'
    <3>1. s4 = {} \/ \A u \in s4 : s9'[w] <= s5[u]
      BY <1>3 DEF TS!Tops, TS!Typed
    <3> QED BY <1>1, <2>1, <3>1 DEF TS!SomebodyLooks
  <2> QED BY <2>4, <2>5, <2>6, <2>7
<1>4. ASSUME NEW t \in TS!Tops, t \in s6, s4' = s4 \ {t},
             s7' = [s7 EXCEPT ![w] = "loop"], UNCHANGED <<s8, s9, s12>>
      PROVE  TS!IInv'
  <2>1. s7'[w] = "loop" /\ \A v \in Workers \ {w} : s7'[v] = s7[v]
    BY <1>4 DEF TS!Typed
  <2>2. TS!Typed'
    BY <1>1, <1>4 DEF TS!Typed
  <2>3. TS!HeldTasks'
    BY <1>1, <1>4, <2>1 DEF TS!HeldTasks
  <2>4. TS!WorkersAreJoined' /\ TS!NoneForgotten' /\ TS!SomebodyLooks'
    BY <1>1, <1>4, <2>1 DEF TS!WorkersAreJoined, TS!NoneForgotten, TS!SomebodyLooks
  <2> QED BY <2>2, <2>3, <2>4
<1>5. ASSUME NEW t \in TS!Tops, t \notin s6, s5[t] <= s3, s4' = s4 \ {t},
             s8' = [s8 EXCEPT ![w] = t], s12' = s12 \cup {u \in {t} : kind[u] = "once"},
             s7' = [s7 EXCEPT ![w] = "task"], UNCHANGED s9
      PROVE  TS!IInv'
  <2>1. /\ s7'[w] = "task" /\ \A v \in Workers \ {w} : s7'[v] = s7[v]
        /\ s8'[w] = t /\ \A v \in Workers \ {w} : s8'[v] = s8[v]
    BY <1>5 DEF TS!Typed
  <2>2. t \in s4 /\ t \in s11 /\ t \in Tasks /\ t # Absent
    BY SchedulerAssumption DEF TS!Tops, TS!Typed
  <2>3. \A v \in Workers : s8[v] # t
    BY <2>2 DEF TS!HeldTasks
  <2>4. TS!Typed'
    BY <1>1, <1>5, <2>2 DEF TS!Typed
  <2>5. TS!HeldTasks'
    BY <1>1, <1>5, <2>1, <2>2, <2>3 DEF TS!HeldTasks
  <2>6. TS!WorkersAreJoined' /\ TS!SomebodyLooks'
    BY <1>1, <2>1 DEF TS!WorkersAreJoined, TS!SomebodyLooks
  <2>7. TS!NoneForgotten'
    <3>1. \A u \in s11 : (\E v \in Workers : s8[v] = u) => \E v \in Workers : s8'[v] = u
      BY <1>1, <2>1, SchedulerAssumption DEF TS!Typed
    <3>2. \A u \in s4 : u \in s4' \/ \E v \in Workers : s8'[v] = u
      BY <1>5, <2>1
    <3> QED BY <1>1, <1>5, <3>1, <3>2 DEF TS!NoneForgotten
  <2> QED BY <2>4, <2>5, <2>6, <2>7
<1> QED BY <1>3, <1>4, <1>5 DEF TS!TakeNext

LEMMA SchedulerNext == TS!IInv /\ TS!Next => TS!IInv'
  BY ScheduleKeeps, OwnerKeeps, EmplaceWorkerKeeps, CronSearchThrowsKeeps, CancelAndTickKeep,
     WorkerLoopKeeps, WaitEndsKeeps, TaskEndsKeeps, RepushKeeps, TakeNextKeeps
  DEF TS!Next, TS!WorkerStep, TS!OwnerGoesOn

(* A task is held by one worker at most: the set of its holders is empty or  *)
(* has one member.                                                           *)
LEMMA OneHolder ==
    ASSUME TS!IInv, NEW t \in Tasks
    PROVE  Cardinality({w \in Workers : s8[w] = t}) <= (IF t \in s4 THEN 0 ELSE 1)
<1> DEFINE H == {w \in Workers : s8[w] = t}
<1>1. t # Absent
  BY SchedulerAssumption
<1>2. CASE H = {}
  BY <1>2, FS_EmptySet
<1>3. CASE H # {}
  <2>1. PICK w \in Workers : s8[w] = t
    BY <1>3
  <2>2. t \notin s4
    BY <1>1, <2>1 DEF TS!IInv, TS!HeldTasks
  <2>3. H = {w}
    BY <1>1, <2>1 DEF TS!IInv, TS!HeldTasks
  <2> QED BY <2>2, <2>3, FS_Singleton
<1> QED BY <1>2, <1>3

LEMMA SchedulerKeepsTasks ==
    TS!IInv => TS!TasksAreInOnePlace /\ TS!PeriodicTasksSurvive /\ TS!NobodyOversleeps
<1> SUFFICES ASSUME TS!IInv
             PROVE  TS!TasksAreInOnePlace /\ TS!PeriodicTasksSurvive /\ TS!NobodyOversleeps
  OBVIOUS
<1>1. TS!TasksAreInOnePlace
  <2>1. \A S : TS!Cardinality(S) = Cardinality(S)
    BY DEF TS!Cardinality, Cardinality
  <2> QED BY <2>1, OneHolder DEF TS!TasksAreInOnePlace, TS!IInv, TS!HeldTasks
<1>2. TS!PeriodicTasksSurvive
  BY DEF TS!PeriodicTasksSurvive, TS!IInv, TS!NoneForgotten
<1>3. TS!NobodyOversleeps
  <2> SUFFICES ASSUME s1, s2 = "idle", NEW t \in s4, s5[t] <= s3
               PROVE  \E w \in Workers :
                          s7[w] \notin {"none", "wait"} \/ (s7[w] = "wait" /\ s9[w] <= s3)
    BY DEF TS!NobodyOversleeps
  <2>1. PICK w \in Workers : s7[w] # "wait" \/ s9[w] <= s5[t]
    BY DEF TS!IInv, TS!SomebodyLooks
  <2>2. s9[w] \in Nat /\ s5[t] \in Nat /\ s3 \in Nat
    BY DEF TS!IInv, TS!Typed
  <2>3. s7[w] # "none"
    BY DEF TS!IInv, TS!WorkersAreJoined
  <2> QED BY <2>1, <2>2, <2>3
<1> QED BY <1>1, <1>2, <1>3

(* Only a worker that takes a due task starts one. *)
LEMMA SchedulerStarts == TS!IInv /\ TS!Next => TS!StartsAreAllowed
<1> SUFFICES ASSUME TS!IInv, TS!Next, NEW w \in Workers, s7[w] = "locked", s7'[w] = "task"
             PROVE  /\ s8'[w] \notin s6
                    /\ kind[s8'[w]] = "once" => s8'[w] \notin s12
  BY DEF TS!StartsAreAllowed
<1> USE DEF TS!IInv, TS!Typed
<1>1. ~ \E t \in Tasks : TS!schedule(t) \/ TS!cancel(t)
  <2>1. ASSUME NEW ws, TS!Wake(ws) PROVE FALSE
    BY <2>1 DEF TS!Wake
  <2> QED BY <2>1 DEF TS!schedule, TS!cancel
<1>2. ~ (TS!start \/ TS!stop \/ TS!OwnerGoesOn \/ TS!Tick)
  <2>1. ASSUME NEW v \in Workers, TS!EmplaceWorker(v) PROVE FALSE
    BY <2>1 DEF TS!EmplaceWorker
  <2> QED BY <2>1 DEF TS!start, TS!stop, TS!OwnerGoesOn, TS!Joined, TS!Tick, TS!Wake
<1>7. ASSUME NEW v \in Workers, TS!CronSearchThrows(v) PROVE FALSE
  BY <1>7 DEF TS!CronSearchThrows
<1>3. ASSUME NEW v \in Workers, TS!WorkerStep(v) PROVE v = w /\ TS!TakeNext(w)
  <2>1. CASE TS!WorkerLoop(v)
    BY <2>1 DEF TS!WorkerLoop
  <2>2. CASE TS!TaskEnds(v)
    <3>1. s7' = [s7 EXCEPT ![v] = "push"] \/ s7' = [s7 EXCEPT ![v] = "loop"]
      BY <2>2 DEF TS!TaskEnds
    <3> QED BY <3>1
  <2>3. CASE TS!Repush(v) \/ TS!WaitEnds(v)
    BY <2>3 DEF TS!Repush, TS!WaitEnds, TS!Wake
  <2>4. CASE TS!TakeNext(v)
    BY <2>4 DEF TS!TakeNext
  <2> QED BY <1>3, <2>1, <2>2, <2>3, <2>4 DEF TS!WorkerStep
<1>4. TS!TakeNext(w)
  BY <1>1, <1>2, <1>3, <1>7 DEF TS!Next
<1>5. PICK t \in TS!Tops : t \notin s6 /\ s8' = [s8 EXCEPT ![w] = t]
  BY <1>4 DEF TS!TakeNext
<1>6. s8'[w] = t /\ t \in s4
  BY <1>5 DEF TS!Tops
<1> QED BY <1>5, <1>6 DEF TS!HeldTasks

-----------------------------------------------------------------------------
(* The services together: a service keeps its own invariant, and the places *)
(* of one are never those of another.                                       *)
TaskIInv ==
    /\ service = "scheduler" => TS!IInv
    /\ service = "delayed" => AK!DelayedTaskActuator_IInv
    /\ service = "periodic" => AK!PeriodicActuator_IInv
    /\ service = "connectivity" => CM!IInv
    /\ service = "watcher" => OB!ConfigWatcher_IInv

LEMMA TaskInit == Init => TaskIInv
  BY SchedulerInit, DelayedInit, PeriodicInit, ConnectivityInit, WatcherInit
  DEF Init, TaskIInv

LEMMA TaskStutter == TaskIInv /\ UNCHANGED vars => TaskIInv'
<1> SUFFICES ASSUME TaskIInv, UNCHANGED vars PROVE TaskIInv'
  OBVIOUS
<1>1. /\ service' = service /\ s1' = s1 /\ s2' = s2 /\ s3' = s3 /\ s4' = s4
      /\ s5' = s5 /\ s6' = s6 /\ s7' = s7 /\ s8' = s8 /\ s9' = s9 /\ s10' = s10
      /\ s11' = s11 /\ s12' = s12
  BY DEF vars, From5, From6, From7, From8, From9, From10, From11
<1>2. TS!IInv' <=> TS!IInv
  BY <1>1 DEF TS!IInv, TS!Typed, TS!HeldTasks, TS!WorkersAreJoined, TS!NoneForgotten,
     TS!SomebodyLooks
<1>3. AK!DelayedTaskActuator_IInv' <=> AK!DelayedTaskActuator_IInv
  BY <1>1 DEF AK!DelayedTaskActuator_IInv, AK!PendingTasksHaveThreads
<1>4. AK!PeriodicActuator_IInv' <=> AK!PeriodicActuator_IInv
  BY <1>1 DEF AK!PeriodicActuator_IInv, AK!ChainSurvives, AK!Chains
<1>5. CM!IInv' <=> CM!IInv
  BY <1>1 DEF CM!IInv
<1>6. OB!ConfigWatcher_IInv' <=> OB!ConfigWatcher_IInv
  BY <1>1 DEF OB!ConfigWatcher_IInv, OB!CallbacksAreCurrent
<1> QED BY <1>1, <1>2, <1>3, <1>4, <1>5, <1>6 DEF TaskIInv

LEMMA TaskNext == TaskIInv /\ [Next]_vars => TaskIInv'
<1> SUFFICES ASSUME TaskIInv, [Next]_vars PROVE TaskIInv'
  OBVIOUS
<1>1. CASE Scheduler
  BY <1>1, SchedulerNext DEF Scheduler, TaskIInv
<1>2. CASE Delayed
  BY <1>2, DelayedNext DEF Delayed, TaskIInv
<1>3. CASE Periodic
  BY <1>3, PeriodicNext DEF Periodic, TaskIInv
<1>4. CASE Connectivity
  BY <1>4, ConnectivityNext DEF Connectivity, TaskIInv
<1>5. CASE Watcher
  BY <1>5, WatcherNext DEF Watcher, TaskIInv
<1>6. CASE \/ HashMap \/ Cache \/ Lru \/ Lfu \/ HashRing \/ Provider \/ EventBus \/ Middleware
           \/ Snowflake \/ Session
  BY <1>6 DEF HashMap, Cache, Lru, Lfu, HashRing, Provider, EventBus, Middleware, Snowflake, Session, TaskIInv
<1>7. CASE UNCHANGED vars
  BY <1>7, TaskStutter
<1> QED BY <1>1, <1>2, <1>3, <1>4, <1>5, <1>6, <1>7 DEF Next

LEMMA TaskInvariance == Spec => []TaskIInv
  BY TaskInit, TaskNext, PTL DEF Spec

(* No task, chain, thread or callback is lost or doubled, for any number of *)
(* tasks, workers and getters: TaskScheduler keeps a task in its queue or   *)
(* with one worker, forgets no periodic task before the first stop and      *)
(* leaves no due task to sleeping workers; a pending task of                *)
(* DelayedTaskActuator has its thread and its future; a running             *)
(* PeriodicActuator has a chain of timer and task; the monitor thread of    *)
(* GrpcConnectivityManager is joined before it is started again; the        *)
(* callback of ConfigWatcher is called while its thread runs only.          *)
THEOREM TasksAreNeverLost == Spec => []TasksAreKept
<1>1. TaskIInv => TasksAreKept
  BY SchedulerKeepsTasks, MonitorJoined
  DEF TaskIInv, TasksAreKept, AK!DelayedTaskActuator_IInv, AK!PeriodicActuator_IInv,
      OB!ConfigWatcher_IInv
<1> QED BY <1>1, TaskInvariance, PTL

-----------------------------------------------------------------------------
(* SnowflakeGenerator *)

(* The number of a node tells its datacenter and its machine. *)
Number(n) == n[1] * 32 + n[2]

LEMMA NumberOfNode ==
    ASSUME NEW m \in Nodes, NEW n \in Nodes
    PROVE  /\ Number(m) \in 0 .. 1023
           /\ Number(m) = Number(n) => m = n
<1>1. m \in (0 .. 31) \X (0 .. 31) /\ n \in (0 .. 31) \X (0 .. 31)
  BY SnowflakeAssumption
<1>2. /\ m = <<m[1], m[2]>> /\ m[1] \in 0 .. 31 /\ m[2] \in 0 .. 31
      /\ n = <<n[1], n[2]>> /\ n[1] \in 0 .. 31 /\ n[2] \in 0 .. 31
  BY <1>1
<1>3. PICK a \in 0 .. 31, b \in 0 .. 31 : a = m[1] /\ b = m[2]
  BY <1>2
<1>4. PICK c \in 0 .. 31, d \in 0 .. 31 : c = n[1] /\ d = n[2]
  BY <1>2
<1>5. Number(m) = a * 32 + b /\ Number(n) = c * 32 + d
  BY <1>3, <1>4 DEF Number
<1>6. Number(m) = Number(n) => a = c /\ b = d
  BY <1>5
<1> QED BY <1>2, <1>3, <1>4, <1>5, <1>6

(* What is later is greater, whatever is below the time. *)
LEMMA LaterIsGreater ==
    ASSUME NEW P \in Nat, NEW t \in Int, NEW u \in Int, t < u,
           NEW r \in 0 .. P - 1, NEW s \in 0 .. P - 1
    PROVE  t * P + r < u * P + s
<1>1. u * P = t * P + (u - t) * P /\ t * P \in Int /\ u * P \in Int
  OBVIOUS
<1>2. (u - t) * P >= P /\ (u - t) * P \in Int
  OBVIOUS
<1> QED BY <1>1, <1>2

(* Ids are ordered by their time, then by their sequence, and equal ids     *)
(* have equal parts.                                                        *)
LEMMA IdsAreOrdered ==
    ASSUME NEW m \in Nodes, NEW n \in Nodes, NEW t \in Int, NEW u \in Int,
           NEW q \in 0 .. SF!max_sequence, NEW r \in 0 .. SF!max_sequence
    PROVE  /\ SF!GenerateUniqueId(t, m, q) \in Int
           /\ t < u => SF!GenerateUniqueId(t, m, q) < SF!GenerateUniqueId(u, n, r)
           /\ q < r => SF!GenerateUniqueId(t, m, q) < SF!GenerateUniqueId(t, m, r)
           /\ SF!GenerateUniqueId(t, m, q) = SF!GenerateUniqueId(u, n, r)
                 => t = u /\ m = n /\ q = r
<1>1. PICK S \in Nat : S = 2 ^ sequence_bits
  BY SnowflakeAssumption
<1>2. PICK P \in Nat : P = 2 ^ (worker_bits + sequence_bits)
  BY SnowflakeAssumption
<1>3. 32 * 32 * S <= P /\ q \in 0 .. S - 1 /\ r \in 0 .. S - 1
  BY <1>1, <1>2, SnowflakeAssumption DEF SF!max_sequence
<1>4. PICK k \in 0 .. 1023 : k = Number(m)
  BY NumberOfNode
<1>5. PICK l \in 0 .. 1023 : l = Number(n)
  BY NumberOfNode
<1>6. k \in Int /\ l \in Int
  OBVIOUS
<1>7. PICK x \in Int : x = k * S
  BY <1>6
<1>8. PICK y \in Int : y = l * S
  BY <1>6
<1>9. PICK a \in Int : a = t * P
  OBVIOUS
<1>10. PICK b \in Int : b = u * P
  OBVIOUS
<1>11. x + q \in 0 .. P - 1 /\ y + r \in 0 .. P - 1
  <2>1. x \in 0 .. 1023 * S
    BY <1>7
  <2>2. y \in 0 .. 1023 * S
    BY <1>8
  <2> QED BY <1>3, <2>1, <2>2
<1>12. t < u => a + (x + q) < b + (y + r)
  BY <1>9, <1>10, <1>11, LaterIsGreater
<1>13. u < t => b + (y + r) < a + (x + q)
  BY <1>9, <1>10, <1>11, LaterIsGreater
<1>14. k < l => x + q < y + r
  <2>1. k < l => k * S + q < l * S + r
    BY <1>3, <1>6, LaterIsGreater, Zenon
  <2> QED BY <2>1, <1>7, <1>8
<1>15. l < k => y + r < x + q
  <2>1. l < k => l * S + r < k * S + q
    BY <1>3, <1>6, LaterIsGreater, Zenon
  <2> QED BY <2>1, <1>7, <1>8
<1>16. (t = u => a = b) /\ (k = l => x = y /\ m = n)
  BY <1>4, <1>5, <1>7, <1>8, <1>9, <1>10, NumberOfNode
<1>17. q \in Int /\ r \in Int
  BY <1>3
<1>18. /\ SF!GenerateUniqueId(t, m, q) = a + x + q
       /\ SF!GenerateUniqueId(t, m, r) = a + x + r
       /\ SF!GenerateUniqueId(u, n, r) = b + y + r
  BY <1>1, <1>2, <1>4, <1>5, <1>7, <1>8, <1>9, <1>10 DEF SF!GenerateUniqueId, Number
<1>19. /\ a + x + q \in Int
       /\ t < u => a + x + q < b + y + r
       /\ q < r => a + x + q < a + x + r
       /\ a + x + q = b + y + r => t = u /\ m = n /\ q = r
  BY <1>11, <1>12, <1>13, <1>14, <1>15, <1>16, <1>17
<1> QED BY <1>18, <1>19

LEMMA SnowflakeInit == SF!Init => SF!IInv
<1> SUFFICES ASSUME SF!Init PROVE SF!IInv
  OBVIOUS
<1>1. 0 \in 0 .. SF!max_sequence
  BY SnowflakeAssumption DEF SF!max_sequence
<1> QED BY <1>1, SnowflakeAssumption DEF SF!Init, SF!IInv

(* The values of the variables, so that they can be spoken of before and    *)
(* after a step.                                                            *)
WasComposed(last, seq, wait, n, id) ==
    \E t \in 0 .. last[n], q \in 0 .. SF!max_sequence :
        /\ id = SF!GenerateUniqueId(t, n, q)
        /\ t < last[n] \/ (t = last[n] /\ (q <= seq[n] \/ wait[n] = "til"))

LEMMA ComposedIs ==
    ASSUME NEW n, NEW id
    PROVE  /\ SF!Composed(n, id) <=> WasComposed(s2, s3, s5, n, id)
           /\ SF!Composed(n, id)' <=> WasComposed(s2', s3', s5', n, id)
BY DEF SF!Composed, SF!Passed, WasComposed

(* What stays composed when a generator goes on. *)
LEMMA StaysComposed ==
    ASSUME NEW last, NEW seq, NEW wait, NEW l, NEW s, NEW w, NEW n, NEW id,
           WasComposed(last, seq, wait, n, id),
           last[n] \in Int, l[n] \in Int, s[n] \in Int, seq[n] \in Int,
           \/ last[n] < l[n]
           \/ last[n] = l[n] /\ seq[n] <= s[n] /\ wait[n] # "til"
           \/ last[n] = l[n] /\ w[n] = "til"
           \/ l[n] = last[n] /\ s[n] = seq[n] /\ w[n] = wait[n]
    PROVE  WasComposed(l, s, w, n, id)
<1>1. PICK t \in 0 .. last[n], q \in 0 .. SF!max_sequence :
          /\ id = SF!GenerateUniqueId(t, n, q)
          /\ t < last[n] \/ (t = last[n] /\ (q <= seq[n] \/ wait[n] = "til"))
  BY DEF WasComposed
<1>2. t \in Int /\ q \in Int
  BY SnowflakeAssumption DEF SF!max_sequence
<1>3. t \in 0 .. l[n] /\ (t < l[n] \/ (t = l[n] /\ (q <= s[n] \/ w[n] = "til")))
  BY <1>1, <1>2
<1> QED BY <1>1, <1>3 DEF WasComposed

(* An id of a generator that has not come to a time and a sequence is not   *)
(* the one made of them.                                                    *)
LEMMA NotYetComposed ==
    ASSUME NEW last, NEW seq, NEW wait, NEW m \in Nodes, NEW n \in Nodes, NEW id,
           WasComposed(last, seq, wait, m, id),
           NEW t \in Int, NEW q \in 0 .. SF!max_sequence,
           last[n] \in Int, last[m] \in Int, seq[n] \in Int,
           last[n] < t \/ (last[n] = t /\ seq[n] < q /\ wait[n] # "til")
    PROVE  /\ id # SF!GenerateUniqueId(t, n, q)
           /\ m = n => id < SF!GenerateUniqueId(t, n, q)
<1>1. PICK u \in 0 .. last[m], r \in 0 .. SF!max_sequence :
          /\ id = SF!GenerateUniqueId(u, m, r)
          /\ u < last[m] \/ (u = last[m] /\ (r <= seq[m] \/ wait[m] = "til"))
  BY DEF WasComposed
<1>2. u \in Int /\ q \in Int /\ r \in Int
  BY SnowflakeAssumption DEF SF!max_sequence
<1>3. m = n => u < t \/ (u = t /\ r < q)
  BY <1>1, <1>2
<1>4. /\ u < t => SF!GenerateUniqueId(u, m, r) < SF!GenerateUniqueId(t, n, q)
      /\ r < q => SF!GenerateUniqueId(u, m, r) < SF!GenerateUniqueId(u, m, q)
      /\ SF!GenerateUniqueId(u, m, r) = SF!GenerateUniqueId(t, n, q)
             => u = t /\ m = n /\ r = q
  BY <1>2, IdsAreOrdered
<1>5. m = n => id < SF!GenerateUniqueId(t, n, q)
  BY <1>1, <1>3, <1>4
<1>6. id # SF!GenerateUniqueId(t, n, q)
  BY <1>1, <1>2, <1>3, <1>4
<1> QED BY <1>5, <1>6

(* A generator that goes on to a later time, or to a higher sequence of the *)
(* same time, returns a new and greater id.                                 *)
LEMMA SnowflakeReturn ==
    ASSUME SF!IInv, NEW n \in Nodes, NEW q \in 0 .. SF!max_sequence,
           SF!Return(n, s1, q),
           s2[n] < s1 \/ (s2[n] = s1 /\ s3[n] < q /\ s5[n] # "til")
    PROVE  SF!IInv' /\ s7'[n] \in s6' \ s6 /\ s7'[n] > s7[n]
<1> DEFINE id == SF!GenerateUniqueId(s1, n, q)
<1>1. /\ s1 \in Nat /\ s2 \in [Nodes -> Int] /\ s3 \in [Nodes -> 0 .. SF!max_sequence]
      /\ s4 \in [Nodes -> Threads \cup {Nobody}] /\ s5 \in [Nodes -> {"no", "clock", "til"}]
      /\ s7 \in [Nodes -> Int]
      /\ \A m \in Nodes : s5[m] = "til" => s4[m] # Nobody /\ s3[m] = 0
  BY DEF SF!IInv
<1>2. /\ \A m \in Nodes : s7[m] = -1 \/ WasComposed(s2, s3, s5, m, s7[m])
      /\ \A i \in s6 : \E m \in Nodes : WasComposed(s2, s3, s5, m, i)
  BY ComposedIs DEF SF!IInv
<1>3. /\ s2' = [s2 EXCEPT ![n] = s1] /\ s3' = [s3 EXCEPT ![n] = q] /\ s6' = s6 \cup {id}
      /\ s7' = [s7 EXCEPT ![n] = id] /\ s4' = [s4 EXCEPT ![n] = Nobody]
      /\ s5' = [s5 EXCEPT ![n] = "no"] /\ s1' = s1
  BY DEF SF!Return
<1>4. id \in Int /\ id >= 0
  <2>1. id \in Int
    BY <1>1, IdsAreOrdered
  <2>2. PICK S \in Nat : S = 2 ^ sequence_bits
    BY SnowflakeAssumption
  <2>3. PICK P \in Nat : P = 2 ^ (worker_bits + sequence_bits)
    BY SnowflakeAssumption
  <2>4. PICK k \in 0 .. 1023 : k = Number(n)
    BY NumberOfNode
  <2>5. s1 * P >= 0 /\ k * S >= 0 /\ s1 * P \in Int /\ k * S \in Int
    BY <1>1
  <2>6. id = s1 * P + k * S + q
    BY <2>2, <2>3, <2>4 DEF SF!GenerateUniqueId, Number
  <2>7. q \in Nat
    BY SnowflakeAssumption DEF SF!max_sequence
  <2> QED BY <2>1, <2>5, <2>6, <2>7
<1>5. \A m \in Nodes : s2[m] \in Int /\ s3[m] \in Int
  BY <1>1, SnowflakeAssumption DEF SF!max_sequence
<1>6. WasComposed(s2', s3', s5', n, id)
  <2>1. s2'[n] = s1 /\ s3'[n] = q /\ s1 \in 0 .. s1 /\ q <= q
    BY <1>1, <1>3, SnowflakeAssumption DEF SF!max_sequence
  <2> QED BY <2>1 DEF WasComposed
<1>7. ASSUME NEW m \in Nodes, NEW i, WasComposed(s2, s3, s5, m, i)
      PROVE  i # id /\ (m = n => i < id) /\ WasComposed(s2', s3', s5', m, i)
  <2>1. i # id /\ (m = n => i < id)
    BY <1>1, <1>5, <1>7, NotYetComposed
  <2>2. s2'[m] \in Int /\ s3'[m] \in Int
    BY <1>1, <1>3, <1>5, SnowflakeAssumption DEF SF!max_sequence
  <2>3. m # n => s2'[m] = s2[m] /\ s3'[m] = s3[m] /\ s5'[m] = s5[m]
    BY <1>1, <1>3
  <2>4. s2'[n] = s1 /\ s3'[n] = q
    BY <1>1, <1>3
  <2>5. q \in Int
    BY SnowflakeAssumption DEF SF!max_sequence
  <2>6. \/ s2[m] < s2'[m]
        \/ s2[m] = s2'[m] /\ s3[m] <= s3'[m] /\ s5[m] # "til"
        \/ s2'[m] = s2[m] /\ s3'[m] = s3[m] /\ s5'[m] = s5[m]
    BY <1>1, <1>5, <2>3, <2>4, <2>5
  <2>7. WasComposed(s2', s3', s5', m, i)
    BY <1>5, <1>7, <2>2, <2>6, StaysComposed
  <2> QED BY <2>1, <2>7
<1> HIDE DEF id
<1>8. id \notin s6
  BY <1>2, <1>7
<1>9. s7'[n] = id /\ id > s7[n]
  BY <1>1, <1>2, <1>3, <1>4, <1>7
<1>10. \A m \in Nodes : s7'[m] = -1 \/ WasComposed(s2', s3', s5', m, s7'[m])
  BY <1>1, <1>2, <1>3, <1>6, <1>7
<1>11. \A i \in s6' : \E m \in Nodes : WasComposed(s2', s3', s5', m, i)
  BY <1>2, <1>3, <1>6, <1>7
<1>12. /\ s1' \in Nat /\ s2' \in [Nodes -> Int] /\ s3' \in [Nodes -> 0 .. SF!max_sequence]
       /\ s4' \in [Nodes -> Threads \cup {Nobody}]
       /\ s5' \in [Nodes -> {"no", "clock", "til"}] /\ s7' \in [Nodes -> Int]
       /\ \A m \in Nodes : s5'[m] = "til" => s4'[m] # Nobody /\ s3'[m] = 0
  BY <1>1, <1>3, <1>4
<1>13. SF!IInv'
  <2>1. \A m \in Nodes : s7'[m] = -1 \/ SF!Composed(m, s7[m])'
    BY <1>10, ComposedIs DEF SF!Composed, SF!Passed, WasComposed
  <2>2. \A i \in s6' : \E m \in Nodes : SF!Composed(m, i)'
    BY <1>11, ComposedIs
  <2> QED BY <1>12, <2>1, <2>2 DEF SF!IInv
<1> QED BY <1>3, <1>8, <1>9, <1>13

(* The other steps return no id. *)
LEMMA SnowflakeKeeps ==
    ASSUME SF!IInv, s2' = s2, s6' = s6, s7' = s7,
           s1' \in Nat, s3' \in [Nodes -> 0 .. SF!max_sequence],
           s4' \in [Nodes -> Threads \cup {Nobody}],
           s5' \in [Nodes -> {"no", "clock", "til"}],
           \A m \in Nodes : s5'[m] = "til" => s4'[m] # Nobody /\ s3'[m] = 0,
           \A m \in Nodes : s4[m] # Nobody => s4'[m] # Nobody,
           \A m \in Nodes : \/ s5'[m] = "til"
                            \/ s3'[m] = s3[m] /\ s5[m] # "til"
                            \/ s3'[m] = s3[m] /\ s5'[m] = s5[m]
    PROVE  SF!IInv' /\ SF!IdsAreUnique
<1>1. /\ s2 \in [Nodes -> Int] /\ s3 \in [Nodes -> 0 .. SF!max_sequence]
      /\ s7 \in [Nodes -> Int]
  BY DEF SF!IInv
<1>2. /\ \A m \in Nodes : s7[m] = -1 \/ WasComposed(s2, s3, s5, m, s7[m])
      /\ \A i \in s6 : \E m \in Nodes : WasComposed(s2, s3, s5, m, i)
  BY ComposedIs DEF SF!IInv
<1>3. ASSUME NEW m \in Nodes, NEW i, WasComposed(s2, s3, s5, m, i)
      PROVE  WasComposed(s2', s3', s5', m, i)
  <2>1. s2[m] \in Int /\ s2'[m] = s2[m] /\ s3[m] \in Int /\ s3'[m] \in Int
    BY <1>1, SnowflakeAssumption DEF SF!max_sequence
  <2>2. s3'[m] = s3[m] => s3[m] <= s3'[m]
    BY <2>1
  <2> QED BY <1>3, <2>1, <2>2, StaysComposed
<1>4. \A m \in Nodes : s7'[m] = -1 \/ SF!Composed(m, s7[m])'
  <2>1. \A m \in Nodes : s7'[m] = -1 \/ WasComposed(s2', s3', s5', m, s7'[m])
    BY <1>2, <1>3
  <2> QED BY <2>1 DEF SF!Composed, SF!Passed, WasComposed
<1>5. \A i \in s6' : \E m \in Nodes : SF!Composed(m, i)'
  BY <1>2, <1>3, ComposedIs
<1>6. SF!IInv'
  BY <1>1, <1>4, <1>5 DEF SF!IInv
<1> QED BY <1>6 DEF SF!IdsAreUnique

LEMMA SnowflakeNext == SF!IInv /\ SF!Next => SF!IInv' /\ SF!IdsAreUnique
<1> SUFFICES ASSUME SF!IInv, SF!Next PROVE SF!IInv' /\ SF!IdsAreUnique
  OBVIOUS
<1>1. /\ s1 \in Nat /\ s2 \in [Nodes -> Int] /\ s3 \in [Nodes -> 0 .. SF!max_sequence]
      /\ s4 \in [Nodes -> Threads \cup {Nobody}] /\ s5 \in [Nodes -> {"no", "clock", "til"}]
      /\ \A m \in Nodes : s5[m] = "til" => s4[m] # Nobody /\ s3[m] = 0
  BY DEF SF!IInv
<1>2. ASSUME NEW t \in Threads, NEW n \in Nodes, SF!Lock(t, n)
      PROVE  SF!IInv' /\ SF!IdsAreUnique
  <2>1. /\ s4[n] = Nobody /\ s4' = [s4 EXCEPT ![n] = t] /\ s5' = [s5 EXCEPT ![n] = "clock"]
        /\ s1' = s1 /\ s2' = s2 /\ s3' = s3 /\ s6' = s6 /\ s7' = s7
    BY <1>2 DEF SF!Lock
  <2>2. t # Nobody
    BY SnowflakeAssumption
  <2>3. \A m \in Nodes : \/ s3'[m] = s3[m] /\ s5[m] # "til"
                         \/ s3'[m] = s3[m] /\ s5'[m] = s5[m]
    BY <1>1, <2>1
  <2>4. \A m \in Nodes : s5'[m] = "til" => s4'[m] # Nobody /\ s3'[m] = 0
    BY <1>1, <2>1, <2>2
  <2>5. \A m \in Nodes : s4[m] # Nobody => s4'[m] # Nobody
    BY <1>1, <2>1, <2>2
  <2>6. /\ s1' \in Nat /\ s3' \in [Nodes -> 0 .. SF!max_sequence]
        /\ s4' \in [Nodes -> Threads \cup {Nobody}]
        /\ s5' \in [Nodes -> {"no", "clock", "til"}]
    BY <1>1, <2>1
  <2> QED BY <2>1, <2>3, <2>4, <2>5, <2>6, SnowflakeKeeps
<1>3. ASSUME NEW n \in Nodes, SF!NextId(n)
      PROVE  SF!IInv' /\ SF!IdsAreUnique
  <2> DEFINE bumped == (s3[n] + 1) % (SF!max_sequence + 1)
  <2>1. s4[n] # Nobody /\ s3[n] \in 0 .. SF!max_sequence /\ SF!max_sequence \in Nat
    BY <1>1, <1>3, SnowflakeAssumption DEF SF!NextId, SF!max_sequence
  <2>2. bumped \in 0 .. SF!max_sequence /\ (bumped # 0 => s3[n] < bumped)
    <3>1. PICK N \in Nat : N = SF!max_sequence
      BY <2>1
    <3>2. PICK s \in 0 .. N : s = s3[n]
      BY <2>1, <3>1
    <3>3. (s + 1) % (N + 1) = IF s = N THEN 0 ELSE s + 1
      OBVIOUS
    <3> QED BY <3>1, <3>2, <3>3
  <2> HIDE DEF bumped
  <2>3. ASSUME NEW q \in 0 .. SF!max_sequence, SF!Return(n, s1, q),
               s2[n] < s1 \/ (s2[n] = s1 /\ s3[n] < q /\ s5[n] # "til")
        PROVE  SF!IInv' /\ SF!IdsAreUnique
    <3>1. SF!IInv' /\ s7'[n] \in s6' \ s6 /\ s7'[n] > s7[n]
      BY <2>3, SnowflakeReturn
    <3>2. \A m \in Nodes : m # n => s4'[m] = s4[m]
      BY <1>1, <2>3 DEF SF!Return
    <3> QED BY <3>1, <3>2 DEF SF!IdsAreUnique
  <2>4. CASE s5[n] = "clock" /\ s1 > s2[n] /\ SF!Return(n, s1, 0)
    <3>1. 0 \in 0 .. SF!max_sequence /\ s2[n] < s1
      BY <1>1, <2>1, <2>4
    <3> QED BY <2>3, <2>4, <3>1
  <2>5. CASE s5[n] = "clock" /\ s1 = s2[n] /\ bumped # 0 /\ SF!Return(n, s1, bumped)
    BY <2>2, <2>3, <2>5
  <2>6. CASE s5[n] = "til" /\ s1 > s2[n] /\ SF!Return(n, s1, s3[n])
    <3>1. s2[n] < s1
      BY <1>1, <2>6
    <3> QED BY <2>1, <2>3, <2>6, <3>1
  <2>7. CASE SF!Wait(n, "til", 0)
    <3>1. /\ s5' = [s5 EXCEPT ![n] = "til"] /\ s3' = [s3 EXCEPT ![n] = 0]
          /\ s1' = s1 /\ s2' = s2 /\ s4' = s4 /\ s6' = s6 /\ s7' = s7
      BY <2>7 DEF SF!Wait
    <3>2. \A m \in Nodes : \/ s5'[m] = "til"
                           \/ s3'[m] = s3[m] /\ s5'[m] = s5[m]
      BY <1>1, <3>1
    <3>3. \A m \in Nodes : s5'[m] = "til" => s4'[m] # Nobody /\ s3'[m] = 0
      BY <1>1, <2>1, <3>1
    <3>4. /\ s3' \in [Nodes -> 0 .. SF!max_sequence]
          /\ s5' \in [Nodes -> {"no", "clock", "til"}]
      BY <1>1, <2>1, <3>1
    <3> QED BY <1>1, <3>1, <3>2, <3>3, <3>4, SnowflakeKeeps
  <2> QED BY <1>3, <2>4, <2>5, <2>6, <2>7 DEF SF!NextId, bumped
<1>4. CASE SF!SetClock
  <2>1. s1' \in Nat /\ s2' = s2 /\ s3' = s3 /\ s4' = s4 /\ s5' = s5 /\ s6' = s6 /\ s7' = s7
    BY <1>4, SchedulerAssumption DEF SF!SetClock
  <2> QED BY <1>1, <2>1, SnowflakeKeeps
<1> QED BY <1>2, <1>3, <1>4 DEF SF!Next

-----------------------------------------------------------------------------
(* AuthSession *)

(* The cache agrees with the table: a part of the invariant, of the values  *)
(* of both.                                                                 *)
Agree(d, us) ==
    /\ d \in [Users -> [hash : Passwords] \cup {NoRow}]
    /\ DOMAIN us = Users
    /\ \A u \in Users : us[u] # NoUser =>
          us[u].hash \in Passwords /\ d[u] = [hash |-> us[u].hash]

LEMMA RowOfCached ==
    ASSUME NEW d, NEW us, Agree(d, us), NEW u \in Users, us[u] # NoUser
    PROVE  d[u] # NoRow
BY SessionAssumption DEF Agree

(* load_user_from_db reads the name column, which is no credential. *)
LEMMA SessionLookup ==
    ASSUME NEW u \in Users, NEW a, NEW b
    PROVE  AS!Lookup(u, a, b) = s2[u]
<1>1. AS!load_user_from_db(u, a, b) = NoUser
  BY SessionAssumption
  DEF AS!load_user_from_db, AS!parse_credentials_data, AS!SqlUserExists, AS!SqlGetUser,
      AS!Credential
<1> QED BY <1>1 DEF AS!Lookup, AS!IsNoUser

LEMMA RegisterCall ==
    ASSUME Agree(s1, s2), NEW c, NEW u \in Users, NEW p \in Passwords,
           AS!register_user(c, u, p)
    PROVE  /\ Agree(s1', s2') /\ s5'.op = "register"
           /\ s5'.msg = "ok" => s1'[u] = [hash |-> p]
           /\ s5'.msg = "exists" => s1'[u] # NoRow
<1>1. PICK a \in SqlOutcomes, b \in SqlOutcomes :
         LET taken    == ~ AS!IsNoUser(s2[u]) \/ AS!SqlUserExists(u, a)
             accepted == AS!validate_username(u) /\ ~ taken /\ AS!validate(p)
             stored   == accepted /\ AS!SqlRegisterUser(u, b)
         IN  /\ s1' = IF stored THEN [s1 EXCEPT ![u] = [hash |-> p]] ELSE s1
             /\ s2' = IF stored THEN [s2 EXCEPT ![u] = AS!NewAccount(p)] ELSE s2
             /\ AS!Answer("register", u, p,
                    CASE ~ AS!validate_username(u) -> "bad_name"
                      [] AS!validate_username(u) /\ taken -> "exists"
                      [] AS!validate_username(u) /\ ~ taken /\ ~ AS!validate(p) -> "policy"
                      [] accepted /\ ~ stored -> "db_failed"
                      [] stored -> "ok")
  BY DEF AS!register_user
<1> DEFINE taken == ~ AS!IsNoUser(s2[u]) \/ AS!SqlUserExists(u, a)
           stored == AS!validate_username(u) /\ ~ taken /\ AS!validate(p)
                     /\ AS!SqlRegisterUser(u, b)
<1>2. /\ s5'.op = "register" /\ (s5'.msg = "ok" => stored)
      /\ s5'.msg = "exists" => taken /\ ~ stored
  BY <1>1 DEF AS!Answer
<1>3. /\ s1' = IF stored THEN [s1 EXCEPT ![u] = [hash |-> p]] ELSE s1
      /\ s2' = IF stored THEN [s2 EXCEPT ![u] = AS!NewAccount(p)] ELSE s2
  BY <1>1
<1>4. taken => s1[u] # NoRow
  BY RowOfCached DEF AS!IsNoUser, AS!SqlUserExists
<1> HIDE DEF taken, stored
<1>5. AS!NewAccount(p).hash = p /\ [hash |-> p] \in [hash : Passwords]
  BY DEF AS!NewAccount
<1>6. Agree(s1', s2')
  BY <1>3, <1>5 DEF Agree
<1>7. stored => s1'[u] = [hash |-> p]
  BY <1>3 DEF Agree
<1> QED BY <1>2, <1>3, <1>4, <1>6, <1>7

LEMMA AuthenticateCall ==
    ASSUME Agree(s1, s2), NEW c, NEW u \in Users, NEW p \in Passwords,
           AS!authenticate(c, u, p)
    PROVE  /\ Agree(s1', s2') /\ s5'.op = "authenticate"
           /\ s5'.msg = "ok" => s1'[u] = [hash |-> p]
<1> DEFINE e == s2[u]
           msg == AS!AuthMessage(e, p)
<1>1. /\ AS!AuthEffect(u, e, msg) /\ AS!Answer("authenticate", u, p, msg) /\ s1' = s1
  BY SessionLookup DEF AS!authenticate
<1>2. msg \in {"ok", "invalid_password"} => e # NoUser
  BY DEF AS!AuthMessage, AS!IsNoUser
<1>3. msg \in {"ok", "invalid_password", "not_found", "locked"}
  BY DEF AS!AuthMessage, AS!IsNoUser
<1>4. msg = "ok" => e # NoUser /\ e.hash = p
  BY DEF AS!AuthMessage, AS!IsNoUser
<1>5. /\ AS!reset_failed_attempts(e).hash = e.hash
      /\ AS!increment_failed_attempts(e).hash = e.hash
  BY DEF AS!reset_failed_attempts, AS!increment_failed_attempts
<1>6. PICK f : s2' = [s2 EXCEPT ![u] = f] /\ (e # NoUser => f = e \/ f.hash = e.hash)
               /\ (e = NoUser => f = NoUser)
  <2>1. CASE msg = "ok"
    BY <1>1, <1>2, <1>5, <2>1 DEF AS!AuthEffect
  <2>2. CASE msg = "invalid_password"
    BY <1>1, <1>2, <1>5, <2>2 DEF AS!AuthEffect
  <2>3. CASE msg \in {"not_found", "locked"}
    BY <1>1, <2>3 DEF AS!AuthEffect
  <2> QED BY <1>3, <2>1, <2>2, <2>3
<1>7. Agree(s1', s2')
  BY <1>1, <1>6 DEF Agree
<1>8. s5'.op = "authenticate" /\ s5'.msg = msg
  BY <1>1 DEF AS!Answer
<1> QED BY <1>1, <1>4, <1>7, <1>8 DEF Agree

LEMMA ExistsCall ==
    ASSUME Agree(s1, s2), NEW c, NEW u \in Users, AS!user_exists(c, u)
    PROVE  Agree(s1', s2') /\ s5'.op = "exists" /\ (s5'.msg = "ok" => s1'[u] # NoRow)
<1>1. s1' = s1 /\ s2' = s2
  BY DEF AS!user_exists
<1>2. s5'.op = "exists"
  BY DEF AS!user_exists, AS!Answer
<1>3. s5'.msg = "ok" => s2[u] # NoUser \/ s1[u] # NoRow
  BY DEF AS!user_exists, AS!Answer, AS!IsNoUser, AS!SqlUserExists
<1> QED BY <1>1, <1>2, <1>3, RowOfCached

LEMMA DeleteCall ==
    ASSUME Agree(s1, s2), NEW c, NEW u \in Users, AS!delete_user(c, u)
    PROVE  Agree(s1', s2') /\ s5'.op = "delete" /\ (s5'.msg = "ok" => s1'[u] = NoRow)
<1>1. PICK deleted \in BOOLEAN :
         /\ s1' = IF deleted THEN [s1 EXCEPT ![u] = NoRow] ELSE s1
         /\ s2' = IF deleted THEN [s2 EXCEPT ![u] = NoUser] ELSE s2
         /\ s5' = [op |-> "delete", user |-> u, password |-> Empty,
                   msg |-> IF deleted THEN "ok" ELSE "false"]
  BY DEF AS!delete_user, AS!Answer, AS!SqlDeleteUser
<1>2. Agree(s1', s2')
  BY <1>1 DEF Agree
<1> QED BY <1>1, <1>2 DEF Agree

LEMMA MinuteAgrees == Agree(s1, s2) /\ AS!Minute => Agree(s1', s2')
  BY DEF Agree, AS!Minute, AS!IsNoUser

LEMMA RestartAgrees == Agree(s1, s2) /\ AS!Restart => Agree(s1', s2')
  BY DEF Agree, AS!Restart

(* A client has read what it calls the server with, and the response on its *)
(* way is true: the other part.                                             *)
Fits(s) ==
    /\ s.at \notin {"start", "done", "thrown"} => s.user \in Users /\ s.password \in Passwords
    /\ s.answer # Empty => AS!Truthful(s.at, s.answer, s.row, s.password)
Read(ss) == DOMAIN ss = Clients /\ \A c \in Clients : Fits(ss[c])

LEMMA SessionInvIs == /\ AS!SessionIInv <=> Agree(s1, s2) /\ Read(s7)
                      /\ AS!SessionIInv' <=> Agree(s1', s2') /\ Read(s7')
BY DEF AS!SessionIInv, AS!Credential, Agree, Read, Fits

LEMMA PlaceFits ==
    ASSUME NEW place, NEW told, NEW proved, NEW u, NEW p,
           place \in {"start", "done", "thrown"} \/ (u \in Users /\ p \in Passwords)
    PROVE  Fits(AS!At(place, told, proved, u, p))
<1>1. /\ AS!At(place, told, proved, u, p).at = place
      /\ AS!At(place, told, proved, u, p).answer = Empty
      /\ AS!At(place, told, proved, u, p).user = u
      /\ AS!At(place, told, proved, u, p).password = p
  BY DEF AS!At
<1> QED BY <1>1 DEF Fits

LEMMA SessionStarts == AS!SessionInit => AS!SessionIInv
<1> SUFFICES ASSUME AS!SessionInit PROVE Agree(s1, s2) /\ Read(s7)
  BY SessionInvIs
<1>1. Agree(s1, s2)
  BY DEF AS!SessionInit, AS!Init, Agree
<1>2. Fits(AS!Started)
  BY PlaceFits DEF AS!Started
<1>3. Read(s7)
  BY <1>2 DEF AS!SessionInit, Read
<1> QED BY <1>1, <1>3

LEMMA FailedIsTruthful ==
    ASSUME NEW place, NEW row, NEW p PROVE AS!Truthful(place, AS!Failed, row, p)
BY DEF AS!Truthful, AS!Failed

(* A success stands for "ok", and 409 for "exists" of register. *)
LEMMA ResponseMeans ==
    ASSUME NEW r
    PROVE  /\ AS!Response(r).success <=> r.msg = "ok"
           /\ AS!Response(r).error_code = 409 =>
                 r.msg = "exists" /\ r.op \notin {"authenticate", "exists", "delete"}
<1>1. AS!Response(r).success = (r.msg = "ok")
  BY Zenon DEF AS!Response
<1>2. AS!Response(r).error_code =
         IF r.msg = "ok" \/ r.op \in {"authenticate", "exists", "delete"}
         THEN 0 ELSE AS!HandleAuthException(r.msg)
  BY Zenon DEF AS!Response
<1>3. AS!HandleAuthException(r.msg) = 409 => r.msg = "exists"
  BY DEF AS!HandleAuthException
<1>4. AS!Response(r).success <=> r.msg = "ok"
  BY <1>1, Zenon
<1>5. AS!Response(r).error_code = 409 =>
         r.msg = "exists" /\ r.op \notin {"authenticate", "exists", "delete"}
  BY <1>2, <1>3
<1> QED BY <1>4, <1>5

(* A client that hears an answer that is true of the row the server found. *)
LEMMA HearsTheTruth ==
    ASSUME Read(s7), NEW c \in Clients, NEW r, NEW good, NEW bad,
           AS!Hear(c, r, good, bad), s7[c].at \notin {"start", "done", "thrown"},
           AS!Truthful(s7[c].at, r, s7[c].row, s7[c].password)
    PROVE  Read(s7') /\ AS!ClientIsToldTheTruth
<1> DEFINE t == AS!Told(s7[c], r, good, bad)
<1>1. t.told = r
  BY DEF AS!Told, AS!At
<1>2. Fits(t)
  BY PlaceFits DEF AS!Told, Read, Fits
<1>3. s7' = [s7 EXCEPT ![c] = t]
  BY DEF AS!Hear
<1> HIDE DEF t
<1>4. /\ s7'[c] = t
      /\ \A d \in Clients : d # c => s7'[d] = s7[d]
      /\ DOMAIN s7' = Clients
  BY <1>3 DEF Read
<1>5. Read(s7')
  BY <1>2, <1>4 DEF Read
<1>6. AS!ClientIsToldTheTruth
  BY <1>1, <1>4 DEF AS!ClientIsToldTheTruth
<1> QED BY <1>5, <1>6

(* The server's answer is on its way: nobody is told anything yet. *)
LEMMA AnswerIsTrue ==
    ASSUME Read(s7), NEW c \in Clients, NEW r, NEW row,
           s7' = [s7 EXCEPT ![c] = AS!Answered(s7[c], r, row)],
           AS!Truthful(s7[c].at, r, row, s7[c].password)
    PROVE  Read(s7') /\ AS!ClientIsToldTheTruth
<1> DEFINE t == AS!Answered(s7[c], r, row)
<1>1. /\ t.at = s7[c].at /\ t.answer = r /\ t.row = row
      /\ t.user = s7[c].user /\ t.password = s7[c].password
  BY DEF AS!Answered
<1> HIDE DEF t
<1>2. Fits(t)
  BY <1>1 DEF Read, Fits
<1>3. /\ s7'[c] = t
      /\ \A d \in Clients : d # c => s7'[d] = s7[d]
      /\ DOMAIN s7' = Clients
  BY DEF Read, t
<1>4. Read(s7')
  BY <1>2, <1>3 DEF Read
<1>5. AS!ClientIsToldTheTruth
  BY <1>1, <1>3 DEF AS!ClientIsToldTheTruth
<1> QED BY <1>4, <1>5

(* The four calls: the server handles the request, or the client hears the  *)
(* answer, or that there is none.                                           *)
LEMMA CallKeeps ==
    ASSUME AS!SessionIInv, NEW c \in Clients,
           AS!AuthenticateUser(c) \/ AS!UserExists(c) \/ AS!RegisterUser(c) \/ AS!DeleteUser(c)
    PROVE  AS!SessionIInv' /\ AS!ClientIsToldTheTruth
<1> DEFINE u == s7[c].user
           p == s7[c].password
           a == s7[c].at
<1>1. Agree(s1, s2) /\ Read(s7)
  BY SessionInvIs
<1>2. a \in {"authenticate", "exists", "register", "task"}
  BY DEF AS!AuthenticateUser, AS!UserExists, AS!RegisterUser, AS!DeleteUser
<1>3. u \in Users /\ p \in Passwords
  BY <1>1, <1>2 DEF Read, Fits
<1>4. ASSUME AS!authenticate(c, u, p), a = "authenticate"
      PROVE  Agree(s1', s2') /\ AS!Truthful(a, AS!Response(s5'), s1'[u], p)
  BY <1>1, <1>3, <1>4, AuthenticateCall, ResponseMeans DEF AS!Truthful
<1>5. ASSUME AS!user_exists(c, u), a = "exists"
      PROVE  Agree(s1', s2') /\ AS!Truthful(a, AS!Response(s5'), s1'[u], p)
  BY <1>1, <1>3, <1>5, ExistsCall, ResponseMeans DEF AS!Truthful
<1>6. ASSUME AS!register_user(c, u, p), a = "register"
      PROVE  Agree(s1', s2') /\ AS!Truthful(a, AS!Response(s5'), s1'[u], p)
  BY <1>1, <1>3, <1>6, RegisterCall, ResponseMeans DEF AS!Truthful
<1>7. ASSUME AS!delete_user(c, u), a = "task"
      PROVE  Agree(s1', s2') /\ AS!Truthful(a, AS!Response(s5'), s1'[u], p)
  BY <1>1, <1>3, <1>7, DeleteCall, ResponseMeans DEF AS!Truthful
<1>8. ASSUME AS!ClientStep PROVE Agree(s1', s2')
  BY <1>1, <1>8 DEF AS!ClientStep
<1>9. \/ /\ \/ AS!authenticate(c, u, p) /\ a = "authenticate"
            \/ AS!user_exists(c, u) /\ a = "exists"
            \/ AS!register_user(c, u, p) /\ a = "register"
            \/ AS!delete_user(c, u) /\ a = "task"
         /\ s7' = [s7 EXCEPT ![c] = AS!Answered(s7[c], AS!Response(s5'), s1'[u])]
      \/ \E r \in {s7[c].answer, AS!Failed} \ {Empty} : \E good, bad : AS!Hear(c, r, good, bad)
  BY DEF AS!AuthenticateUser, AS!UserExists, AS!RegisterUser, AS!DeleteUser, AS!ExecuteRpcCall,
         AS!Serve
<1>10. ASSUME NEW r \in {s7[c].answer, AS!Failed} \ {Empty}, NEW good, NEW bad,
              AS!Hear(c, r, good, bad)
       PROVE  AS!SessionIInv' /\ AS!ClientIsToldTheTruth
  <2>1. AS!Truthful(a, r, s7[c].row, p)
    BY <1>1, FailedIsTruthful DEF Read, Fits
  <2>2. AS!ClientStep
    BY <1>10 DEF AS!Hear
  <2> QED BY <1>1, <1>2, <1>8, <1>10, <2>1, <2>2, HearsTheTruth, SessionInvIs
<1> HIDE DEF u, p, a
<1>11. ASSUME \/ AS!authenticate(c, u, p) /\ a = "authenticate"
              \/ AS!user_exists(c, u) /\ a = "exists"
              \/ AS!register_user(c, u, p) /\ a = "register"
              \/ AS!delete_user(c, u) /\ a = "task",
              s7' = [s7 EXCEPT ![c] = AS!Answered(s7[c], AS!Response(s5'), s1'[u])]
       PROVE  AS!SessionIInv' /\ AS!ClientIsToldTheTruth
  <2>1. Agree(s1', s2') /\ AS!Truthful(a, AS!Response(s5'), s1'[u], p)
    BY <1>4, <1>5, <1>6, <1>7, <1>11
  <2>2. Read(s7') /\ AS!ClientIsToldTheTruth
    BY <1>1, <1>11, <2>1, AnswerIsTrue DEF p, a
  <2> QED BY <2>1, <2>2, SessionInvIs
<1> QED BY <1>9, <1>10, <1>11

LEMMA SessionGoesOn ==
    AS!SessionIInv /\ AS!SessionNext => AS!SessionIInv' /\ AS!ClientIsToldTheTruth
<1> SUFFICES ASSUME AS!SessionIInv, AS!SessionNext
             PROVE  AS!SessionIInv' /\ AS!ClientIsToldTheTruth
  OBVIOUS
<1>1. Agree(s1, s2) /\ Read(s7)
  BY SessionInvIs
<1>2. ASSUME NEW c \in Clients, NEW s, s7' = [s7 EXCEPT ![c] = s], AS!ClientStep,
             s7[c].at \notin {"authenticate", "exists", "register", "task"}, Fits(s)
      PROVE  AS!SessionIInv' /\ AS!ClientIsToldTheTruth
  <2>1. Agree(s1', s2')
    BY <1>1, <1>2 DEF AS!ClientStep
  <2>2. s7'[c] = s /\ DOMAIN s7' = Clients /\ \A d \in Clients : d # c => s7'[d] = s7[d]
    BY <1>1, <1>2 DEF Read
  <2>3. Read(s7')
    BY <1>1, <1>2, <2>2 DEF Read
  <2>4. AS!ClientIsToldTheTruth
    BY <1>2, <2>2 DEF AS!ClientIsToldTheTruth
  <2> QED BY <2>1, <2>3, <2>4, SessionInvIs
<1>3. ASSUME NEW c \in Clients, AS!ReadCredentials(c)
      PROVE  AS!SessionIInv' /\ AS!ClientIsToldTheTruth
  <2>1. PICK u \in Users, p \in Passwords :
           s7' = [s7 EXCEPT ![c] = AS!At("authenticate", AS!Failed, FALSE, u, p)]
    BY <1>3 DEF AS!ReadCredentials
  <2>2. Fits(AS!At("authenticate", AS!Failed, FALSE, u, p))
    BY PlaceFits
  <2>3. AS!ClientStep /\ s7[c].at = "start"
    BY <1>3 DEF AS!ReadCredentials
  <2> QED BY <1>2, <2>1, <2>2, <2>3
<1>4. ASSUME NEW c \in Clients, AS!shouldCreateNewAccount(c)
      PROVE  AS!SessionIInv' /\ AS!ClientIsToldTheTruth
  <2>1. PICK yes \in BOOLEAN :
           s7' = [s7 EXCEPT ![c] = AS!Moved(s7[c], IF yes THEN "register" ELSE "not logged in")]
    BY <1>4 DEF AS!shouldCreateNewAccount
  <2>2. PICK place : s7' = [s7 EXCEPT ![c] = AS!Moved(s7[c], place)]
    BY <2>1
  <2>4. AS!ClientStep /\ s7[c].at = "offered"
    BY <1>4 DEF AS!shouldCreateNewAccount
  <2>5. Fits(AS!Moved(s7[c], place))
    BY <1>1, <2>4, PlaceFits DEF Read, Fits, AS!Moved
  <2> QED BY <1>2, <2>2, <2>4, <2>5
<1>5. ASSUME NEW c \in Clients, AS!LoginReturns(c)
      PROVE  AS!SessionIInv' /\ AS!ClientIsToldTheTruth
  <2>1. AS!ClientStep /\ s7[c].at \in {"logged in", "not logged in"}
    BY <1>5 DEF AS!LoginReturns
  <2>2. s7[c].user \in Users /\ s7[c].password \in Passwords
    BY <1>1, <2>1 DEF Read, Fits
  <2>3. PICK s : s7' = [s7 EXCEPT ![c] = s] /\ Fits(s)
    <3> DEFINE s == AS!At("task", AS!Failed, s7[c].at = "logged in", s7[c].user, s7[c].password)
    <3>1. Fits(s)
      BY <2>2, PlaceFits
    <3>2. s7' = [s7 EXCEPT ![c] = s]
      BY <1>5 DEF AS!LoginReturns
    <3> HIDE DEF s
    <3> QED BY <3>1, <3>2
  <2> QED BY <1>2, <2>1, <2>3
<1>6. ASSUME NEW c \in Clients, AS!RunAgain(c)
      PROVE  AS!SessionIInv' /\ AS!ClientIsToldTheTruth
  <2>1. s7' = [s7 EXCEPT ![c] = AS!Started] /\ AS!ClientStep
        /\ s7[c].at \in {"done", "thrown"}
    BY <1>6 DEF AS!RunAgain
  <2>2. Fits(AS!Started)
    BY PlaceFits DEF AS!Started
  <2> QED BY <1>2, <2>1, <2>2
<1>7. ASSUME AS!Minute \/ AS!Restart, s7' = s7
      PROVE  AS!SessionIInv' /\ AS!ClientIsToldTheTruth
  <2>1. AS!ClientIsToldTheTruth
    BY <1>7 DEF AS!ClientIsToldTheTruth
  <2> QED BY <1>1, <1>7, <2>1, MinuteAgrees, RestartAgrees, SessionInvIs
<1> QED BY <1>3, <1>4, <1>5, <1>6, <1>7, CallKeeps DEF AS!SessionNext

-----------------------------------------------------------------------------
(* The services together *)
StepIInv ==
    /\ TaskIInv
    /\ service = "ids" => SF!IInv
    /\ service = "session" => AS!SessionIInv

LEMMA StepInit == Init => StepIInv
  BY TaskInit, SnowflakeInit, SessionStarts DEF Init, StepIInv

LEMMA StepStutter == StepIInv /\ UNCHANGED vars => StepIInv'
<1> SUFFICES ASSUME StepIInv, UNCHANGED vars PROVE StepIInv'
  OBVIOUS
<1>1. /\ service' = service /\ s1' = s1 /\ s2' = s2 /\ s3' = s3 /\ s4' = s4
      /\ s5' = s5 /\ s6' = s6 /\ s7' = s7
  BY DEF vars, From5, From6, From7, From8, From9, From10, From11
<1>2. SF!IInv' <=> SF!IInv
  BY <1>1 DEF SF!IInv, SF!Composed, SF!Passed
<1>3. AS!SessionIInv' <=> AS!SessionIInv
  BY <1>1, SessionInvIs
<1> QED BY <1>1, <1>2, <1>3, TaskStutter DEF StepIInv

LEMMA StepNext == StepIInv /\ [Next]_vars => StepIInv'
<1> SUFFICES ASSUME StepIInv, [Next]_vars PROVE StepIInv'
  OBVIOUS
<1>1. TaskIInv'
  BY TaskNext DEF StepIInv
<1>2. CASE Snowflake
  BY <1>1, <1>2, SnowflakeNext DEF Snowflake, StepIInv
<1>3. CASE Session
  BY <1>1, <1>3, SessionGoesOn DEF Session, StepIInv
<1>4. CASE \/ Scheduler \/ Delayed \/ Periodic \/ HashMap \/ Cache \/ Provider
           \/ Lru \/ Lfu \/ HashRing \/ EventBus \/ Middleware \/ Connectivity \/ Watcher
  BY <1>1, <1>4
  DEF Scheduler, Delayed, Periodic, HashMap, Cache, Provider, EventBus, Middleware,
      Lru, Lfu, HashRing, Connectivity, Watcher, StepIInv
<1>5. CASE UNCHANGED vars
  BY <1>5, StepStutter
<1> QED BY <1>2, <1>3, <1>4, <1>5 DEF Next

(* What no step does, for any number of tasks, threads, nodes and clients:  *)
(* start a task that cancel answered for or one that ran (TaskScheduler),   *)
(* add a chain outside start (PeriodicActuator), return an id again, with   *)
(* the clock set back and the sequence wrapped (SnowflakeGenerator), or     *)
(* tell a client what the table does not say, with statements, requests and *)
(* answers lost (AuthRpcClient and AuthRpcServiceImpl).                     *)
THEOREM StepsKeepTheRules == Spec => StepsAreSafe
<1>1. Spec => []StepIInv
  BY StepInit, StepNext, PTL DEF Spec
<1> DEFINE Safe == /\ service = "scheduler" => TS!StartsAreAllowed
                   /\ service = "periodic" => AK!ChainsDoNotMultiply
                   /\ service = "ids" => SF!IdsAreUnique
                   /\ service = "session" => AS!ClientIsToldTheTruth
<1>2. StepIInv /\ [Next]_vars => [Safe]_vars
  <2> SUFFICES ASSUME StepIInv, Next PROVE Safe
    OBVIOUS
  <2>1. service = "scheduler" => TS!Next /\ TS!IInv
    BY DEF Next, Scheduler, Delayed, Periodic, HashMap, Cache, Provider, EventBus, Middleware,
       Lru, Lfu, HashRing, Snowflake, Connectivity, Watcher, Session, StepIInv, TaskIInv
  <2>2. service = "periodic" => AK!PeriodicActuator_Next /\ AK!PeriodicActuator_IInv
    BY DEF Next, Scheduler, Delayed, Periodic, HashMap, Cache, Provider, EventBus, Middleware,
       Lru, Lfu, HashRing, Snowflake, Connectivity, Watcher, Session, StepIInv, TaskIInv
  <2>3. service = "ids" => SF!Next /\ SF!IInv
    BY DEF Next, Scheduler, Delayed, Periodic, HashMap, Cache, Provider, EventBus, Middleware,
       Lru, Lfu, HashRing, Snowflake, Connectivity, Watcher, Session, StepIInv
  <2>4. service = "session" => AS!SessionNext /\ AS!SessionIInv
    BY DEF Next, Scheduler, Delayed, Periodic, HashMap, Cache, Provider, EventBus, Middleware,
       Lru, Lfu, HashRing, Snowflake, Connectivity, Watcher, Session, StepIInv
  <2> QED BY <2>1, <2>2, <2>3, <2>4, SchedulerStarts, PeriodicChains, SnowflakeNext, SessionGoesOn
<1> HIDE DEF Safe
<1>3. [][Safe]_vars => StepsAreSafe
  BY PTL DEF Safe, StepsAreSafe
<1> QED BY <1>1, <1>2, <1>3, PTL DEF Spec
=============================================================================
