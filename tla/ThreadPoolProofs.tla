------------------------- MODULE ThreadPoolProofs -------------------------
(***************************************************************************)
(* Proofs about ThreadPool, for any numbers of workers, clients and tasks  *)
(* and any queue size.                                                     *)
(***************************************************************************)
EXTENDS ThreadPool, FiniteSetTheorems, TLAPS

(* The pool never grows: every worker counted is a core thread. *)
OnlyCoreThreads == active = core_thread_count

(* The tasks that shutdown owes were queued when stop_ was set; shutdownNow *)
(* cannot discard them any more, and a worker leaves only when all of them  *)
(* have been taken.                                                         *)
OwedAreTaken ==
    /\ owed # {} => stop
    /\ \A t \in owed : fate[t] \in {"queued", "running", "done"}
    /\ \A w \in Workers : worker[w] = "exited" =>
         /\ stop
         /\ \A t \in owed : fate[t] # "queued"

JoinedMeansExited == joined => \A w \in Workers : worker[w] = "exited"

IInv ==
    /\ TypeOK
    /\ TaskIsInOnePlace
    /\ OnlyCoreThreads
    /\ OwedAreTaken
    /\ JoinedMeansExited

-----------------------------------------------------------------------------
(* What Append and Tail do to a duplicate-free queue. *)

Elems(q) == {q[i] : i \in 1..Len(q)}
NoDup(q) == \A i, j \in 1..Len(q) : q[i] = q[j] => i = j

LEMMA AppendElems ==
    ASSUME NEW S, NEW q \in Seq(S), NEW e \in S
    PROVE  /\ Append(q, e) \in Seq(S)
           /\ Len(Append(q, e)) = Len(q) + 1
           /\ Elems(Append(q, e)) = Elems(q) \cup {e}
           /\ NoDup(q) /\ e \notin Elems(q) => NoDup(Append(q, e))
<1>1. /\ Append(q, e) \in Seq(S)
      /\ Len(Append(q, e)) = Len(q) + 1
      /\ Append(q, e)[Len(q) + 1] = e
      /\ \A i \in 1..Len(q) : Append(q, e)[i] = q[i]
      /\ Len(q) \in Nat
  OBVIOUS
<1>2. \A i \in 1..(Len(q) + 1) : i \in 1..Len(q) \/ i = Len(q) + 1
  BY <1>1
<1>3. 1..Len(q) \subseteq 1..(Len(q) + 1) /\ Len(q) + 1 \in 1..(Len(q) + 1)
  BY <1>1
<1>4. Elems(Append(q, e)) = Elems(q) \cup {e}
  BY <1>1, <1>2, <1>3 DEF Elems
<1>5. NoDup(q) /\ e \notin Elems(q) => NoDup(Append(q, e))
  BY <1>1, <1>2, <1>3 DEF Elems, NoDup
<1> QED BY <1>1, <1>4, <1>5

LEMMA TailElems ==
    ASSUME NEW S, NEW q \in Seq(S), q # <<>>
    PROVE  /\ Tail(q) \in Seq(S)
           /\ Head(q) \in S
           /\ Head(q) \in Elems(q)
           /\ Len(q) \in Nat \ {0}
           /\ Len(Tail(q)) = Len(q) - 1
           /\ NoDup(q) => NoDup(Tail(q)) /\ Elems(Tail(q)) = Elems(q) \ {Head(q)}
<1>1. /\ Tail(q) \in Seq(S)
      /\ Len(q) \in Nat \ {0}
      /\ Len(Tail(q)) = Len(q) - 1
      /\ Head(q) = q[1] /\ q[1] \in S
      /\ \A i \in 1..(Len(q) - 1) : Tail(q)[i] = q[i + 1]
  OBVIOUS
<1>2. \A i \in 1..(Len(q) - 1) : i + 1 \in 1..Len(q) /\ i + 1 # 1
  BY <1>1
<1>3. \A i \in 1..Len(q) : i = 1 \/ (i - 1 \in 1..(Len(q) - 1) /\ i = (i - 1) + 1)
  BY <1>1
<1>4. 1 \in 1..Len(q)
  BY <1>1
<1>5. ASSUME NoDup(q) PROVE NoDup(Tail(q))
  <2> SUFFICES ASSUME NEW i \in 1..(Len(q) - 1), NEW j \in 1..(Len(q) - 1),
                      Tail(q)[i] = Tail(q)[j]
               PROVE  i = j
    BY <1>1 DEF NoDup
  <2>1. q[i + 1] = q[j + 1]
    BY <1>1
  <2>2. i + 1 = j + 1
    BY <2>1, <1>2, <1>5 DEF NoDup
  <2> QED BY <2>2
<1>6. ASSUME NoDup(q) PROVE Elems(Tail(q)) = Elems(q) \ {Head(q)}
  <2>1. ASSUME NEW x \in Elems(Tail(q)) PROVE x \in Elems(q) /\ x # Head(q)
    <3>1. PICK i \in 1..(Len(q) - 1) : x = Tail(q)[i]
      BY <2>1, <1>1 DEF Elems
    <3>2. x = q[i + 1] /\ i + 1 \in 1..Len(q) /\ i + 1 # 1
      BY <3>1, <1>1, <1>2
    <3> QED BY <3>2, <1>1, <1>4, <1>6 DEF Elems, NoDup
  <2>2. ASSUME NEW x \in Elems(q), x # Head(q) PROVE x \in Elems(Tail(q))
    <3>1. PICK i \in 1..Len(q) : x = q[i]
      BY <2>2 DEF Elems
    <3>2. i - 1 \in 1..(Len(q) - 1) /\ x = Tail(q)[i - 1]
      BY <3>1, <1>1, <1>3, <2>2
    <3> QED BY <3>2, <1>1 DEF Elems
  <2> QED BY <2>1, <2>2
<1>7. Head(q) \in Elems(q)
  BY <1>1, <1>4 DEF Elems
<1> QED BY <1>1, <1>5, <1>6, <1>7

LEMMA QueueAsSet == Queued = Elems(queue) /\ (QueueHasNoDuplicate <=> NoDup(queue))
BY DEF Queued, Elems, QueueHasNoDuplicate, NoDup

-----------------------------------------------------------------------------
LEMMA WorkersCounted == core_thread_count \in Nat
BY ThreadPoolAssumption, FS_CardinalityType DEF core_thread_count

LEMMA InitIInv == Init => IInv
<1> SUFFICES ASSUME Init PROVE IInv
  OBVIOUS
<1>1. TypeOK
  <2>1. active \in Nat
    BY WorkersCounted DEF Init
  <2>2. queue \in Seq(Tasks) /\ Len(queue) <= max_queue_size
    BY ThreadPoolAssumption DEF Init
  <2> QED BY <2>1, <2>2 DEF Init, TypeOK
<1>2. TaskIsInOnePlace
  BY ThreadPoolAssumption DEF Init, TaskIsInOnePlace, QueueHasNoDuplicate, QueuedIsInQueue,
     Queued, RunningHasOneWorker, SubmittedHasOneClient
<1>3. OnlyCoreThreads /\ OwedAreTaken /\ JoinedMeansExited
  BY ThreadPoolAssumption DEF Init, OnlyCoreThreads, OwedAreTaken, JoinedMeansExited
<1> QED BY <1>1, <1>2, <1>3 DEF IInv

LEMMA SubmitRejectedIInv ==
    ASSUME IInv, NEW c \in Clients, NEW t \in Tasks, SubmitRejected(c, t)
    PROVE  IInv'
<1>1. TypeOK'
  BY ThreadPoolAssumption DEF IInv, TypeOK, SubmitRejected
<1>2. QueueHasNoDuplicate' /\ Queued' = Queued
  BY DEF IInv, TaskIsInOnePlace, QueueHasNoDuplicate, Queued, SubmitRejected
<1>3. QueuedIsInQueue'
  BY <1>2 DEF IInv, TypeOK, TaskIsInOnePlace, QueuedIsInQueue, SubmitRejected
<1>4. RunningHasOneWorker'
  BY ThreadPoolAssumption DEF IInv, TypeOK, TaskIsInOnePlace, RunningHasOneWorker,
     SubmittedHasOneClient, QueuedIsInQueue, SubmitRejected
<1>5. SubmittedHasOneClient'
  BY ThreadPoolAssumption DEF IInv, TypeOK, TaskIsInOnePlace, SubmittedHasOneClient,
     RunningHasOneWorker, QueuedIsInQueue, SubmitRejected
<1>6. OnlyCoreThreads' /\ JoinedMeansExited'
  BY ThreadPoolAssumption DEF IInv, TypeOK, OnlyCoreThreads, JoinedMeansExited,
     core_thread_count, SubmitRejected
<1>7. OwedAreTaken'
  BY ThreadPoolAssumption DEF IInv, TypeOK, TaskIsInOnePlace, QueuedIsInQueue,
     RunningHasOneWorker, SubmittedHasOneClient, OwedAreTaken, SubmitRejected
<1> QED BY <1>1, <1>2, <1>3, <1>4, <1>5, <1>6, <1>7 DEF IInv, TaskIsInOnePlace

LEMMA SubmitBeginIInv ==
    ASSUME IInv, NEW c \in Clients, NEW t \in Tasks, SubmitBegin(c, t)
    PROVE  IInv'
<1>1. TypeOK'
  BY ThreadPoolAssumption DEF IInv, TypeOK, SubmitBegin
<1>2. QueueHasNoDuplicate' /\ Queued' = Queued
  BY DEF IInv, TaskIsInOnePlace, QueueHasNoDuplicate, Queued, SubmitBegin
<1>3. QueuedIsInQueue'
  BY <1>2 DEF IInv, TypeOK, TaskIsInOnePlace, QueuedIsInQueue, SubmitBegin
<1>4. RunningHasOneWorker'
  BY ThreadPoolAssumption DEF IInv, TypeOK, TaskIsInOnePlace, RunningHasOneWorker,
     SubmittedHasOneClient, QueuedIsInQueue, SubmitBegin
<1>5. SubmittedHasOneClient'
  BY ThreadPoolAssumption DEF IInv, TypeOK, TaskIsInOnePlace, SubmittedHasOneClient,
     RunningHasOneWorker, QueuedIsInQueue, SubmitBegin
<1>6. OnlyCoreThreads' /\ JoinedMeansExited'
  BY ThreadPoolAssumption DEF IInv, TypeOK, OnlyCoreThreads, JoinedMeansExited,
     core_thread_count, SubmitBegin
<1>7. OwedAreTaken'
  BY ThreadPoolAssumption DEF IInv, TypeOK, TaskIsInOnePlace, QueuedIsInQueue,
     RunningHasOneWorker, SubmittedHasOneClient, OwedAreTaken, SubmitBegin
<1> QED BY <1>1, <1>2, <1>3, <1>4, <1>5, <1>6, <1>7 DEF IInv, TaskIsInOnePlace

LEMMA SubmitFullIInv ==
    ASSUME IInv, NEW c \in Clients, SubmitFull(c)
    PROVE  IInv'
<1>1. TypeOK'
  BY ThreadPoolAssumption DEF IInv, TypeOK, SubmitFull
<1>2. QueueHasNoDuplicate' /\ Queued' = Queued
  BY DEF IInv, TaskIsInOnePlace, QueueHasNoDuplicate, Queued, SubmitFull
<1>3. QueuedIsInQueue'
  BY <1>2 DEF IInv, TypeOK, TaskIsInOnePlace, QueuedIsInQueue, RunningHasOneWorker, SubmittedHasOneClient, SubmitFull
<1>4. RunningHasOneWorker'
  BY ThreadPoolAssumption DEF IInv, TypeOK, TaskIsInOnePlace, RunningHasOneWorker,
     SubmittedHasOneClient, QueuedIsInQueue, SubmitFull
<1>5. SubmittedHasOneClient'
  BY ThreadPoolAssumption DEF IInv, TypeOK, TaskIsInOnePlace, SubmittedHasOneClient,
     RunningHasOneWorker, QueuedIsInQueue, SubmitFull
<1>6. OnlyCoreThreads' /\ JoinedMeansExited'
  BY ThreadPoolAssumption DEF IInv, TypeOK, OnlyCoreThreads, JoinedMeansExited,
     core_thread_count, SubmitFull
<1>7. OwedAreTaken'
  BY ThreadPoolAssumption DEF IInv, TypeOK, TaskIsInOnePlace, QueuedIsInQueue,
     RunningHasOneWorker, SubmittedHasOneClient, OwedAreTaken, SubmitFull
<1> QED BY <1>1, <1>2, <1>3, <1>4, <1>5, <1>6, <1>7 DEF IInv, TaskIsInOnePlace

LEMMA SubmitPushIInv ==
    ASSUME IInv, NEW c \in Clients, SubmitPush(c)
    PROVE  IInv'
<1>0. /\ arg[c] \in Tasks /\ fate[arg[c]] = "submitted"
      /\ queue' \in Seq(Tasks) /\ Len(queue') = Len(queue) + 1
      /\ Queued' = Queued \cup {arg[c]}
      /\ QueueHasNoDuplicate'
      /\ Len(queue) < max_queue_size /\ Len(queue) \in Nat
  <2>1. arg[c] \in Tasks /\ fate[arg[c]] = "submitted"
    BY DEF IInv, TaskIsInOnePlace, SubmittedHasOneClient, SubmitPush
  <2>2. arg[c] \notin Queued
    BY <2>1 DEF IInv, TaskIsInOnePlace, QueuedIsInQueue
  <2>3. queue \in Seq(Tasks) /\ Len(queue) \in Nat /\ Len(queue) < max_queue_size
    BY ThreadPoolAssumption DEF IInv, TypeOK, SubmitPush, QueueFull
  <2>4. queue' = Append(queue, arg[c])
    BY DEF SubmitPush
  <2>5. Queued' = Elems(queue') /\ (QueueHasNoDuplicate' <=> NoDup(queue'))
    BY DEF Queued, Elems, QueueHasNoDuplicate, NoDup
  <2>6. QueueHasNoDuplicate
    BY DEF IInv, TaskIsInOnePlace
  <2> QED BY <2>1, <2>2, <2>3, <2>4, <2>5, <2>6, AppendElems, QueueAsSet
<1>1. TypeOK'
  BY <1>0, ThreadPoolAssumption DEF IInv, TypeOK, SubmitPush
<1>2. QueueHasNoDuplicate'
  BY <1>0
<1>3. QueuedIsInQueue'
  BY <1>0, ThreadPoolAssumption DEF IInv, TypeOK, TaskIsInOnePlace, QueuedIsInQueue, SubmitPush
<1>4. RunningHasOneWorker'
  BY <1>0, ThreadPoolAssumption DEF IInv, TypeOK, TaskIsInOnePlace, RunningHasOneWorker,
     SubmittedHasOneClient, QueuedIsInQueue, SubmitPush
<1>5. SubmittedHasOneClient'
  BY <1>0, ThreadPoolAssumption DEF IInv, TypeOK, TaskIsInOnePlace, SubmittedHasOneClient,
     RunningHasOneWorker, QueuedIsInQueue, SubmitPush
<1>6. OnlyCoreThreads' /\ JoinedMeansExited'
  BY <1>0, ThreadPoolAssumption DEF IInv, TypeOK, OnlyCoreThreads, JoinedMeansExited,
     core_thread_count, SubmitPush
<1>7. OwedAreTaken'
  BY <1>0, ThreadPoolAssumption DEF IInv, TypeOK, TaskIsInOnePlace, QueuedIsInQueue,
     RunningHasOneWorker, SubmittedHasOneClient, OwedAreTaken, SubmitPush
<1> QED BY <1>1, <1>2, <1>3, <1>4, <1>5, <1>6, <1>7 DEF IInv, TaskIsInOnePlace

LEMMA SubmitNotifyIInv ==
    ASSUME IInv, NEW c \in Clients, SubmitNotify(c)
    PROVE  IInv'
<1>1. TypeOK'
  BY ThreadPoolAssumption DEF IInv, TypeOK, SubmitNotify
<1>2. QueueHasNoDuplicate' /\ Queued' = Queued
  BY DEF IInv, TaskIsInOnePlace, QueueHasNoDuplicate, Queued, SubmitNotify
<1>3. QueuedIsInQueue'
  BY <1>2 DEF IInv, TypeOK, TaskIsInOnePlace, QueuedIsInQueue, SubmitNotify
<1>4. RunningHasOneWorker'
  BY ThreadPoolAssumption DEF IInv, TypeOK, TaskIsInOnePlace, RunningHasOneWorker,
     SubmittedHasOneClient, QueuedIsInQueue, SubmitNotify
<1>5. SubmittedHasOneClient'
  BY ThreadPoolAssumption DEF IInv, TypeOK, TaskIsInOnePlace, SubmittedHasOneClient,
     RunningHasOneWorker, QueuedIsInQueue, SubmitNotify
<1>6. OnlyCoreThreads' /\ JoinedMeansExited'
  BY ThreadPoolAssumption DEF IInv, TypeOK, OnlyCoreThreads, JoinedMeansExited,
     core_thread_count, SubmitNotify
<1>7. OwedAreTaken'
  BY ThreadPoolAssumption DEF IInv, TypeOK, TaskIsInOnePlace, QueuedIsInQueue,
     RunningHasOneWorker, SubmittedHasOneClient, OwedAreTaken, SubmitNotify
<1> QED BY <1>1, <1>2, <1>3, <1>4, <1>5, <1>6, <1>7 DEF IInv, TaskIsInOnePlace

LEMMA ShutdownIInv ==
    ASSUME IInv, NEW c \in Clients, shutdown(c)
    PROVE  IInv'
<1>0. Queued \subseteq Tasks
  BY DEF IInv, TypeOK, Queued
<1>1. TypeOK'
  BY <1>0, ThreadPoolAssumption DEF IInv, TypeOK, shutdown
<1>2. QueueHasNoDuplicate' /\ Queued' = Queued
  BY DEF IInv, TaskIsInOnePlace, QueueHasNoDuplicate, Queued, shutdown
<1>3. QueuedIsInQueue'
  BY <1>2 DEF IInv, TypeOK, TaskIsInOnePlace, QueuedIsInQueue, shutdown
<1>4. RunningHasOneWorker'
  BY <1>0, ThreadPoolAssumption DEF IInv, TypeOK, TaskIsInOnePlace, RunningHasOneWorker,
     SubmittedHasOneClient, QueuedIsInQueue, shutdown
<1>5. SubmittedHasOneClient'
  BY <1>0, ThreadPoolAssumption DEF IInv, TypeOK, TaskIsInOnePlace, SubmittedHasOneClient,
     RunningHasOneWorker, QueuedIsInQueue, shutdown
<1>6. OnlyCoreThreads' /\ JoinedMeansExited'
  BY <1>0, ThreadPoolAssumption DEF IInv, TypeOK, OnlyCoreThreads, JoinedMeansExited,
     core_thread_count, shutdown
<1>7. OwedAreTaken'
  BY <1>0, ThreadPoolAssumption DEF IInv, TypeOK, TaskIsInOnePlace, QueuedIsInQueue,
     RunningHasOneWorker, SubmittedHasOneClient, OwedAreTaken, shutdown
<1> QED BY <1>1, <1>2, <1>3, <1>4, <1>5, <1>6, <1>7 DEF IInv, TaskIsInOnePlace

LEMMA ShutdownNowIInv ==
    ASSUME IInv, NEW c \in Clients, shutdownNow(c)
    PROVE  IInv'
<1>0. Queued' = {} /\ QueueHasNoDuplicate' /\ queue' \in Seq(Tasks) /\ Len(queue') = 0
  BY DEF shutdownNow, Queued, QueueHasNoDuplicate
<1>1. TypeOK'
  BY <1>0, ThreadPoolAssumption DEF IInv, TypeOK, shutdownNow
<1>2. QueueHasNoDuplicate'
  BY <1>0
<1>3. QueuedIsInQueue'
  BY <1>0, ThreadPoolAssumption DEF IInv, TypeOK, TaskIsInOnePlace, QueuedIsInQueue, shutdownNow
<1>4. RunningHasOneWorker'
  BY <1>0, ThreadPoolAssumption DEF IInv, TypeOK, TaskIsInOnePlace, RunningHasOneWorker,
     SubmittedHasOneClient, QueuedIsInQueue, shutdownNow
<1>5. SubmittedHasOneClient'
  BY <1>0, ThreadPoolAssumption DEF IInv, TypeOK, TaskIsInOnePlace, SubmittedHasOneClient,
     RunningHasOneWorker, QueuedIsInQueue, shutdownNow
<1>6. OnlyCoreThreads' /\ JoinedMeansExited'
  BY <1>0, ThreadPoolAssumption DEF IInv, TypeOK, OnlyCoreThreads, JoinedMeansExited,
     core_thread_count, shutdownNow
<1>7. OwedAreTaken'
  BY <1>0, ThreadPoolAssumption DEF IInv, TypeOK, TaskIsInOnePlace, QueuedIsInQueue,
     RunningHasOneWorker, SubmittedHasOneClient, OwedAreTaken, shutdownNow
<1> QED BY <1>1, <1>2, <1>3, <1>4, <1>5, <1>6, <1>7 DEF IInv, TaskIsInOnePlace

LEMMA NotifyAllIInv ==
    ASSUME IInv, NEW c \in Clients, NotifyAll(c)
    PROVE  IInv'
<1>1. TypeOK'
  BY ThreadPoolAssumption DEF IInv, TypeOK, NotifyAll
<1>2. QueueHasNoDuplicate' /\ Queued' = Queued
  BY DEF IInv, TaskIsInOnePlace, QueueHasNoDuplicate, Queued, NotifyAll
<1>3. QueuedIsInQueue'
  BY <1>2 DEF IInv, TypeOK, TaskIsInOnePlace, QueuedIsInQueue, NotifyAll
<1>4. RunningHasOneWorker'
  BY ThreadPoolAssumption DEF IInv, TypeOK, TaskIsInOnePlace, RunningHasOneWorker,
     SubmittedHasOneClient, QueuedIsInQueue, NotifyAll
<1>5. SubmittedHasOneClient'
  BY ThreadPoolAssumption DEF IInv, TypeOK, TaskIsInOnePlace, SubmittedHasOneClient,
     RunningHasOneWorker, QueuedIsInQueue, NotifyAll
<1>6. OnlyCoreThreads' /\ JoinedMeansExited'
  BY ThreadPoolAssumption DEF IInv, TypeOK, OnlyCoreThreads, JoinedMeansExited,
     core_thread_count, NotifyAll
<1>7. OwedAreTaken'
  BY ThreadPoolAssumption DEF IInv, TypeOK, TaskIsInOnePlace, QueuedIsInQueue,
     RunningHasOneWorker, SubmittedHasOneClient, OwedAreTaken, NotifyAll
<1> QED BY <1>1, <1>2, <1>3, <1>4, <1>5, <1>6, <1>7 DEF IInv, TaskIsInOnePlace

LEMMA JoinIInv ==
    ASSUME IInv, NEW c \in Clients, Join(c)
    PROVE  IInv'
<1>1. TypeOK'
  BY ThreadPoolAssumption DEF IInv, TypeOK, Join, AllJoined
<1>2. QueueHasNoDuplicate' /\ Queued' = Queued
  BY DEF IInv, TaskIsInOnePlace, QueueHasNoDuplicate, Queued, Join, AllJoined
<1>3. QueuedIsInQueue'
  BY <1>2 DEF IInv, TypeOK, TaskIsInOnePlace, QueuedIsInQueue, Join, AllJoined
<1>4. RunningHasOneWorker'
  BY ThreadPoolAssumption DEF IInv, TypeOK, TaskIsInOnePlace, RunningHasOneWorker,
     SubmittedHasOneClient, QueuedIsInQueue, Join, AllJoined
<1>5. SubmittedHasOneClient'
  BY ThreadPoolAssumption DEF IInv, TypeOK, TaskIsInOnePlace, SubmittedHasOneClient,
     RunningHasOneWorker, QueuedIsInQueue, Join, AllJoined
<1>6. OnlyCoreThreads' /\ JoinedMeansExited'
  BY ThreadPoolAssumption DEF IInv, TypeOK, OnlyCoreThreads, JoinedMeansExited,
     core_thread_count, Join, AllJoined
<1>7. OwedAreTaken'
  BY ThreadPoolAssumption DEF IInv, TypeOK, TaskIsInOnePlace, QueuedIsInQueue,
     RunningHasOneWorker, SubmittedHasOneClient, OwedAreTaken, Join, AllJoined
<1> QED BY <1>1, <1>2, <1>3, <1>4, <1>5, <1>6, <1>7 DEF IInv, TaskIsInOnePlace

LEMMA WaitIInv ==
    ASSUME IInv, NEW w \in Workers, Wait(w)
    PROVE  IInv'
<1>1. TypeOK'
  BY ThreadPoolAssumption DEF IInv, TypeOK, Wait
<1>2. QueueHasNoDuplicate' /\ Queued' = Queued
  BY DEF IInv, TaskIsInOnePlace, QueueHasNoDuplicate, Queued, Wait
<1>3. QueuedIsInQueue'
  BY <1>2 DEF IInv, TypeOK, TaskIsInOnePlace, QueuedIsInQueue, Wait
<1>4. RunningHasOneWorker'
  BY ThreadPoolAssumption DEF IInv, TypeOK, TaskIsInOnePlace, RunningHasOneWorker,
     SubmittedHasOneClient, QueuedIsInQueue, Wait
<1>5. SubmittedHasOneClient'
  BY ThreadPoolAssumption DEF IInv, TypeOK, TaskIsInOnePlace, SubmittedHasOneClient,
     RunningHasOneWorker, QueuedIsInQueue, Wait
<1>6. OnlyCoreThreads' /\ JoinedMeansExited'
  BY ThreadPoolAssumption DEF IInv, TypeOK, OnlyCoreThreads, JoinedMeansExited,
     core_thread_count, Wait
<1>7. OwedAreTaken'
  BY ThreadPoolAssumption DEF IInv, TypeOK, TaskIsInOnePlace, QueuedIsInQueue,
     RunningHasOneWorker, SubmittedHasOneClient, OwedAreTaken, Wait
<1> QED BY <1>1, <1>2, <1>3, <1>4, <1>5, <1>6, <1>7 DEF IInv, TaskIsInOnePlace

LEMMA TimeOutIInv ==
    ASSUME IInv, NEW w \in Workers, TimeOut(w)
    PROVE  IInv'
<1>0. ~ Surplus
  BY WorkersCounted DEF IInv, OnlyCoreThreads, Surplus
<1>1. TypeOK'
  BY <1>0, ThreadPoolAssumption DEF IInv, TypeOK, TimeOut
<1>2. QueueHasNoDuplicate' /\ Queued' = Queued
  BY DEF IInv, TaskIsInOnePlace, QueueHasNoDuplicate, Queued, TimeOut
<1>3. QueuedIsInQueue'
  BY <1>2 DEF IInv, TypeOK, TaskIsInOnePlace, QueuedIsInQueue, TimeOut
<1>4. RunningHasOneWorker'
  BY <1>0, ThreadPoolAssumption DEF IInv, TypeOK, TaskIsInOnePlace, RunningHasOneWorker,
     SubmittedHasOneClient, QueuedIsInQueue, TimeOut
<1>5. SubmittedHasOneClient'
  BY <1>0, ThreadPoolAssumption DEF IInv, TypeOK, TaskIsInOnePlace, SubmittedHasOneClient,
     RunningHasOneWorker, QueuedIsInQueue, TimeOut
<1>6. OnlyCoreThreads' /\ JoinedMeansExited'
  BY <1>0, ThreadPoolAssumption DEF IInv, TypeOK, OnlyCoreThreads, JoinedMeansExited,
     core_thread_count, TimeOut
<1>7. OwedAreTaken'
  BY <1>0, ThreadPoolAssumption DEF IInv, TypeOK, TaskIsInOnePlace, QueuedIsInQueue,
     RunningHasOneWorker, SubmittedHasOneClient, OwedAreTaken, TimeOut
<1> QED BY <1>1, <1>2, <1>3, <1>4, <1>5, <1>6, <1>7 DEF IInv, TaskIsInOnePlace

LEMMA ExitIInv ==
    ASSUME IInv, NEW w \in Workers, Exit(w)
    PROVE  IInv'
<1>0. Queued = {}
  BY DEF Exit, MayExit, Queued
<1>1. TypeOK'
  BY <1>0, ThreadPoolAssumption DEF IInv, TypeOK, Exit, MayExit
<1>2. QueueHasNoDuplicate' /\ Queued' = Queued
  BY DEF IInv, TaskIsInOnePlace, QueueHasNoDuplicate, Queued, Exit, MayExit
<1>3. QueuedIsInQueue'
  BY <1>2 DEF IInv, TypeOK, TaskIsInOnePlace, QueuedIsInQueue, Exit, MayExit
<1>4. RunningHasOneWorker'
  BY <1>0, ThreadPoolAssumption DEF IInv, TypeOK, TaskIsInOnePlace, RunningHasOneWorker,
     SubmittedHasOneClient, QueuedIsInQueue, Exit, MayExit
<1>5. SubmittedHasOneClient'
  BY <1>0, ThreadPoolAssumption DEF IInv, TypeOK, TaskIsInOnePlace, SubmittedHasOneClient,
     RunningHasOneWorker, QueuedIsInQueue, Exit, MayExit
<1>6. OnlyCoreThreads' /\ JoinedMeansExited'
  BY <1>0, ThreadPoolAssumption DEF IInv, TypeOK, OnlyCoreThreads, JoinedMeansExited,
     core_thread_count, Exit, MayExit
<1>7. OwedAreTaken'
  BY <1>0, ThreadPoolAssumption DEF IInv, TypeOK, TaskIsInOnePlace, QueuedIsInQueue,
     RunningHasOneWorker, SubmittedHasOneClient, OwedAreTaken, Exit, MayExit
<1> QED BY <1>1, <1>2, <1>3, <1>4, <1>5, <1>6, <1>7 DEF IInv, TaskIsInOnePlace

LEMMA TakeIInv ==
    ASSUME IInv, NEW w \in Workers, Take(w)
    PROVE  IInv'
<1>0. /\ Head(queue) \in Tasks /\ fate[Head(queue)] = "queued"
      /\ queue' \in Seq(Tasks) /\ Len(queue') \in Nat /\ Len(queue') <= Len(queue)
      /\ Queued' = Queued \ {Head(queue)}
      /\ QueueHasNoDuplicate'
      /\ Len(queue) \in Nat
  <2>1. queue \in Seq(Tasks) /\ queue # <<>> /\ queue' = Tail(queue)
    BY DEF IInv, TypeOK, Take
  <2>2. Queued' = Elems(queue') /\ (QueueHasNoDuplicate' <=> NoDup(queue'))
    BY DEF Queued, Elems, QueueHasNoDuplicate, NoDup
  <2>3. QueueHasNoDuplicate /\ QueuedIsInQueue
    BY DEF IInv, TaskIsInOnePlace
  <2>4. Head(queue) \in Tasks /\ Head(queue) \in Queued
    BY <2>1, TailElems, QueueAsSet
  <2>5. fate[Head(queue)] = "queued"
    BY <2>3, <2>4 DEF QueuedIsInQueue
  <2> QED BY <2>1, <2>2, <2>3, <2>4, <2>5, TailElems, QueueAsSet
<1>1. TypeOK'
  BY <1>0, ThreadPoolAssumption DEF IInv, TypeOK, Take
<1>2. QueueHasNoDuplicate'
  BY <1>0
<1>3. QueuedIsInQueue'
  BY <1>0, ThreadPoolAssumption DEF IInv, TypeOK, TaskIsInOnePlace, QueuedIsInQueue, Take
<1>4. RunningHasOneWorker'
  BY <1>0, ThreadPoolAssumption DEF IInv, TypeOK, TaskIsInOnePlace, RunningHasOneWorker,
     SubmittedHasOneClient, QueuedIsInQueue, Take
<1>5. SubmittedHasOneClient'
  BY <1>0, ThreadPoolAssumption DEF IInv, TypeOK, TaskIsInOnePlace, SubmittedHasOneClient,
     RunningHasOneWorker, QueuedIsInQueue, Take
<1>6. OnlyCoreThreads' /\ JoinedMeansExited'
  BY <1>0, ThreadPoolAssumption DEF IInv, TypeOK, OnlyCoreThreads, JoinedMeansExited,
     core_thread_count, Take
<1>7. OwedAreTaken'
  BY <1>0, ThreadPoolAssumption DEF IInv, TypeOK, TaskIsInOnePlace, QueuedIsInQueue,
     RunningHasOneWorker, SubmittedHasOneClient, OwedAreTaken, Take
<1> QED BY <1>1, <1>2, <1>3, <1>4, <1>5, <1>6, <1>7 DEF IInv, TaskIsInOnePlace

LEMMA FinishIInv ==
    ASSUME IInv, NEW w \in Workers, Finish(w)
    PROVE  IInv'
<1>1. TypeOK'
  BY ThreadPoolAssumption DEF IInv, TypeOK, Finish
<1>2. QueueHasNoDuplicate' /\ Queued' = Queued
  BY DEF IInv, TaskIsInOnePlace, QueueHasNoDuplicate, Queued, Finish
<1>3. QueuedIsInQueue'
  BY <1>2 DEF IInv, TypeOK, TaskIsInOnePlace, QueuedIsInQueue, RunningHasOneWorker, SubmittedHasOneClient, Finish
<1>4. RunningHasOneWorker'
  BY ThreadPoolAssumption DEF IInv, TypeOK, TaskIsInOnePlace, RunningHasOneWorker,
     SubmittedHasOneClient, QueuedIsInQueue, Finish
<1>5. SubmittedHasOneClient'
  BY ThreadPoolAssumption DEF IInv, TypeOK, TaskIsInOnePlace, SubmittedHasOneClient,
     RunningHasOneWorker, QueuedIsInQueue, Finish
<1>6. OnlyCoreThreads' /\ JoinedMeansExited'
  BY ThreadPoolAssumption DEF IInv, TypeOK, OnlyCoreThreads, JoinedMeansExited,
     core_thread_count, Finish
<1>7. OwedAreTaken'
  BY ThreadPoolAssumption DEF IInv, TypeOK, TaskIsInOnePlace, QueuedIsInQueue,
     RunningHasOneWorker, SubmittedHasOneClient, OwedAreTaken, Finish
<1> QED BY <1>1, <1>2, <1>3, <1>4, <1>5, <1>6, <1>7 DEF IInv, TaskIsInOnePlace

LEMMA StutterIInv ==
    ASSUME IInv, UNCHANGED vars
    PROVE  IInv'
<1>1. TypeOK'
  BY DEF IInv, TypeOK, vars
<1>2. QueueHasNoDuplicate' /\ Queued' = Queued
  BY DEF IInv, TaskIsInOnePlace, QueueHasNoDuplicate, Queued, vars
<1>3. QueuedIsInQueue'
  BY <1>2 DEF IInv, TaskIsInOnePlace, QueuedIsInQueue, vars
<1>4. RunningHasOneWorker' /\ SubmittedHasOneClient'
  BY DEF IInv, TaskIsInOnePlace, RunningHasOneWorker, SubmittedHasOneClient, vars
<1>5. OnlyCoreThreads' /\ OwedAreTaken' /\ JoinedMeansExited'
  BY DEF IInv, OnlyCoreThreads, OwedAreTaken, JoinedMeansExited, core_thread_count, vars
<1> QED BY <1>1, <1>2, <1>3, <1>4, <1>5 DEF IInv, TaskIsInOnePlace

LEMMA NextIInv == IInv /\ [Next]_vars => IInv'
<1> SUFFICES ASSUME IInv, [Next]_vars PROVE IInv'
  OBVIOUS
<1>1. CASE \E c \in Clients, t \in Tasks : SubmitRejected(c, t) \/ SubmitBegin(c, t)
  BY <1>1, SubmitRejectedIInv, SubmitBeginIInv
<1>2. CASE \E c \in Clients : SubmitStep(c)
  BY <1>2, SubmitFullIInv, SubmitPushIInv, SubmitNotifyIInv DEF SubmitStep
<1>3. CASE \E c \in Clients : shutdown(c) \/ shutdownNow(c)
  BY <1>3, ShutdownIInv, ShutdownNowIInv
<1>4. CASE \E c \in Clients : ShutdownStep(c)
  BY <1>4, NotifyAllIInv, JoinIInv DEF ShutdownStep
<1>5. CASE \E w \in Workers : WorkerStep(w)
  BY <1>5, WaitIInv, TimeOutIInv, ExitIInv, TakeIInv, FinishIInv DEF WorkerStep
<1>6. CASE UNCHANGED vars
  BY <1>6, StutterIInv
<1> QED BY <1>1, <1>2, <1>3, <1>4, <1>5, <1>6 DEF Next

LEMMA Invariance == Spec => []IInv
<1>1. Init => IInv
  BY InitIInv
<1>2. IInv /\ [Next]_vars => IInv'
  BY NextIInv
<1> QED BY <1>1, <1>2, PTL DEF Spec

(* Type correctness: in particular the queue never exceeds max_queue_size_, *)
(* whoever races submit at the last free place.                             *)
THEOREM TypeCorrect == Spec => []TypeOK
<1>1. IInv => TypeOK
  BY DEF IInv
<1> QED BY <1>1, Invariance, PTL

(* submit, the workers and shutdownNow never lose a task between them, run  *)
(* one twice or run one that was rejected or discarded.                     *)
THEOREM TasksAreInOnePlace == Spec => []TaskIsInOnePlace
<1>1. IInv => TaskIsInOnePlace
  BY DEF IInv
<1> QED BY <1>1, Invariance, PTL

(* The shutdown that set stop_ returns only when everything queued at that  *)
(* moment has been executed to the end and all workers have left.           *)
THEOREM ShutdownIsGraceful == Spec => []ShutdownCompletesPending
<1>1. IInv => ShutdownCompletesPending
  <2> SUFFICES ASSUME IInv, joined PROVE ShutdownCompletesPending
    BY DEF ShutdownCompletesPending
  <2>1. \A w \in Workers : worker[w] = "exited"
    BY DEF IInv, JoinedMeansExited
  <2>2. PICK w \in Workers : worker[w] = "exited"
    BY <2>1, ThreadPoolAssumption
  <2>3. \A t \in owed : fate[t] # "queued"
    BY <2>2 DEF IInv, OwedAreTaken
  <2>4. \A t \in Tasks : fate[t] # "running"
    BY <2>1 DEF IInv, TaskIsInOnePlace, RunningHasOneWorker
  <2>5. \A t \in owed : t \in Tasks /\ fate[t] \in {"queued", "running", "done"}
    BY DEF IInv, TypeOK, OwedAreTaken
  <2> QED BY <2>1, <2>3, <2>4, <2>5 DEF ShutdownCompletesPending
<1> QED BY <1>1, Invariance, PTL

-----------------------------------------------------------------------------
(* WorkConserving is inductive beside the types.  Every step either leaves  *)
(* the queue, Awake and Notifiers alone or changes two of them together.    *)

LEMMA Counted ==
    /\ IsFiniteSet(Awake) /\ Cardinality(Awake) \in Nat
    /\ IsFiniteSet(Notifiers) /\ Cardinality(Notifiers) \in Nat
<1>1. Awake \subseteq Workers /\ Notifiers \subseteq Clients
  BY DEF Awake, Notifiers
<1>2. IsFiniteSet(Awake) /\ IsFiniteSet(Notifiers)
  BY <1>1, ThreadPoolAssumption, FS_Subset
<1> QED BY <1>2, FS_CardinalityType

(* One member more counts one more. *)
LEMMA OneMore ==
    ASSUME NEW S, NEW x, IsFiniteSet(S), x \notin S
    PROVE  Cardinality(S \cup {x}) = Cardinality(S) + 1
BY FS_AddElement

LEMMA OneLess ==
    ASSUME NEW S, NEW x \in S, IsFiniteSet(S)
    PROVE  Cardinality(S \ {x}) = Cardinality(S) - 1
BY FS_RemoveElement

Asleep == \E w \in Workers : worker[w] = "waiting"

(* A step that leaves the queue and the clients that notify as they are and *)
(* only wakes workers, or none, keeps WorkConserving.                       *)
LEMMA OnlyWakes ==
    ASSUME TypeOK, WorkConserving,
           queue' = queue, Notifiers' = Notifiers,
           Awake \subseteq Awake', Asleep' => Asleep
    PROVE  WorkConserving'
<1>1. IsFiniteSet(Awake')
  <2>1. Awake' \subseteq Workers
    BY DEF Awake
  <2> QED BY <2>1, ThreadPoolAssumption, FS_Subset
<1>2. Cardinality(Awake) <= Cardinality(Awake') /\ Cardinality(Awake') \in Nat
  BY <1>1, FS_Subset, FS_CardinalityType
<1>3. Asleep => Len(queue) <= Cardinality(Awake) + Cardinality(Notifiers)
  BY DEF WorkConserving, Asleep
<1>4. Len(queue) \in Nat
  BY DEF TypeOK
<1>5. Asleep' => Len(queue') <= Cardinality(Awake') + Cardinality(Notifiers')
  BY <1>2, <1>3, <1>4, Counted
<1> QED BY <1>5 DEF WorkConserving, Asleep

LEMMA NextConserves == IInv /\ WorkConserving /\ [Next]_vars => WorkConserving'
<1> SUFFICES ASSUME IInv, WorkConserving, [Next]_vars PROVE WorkConserving'
  OBVIOUS
<1>0. TypeOK /\ Len(queue) \in Nat
  BY DEF IInv, TypeOK
<1>a. Asleep => Len(queue) <= Cardinality(Awake) + Cardinality(Notifiers)
  BY DEF WorkConserving, Asleep
<1>1. ASSUME NEW c \in Clients, NEW t \in Tasks, SubmitRejected(c, t) \/ SubmitBegin(c, t)
      PROVE  WorkConserving'
  <2>1. queue' = queue /\ Notifiers' = Notifiers /\ Awake \subseteq Awake' /\ (Asleep' => Asleep)
    BY <1>0, <1>1 DEF TypeOK, SubmitRejected, SubmitBegin, Notifiers, Awake, Asleep
  <2> QED BY <1>0, <2>1, OnlyWakes
<1>2. ASSUME NEW c \in Clients, SubmitFull(c) PROVE WorkConserving'
  <2>1. queue' = queue /\ Notifiers' = Notifiers /\ Awake \subseteq Awake' /\ (Asleep' => Asleep)
    BY <1>0, <1>2 DEF TypeOK, SubmitFull, Notifiers, Awake, Asleep
  <2> QED BY <1>0, <2>1, OnlyWakes
<1>3. ASSUME NEW c \in Clients, SubmitPush(c) PROVE WorkConserving'
  <2>1. /\ Notifiers' = Notifiers \cup {c} /\ c \notin Notifiers
        /\ Awake' = Awake /\ Asleep' = Asleep
    BY <1>0, <1>3 DEF TypeOK, SubmitPush, Notifiers, Awake, Asleep
  <2>2. Cardinality(Notifiers') = Cardinality(Notifiers) + 1
    BY <2>1, Counted, OneMore
  <2>3. arg[c] \in Tasks
    BY <1>3 DEF IInv, TaskIsInOnePlace, SubmittedHasOneClient, SubmitPush
  <2>4. Len(queue') = Len(queue) + 1
    BY <1>0, <1>3, <2>3, AppendElems DEF TypeOK, SubmitPush
  <2>5. Asleep' => Len(queue') <= Cardinality(Awake') + Cardinality(Notifiers')
    BY <1>0, <1>a, <2>1, <2>2, <2>4, Counted
  <2> QED BY <2>5 DEF WorkConserving, Asleep
<1>4. ASSUME NEW c \in Clients, SubmitNotify(c) PROVE WorkConserving'
  <2>1. Notifiers' = Notifiers \ {c} /\ c \in Notifiers /\ queue' = queue
    BY <1>0, <1>4 DEF TypeOK, SubmitNotify, Notifiers
  <2>2. Cardinality(Notifiers') = Cardinality(Notifiers) - 1
    BY <2>1, Counted, OneLess
  <2>3. ASSUME NEW w \in Workers, worker[w] = "waiting",
               worker' = [worker EXCEPT ![w] = "loop"]
        PROVE  WorkConserving'
    <3>1. Awake' = Awake \cup {w} /\ w \notin Awake /\ Asleep
      BY <1>0, <2>3 DEF TypeOK, Awake, Asleep
    <3>2. Cardinality(Awake') = Cardinality(Awake) + 1
      BY <3>1, Counted, OneMore
    <3>3. Len(queue') <= Cardinality(Awake') + Cardinality(Notifiers')
      BY <1>0, <1>a, <2>1, <2>2, <3>1, <3>2, Counted
    <3> QED BY <3>3 DEF WorkConserving
  <2>4. CASE (\A w \in Workers : worker[w] # "waiting") /\ UNCHANGED worker
    BY <2>4 DEF WorkConserving
  <2> QED BY <1>4, <2>3, <2>4 DEF SubmitNotify
<1>5. ASSUME NEW c \in Clients, shutdown(c) \/ NotifyAll(c) \/ Join(c)
      PROVE  WorkConserving'
  <2>1. queue' = queue /\ Notifiers' = Notifiers /\ Awake \subseteq Awake' /\ (Asleep' => Asleep)
    BY <1>0, <1>5 DEF TypeOK, shutdown, NotifyAll, Join, Notifiers, Awake, Asleep
  <2> QED BY <1>0, <2>1, OnlyWakes
<1>6. ASSUME NEW c \in Clients, shutdownNow(c) PROVE WorkConserving'
  <2>1. Len(queue') = 0
    BY <1>6 DEF shutdownNow
  <2>2. IsFiniteSet(Awake') /\ IsFiniteSet(Notifiers')
    <3>1. Awake' \subseteq Workers /\ Notifiers' \subseteq Clients
      BY DEF Awake, Notifiers
    <3> QED BY <3>1, ThreadPoolAssumption, FS_Subset
  <2>3. Cardinality(Awake') \in Nat /\ Cardinality(Notifiers') \in Nat
    BY <2>2, FS_CardinalityType
  <2>4. Len(queue') <= Cardinality(Awake') + Cardinality(Notifiers')
    BY <2>1, <2>3
  <2> QED BY <2>4 DEF WorkConserving
<1>7. ASSUME NEW w \in Workers, Wait(w) \/ Exit(w) PROVE WorkConserving'
  <2>1. Len(queue') = 0
    BY <1>7 DEF Wait, Exit, MayExit
  <2>2. IsFiniteSet(Awake') /\ IsFiniteSet(Notifiers')
    <3>1. Awake' \subseteq Workers /\ Notifiers' \subseteq Clients
      BY DEF Awake, Notifiers
    <3> QED BY <3>1, ThreadPoolAssumption, FS_Subset
  <2>3. Cardinality(Awake') \in Nat /\ Cardinality(Notifiers') \in Nat
    BY <2>2, FS_CardinalityType
  <2>4. Len(queue') <= Cardinality(Awake') + Cardinality(Notifiers')
    BY <2>1, <2>3
  <2> QED BY <2>4 DEF WorkConserving
<1>8. ASSUME NEW w \in Workers, TimeOut(w) \/ Finish(w) PROVE WorkConserving'
  <2>1. ~ Surplus
    BY WorkersCounted DEF IInv, OnlyCoreThreads, Surplus
  <2>2. queue' = queue /\ Notifiers' = Notifiers /\ Awake \subseteq Awake' /\ (Asleep' => Asleep)
    BY <1>0, <1>8, <2>1 DEF TypeOK, TimeOut, Finish, Notifiers, Awake, Asleep
  <2> QED BY <1>0, <2>2, OnlyWakes
<1>9. ASSUME NEW w \in Workers, Take(w) PROVE WorkConserving'
  <2>1. Awake' = Awake \ {w} /\ w \in Awake /\ Notifiers' = Notifiers /\ (Asleep' => Asleep)
    BY <1>0, <1>9 DEF TypeOK, Take, Notifiers, Awake, Asleep
  <2>2. Cardinality(Awake') = Cardinality(Awake) - 1
    BY <2>1, Counted, OneLess
  <2>3. Len(queue') = Len(queue) - 1
    BY <1>0, <1>9, TailElems DEF TypeOK, Take
  <2>4. Asleep' => Len(queue') <= Cardinality(Awake') + Cardinality(Notifiers')
    BY <1>0, <1>a, <2>1, <2>2, <2>3, Counted
  <2> QED BY <2>4 DEF WorkConserving, Asleep
<1>10. CASE UNCHANGED vars
  <2>1. queue' = queue /\ Notifiers' = Notifiers /\ Awake \subseteq Awake' /\ (Asleep' => Asleep)
    BY <1>10 DEF vars, Notifiers, Awake, Asleep
  <2> QED BY <1>0, <2>1, OnlyWakes
<1> QED BY <1>1, <1>2, <1>3, <1>4, <1>5, <1>6, <1>7, <1>8, <1>9, <1>10
        DEF Next, SubmitStep, ShutdownStep, WorkerStep

(* No wakeup is lost: a queued task waits for a worker to be free, never    *)
(* for an idle time to pass.                                                *)
THEOREM WakeupsAreNotLost == Spec => []WorkConserving
<1>1. Init => WorkConserving
  <2> SUFFICES ASSUME Init PROVE WorkConserving
    OBVIOUS
  <2>1. Len(queue) = 0
    BY DEF Init
  <2>2. Len(queue) <= Cardinality(Awake) + Cardinality(Notifiers)
    BY <2>1, Counted
  <2> QED BY <2>2 DEF WorkConserving
<1>2. IInv /\ WorkConserving /\ [Next]_vars => WorkConserving'
  BY NextConserves
<1> QED BY <1>1, <1>2, Invariance, PTL DEF Spec
=============================================================================
