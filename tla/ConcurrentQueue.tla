-------------------------- MODULE ConcurrentQueue --------------------------
(***************************************************************************)
(* cppforge::data_structure::ConcurrentQueue: a bounded FIFO queue for     *)
(* many producers and consumers, with a mutex and the condition variables  *)
(* not_empty_ and not_full_.                                               *)
(*                                                                         *)
(* A critical section of mutex_ is one step.  The blocking operations and  *)
(* try_pop_for notify after they have unlocked the mutex, a step of its    *)
(* own; the non-blocking ones notify while they hold it.  A thread in a    *)
(* wait is woken by a notification or spuriously and evaluates the         *)
(* predicate again; try_pop_for also when its time is up, and then for the *)
(* last time.  The three flavours of push (copy, move, emplace) differ in  *)
(* how they build the element only.                                        *)
(***************************************************************************)
EXTENDS Integers, Sequences, FiniteSets

CONSTANTS
    Threads,
    max_size,   \* max_size_
    MaxItems    \* bound: elements ever pushed

ASSUME ConcurrentQueueAssumption ==
    /\ IsFiniteSet(Threads)
    /\ max_size \in Nat
    /\ MaxItems \in Nat

VARIABLES
    queue,      \* queue_: the n-th element pushed is the number n
    pc,         \* per thread: where it is in its operation
    pushed,     \* history: elements pushed so far
    popped,     \* history: elements handed to consumers, in that order
    cleared     \* history: elements dropped by clear

vars == <<queue, pc, pushed, popped, cleared>>

(* "push", "pop", "pop_for": about to lock the mutex and evaluate the      *)
(* predicate; "..._wait": asleep; "pop_last": timed out, evaluates once    *)
(* more; "notify_...": unlocked, about to notify.                          *)
Producing == {"push"}
Consuming == {"pop", "pop_for", "pop_last"}
Locations == Producing \cup Consuming \cup
    {"idle", "push_wait", "pop_wait", "pop_for_wait",
     "notify_not_empty", "notify_not_full"}

TypeOK ==
    /\ queue \in Seq(1..pushed) /\ Len(queue) <= max_size
    /\ pc \in [Threads -> Locations]
    /\ pushed \in 0..MaxItems
    /\ popped \in Seq(1..pushed)
    /\ cleared \subseteq 1..pushed

At(S) == {t \in Threads : pc[t] \in S}

Full == Len(queue) >= max_size
Empty == queue = <<>>

-----------------------------------------------------------------------------
(* The bound counts the pushes begun, so that none of them gets stuck. *)
MayPush == pushed + Cardinality(At({"push", "push_wait"})) < MaxItems

Call(t, op) ==
    /\ pc[t] = "idle"
    /\ op = "push" => MayPush
    /\ pc' = [pc EXCEPT ![t] = op]
    /\ UNCHANGED <<queue, pushed, popped, cleared>>

(* push, emplace *)

PushWait(t) ==
    /\ pc[t] = "push"
    /\ Full
    /\ pc' = [pc EXCEPT ![t] = "push_wait"]
    /\ UNCHANGED <<queue, pushed, popped, cleared>>

Enqueue ==
    /\ pushed' = pushed + 1
    /\ queue' = Append(queue, pushed + 1)
    /\ UNCHANGED <<popped, cleared>>

PushIgnoringCapacity(t) ==
    /\ pc[t] = "push"
    /\ Enqueue
    /\ pc' = [pc EXCEPT ![t] = "notify_not_empty"]
Push(t) ==
    /\ pc[t] = "push"
    /\ ~ Full
    /\ Enqueue
    /\ pc' = [pc EXCEPT ![t] = "notify_not_empty"]

(* pop, try_pop_for *)

PopWait(t) ==
    /\ pc[t] \in {"pop", "pop_for"}
    /\ Empty
    /\ pc' = [pc EXCEPT ![t] = IF @ = "pop" THEN "pop_wait" ELSE "pop_for_wait"]
    /\ UNCHANGED <<queue, pushed, popped, cleared>>

DequeueBack ==
    /\ popped' = Append(popped, queue[Len(queue)])
    /\ queue' = SubSeq(queue, 1, Len(queue) - 1)
    /\ UNCHANGED <<pushed, cleared>>
Dequeue ==
    /\ popped' = Append(popped, Head(queue))
    /\ queue' = Tail(queue)
    /\ UNCHANGED <<pushed, cleared>>

PopSilent(t) ==
    /\ pc[t] \in Consuming
    /\ ~ Empty
    /\ Dequeue
    /\ pc' = [pc EXCEPT ![t] = "idle"]
Pop(t) ==
    /\ pc[t] \in Consuming
    /\ ~ Empty
    /\ Dequeue
    /\ pc' = [pc EXCEPT ![t] = "notify_not_full"]

TimeOutRestarts(t) ==
    /\ pc[t] = "pop_for_wait"
    /\ pc' = [pc EXCEPT ![t] = "pop_for"]
    /\ UNCHANGED <<queue, pushed, popped, cleared>>
TimeOut(t) ==
    /\ pc[t] = "pop_for_wait"
    /\ pc' = [pc EXCEPT ![t] = "pop_last"]
    /\ UNCHANGED <<queue, pushed, popped, cleared>>

PopTimedOut(t) ==
    /\ pc[t] = "pop_last"
    /\ Empty
    /\ pc' = [pc EXCEPT ![t] = "idle"]
    /\ UNCHANGED <<queue, pushed, popped, cleared>>

-----------------------------------------------------------------------------
(* The condition variables *)

Awoken(pc1, t) ==
    [pc1 EXCEPT ![t] = CASE @ = "push_wait" -> "push"
                         [] @ = "pop_wait" -> "pop"
                         [] @ = "pop_for_wait" -> "pop_for"]

OnNotFull == {"push_wait"}
OnNotEmpty == {"pop_wait", "pop_for_wait"}

(* What notify_one leaves of the threads, those waiting on W being asleep. *)
notify_one(pc1, W) ==
    IF \E t \in Threads : pc1[t] \in W
    THEN {Awoken(pc1, t) : t \in {u \in Threads : pc1[u] \in W}}
    ELSE {pc1}

Notify(t) ==
    /\ \/ /\ pc[t] = "notify_not_empty"
          /\ pc' \in notify_one([pc EXCEPT ![t] = "idle"], OnNotEmpty)
       \/ /\ pc[t] = "notify_not_full"
          /\ pc' \in notify_one([pc EXCEPT ![t] = "idle"], OnNotFull)
    /\ UNCHANGED <<queue, pushed, popped, cleared>>

SpuriousWakeup(t) ==
    /\ pc[t] \in OnNotFull \cup OnNotEmpty
    /\ pc' = Awoken(pc, t)
    /\ UNCHANGED <<queue, pushed, popped, cleared>>

-----------------------------------------------------------------------------
(* try_push, try_emplace, try_pop and clear: one critical section each.    *)
(* A try_push at a full queue and a try_pop at an empty one change nothing.*)

try_push_silent(t) ==
    /\ pc[t] = "idle"
    /\ MayPush
    /\ ~ Full
    /\ Enqueue
    /\ UNCHANGED pc
try_push(t) ==
    /\ pc[t] = "idle"
    /\ MayPush
    /\ ~ Full
    /\ Enqueue
    /\ pc' \in notify_one(pc, OnNotEmpty)

try_pop(t) ==
    /\ pc[t] = "idle"
    /\ ~ Empty
    /\ Dequeue
    /\ pc' \in notify_one(pc, OnNotFull)

clear_notifies_one(t) ==
    /\ pc[t] = "idle"
    /\ queue' = <<>>
    /\ cleared' = cleared \cup {queue[i] : i \in 1..Len(queue)}
    /\ pc' \in notify_one(pc, OnNotFull)
    /\ UNCHANGED <<pushed, popped>>
clear(t) ==
    /\ pc[t] = "idle"
    /\ queue' = <<>>
    /\ cleared' = cleared \cup {queue[i] : i \in 1..Len(queue)}
    /\ pc' = [u \in Threads |-> IF pc[u] = "push_wait" THEN "push" ELSE pc[u]]
    /\ UNCHANGED <<pushed, popped>>

-----------------------------------------------------------------------------
Init ==
    /\ queue = <<>>
    /\ pc = [t \in Threads |-> "idle"]
    /\ pushed = 0
    /\ popped = <<>>
    /\ cleared = {}

Step(t) ==
    \/ PushWait(t) \/ Push(t)
    \/ PopWait(t) \/ Pop(t) \/ TimeOut(t) \/ PopTimedOut(t)
    \/ Notify(t)

Next ==
    \E t \in Threads :
        \/ \E op \in {"push", "pop", "pop_for"} : Call(t, op)
        \/ Step(t)
        \/ SpuriousWakeup(t)
        \/ try_push(t) \/ try_pop(t) \/ clear(t)

Spec == Init /\ [][Next]_vars

(* A thread inside a call gets the mutex again and again.  The deadline of *)
(* wait_for is fixed when it is called, so that it passes however often    *)
(* the thread is woken before: TimeOut is strongly fair.  Nothing makes a  *)
(* thread call an operation, and no spurious wakeup is counted on.         *)
FairSpec ==
    /\ Spec
    /\ \A t \in Threads : WF_vars(Step(t)) /\ SF_vars(TimeOut(t))

-----------------------------------------------------------------------------
(* No wakeup is lost although notify_one follows the unlock and others may *)
(* snatch the element or the place: while a consumer sleeps, each element  *)
(* has an awake consumer or a pending notification of its own, and while a *)
(* producer sleeps each free place has, when clear frees many at once too. *)
WakeupsAreNotLost ==
    /\ At(OnNotEmpty) # {} =>
          Len(queue) <= Cardinality(At(Consuming \cup {"notify_not_empty"}))
    /\ At(OnNotFull) # {} =>
          max_size - Len(queue) <=
              Cardinality(At(Producing \cup {"notify_not_full"}))

(* FIFO: what the consumers received and then what is queued is in the     *)
(* order of the pushes, and every element pushed was received once, is     *)
(* queued or was cleared.                                                  *)
FirstInFirstOut ==
    LET s == popped \o queue IN
    /\ \A i, j \in 1..Len(s) : i < j => s[i] < s[j]
    /\ {s[i] : i \in 1..Len(s)} = (1..pushed) \ cleared

(* A consumer does not sleep for ever beside an element, nor a producer    *)
(* beside a free place; a timed pop returns, with an element or without.   *)
SleepersServed ==
    /\ (At(OnNotEmpty) # {} /\ ~ Empty) ~> (At(OnNotEmpty) = {} \/ Empty)
    /\ (At(OnNotFull) # {} /\ ~ Full) ~> (At(OnNotFull) = {} \/ Full)
    /\ \A t \in Threads : pc[t] \in {"pop_for", "pop_for_wait", "pop_last"}
        ~> pc[t] \in {"notify_not_full", "idle"}
=============================================================================
