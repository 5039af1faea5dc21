----------------------- MODULE ConcurrentQueueProofs -----------------------
(***************************************************************************)
(* Proofs about ConcurrentQueue, for any threads, any capacity (zero too)  *)
(* and any number of elements.                                             *)
(***************************************************************************)
EXTENDS ConcurrentQueue, FiniteSetTheorems, SequenceTheorems, TLAPS

(* The pushes begun and the pushes done stay within the bound together:    *)
(* what makes TypeOK's bound on pushed inductive.                          *)
Pushers == At({"push", "push_wait"})
PushesAreCounted == pushed + Cardinality(Pushers) <= MaxItems

(* The threads that answer for the elements and those for the free places. *)
Takers == At(Consuming \cup {"notify_not_empty"})
Fillers == At(Producing \cup {"notify_not_full"})

IInv == TypeOK /\ PushesAreCounted

-----------------------------------------------------------------------------
(* Finite sets of threads *)

LEMMA Counted ==
    ASSUME NEW S, S \subseteq Threads
    PROVE  IsFiniteSet(S) /\ Cardinality(S) \in Nat
BY ConcurrentQueueAssumption, FS_Subset, FS_CardinalityType

LEMMA CountedLess ==
    ASSUME NEW S, NEW T, S \subseteq T, T \subseteq Threads
    PROVE  Cardinality(S) <= Cardinality(T)
BY ConcurrentQueueAssumption, FS_Subset

LEMMA OneMore ==
    ASSUME NEW S, S \subseteq Threads, NEW x, x \notin S
    PROVE  Cardinality(S \cup {x}) = Cardinality(S) + 1
BY Counted, FS_AddElement

LEMMA OneLess ==
    ASSUME NEW S, S \subseteq Threads, NEW x \in S
    PROVE  Cardinality(S \ {x}) = Cardinality(S) - 1
BY Counted, FS_RemoveElement

(* However threads move, the groups they are counted in are threads. *)
LEMMA GroupsAreThreads ==
    /\ Pushers \subseteq Threads /\ Pushers' \subseteq Threads
    /\ Takers \subseteq Threads /\ Takers' \subseteq Threads
    /\ Fillers \subseteq Threads /\ Fillers' \subseteq Threads
BY DEF Pushers, Takers, Fillers, At

-----------------------------------------------------------------------------
(* What one thread's move does to its group *)

(* A notify_one wakes nobody when nobody sleeps, and otherwise one thread, *)
(* which is then about to evaluate its predicate.                          *)
Woken(pc1, pc2, u) ==
    /\ pc2 = [pc1 EXCEPT ![u] = pc2[u]]
    /\ pc1[u] = "push_wait" => pc2[u] = "push"
    /\ pc1[u] = "pop_wait" => pc2[u] = "pop"
    /\ pc1[u] = "pop_for_wait" => pc2[u] = "pop_for"

LEMMA AwokenWakes ==
    ASSUME NEW pc1, NEW S, pc1 \in [Threads -> S], NEW u \in Threads,
           pc1[u] \in OnNotFull \cup OnNotEmpty
    PROVE  Woken(pc1, Awoken(pc1, u), u)
BY DEF Awoken, Woken, OnNotFull, OnNotEmpty

LEMMA NotifyOneWakesOne ==
    ASSUME NEW pc1, NEW S, pc1 \in [Threads -> S], NEW W,
           W \subseteq OnNotFull \cup OnNotEmpty, NEW pc2 \in notify_one(pc1, W)
    PROVE  \/ pc2 = pc1 /\ \A u \in Threads : pc1[u] \notin W
           \/ \E u \in Threads : pc1[u] \in W /\ Woken(pc1, pc2, u)
<1>1. CASE \E t \in Threads : pc1[t] \in W
  <2>1. PICK u \in Threads : pc1[u] \in W /\ pc2 = Awoken(pc1, u)
    BY <1>1 DEF notify_one
  <2> QED BY <2>1, AwokenWakes
<1>2. CASE ~ \E t \in Threads : pc1[t] \in W
  BY <1>2 DEF notify_one
<1> QED BY <1>1, <1>2

-----------------------------------------------------------------------------
(* What enqueueing and dequeueing do to the sequences *)

Elems(s) == {s[i] : i \in 1..Len(s)}
Increasing(s) == \A i, j \in 1..Len(s) : i < j => s[i] < s[j]

LEMMA MoreElements ==
    ASSUME NEW S, NEW T, S \subseteq T, NEW s \in Seq(S)
    PROVE  s \in Seq(T)
OBVIOUS

LEMMA ElemsAreElements ==
    ASSUME NEW S, NEW s \in Seq(S)
    PROVE  Elems(s) \subseteq S
BY DEF Elems

LEMMA ConcatElems ==
    ASSUME NEW S, NEW p \in Seq(S), NEW q \in Seq(S)
    PROVE  /\ p \o q \in Seq(S)
           /\ Elems(p \o q) = Elems(p) \cup Elems(q)
<1>1. /\ p \o q \in Seq(S)
      /\ Len(p) \in Nat /\ Len(q) \in Nat
      /\ Len(p \o q) = Len(p) + Len(q)
      /\ \A i \in 1..Len(p) : (p \o q)[i] = p[i]
      /\ \A i \in 1..Len(q) : (p \o q)[Len(p) + i] = q[i]
  OBVIOUS
<1>2. \A i \in 1..(Len(p) + Len(q)) :
         i \in 1..Len(p) \/ (i - Len(p) \in 1..Len(q) /\ i = Len(p) + (i - Len(p)))
  BY <1>1
<1>3. /\ \A i \in 1..Len(p) : i \in 1..(Len(p) + Len(q))
      /\ \A i \in 1..Len(q) : Len(p) + i \in 1..(Len(p) + Len(q))
  BY <1>1
<1>4. ASSUME NEW x \in Elems(p \o q) PROVE x \in Elems(p) \cup Elems(q)
  <2>1. PICK i \in 1..(Len(p) + Len(q)) : x = (p \o q)[i]
    BY <1>1 DEF Elems
  <2>2. CASE i \in 1..Len(p)
    BY <1>1, <2>1, <2>2 DEF Elems
  <2>3. CASE i - Len(p) \in 1..Len(q) /\ i = Len(p) + (i - Len(p))
    <3>1. x = q[i - Len(p)]
      BY <1>1, <2>1, <2>3
    <3> QED BY <2>3, <3>1 DEF Elems
  <2> QED BY <1>2, <2>2, <2>3
<1>5. ASSUME NEW x \in Elems(p) PROVE x \in Elems(p \o q)
  BY <1>1, <1>3 DEF Elems
<1>6. ASSUME NEW x \in Elems(q) PROVE x \in Elems(p \o q)
  <2>1. PICK i \in 1..Len(q) : x = q[i]
    BY DEF Elems
  <2>2. Len(p) + i \in 1..Len(p \o q) /\ x = (p \o q)[Len(p) + i]
    BY <1>1, <1>3, <2>1
  <2> QED BY <2>2 DEF Elems
<1> QED BY <1>1, <1>4, <1>5, <1>6

(* The element dequeued goes from the front of the queue to the end of     *)
(* what was popped: the concatenation stays as it is.                      *)
LEMMA DequeueConcat ==
    ASSUME NEW S, NEW p \in Seq(S), NEW q \in Seq(S), q # <<>>
    PROVE  /\ Append(p, Head(q)) \in Seq(S) /\ Tail(q) \in Seq(S)
           /\ Len(q) \in Nat \ {0} /\ Len(Tail(q)) = Len(q) - 1
           /\ Append(p, Head(q)) \o Tail(q) = p \o q
<1>1. /\ Append(p, Head(q)) \in Seq(S) /\ Tail(q) \in Seq(S)
      /\ Len(p) \in Nat
      /\ Len(q) \in Nat \ {0} /\ Len(Tail(q)) = Len(q) - 1
      /\ Len(Append(p, Head(q))) = Len(p) + 1
      /\ Append(p, Head(q))[Len(p) + 1] = q[1]
      /\ \A i \in 1..Len(p) : Append(p, Head(q))[i] = p[i]
      /\ \A i \in 1..(Len(q) - 1) : Tail(q)[i] = q[i + 1]
  OBVIOUS
<1> DEFINE a == Append(p, Head(q)) \o Tail(q)
           b == p \o q
<1>2. a \in Seq(S) /\ b \in Seq(S) /\ Len(a) = Len(p) + Len(q) /\ Len(b) = Len(p) + Len(q)
  BY <1>1
<1>3. ASSUME NEW i \in 1..(Len(p) + Len(q)) PROVE a[i] = b[i]
  <2>1. CASE i \in 1..Len(p)
    BY <1>1, <2>1
  <2>2. CASE i = Len(p) + 1
    BY <1>1, <2>2
  <2>3. CASE i > Len(p) + 1
    <3>1. /\ i - (Len(p) + 1) \in 1..(Len(q) - 1)
          /\ i - Len(p) \in 1..Len(q)
          /\ i - Len(p) = (i - (Len(p) + 1)) + 1
      BY <1>1, <2>3
    <3>2. a[i] = Tail(q)[i - (Len(p) + 1)]
      BY <1>1, <2>3, <3>1
    <3>3. b[i] = q[i - Len(p)]
      BY <1>1, <2>3, <3>1
    <3> QED BY <1>1, <3>1, <3>2, <3>3
  <2> QED BY <1>1, <2>1, <2>2, <2>3
<1>4. a = b
  BY <1>2, <1>3, SeqEqual
<1> QED BY <1>1, <1>4

-----------------------------------------------------------------------------
(* The type invariant *)

LEMMA InitIInv == Init => IInv
<1> SUFFICES ASSUME Init PROVE IInv
  OBVIOUS
<1>1. TypeOK
  BY ConcurrentQueueAssumption DEF Init, TypeOK, Locations
<1>2. Pushers = {}
  BY DEF Init, Pushers, At
<1>3. PushesAreCounted
  BY <1>2, FS_EmptySet, ConcurrentQueueAssumption DEF PushesAreCounted, Init
<1> QED BY <1>1, <1>3 DEF IInv

(* A step that pushes nothing and begins no push keeps the count. *)
LEMMA NoPushBegun ==
    ASSUME IInv, pushed' = pushed, Pushers' \subseteq Pushers
    PROVE  PushesAreCounted'
<1>1. Cardinality(Pushers') <= Cardinality(Pushers)
  BY CountedLess, GroupsAreThreads
<1>2. Cardinality(Pushers') \in Nat /\ Cardinality(Pushers) \in Nat /\ pushed \in Nat
  BY Counted, GroupsAreThreads DEF IInv, TypeOK
<1> QED BY <1>1, <1>2, ConcurrentQueueAssumption DEF IInv, PushesAreCounted

LEMMA EnqueueType ==
    ASSUME TypeOK, Enqueue, ~ Full, pushed < MaxItems
    PROVE  /\ queue' \in Seq(1..pushed') /\ Len(queue') <= max_size
           /\ Len(queue') = Len(queue) + 1
           /\ pushed' \in 0..MaxItems
           /\ popped' \in Seq(1..pushed')
           /\ cleared' \subseteq 1..pushed'
<1>1. 1..pushed \subseteq 1..(pushed + 1) /\ pushed + 1 \in 1..(pushed + 1)
  BY DEF TypeOK
<1>2. queue \in Seq(1..(pushed + 1)) /\ popped \in Seq(1..(pushed + 1))
  BY <1>1, MoreElements DEF TypeOK
<1> QED BY <1>1, <1>2, ConcurrentQueueAssumption DEF TypeOK, Enqueue, Full

LEMMA DequeueType ==
    ASSUME TypeOK, Dequeue, ~ Empty
    PROVE  /\ queue' \in Seq(1..pushed') /\ Len(queue') <= max_size
           /\ Len(queue') = Len(queue) - 1 /\ Len(queue) \in Nat \ {0}
           /\ popped' \in Seq(1..pushed')
           /\ popped' \o queue' = popped \o queue
<1>1. queue \in Seq(1..pushed) /\ popped \in Seq(1..pushed) /\ queue # <<>>
  BY DEF TypeOK, Empty
<1>2. /\ popped' = Append(popped, Head(queue)) /\ queue' = Tail(queue)
      /\ pushed' = pushed
  BY DEF Dequeue
<1>3. /\ Append(popped, Head(queue)) \in Seq(1..pushed) /\ Tail(queue) \in Seq(1..pushed)
      /\ Len(queue) \in Nat \ {0} /\ Len(Tail(queue)) = Len(queue) - 1
      /\ Append(popped, Head(queue)) \o Tail(queue) = popped \o queue
  BY <1>1, DequeueConcat
<1>4. Len(queue) - 1 <= max_size
  BY <1>3, ConcurrentQueueAssumption DEF TypeOK
<1> QED BY <1>2, <1>3, <1>4

(* A notification leaves the threads well typed and begins no push. *)
LEMMA NotifyType ==
    ASSUME TypeOK, NEW pc1, NEW W, W \subseteq OnNotFull \cup OnNotEmpty,
           \/ pc1 = pc
           \/ \E t \in Threads : pc1 = [pc EXCEPT ![t] = "idle"],
           pc' \in notify_one(pc1, W)
    PROVE  /\ pc' \in [Threads -> Locations]
           /\ Pushers' \subseteq Pushers
<1>1. pc1 \in [Threads -> Locations]
  BY DEF TypeOK, Locations
<1>2. \A u \in Threads : pc1[u] \in {"push", "push_wait"} => u \in Pushers
  BY DEF TypeOK, Pushers, At
<1>3. CASE pc' = pc1
  BY <1>1, <1>2, <1>3 DEF Pushers, At
<1>4. ASSUME NEW u \in Threads, pc1[u] \in W, Woken(pc1, pc', u)
      PROVE  pc' \in [Threads -> Locations] /\ Pushers' \subseteq Pushers
  <2>1. \/ pc1[u] = "push_wait" /\ pc'[u] = "push"
        \/ pc1[u] = "pop_wait" /\ pc'[u] = "pop"
        \/ pc1[u] = "pop_for_wait" /\ pc'[u] = "pop_for"
    BY <1>4 DEF Woken, OnNotFull, OnNotEmpty
  <2>2. pc' = [pc1 EXCEPT ![u] = pc'[u]]
    BY <1>4 DEF Woken
  <2>3. pc' \in [Threads -> Locations]
    BY <1>1, <2>1, <2>2 DEF Locations, Producing, Consuming
  <2>4. \A v \in Threads : v # u => pc'[v] = pc1[v]
    BY <1>1, <2>2
  <2>5. ASSUME NEW v \in Threads, pc'[v] \in {"push", "push_wait"}
        PROVE  pc1[v] \in {"push", "push_wait"}
    BY <2>1, <2>4, <2>5
  <2>6. Pushers' \subseteq Pushers
    BY <1>2, <2>5 DEF Pushers, At
  <2> QED BY <2>3, <2>6
<1> QED BY <1>1, <1>3, <1>4, NotifyOneWakesOne

LEMMA NextIInv == IInv /\ [Next]_vars => IInv'
<1> SUFFICES ASSUME IInv, [Next]_vars PROVE IInv'
  OBVIOUS
<1> USE ConcurrentQueueAssumption
<1>0. TypeOK /\ PushesAreCounted
  BY DEF IInv
<1>1. ASSUME NEW t \in Threads, NEW op \in {"push", "pop", "pop_for"}, Call(t, op)
      PROVE  IInv'
  <2>1. TypeOK'
    BY <1>0, <1>1 DEF TypeOK, Call, Locations, Producing, Consuming
  <2>2. CASE op = "push"
    <3>1. Pushers' = Pushers \cup {t} /\ t \notin Pushers
      BY <1>0, <1>1, <2>2 DEF TypeOK, Call, Pushers, At
    <3>2. Cardinality(Pushers') = Cardinality(Pushers) + 1
      BY <3>1, OneMore, GroupsAreThreads
    <3>3. pushed' = pushed /\ pushed + Cardinality(Pushers) < MaxItems
      BY <1>1, <2>2 DEF Call, MayPush, Pushers
    <3>4. Cardinality(Pushers) \in Nat /\ pushed \in Nat
      BY <1>0, Counted, GroupsAreThreads DEF TypeOK
    <3>5. PushesAreCounted'
      BY <3>2, <3>3, <3>4 DEF PushesAreCounted
    <3> QED BY <2>1, <3>5 DEF IInv
  <2>3. CASE op # "push"
    <3>1. Pushers' \subseteq Pushers /\ pushed' = pushed
      BY <1>0, <1>1, <2>3 DEF TypeOK, Call, Pushers, At
    <3> QED BY <2>1, <3>1, NoPushBegun DEF IInv
  <2> QED BY <2>2, <2>3
<1>2. ASSUME NEW t \in Threads,
             PushWait(t) \/ PopWait(t) \/ TimeOut(t) \/ PopTimedOut(t)
      PROVE  IInv'
  <2>1. TypeOK'
    BY <1>0, <1>2 DEF TypeOK, PushWait, PopWait, TimeOut, PopTimedOut, Locations, Producing, Consuming
  <2>2. Pushers' \subseteq Pushers /\ pushed' = pushed
    BY <1>0, <1>2 DEF TypeOK, PushWait, PopWait, TimeOut, PopTimedOut, Pushers, At
  <2> QED BY <2>1, <2>2, NoPushBegun DEF IInv
<1>3. ASSUME NEW t \in Threads, Push(t) PROVE IInv'
  <2>1. Pushers' = Pushers \ {t} /\ t \in Pushers
    BY <1>0, <1>3 DEF TypeOK, Push, Pushers, At
  <2>2. Cardinality(Pushers') = Cardinality(Pushers) - 1
    BY <2>1, OneLess, GroupsAreThreads
  <2>3. /\ Cardinality(Pushers) \in Nat /\ Cardinality(Pushers') \in Nat
        /\ pushed \in Nat /\ pushed' = pushed + 1
    BY <1>0, <1>3, Counted, GroupsAreThreads DEF TypeOK, Push, Enqueue
  <2>4. PushesAreCounted' /\ pushed < MaxItems
    BY <1>0, <2>2, <2>3 DEF PushesAreCounted
  <2>5. pc' \in [Threads -> Locations]
    BY <1>0, <1>3 DEF TypeOK, Push, Locations
  <2>6. Enqueue /\ ~ Full
    BY <1>3 DEF Push
  <2>7. TypeOK'
    BY <1>0, <2>4, <2>5, <2>6, EnqueueType DEF TypeOK
  <2> QED BY <2>4, <2>7 DEF IInv
<1>4. ASSUME NEW t \in Threads, Pop(t) PROVE IInv'
  <2>1. Dequeue /\ ~ Empty
    BY <1>4 DEF Pop
  <2>2. pc' \in [Threads -> Locations]
    BY <1>0, <1>4 DEF TypeOK, Pop, Locations
  <2>3. pushed' = pushed /\ cleared' = cleared
    BY <2>1 DEF Dequeue
  <2>4. TypeOK'
    BY <1>0, <2>1, <2>2, <2>3, DequeueType DEF TypeOK
  <2>5. Pushers' \subseteq Pushers
    BY <1>0, <1>4 DEF TypeOK, Pop, Pushers, At
  <2> QED BY <2>3, <2>4, <2>5, NoPushBegun DEF IInv
<1>5. ASSUME NEW t \in Threads, Notify(t) PROVE IInv'
  <2>1. UNCHANGED <<queue, pushed, popped, cleared>>
    BY <1>5 DEF Notify
  <2>2. \E W : /\ W \subseteq OnNotFull \cup OnNotEmpty
               /\ pc' \in notify_one([pc EXCEPT ![t] = "idle"], W)
    BY <1>5 DEF Notify
  <2>3. /\ pc' \in [Threads -> Locations]
        /\ Pushers' \subseteq Pushers
    BY <1>0, <2>2, NotifyType
  <2>4. TypeOK'
    BY <1>0, <2>1, <2>3 DEF TypeOK
  <2> QED BY <2>1, <2>3, <2>4, NoPushBegun DEF IInv
<1>6. ASSUME NEW t \in Threads, SpuriousWakeup(t) PROVE IInv'
  <2>1. UNCHANGED <<queue, pushed, popped, cleared>> /\ pc[t] \in OnNotFull \cup OnNotEmpty
    BY <1>6 DEF SpuriousWakeup
  <2>2. pc' \in notify_one(pc, OnNotFull \cup OnNotEmpty)
    BY <1>6, <2>1 DEF SpuriousWakeup, notify_one
  <2>3. /\ pc' \in [Threads -> Locations]
        /\ Pushers' \subseteq Pushers
    BY <1>0, <2>2, NotifyType
  <2>4. TypeOK'
    BY <1>0, <2>1, <2>3 DEF TypeOK
  <2> QED BY <2>1, <2>3, <2>4, NoPushBegun DEF IInv
<1>7. ASSUME NEW t \in Threads, try_push(t) PROVE IInv'
  <2>1. Enqueue /\ ~ Full /\ pc' \in notify_one(pc, OnNotEmpty)
    BY <1>7 DEF try_push
  <2>2. /\ pc' \in [Threads -> Locations]
        /\ Pushers' \subseteq Pushers
    BY <1>0, <2>1, NotifyType
  <2>3. pushed + Cardinality(Pushers) < MaxItems /\ pushed' = pushed + 1
    BY <1>7 DEF try_push, MayPush, Enqueue, Pushers
  <2>4. /\ Cardinality(Pushers) \in Nat /\ Cardinality(Pushers') \in Nat /\ pushed \in Nat
        /\ Cardinality(Pushers') <= Cardinality(Pushers)
    BY <1>0, <2>2, Counted, CountedLess, GroupsAreThreads DEF TypeOK
  <2>5. PushesAreCounted' /\ pushed < MaxItems
    BY <2>3, <2>4 DEF PushesAreCounted
  <2>6. TypeOK'
    BY <1>0, <2>1, <2>2, <2>5, EnqueueType DEF TypeOK
  <2> QED BY <2>5, <2>6 DEF IInv
<1>8. ASSUME NEW t \in Threads, try_pop(t) PROVE IInv'
  <2>1. Dequeue /\ ~ Empty /\ pc' \in notify_one(pc, OnNotFull)
    BY <1>8 DEF try_pop
  <2>2. /\ pc' \in [Threads -> Locations]
        /\ Pushers' \subseteq Pushers
    BY <1>0, <2>1, NotifyType
  <2>3. pushed' = pushed /\ cleared' = cleared
    BY <2>1 DEF Dequeue
  <2>4. TypeOK'
    BY <1>0, <2>1, <2>2, <2>3, DequeueType DEF TypeOK
  <2> QED BY <2>2, <2>3, <2>4, NoPushBegun DEF IInv
<1>9. ASSUME NEW t \in Threads, clear(t) PROVE IInv'
  <2>1. TypeOK'
    <3>1. {queue[i] : i \in 1..Len(queue)} \subseteq 1..pushed
      BY <1>0, ElemsAreElements DEF TypeOK, Elems
    <3>2. pc' \in [Threads -> Locations]
      BY <1>0, <1>9 DEF TypeOK, clear, Locations, Producing
    <3>3. /\ queue' = <<>> /\ pushed' = pushed /\ popped' = popped
          /\ cleared' \subseteq 1..pushed
      BY <1>0, <1>9, <3>1 DEF TypeOK, clear
    <3> QED BY <1>0, <3>2, <3>3 DEF TypeOK
  <2>2. Pushers' \subseteq Pushers /\ pushed' = pushed
    BY <1>0, <1>9 DEF TypeOK, clear, Pushers, At
  <2> QED BY <2>1, <2>2, NoPushBegun DEF IInv
<1>10. CASE UNCHANGED vars
  BY <1>0, <1>10 DEF vars, IInv, TypeOK, PushesAreCounted, Pushers, At
<1> QED BY <1>1, <1>2, <1>3, <1>4, <1>5, <1>6, <1>7, <1>8, <1>9, <1>10 DEF Next, Step

LEMMA Invariance == Spec => []IInv
<1>1. Init => IInv
  BY InitIInv
<1>2. IInv /\ [Next]_vars => IInv'
  BY NextIInv
<1> QED BY <1>1, <1>2, PTL DEF Spec

(* ConcurrentQueue keeps its variables well typed; the queue never exceeds *)
(* max_size_, whichever of push, emplace and try_push fills it.            *)
THEOREM TypeCorrect == Spec => []TypeOK
<1>1. IInv => TypeOK
  BY DEF IInv
<1> QED BY <1>1, Invariance, PTL

-----------------------------------------------------------------------------
(* No wakeup is lost.  The two halves of WakeupsAreNotLost are inductive   *)
(* on top of TypeOK: a step either leaves the sleepers and the threads     *)
(* that answer alone, or changes both sides by the same amount.            *)

ElementsAnswered == At(OnNotEmpty) # {} => Len(queue) <= Cardinality(Takers)
PlacesAnswered == At(OnNotFull) # {} => max_size - Len(queue) <= Cardinality(Fillers)

LEMMA TwoHalves == WakeupsAreNotLost <=> ElementsAnswered /\ PlacesAnswered
BY DEF WakeupsAreNotLost, ElementsAnswered, PlacesAnswered, Takers, Fillers

LEMMA Counts ==
    ASSUME TypeOK, TypeOK'
    PROVE  /\ Len(queue) \in Nat /\ Len(queue') \in Nat
           /\ Cardinality(Takers) \in Nat /\ Cardinality(Takers') \in Nat
           /\ Cardinality(Fillers) \in Nat /\ Cardinality(Fillers') \in Nat
<1>1. Len(queue) \in Nat /\ Len(queue') \in Nat
  BY DEF TypeOK
<1> QED BY <1>1, Counted, GroupsAreThreads

(* No element more, no taker less, nobody falls asleep on not_empty_. *)
LEMMA ElementsKept ==
    ASSUME TypeOK, TypeOK', ElementsAnswered, Len(queue') <= Len(queue),
           Takers \subseteq Takers', At(OnNotEmpty)' \subseteq At(OnNotEmpty)
    PROVE  ElementsAnswered'
<1>1. Cardinality(Takers) <= Cardinality(Takers')
  BY CountedLess, GroupsAreThreads
<1> QED BY <1>1, Counts DEF ElementsAnswered

(* No place more, no filler less, nobody falls asleep on not_full_. *)
LEMMA PlacesKept ==
    ASSUME TypeOK, TypeOK', PlacesAnswered, Len(queue') >= Len(queue),
           Fillers \subseteq Fillers', At(OnNotFull)' \subseteq At(OnNotFull)
    PROVE  PlacesAnswered'
<1>1. Cardinality(Fillers) <= Cardinality(Fillers')
  BY CountedLess, GroupsAreThreads
<1> QED BY <1>1, Counts, ConcurrentQueueAssumption DEF PlacesAnswered

LEMMA EmptyAnswered ==
    ASSUME TypeOK, TypeOK', queue' = <<>>
    PROVE  ElementsAnswered'
<1>1. Len(queue') = 0
  OBVIOUS
<1> QED BY <1>1, Counts DEF ElementsAnswered

(* What being woken does to the groups: the woken thread joins the takers  *)
(* if it slept on not_empty_, the fillers if on not_full_.                 *)
LEMMA WokenJoins ==
    ASSUME NEW pc1 \in [Threads -> Locations], NEW u \in Threads, Woken(pc1, pc', u)
    PROVE  /\ pc1[u] \in OnNotEmpty =>
                /\ Takers' = {v \in Threads : pc1[v] \in Consuming \cup {"notify_not_empty"}} \cup {u}
                /\ Fillers' = {v \in Threads : pc1[v] \in Producing \cup {"notify_not_full"}}
                /\ At(OnNotFull)' = {v \in Threads : pc1[v] \in OnNotFull}
                /\ At(OnNotEmpty)' \subseteq {v \in Threads : pc1[v] \in OnNotEmpty}
           /\ pc1[u] \in OnNotFull =>
                /\ Fillers' = {v \in Threads : pc1[v] \in Producing \cup {"notify_not_full"}} \cup {u}
                /\ Takers' = {v \in Threads : pc1[v] \in Consuming \cup {"notify_not_empty"}}
                /\ At(OnNotEmpty)' = {v \in Threads : pc1[v] \in OnNotEmpty}
                /\ At(OnNotFull)' \subseteq {v \in Threads : pc1[v] \in OnNotFull}
<1>1. \A v \in Threads : v # u => pc'[v] = pc1[v]
  BY DEF Woken
<1>2. CASE pc1[u] \in OnNotEmpty
  <2>1. pc'[u] \in {"pop", "pop_for"} /\ pc1[u] \in {"pop_wait", "pop_for_wait"}
    BY <1>2 DEF Woken, OnNotEmpty
  <2> QED BY <1>1, <2>1 DEF Takers, Fillers, At, OnNotEmpty, OnNotFull, Consuming, Producing
<1>3. CASE pc1[u] \in OnNotFull
  <2>1. pc'[u] = "push" /\ pc1[u] = "push_wait"
    BY <1>3 DEF Woken, OnNotFull
  <2> QED BY <1>1, <2>1 DEF Takers, Fillers, At, OnNotEmpty, OnNotFull, Consuming, Producing
<1> QED BY <1>2, <1>3

LEMMA NextWakes ==
    ASSUME IInv, WakeupsAreNotLost, [Next]_vars
    PROVE  WakeupsAreNotLost'
<1>0. TypeOK /\ TypeOK'
  BY NextIInv DEF IInv
<1>a. ElementsAnswered /\ PlacesAnswered
  BY TwoHalves
<1>b. (ElementsAnswered' /\ PlacesAnswered') => WakeupsAreNotLost'
  BY DEF WakeupsAreNotLost, ElementsAnswered, PlacesAnswered, Takers, Fillers, At
<1>c. /\ Len(queue) \in Nat /\ Len(queue') \in Nat
      /\ Cardinality(Takers) \in Nat /\ Cardinality(Takers') \in Nat
      /\ Cardinality(Fillers) \in Nat /\ Cardinality(Fillers') \in Nat
      /\ max_size \in Nat
  BY <1>0, Counts, ConcurrentQueueAssumption
<1>d. pc \in [Threads -> Locations] /\ queue \in Seq(1..pushed)
  BY <1>0 DEF TypeOK
<1>1. ASSUME NEW t \in Threads, NEW op \in {"push", "pop", "pop_for"}, Call(t, op)
      PROVE  WakeupsAreNotLost'
  <2>1. /\ queue' = queue /\ Takers \subseteq Takers' /\ Fillers \subseteq Fillers'
        /\ At(OnNotEmpty)' \subseteq At(OnNotEmpty) /\ At(OnNotFull)' \subseteq At(OnNotFull)
    BY <1>1, <1>d DEF Call, Takers, Fillers, At, OnNotEmpty, OnNotFull, Consuming, Producing
  <2> QED BY <1>0, <1>a, <1>b, <1>c, <2>1, ElementsKept, PlacesKept
<1>2. ASSUME NEW t \in Threads, PushWait(t) PROVE WakeupsAreNotLost'
  <2>1. /\ queue' = queue /\ Takers \subseteq Takers'
        /\ At(OnNotEmpty)' \subseteq At(OnNotEmpty)
    BY <1>2, <1>d DEF PushWait, Takers, At, OnNotEmpty, Consuming
  <2>2. max_size - Len(queue') <= 0
    BY <1>2, <1>c, <2>1 DEF PushWait, Full
  <2>3. PlacesAnswered'
    BY <1>c, <2>2 DEF PlacesAnswered
  <2> QED BY <1>0, <1>a, <1>b, <1>c, <2>1, <2>3, ElementsKept
<1>3. ASSUME NEW t \in Threads, Push(t) PROVE WakeupsAreNotLost'
  <2>1. /\ Takers' = Takers \cup {t} /\ t \notin Takers
        /\ Fillers' = Fillers \ {t} /\ t \in Fillers
        /\ At(OnNotEmpty)' = At(OnNotEmpty) /\ At(OnNotFull)' = At(OnNotFull)
    BY <1>3, <1>d DEF Push, Takers, Fillers, At, OnNotEmpty, OnNotFull, Consuming, Producing
  <2>2. /\ Cardinality(Takers') = Cardinality(Takers) + 1
        /\ Cardinality(Fillers') = Cardinality(Fillers) - 1
    BY <2>1, OneMore, OneLess, GroupsAreThreads
  <2>3. Len(queue') = Len(queue) + 1
    BY <1>3, <1>d DEF Push, Enqueue
  <2>4. ElementsAnswered' /\ PlacesAnswered'
    BY <1>a, <1>c, <2>1, <2>2, <2>3 DEF ElementsAnswered, PlacesAnswered
  <2> QED BY <1>b, <2>4
<1>4. ASSUME NEW t \in Threads, PopWait(t) \/ PopTimedOut(t) PROVE WakeupsAreNotLost'
  <2>1. /\ queue' = queue /\ queue = <<>> /\ Fillers \subseteq Fillers'
        /\ At(OnNotFull)' \subseteq At(OnNotFull)
    BY <1>4, <1>d DEF PopWait, PopTimedOut, Empty, Fillers, At, OnNotFull, Producing
  <2>2. ElementsAnswered'
    BY <1>0, <2>1, EmptyAnswered
  <2> QED BY <1>0, <1>a, <1>b, <1>c, <2>1, <2>2, PlacesKept
<1>5. ASSUME NEW t \in Threads, Pop(t) PROVE WakeupsAreNotLost'
  <2>1. /\ Fillers' = Fillers \cup {t} /\ t \notin Fillers
        /\ Takers' = Takers \ {t} /\ t \in Takers
        /\ At(OnNotEmpty)' = At(OnNotEmpty) /\ At(OnNotFull)' = At(OnNotFull)
    BY <1>5, <1>d DEF Pop, Takers, Fillers, At, OnNotEmpty, OnNotFull, Consuming, Producing
  <2>2. /\ Cardinality(Fillers') = Cardinality(Fillers) + 1
        /\ Cardinality(Takers') = Cardinality(Takers) - 1
    BY <2>1, OneMore, OneLess, GroupsAreThreads
  <2>3. Dequeue /\ ~ Empty
    BY <1>5 DEF Pop
  <2>4. Len(queue') = Len(queue) - 1
    BY <1>0, <2>3, DequeueType
  <2>5. ElementsAnswered' /\ PlacesAnswered'
    BY <1>a, <1>c, <2>1, <2>2, <2>4 DEF ElementsAnswered, PlacesAnswered
  <2> QED BY <1>b, <2>5
<1>6. ASSUME NEW t \in Threads, TimeOut(t) PROVE WakeupsAreNotLost'
  <2>1. /\ queue' = queue /\ Takers \subseteq Takers' /\ Fillers \subseteq Fillers'
        /\ At(OnNotEmpty)' \subseteq At(OnNotEmpty) /\ At(OnNotFull)' \subseteq At(OnNotFull)
    BY <1>6, <1>d DEF TimeOut, Takers, Fillers, At, OnNotEmpty, OnNotFull, Consuming, Producing
  <2> QED BY <1>0, <1>a, <1>b, <1>c, <2>1, ElementsKept, PlacesKept
<1>7. ASSUME NEW t \in Threads, Notify(t), pc[t] = "notify_not_empty"
      PROVE  WakeupsAreNotLost'
  <2> DEFINE pc1 == [pc EXCEPT ![t] = "idle"]
             idle(S) == {v \in Threads : pc1[v] \in S}
  <2>1. /\ pc1 \in [Threads -> Locations] /\ queue' = queue
        /\ pc' \in notify_one(pc1, OnNotEmpty)
    BY <1>7, <1>d DEF Notify, Locations
  <2>2. /\ idle(Consuming \cup {"notify_not_empty"}) = Takers \ {t} /\ t \in Takers
        /\ idle(Producing \cup {"notify_not_full"}) = Fillers
        /\ idle(OnNotFull) = At(OnNotFull) /\ idle(OnNotEmpty) = At(OnNotEmpty)
    BY <1>7, <1>d DEF Takers, Fillers, At, OnNotEmpty, OnNotFull, Consuming, Producing
  <2> HIDE DEF pc1
  <2>3. CASE pc' = pc1 /\ \A u \in Threads : pc1[u] \notin OnNotEmpty
    <3>1. /\ At(OnNotEmpty)' = {} /\ Fillers' = Fillers
          /\ At(OnNotFull)' = At(OnNotFull)
      BY <2>2, <2>3 DEF Fillers, At
    <3>2. ElementsAnswered'
      BY <3>1 DEF ElementsAnswered
    <3>3. PlacesAnswered'
      BY <1>0, <1>a, <1>c, <2>1, <3>1, PlacesKept
    <3> QED BY <1>b, <3>2, <3>3
  <2>4. ASSUME NEW u \in Threads, pc1[u] \in OnNotEmpty, Woken(pc1, pc', u)
        PROVE  WakeupsAreNotLost'
    <3>1. /\ Takers' = (Takers \ {t}) \cup {u}
          /\ Fillers' = Fillers
          /\ At(OnNotFull)' = At(OnNotFull) /\ At(OnNotEmpty)' \subseteq At(OnNotEmpty)
      BY <2>1, <2>2, <2>4, WokenJoins
    <3>2. u \notin Takers \ {t}
      BY <2>2, <2>4 DEF OnNotEmpty, Consuming
    <3>3. Cardinality(Takers \ {t}) = Cardinality(Takers) - 1
      BY <2>2, OneLess, GroupsAreThreads
    <3>4. Cardinality(Takers') = Cardinality(Takers)
      <4>1. Takers \ {t} \subseteq Threads
        BY GroupsAreThreads
      <4>2. Cardinality((Takers \ {t}) \cup {u}) = Cardinality(Takers \ {t}) + 1
        BY <3>2, <4>1, OneMore
      <4> QED BY <1>c, <3>1, <3>3, <4>2
    <3>5. ElementsAnswered'
      BY <1>a, <1>c, <2>1, <3>1, <3>4 DEF ElementsAnswered
    <3>6. PlacesAnswered'
      BY <1>0, <1>a, <1>c, <2>1, <3>1, PlacesKept
    <3> QED BY <1>b, <3>5, <3>6
  <2> QED BY <2>1, <2>3, <2>4, NotifyOneWakesOne
<1>8. ASSUME NEW t \in Threads, Notify(t), pc[t] = "notify_not_full"
      PROVE  WakeupsAreNotLost'
  <2> DEFINE pc1 == [pc EXCEPT ![t] = "idle"]
             idle(S) == {v \in Threads : pc1[v] \in S}
  <2>1. /\ pc1 \in [Threads -> Locations] /\ queue' = queue
        /\ pc' \in notify_one(pc1, OnNotFull)
    BY <1>8, <1>d DEF Notify, Locations
  <2>2. /\ idle(Consuming \cup {"notify_not_empty"}) = Takers
        /\ idle(Producing \cup {"notify_not_full"}) = Fillers \ {t} /\ t \in Fillers
        /\ idle(OnNotFull) = At(OnNotFull) /\ idle(OnNotEmpty) = At(OnNotEmpty)
    BY <1>8, <1>d DEF Takers, Fillers, At, OnNotEmpty, OnNotFull, Consuming, Producing
  <2> HIDE DEF pc1
  <2>3. CASE pc' = pc1 /\ \A u \in Threads : pc1[u] \notin OnNotFull
    <3>1. /\ At(OnNotFull)' = {} /\ Takers' = Takers
          /\ At(OnNotEmpty)' = At(OnNotEmpty)
      BY <2>2, <2>3 DEF Takers, At
    <3>2. PlacesAnswered'
      BY <3>1 DEF PlacesAnswered
    <3>3. ElementsAnswered'
      BY <1>0, <1>a, <1>c, <2>1, <3>1, ElementsKept
    <3> QED BY <1>b, <3>2, <3>3
  <2>4. ASSUME NEW u \in Threads, pc1[u] \in OnNotFull, Woken(pc1, pc', u)
        PROVE  WakeupsAreNotLost'
    <3>1. /\ Fillers' = (Fillers \ {t}) \cup {u}
          /\ Takers' = Takers
          /\ At(OnNotEmpty)' = At(OnNotEmpty) /\ At(OnNotFull)' \subseteq At(OnNotFull)
      BY <2>1, <2>2, <2>4, WokenJoins
    <3>2. u \notin Fillers \ {t}
      BY <2>2, <2>4 DEF OnNotFull, Producing
    <3>3. Cardinality(Fillers \ {t}) = Cardinality(Fillers) - 1
      BY <2>2, OneLess, GroupsAreThreads
    <3>4. Cardinality(Fillers') = Cardinality(Fillers)
      <4>1. Fillers \ {t} \subseteq Threads
        BY GroupsAreThreads
      <4>2. Cardinality((Fillers \ {t}) \cup {u}) = Cardinality(Fillers \ {t}) + 1
        BY <3>2, <4>1, OneMore
      <4> QED BY <1>c, <3>1, <3>3, <4>2
    <3>5. PlacesAnswered'
      BY <1>a, <1>c, <2>1, <3>1, <3>4 DEF PlacesAnswered
    <3>6. ElementsAnswered'
      BY <1>0, <1>a, <1>c, <2>1, <3>1, ElementsKept
    <3> QED BY <1>b, <3>5, <3>6
  <2> QED BY <2>1, <2>3, <2>4, NotifyOneWakesOne
<1>9. ASSUME NEW t \in Threads, SpuriousWakeup(t) PROVE WakeupsAreNotLost'
  <2>1. queue' = queue /\ pc[t] \in OnNotFull \cup OnNotEmpty /\ Woken(pc, pc', t)
    BY <1>9, <1>d, AwokenWakes DEF SpuriousWakeup
  <2>2. /\ Takers \subseteq Takers' /\ Fillers \subseteq Fillers'
        /\ At(OnNotEmpty)' \subseteq At(OnNotEmpty) /\ At(OnNotFull)' \subseteq At(OnNotFull)
    BY <1>d, <2>1, WokenJoins DEF Takers, Fillers, At
  <2> QED BY <1>0, <1>a, <1>b, <1>c, <2>1, <2>2, ElementsKept, PlacesKept
<1>10. ASSUME NEW t \in Threads, try_push(t) PROVE WakeupsAreNotLost'
  <2>1. Len(queue') = Len(queue) + 1 /\ pc' \in notify_one(pc, OnNotEmpty)
    BY <1>10, <1>d DEF try_push, Enqueue
  <2>2. CASE pc' = pc /\ \A u \in Threads : pc[u] \notin OnNotEmpty
    <3>1. /\ At(OnNotEmpty)' = {} /\ Fillers' = Fillers
          /\ At(OnNotFull)' = At(OnNotFull)
      BY <2>2 DEF Fillers, At
    <3>2. ElementsAnswered'
      BY <3>1 DEF ElementsAnswered
    <3>3. PlacesAnswered'
      BY <1>0, <1>a, <1>c, <2>1, <3>1, PlacesKept
    <3> QED BY <1>b, <3>2, <3>3
  <2>3. ASSUME NEW u \in Threads, pc[u] \in OnNotEmpty, Woken(pc, pc', u)
        PROVE  WakeupsAreNotLost'
    <3>1. /\ Takers' = Takers \cup {u} /\ Fillers' = Fillers
          /\ At(OnNotFull)' = At(OnNotFull) /\ At(OnNotEmpty)' \subseteq At(OnNotEmpty)
      BY <1>d, <2>3, WokenJoins DEF Takers, Fillers, At
    <3>2. u \notin Takers
      BY <2>3 DEF Takers, At, OnNotEmpty, Consuming
    <3>3. Cardinality(Takers') = Cardinality(Takers) + 1
      BY <3>1, <3>2, OneMore, GroupsAreThreads
    <3>4. ElementsAnswered'
      BY <1>a, <1>c, <2>1, <3>1, <3>3 DEF ElementsAnswered
    <3>5. PlacesAnswered'
      BY <1>0, <1>a, <1>c, <2>1, <3>1, PlacesKept
    <3> QED BY <1>b, <3>4, <3>5
  <2> QED BY <1>d, <2>1, <2>2, <2>3, NotifyOneWakesOne
<1>11. ASSUME NEW t \in Threads, try_pop(t) PROVE WakeupsAreNotLost'
  <2>0. Dequeue /\ ~ Empty
    BY <1>11 DEF try_pop
  <2>1. Len(queue') = Len(queue) - 1 /\ pc' \in notify_one(pc, OnNotFull)
    BY <1>0, <1>11, <2>0, DequeueType DEF try_pop
  <2>2. CASE pc' = pc /\ \A u \in Threads : pc[u] \notin OnNotFull
    <3>1. /\ At(OnNotFull)' = {} /\ Takers' = Takers
          /\ At(OnNotEmpty)' = At(OnNotEmpty)
      BY <2>2 DEF Takers, At
    <3>2. PlacesAnswered'
      BY <3>1 DEF PlacesAnswered
    <3>3. ElementsAnswered'
      BY <1>0, <1>a, <1>c, <2>1, <3>1, ElementsKept
    <3> QED BY <1>b, <3>2, <3>3
  <2>3. ASSUME NEW u \in Threads, pc[u] \in OnNotFull, Woken(pc, pc', u)
        PROVE  WakeupsAreNotLost'
    <3>1. /\ Fillers' = Fillers \cup {u} /\ Takers' = Takers
          /\ At(OnNotEmpty)' = At(OnNotEmpty) /\ At(OnNotFull)' \subseteq At(OnNotFull)
      BY <1>d, <2>3, WokenJoins DEF Takers, Fillers, At
    <3>2. u \notin Fillers
      BY <2>3 DEF Fillers, At, OnNotFull, Producing
    <3>3. Cardinality(Fillers') = Cardinality(Fillers) + 1
      BY <3>1, <3>2, OneMore, GroupsAreThreads
    <3>4. PlacesAnswered'
      BY <1>a, <1>c, <2>1, <3>1, <3>3 DEF PlacesAnswered
    <3>5. ElementsAnswered'
      BY <1>0, <1>a, <1>c, <2>1, <3>1, ElementsKept
    <3> QED BY <1>b, <3>4, <3>5
  <2> QED BY <1>d, <2>1, <2>2, <2>3, NotifyOneWakesOne
<1>12. ASSUME NEW t \in Threads, clear(t) PROVE WakeupsAreNotLost'
  <2>1. queue' = <<>> /\ At(OnNotFull)' = {}
    BY <1>12, <1>d DEF clear, At, OnNotFull
  <2>2. PlacesAnswered'
    BY <2>1 DEF PlacesAnswered
  <2> QED BY <1>0, <1>b, <2>1, <2>2, EmptyAnswered
<1>13. CASE UNCHANGED vars
  <2>1. /\ queue' = queue /\ Takers' = Takers /\ Fillers' = Fillers
        /\ At(OnNotEmpty)' = At(OnNotEmpty) /\ At(OnNotFull)' = At(OnNotFull)
    BY <1>13 DEF vars, Takers, Fillers, At
  <2> QED BY <1>0, <1>a, <1>b, <1>c, <2>1, ElementsKept, PlacesKept
<1>14. ASSUME NEW t \in Threads, Notify(t)
       PROVE  pc[t] = "notify_not_empty" \/ pc[t] = "notify_not_full"
  BY <1>14 DEF Notify
<1> QED BY <1>1, <1>2, <1>3, <1>4, <1>5, <1>6, <1>7, <1>8, <1>9, <1>10, <1>11, <1>12,
           <1>13, <1>14 DEF Next, Step

(* No wakeup is lost, although push, pop and try_pop_for notify after they *)
(* have unlocked the mutex: a sleeping consumer means that every element   *)
(* has an awake consumer or a notification under way, a sleeping producer  *)
(* the same of every free place, after clear too.                          *)
THEOREM NoWakeupIsLost == Spec => []WakeupsAreNotLost
<1>1. Init => WakeupsAreNotLost
  BY DEF Init, WakeupsAreNotLost, At, OnNotEmpty, OnNotFull
<1>2. IInv /\ WakeupsAreNotLost /\ [Next]_vars => WakeupsAreNotLost'
  BY NextWakes
<1> QED BY <1>1, <1>2, Invariance, PTL DEF Spec

-----------------------------------------------------------------------------
(* First in, first out *)

LEMMA FIFOAsElems ==
    FirstInFirstOut <=> /\ Increasing(popped \o queue)
                        /\ Elems(popped \o queue) = (1..pushed) \ cleared
BY DEF FirstInFirstOut, Increasing, Elems

(* An element larger than all of a sequence may follow it. *)
LEMMA AppendIncreasing ==
    ASSUME NEW n \in Nat, NEW s \in Seq(1..n), Increasing(s)
    PROVE  /\ Increasing(Append(s, n + 1))
           /\ Elems(Append(s, n + 1)) = Elems(s) \cup {n + 1}
<1>1. /\ Len(s) \in Nat
      /\ Len(Append(s, n + 1)) = Len(s) + 1
      /\ Append(s, n + 1)[Len(s) + 1] = n + 1
      /\ \A i \in 1..Len(s) : Append(s, n + 1)[i] = s[i] /\ s[i] \in 1..n
  OBVIOUS
<1>2. \A i \in 1..(Len(s) + 1) : i \in 1..Len(s) \/ i = Len(s) + 1
  BY <1>1
<1>3. 1..Len(s) \subseteq 1..(Len(s) + 1) /\ Len(s) + 1 \in 1..(Len(s) + 1)
  BY <1>1
<1>4. Elems(Append(s, n + 1)) = Elems(s) \cup {n + 1}
  BY <1>1, <1>2, <1>3 DEF Elems
<1>5. ASSUME NEW i \in 1..(Len(s) + 1), NEW j \in 1..(Len(s) + 1), i < j
      PROVE  Append(s, n + 1)[i] < Append(s, n + 1)[j]
  <2>1. i \in 1..Len(s)
    BY <1>1, <1>5
  <2>2. CASE j \in 1..Len(s)
    BY <1>1, <1>5, <2>1, <2>2 DEF Increasing
  <2>3. CASE j = Len(s) + 1
    BY <1>1, <2>1, <2>3
  <2> QED BY <1>2, <2>2, <2>3
<1> QED BY <1>1, <1>4, <1>5 DEF Increasing

(* An increasing sequence can be cut anywhere: its first part is           *)
(* increasing and has no element of the rest.                              *)
LEMMA PrefixIncreasing ==
    ASSUME NEW n \in Nat, NEW p \in Seq(1..n), NEW q \in Seq(1..n), Increasing(p \o q)
    PROVE  Increasing(p) /\ Elems(p) \cap Elems(q) = {}
<1>1. /\ Len(p) \in Nat /\ Len(q) \in Nat
      /\ Len(p \o q) = Len(p) + Len(q)
      /\ \A i \in 1..Len(p) : (p \o q)[i] = p[i] /\ p[i] \in 1..n
      /\ \A i \in 1..Len(q) : (p \o q)[Len(p) + i] = q[i] /\ q[i] \in 1..n
  OBVIOUS
<1>2. Increasing(p)
  <2> SUFFICES ASSUME NEW i \in 1..Len(p), NEW j \in 1..Len(p), i < j
               PROVE  p[i] < p[j]
    BY DEF Increasing
  <2>1. i \in 1..Len(p \o q) /\ j \in 1..Len(p \o q)
    BY <1>1
  <2>2. (p \o q)[i] < (p \o q)[j]
    BY <2>1 DEF Increasing
  <2> QED BY <1>1, <2>2
<1>3. ASSUME NEW i \in 1..Len(p), NEW j \in 1..Len(q) PROVE p[i] # q[j]
  <2>1. /\ i \in 1..Len(p \o q) /\ Len(p) + j \in 1..Len(p \o q)
        /\ i < Len(p) + j
    BY <1>1
  <2>2. (p \o q)[i] < (p \o q)[Len(p) + j]
    BY <2>1 DEF Increasing
  <2>3. p[i] < q[j] /\ p[i] \in 1..n /\ q[j] \in 1..n
    BY <1>1, <2>2
  <2> QED BY <2>3
<1>4. Elems(p) \cap Elems(q) = {}
  BY <1>3 DEF Elems
<1> QED BY <1>2, <1>4

LEMMA NextFIFO ==
    ASSUME IInv, FirstInFirstOut, [Next]_vars
    PROVE  FirstInFirstOut'
<1>0. /\ TypeOK /\ TypeOK' /\ pushed \in Nat
      /\ queue \in Seq(1..pushed) /\ popped \in Seq(1..pushed)
      /\ cleared \subseteq 1..pushed
  BY NextIInv DEF IInv, TypeOK
<1>a. /\ Increasing(popped \o queue)
      /\ Elems(popped \o queue) = (1..pushed) \ cleared
  BY FIFOAsElems
<1>b. (/\ Increasing(popped' \o queue')
       /\ Elems(popped' \o queue') = (1..pushed') \ cleared') => FirstInFirstOut'
  BY DEF FirstInFirstOut, Increasing, Elems
<1>1. CASE UNCHANGED <<queue, pushed, popped, cleared>>
  BY <1>1, <1>a, <1>b
<1>2. CASE Enqueue
  <2>1. popped' \o queue' = Append(popped \o queue, pushed + 1)
    <3>1. queue' = Append(queue, pushed + 1) /\ popped' = popped
      BY <1>2 DEF Enqueue
    <3>2. /\ queue \in Seq(Nat) /\ popped \in Seq(Nat) /\ pushed + 1 \in Nat
      BY <1>0
    <3>3. popped \o Append(queue, pushed + 1) = Append(popped \o queue, pushed + 1)
      BY <3>2, AppendIsConcat, ConcatAssociative, ConcatProperties
    <3> QED BY <3>1, <3>3
  <2>2. popped \o queue \in Seq(1..pushed)
    BY <1>0, ConcatElems
  <2>3. /\ Increasing(popped' \o queue')
        /\ Elems(popped' \o queue') = ((1..pushed) \ cleared) \cup {pushed + 1}
    BY <1>0, <1>a, <2>1, <2>2, AppendIncreasing
  <2>4. ((1..pushed) \ cleared) \cup {pushed + 1} = (1..(pushed + 1)) \ cleared
    BY <1>0
  <2>5. pushed' = pushed + 1 /\ cleared' = cleared
    BY <1>2 DEF Enqueue
  <2> QED BY <1>b, <2>3, <2>4, <2>5
<1>3. CASE Dequeue /\ ~ Empty
  <2>1. popped' \o queue' = popped \o queue /\ pushed' = pushed /\ cleared' = cleared
    BY <1>0, <1>3, DequeueType DEF Dequeue
  <2> QED BY <1>a, <1>b, <2>1
<1>4. ASSUME NEW t \in Threads, clear(t) PROVE FirstInFirstOut'
  <2>1. /\ queue' = <<>> /\ popped' = popped /\ pushed' = pushed
        /\ cleared' = cleared \cup Elems(queue)
    BY <1>4 DEF clear, Elems
  <2>2. popped' \o queue' = popped
    BY <1>0, <2>1, ConcatEmptySeq
  <2>3. /\ Increasing(popped) /\ Elems(popped) \cap Elems(queue) = {}
    BY <1>0, <1>a, PrefixIncreasing
  <2>4. Elems(popped \o queue) = Elems(popped) \cup Elems(queue)
    BY <1>0, ConcatElems
  <2>5. Elems(popped) = (1..pushed) \ (cleared \cup Elems(queue))
    BY <1>a, <2>3, <2>4
  <2> QED BY <1>b, <2>1, <2>2, <2>3, <2>5
<1>5. ASSUME NEW t \in Threads,
             \/ \E op \in {"push", "pop", "pop_for"} : Call(t, op)
             \/ Step(t) \/ SpuriousWakeup(t) \/ try_push(t) \/ try_pop(t)
      PROVE  UNCHANGED <<queue, pushed, popped, cleared>> \/ Enqueue \/ (Dequeue /\ ~ Empty)
  BY <1>5 DEF Call, Step, PushWait, Push, PopWait, Pop, TimeOut, PopTimedOut, Notify,
              SpuriousWakeup, try_push, try_pop
<1>6. CASE UNCHANGED vars
  BY <1>1, <1>6 DEF vars
<1> QED BY <1>1, <1>2, <1>3, <1>4, <1>5, <1>6 DEF Next

(* Whatever the threads do, elements reach the consumers in the order of   *)
(* the pushes, none twice, and none is lost that clear did not drop.       *)
THEOREM QueueIsFirstInFirstOut == Spec => []FirstInFirstOut
<1>1. Init => FirstInFirstOut
  <2> SUFFICES ASSUME Init PROVE FirstInFirstOut
    OBVIOUS
  <2>1. popped \o queue = <<>> /\ Len(<<>>) = 0 /\ pushed = 0
    BY DEF Init
  <2> QED BY <2>1 DEF FirstInFirstOut
<1>2. IInv /\ FirstInFirstOut /\ [Next]_vars => FirstInFirstOut'
  BY NextFIFO
<1> QED BY <1>1, <1>2, Invariance, PTL DEF Spec
=============================================================================
