------------------------- MODULE MichaelScottQueue -------------------------
(***************************************************************************)
(* cppforge::data_structure::concurrent::MichaelScottQueue: a lock-free    *)
(* linked queue with a dummy node at its head, whose nodes are recycled    *)
(* through a free pool.  head_, tail_ and free_head_ carry tags; the next  *)
(* field of a node carries the tag of the pool's head while the node is in *)
(* the pool, and tag 0 in the queue.                                       *)
(*                                                                         *)
(* Every access to shared memory is one step, compare_exchange_weak may    *)
(* fail spuriously, memory is sequentially consistent.  The pool is the    *)
(* code of TreiberStack, whose loops are shown to be atomic there: taking  *)
(* a node is one step here; giving one back links it and then swaps the    *)
(* head, as a stale enqueue may meet the node in between.                  *)
(***************************************************************************)
EXTENDS Integers, Sequences, FiniteSets

CONSTANTS
    Producers, Consumers,  \* threads that enqueue, and that dequeue
    MoveConsumers,         \* those that dequeue when the elements are move-only
    Nodes,                 \* what operator new can return; bound of the pool
    Values,                \* elements, each enqueued at most once
    ElementKinds,          \* values of copyable
    TagMod,                \* 2^16 in the code
    Null, None, Nothing, Torn

Users == Producers \cup Consumers

VARIABLES
    copyable,   \* std::is_copy_constructible_v<T>; it does not change
    head, tail, free_head,  \* head_, tail_, free_head_
    size,                   \* size_, negative for a wrapped size_t
    next, value,            \* per node
    heap,                   \* nodes not allocated
    unused,                 \* values not enqueued yet
    pc, h, tl, nxt,         \* per thread: head_tagged, tail_tagged, next_node
    node,                   \* per thread: the node it owns
    val,                    \* per thread: the value enqueued or extracted
    ret,                    \* per thread: where push_free_node returns to
    sent, got,              \* history: values whose enqueue, dequeue returned
    empty                   \* history, per thread: the queue was empty when
                            \* next_node was read

shared == <<copyable, head, tail, free_head, size, next, value, heap, unused>>
local == <<pc, h, tl, nxt, node, val, ret>>
history == <<sent, got, empty>>
vars == <<shared, local, history>>

Pointers == Nodes \cup {Null}
Tagged == [ptr : Pointers, tag : 0..(TagMod - 1)]
Null0 == [ptr |-> Null, tag |-> 0]
PC == {"idle", "pool", "reset", "emplace", "construct", "enq_tail",
       "enq_next", "enq_check", "enq_cas", "enq_count", "enq_swing",
       "enq_help", "deq_head", "deq_tail", "deq_next", "deq_check",
       "deq_help", "deq_has", "deq_copy", "deq_cas", "deq_take",
       "free_link", "free_cas", "deq_count"}

TypeOK ==
    /\ copyable \in BOOLEAN
    /\ head \in Tagged /\ tail \in Tagged /\ free_head \in Tagged
    /\ size \in Int
    /\ next \in [Nodes -> Tagged]
    /\ value \in [Nodes -> Values \cup {Nothing, Torn}]
    /\ heap \subseteq Nodes
    /\ unused \subseteq Values
    /\ pc \in [Users -> PC]
    /\ h \in [Users -> Tagged] /\ tl \in [Users -> Tagged]
    /\ nxt \in [Users -> Pointers] /\ node \in [Users -> Pointers]
    /\ val \in [Users -> Values \cup {None, Torn}]
    /\ ret \in [Users -> {"idle", "deq_count"}]
    /\ sent \subseteq Values /\ got \subseteq Values \cup {Torn}
    /\ empty \in [Users -> BOOLEAN]

pack_ptr_untruncated(p, o) == [ptr |-> p, tag |-> o.tag + 1]
(* Pointer p with the tag after that of o. *)
pack_ptr(p, o) == [ptr |-> p, tag |-> (o.tag + 1) % TagMod]

GoTo(t, where) == pc' = [pc EXCEPT ![t] = where]

-----------------------------------------------------------------------------
(* enqueue: a node, from the pool or new, and its element *)

enqueue(t, v) ==
    /\ pc[t] = "idle"
    /\ v \in unused
    /\ unused' = unused \ {v}
    /\ val' = [val EXCEPT ![t] = v]
    /\ GoTo(t, "pool")
    /\ UNCHANGED <<copyable, head, tail, free_head, size, next, value, heap,
                   h, tl, nxt, node, ret, history>>

pop_free_node(t) ==
    /\ pc[t] = "pool"
    /\ free_head.ptr # Null
    /\ node' = [node EXCEPT ![t] = free_head.ptr]
    /\ free_head' = pack_ptr(next[free_head.ptr].ptr, free_head)
    /\ GoTo(t, "reset")
    /\ UNCHANGED <<copyable, head, tail, size, next, value, heap, unused, h,
                   tl, nxt, val, ret, history>>

Allocate(t) ==
    /\ pc[t] = "pool"
    /\ free_head.ptr = Null
    /\ \E n \in heap :
         /\ heap' = heap \ {n}
         /\ node' = [node EXCEPT ![t] = n]
         /\ next' = [next EXCEPT ![n] = Null0]
         /\ value' = [value EXCEPT ![n] = Nothing]
    /\ GoTo(t, "emplace")
    /\ UNCHANGED <<copyable, head, tail, free_head, size, unused, h, tl, nxt,
                   val, ret, history>>

PopFreeReset(t) ==
    /\ pc[t] = "reset"
    /\ next' = [next EXCEPT ![node[t]] = Null0]
    /\ GoTo(t, "emplace")
    /\ UNCHANGED <<copyable, head, tail, free_head, size, value, heap,
                   unused, h, tl, nxt, node, val, ret, history>>

EmplaceDestroys(t) ==
    /\ pc[t] = "emplace"
    /\ value' = [value EXCEPT ![node[t]] = Nothing]
    /\ GoTo(t, "construct")
    /\ UNCHANGED <<copyable, head, tail, free_head, size, next, heap, unused,
                   h, tl, nxt, node, val, ret, history>>

EmplaceConstructs(t) ==
    /\ pc[t] = "construct"
    /\ value' = [value EXCEPT ![node[t]] = val[t]]
    /\ GoTo(t, "enq_tail")
    /\ UNCHANGED <<copyable, head, tail, free_head, size, next, heap, unused,
                   h, tl, nxt, node, val, ret, history>>

EmplaceThrows(t) ==
    /\ pc[t] = "construct"
    /\ val' = [val EXCEPT ![t] = None]
    /\ ret' = [ret EXCEPT ![t] = "idle"]
    /\ GoTo(t, "free_link")
    /\ UNCHANGED <<shared, h, tl, nxt, node, history>>

-----------------------------------------------------------------------------
(* enqueue: the Michael-Scott loop *)

EnqTail(t) ==
    /\ pc[t] = "enq_tail"
    /\ tl' = [tl EXCEPT ![t] = tail]
    /\ GoTo(t, "enq_next")
    /\ UNCHANGED <<shared, h, nxt, node, val, ret, history>>

EnqNext(t) ==
    /\ pc[t] = "enq_next"
    /\ nxt' = [nxt EXCEPT ![t] = next[tl[t].ptr].ptr]
    /\ GoTo(t, "enq_check")
    /\ UNCHANGED <<shared, h, tl, node, val, ret, history>>

EnqCheck(t) ==
    /\ pc[t] = "enq_check"
    /\ GoTo(t, IF tl[t] # tail THEN "enq_tail"
               ELSE IF nxt[t] = Null THEN "enq_cas" ELSE "enq_help")
    /\ UNCHANGED <<shared, h, tl, nxt, node, val, ret, history>>

(* The compare-and-swap of next expects the plain word 0: no tag. *)
EnqLink(t) ==
    /\ pc[t] = "enq_cas"
    /\ next[tl[t].ptr] = Null0
    /\ next' = [next EXCEPT ![tl[t].ptr] = [ptr |-> node[t], tag |-> 0]]
    /\ GoTo(t, "enq_count")
    /\ UNCHANGED <<copyable, head, tail, free_head, size, value, heap,
                   unused, h, tl, nxt, node, val, ret, history>>

EnqLinkFailsIgnored(t) ==
    /\ pc[t] = "enq_cas"
    /\ GoTo(t, "enq_count")
    /\ UNCHANGED <<shared, h, tl, nxt, node, val, ret, history>>
EnqLinkFails(t) ==
    /\ pc[t] = "enq_cas"
    /\ GoTo(t, "enq_tail")
    /\ UNCHANGED <<shared, h, tl, nxt, node, val, ret, history>>

EnqCountForgotten(t) ==
    /\ pc[t] = "enq_count"
    /\ GoTo(t, "enq_swing")
    /\ UNCHANGED <<shared, h, tl, nxt, node, val, ret, history>>
EnqCount(t) ==
    /\ pc[t] = "enq_count"
    /\ size' = size + 1
    /\ GoTo(t, "enq_swing")
    /\ UNCHANGED <<copyable, head, tail, free_head, next, value, heap,
                   unused, h, tl, nxt, node, val, ret, history>>

(* tail_ moves on to n, or the weak compare-and-swap fails. *)
AdvanceTail(t, n) ==
    \/ /\ tail = tl[t]
       /\ tail' = pack_ptr(n, tl[t])
    \/ UNCHANGED tail

(* Whether or not tail_ could be moved, enqueue returns. *)
EnqSwing(t) ==
    /\ pc[t] = "enq_swing"
    /\ AdvanceTail(t, node[t])
    /\ sent' = sent \cup {val[t]}
    /\ val' = [val EXCEPT ![t] = None]
    /\ GoTo(t, "idle")
    /\ UNCHANGED <<copyable, head, free_head, size, next, value, heap,
                   unused, h, tl, nxt, node, ret, got, empty>>

Help(t) ==
    /\ pc[t] \in {"enq_help", "deq_help"}
    /\ AdvanceTail(t, nxt[t])
    /\ GoTo(t, IF pc[t] = "enq_help" THEN "enq_tail" ELSE "deq_head")
    /\ UNCHANGED <<copyable, head, free_head, size, next, value, heap,
                   unused, h, tl, nxt, node, val, ret, history>>

-----------------------------------------------------------------------------
(* try_dequeue *)

try_dequeue(t) ==
    /\ pc[t] = "idle"
    /\ GoTo(t, "deq_head")
    /\ UNCHANGED <<shared, h, tl, nxt, node, val, ret, history>>

DeqHead(t) ==
    /\ pc[t] = "deq_head"
    /\ h' = [h EXCEPT ![t] = head]
    /\ GoTo(t, "deq_tail")
    /\ UNCHANGED <<shared, tl, nxt, node, val, ret, history>>

DeqTail(t) ==
    /\ pc[t] = "deq_tail"
    /\ tl' = [tl EXCEPT ![t] = tail]
    /\ GoTo(t, "deq_next")
    /\ UNCHANGED <<shared, h, nxt, node, val, ret, history>>

DeqNext(t) ==
    /\ pc[t] = "deq_next"
    /\ nxt' = [nxt EXCEPT ![t] = next[h[t].ptr].ptr]
    /\ empty' = [empty EXCEPT ![t] =
                    h[t] = head /\ h[t].ptr = tl[t].ptr
                        /\ next[head.ptr].ptr = Null]
    /\ GoTo(t, "deq_check")
    /\ UNCHANGED <<shared, h, tl, node, val, ret, sent, got>>

DeqCheckNoLag(t) ==
    /\ pc[t] = "deq_check"
    /\ GoTo(t, IF h[t] # head THEN "deq_head"
               ELSE IF nxt[t] = Null THEN "idle"
               ELSE IF copyable THEN "deq_has" ELSE "deq_cas")
    /\ empty' = [empty EXCEPT ![t] = FALSE]
    /\ UNCHANGED <<shared, h, tl, nxt, node, val, ret, sent, got>>
DeqCheck(t) ==
    /\ pc[t] = "deq_check"
    /\ GoTo(t, IF h[t] # head THEN "deq_head"
               ELSE IF h[t].ptr = tl[t].ptr
               THEN IF nxt[t] = Null THEN "idle" ELSE "deq_help"
               ELSE IF copyable THEN "deq_has" ELSE "deq_cas")
    /\ empty' = [empty EXCEPT ![t] = FALSE]
    /\ UNCHANGED <<shared, h, tl, nxt, node, val, ret, sent, got>>

DeqHas(t) ==
    /\ pc[t] = "deq_has"
    /\ GoTo(t, IF value[nxt[t]] = Nothing THEN "deq_head" ELSE "deq_copy")
    /\ UNCHANGED <<shared, h, tl, nxt, node, val, ret, history>>

DeqCopyDummy(t) ==
    /\ pc[t] = "deq_copy"
    /\ val' = [val EXCEPT ![t] = IF value[h[t].ptr] = Nothing
                                 THEN Torn ELSE value[h[t].ptr]]
    /\ GoTo(t, "deq_cas")
    /\ UNCHANGED <<shared, h, tl, nxt, node, ret, history>>
DeqCopy(t) ==
    /\ pc[t] = "deq_copy"
    /\ val' = [val EXCEPT ![t] = IF value[nxt[t]] = Nothing
                                 THEN Torn ELSE value[nxt[t]]]
    /\ GoTo(t, "deq_cas")
    /\ UNCHANGED <<shared, h, tl, nxt, node, ret, history>>

DeqCasBlind(t) ==
    /\ pc[t] = "deq_cas"
    /\ head' = pack_ptr(nxt[t], h[t])
    /\ node' = [node EXCEPT ![t] = h[t].ptr]
    /\ ret' = [ret EXCEPT ![t] = "deq_count"]
    /\ GoTo(t, IF copyable THEN "free_link" ELSE "deq_take")
    /\ UNCHANGED <<copyable, tail, free_head, size, next, value, heap,
                   unused, h, tl, nxt, val, history>>
DeqCas(t) ==
    /\ pc[t] = "deq_cas"
    /\ head = h[t]
    /\ head' = pack_ptr(nxt[t], h[t])
    /\ node' = [node EXCEPT ![t] = h[t].ptr]
    /\ ret' = [ret EXCEPT ![t] = "deq_count"]
    /\ GoTo(t, IF copyable THEN "free_link" ELSE "deq_take")
    /\ UNCHANGED <<copyable, tail, free_head, size, next, value, heap,
                   unused, h, tl, nxt, val, history>>

DeqCasFails(t) ==
    /\ pc[t] = "deq_cas"
    /\ val' = [val EXCEPT ![t] = None]
    /\ GoTo(t, "deq_head")
    /\ UNCHANGED <<shared, h, tl, nxt, node, ret, history>>

(* The move-only path: the element is moved out of the new dummy.  If it   *)
(* is not there the loop starts again and the old dummy is forgotten.      *)
DeqTake(t) ==
    /\ pc[t] = "deq_take"
    /\ IF value[nxt[t]] = Nothing
       THEN GoTo(t, "deq_head") /\ UNCHANGED <<value, val>>
       ELSE /\ val' = [val EXCEPT ![t] = value[nxt[t]]]
            /\ value' = [value EXCEPT ![nxt[t]] = Torn]
            /\ GoTo(t, "free_link")
    /\ UNCHANGED <<copyable, head, tail, free_head, size, next, heap, unused,
                   h, tl, nxt, node, ret, history>>

DeqCount(t) ==
    /\ pc[t] = "deq_count"
    /\ size' = size - 1
    /\ got' = got \cup {val[t]}
    /\ val' = [val EXCEPT ![t] = None]
    /\ GoTo(t, "idle")
    /\ UNCHANGED <<copyable, head, tail, free_head, next, value, heap,
                   unused, h, tl, nxt, node, ret, sent, empty>>

(* push_free_node: h holds old_head. *)

FreeLink(t) ==
    /\ pc[t] = "free_link"
    /\ h' = [h EXCEPT ![t] = free_head]
    /\ next' = [next EXCEPT ![node[t]] = free_head]
    /\ GoTo(t, "free_cas")
    /\ UNCHANGED <<copyable, head, tail, free_head, size, value, heap,
                   unused, tl, nxt, node, val, ret, history>>

FreeCas(t) ==
    /\ pc[t] = "free_cas"
    /\ IF free_head = h[t]
       THEN free_head' = pack_ptr(node[t], h[t]) /\ GoTo(t, ret[t])
       ELSE UNCHANGED free_head /\ GoTo(t, "free_link")
    /\ UNCHANGED <<copyable, head, tail, size, next, value, heap, unused, h,
                   tl, nxt, node, val, ret, history>>

-----------------------------------------------------------------------------
(* The nodes of a list: its n-th node, and how many it has. *)
Nth(first) ==
    LET f[n \in 0..Cardinality(Nodes)] ==
            IF n = 0 THEN first
            ELSE IF f[n - 1] = Null THEN Null ELSE next[f[n - 1]].ptr
    IN  f

Ends(first) == \E n \in 0..Cardinality(Nodes) : Nth(first)[n] = Null
Length(first) ==
    CHOOSE n \in 0..Cardinality(Nodes) :
        /\ Nth(first)[n] = Null
        /\ \A m \in 0..(n - 1) : Nth(first)[m] # Null
ListNodes(first) == {Nth(first)[n] : n \in 0..Cardinality(Nodes)} \ {Null}

(* destroy_all_nodes, and the dummy node taken over from an empty queue.   *)
(* Nobody uses the queue.                                                  *)
AssignEmpty ==
    /\ \A t \in Users : pc[t] = "idle"
    /\ \E n \in heap :
         /\ heap' = (heap \cup ListNodes(head.ptr) \cup ListNodes(free_head.ptr))
                        \ {n}
         /\ head' = [ptr |-> n, tag |-> 0]
         /\ tail' = [ptr |-> n, tag |-> 0]
         /\ next' = [next EXCEPT ![n] = Null0]
         /\ value' = [value EXCEPT ![n] = Nothing]
    /\ free_head' = Null0
    /\ size' = 0
    /\ got' = got \cup sent
    /\ UNCHANGED <<copyable, unused, local, sent, empty>>

Init ==
    /\ copyable \in ElementKinds
    /\ \E n \in Nodes :
         /\ head = [ptr |-> n, tag |-> 0]
         /\ heap = Nodes \ {n}
    /\ tail = head
    /\ free_head = Null0
    /\ size = 0
    /\ next = [n \in Nodes |-> Null0]
    /\ value = [n \in Nodes |-> Nothing]
    /\ unused = Values
    /\ pc = [t \in Users |-> "idle"]
    /\ h = [t \in Users |-> Null0]
    /\ tl = [t \in Users |-> Null0]
    /\ nxt = [t \in Users |-> Null]
    /\ node = [t \in Users |-> Null]
    /\ val = [t \in Users |-> None]
    /\ ret = [t \in Users |-> "idle"]
    /\ sent = {} /\ got = {}
    /\ empty = [t \in Users |-> FALSE]

Step(t) ==
    \/ pop_free_node(t) \/ Allocate(t) \/ PopFreeReset(t)
    \/ EmplaceDestroys(t) \/ EmplaceConstructs(t) \/ EmplaceThrows(t)
    \/ EnqTail(t) \/ EnqNext(t) \/ EnqCheck(t) \/ EnqLink(t)
    \/ EnqLinkFails(t) \/ EnqCount(t) \/ EnqSwing(t) \/ Help(t)
    \/ DeqHead(t) \/ DeqTail(t) \/ DeqNext(t) \/ DeqCheck(t) \/ DeqHas(t)
    \/ DeqCopy(t) \/ DeqCas(t) \/ DeqCasFails(t) \/ DeqTake(t)
    \/ FreeLink(t) \/ FreeCas(t) \/ DeqCount(t)

Next ==
    \/ \E t \in Producers, v \in Values : enqueue(t, v)
    \/ \E t \in IF copyable THEN Consumers ELSE MoveConsumers : try_dequeue(t)
    \/ \E t \in Users : Step(t)
    \/ AssignEmpty

Spec == Init /\ [][Next]_vars

-----------------------------------------------------------------------------
(* Properties *)

Freeing == {"free_link", "free_cas"}
Owns(t) ==
    pc[t] \in Freeing \cup {"reset", "emplace", "construct", "enq_tail",
                            "enq_next", "enq_check", "enq_cas", "enq_help",
                            "deq_take"}

(* Every node is not allocated, in the queue, in the pool or owned by one  *)
(* thread, and only one of these; tail_ points into the queue.             *)
NodesArePartitioned ==
    LET owned == {node[t] : t \in {u \in Users : Owns(u)}}
        places == <<heap, ListNodes(head.ptr), ListNodes(free_head.ptr), owned>>
    IN  /\ Ends(head.ptr) /\ Ends(free_head.ptr)
        /\ \A i, j \in 1..4 : i # j => places[i] \cap places[j] = {}
        /\ UNION {places[i] : i \in 1..4} = Nodes
        /\ \A t, u \in Users :
             Owns(t) /\ Owns(u) /\ node[t] = node[u] => t = u
        /\ tail.ptr \in ListNodes(head.ptr)

contents ==
    [i \in 1..(Length(head.ptr) - 1) |-> value[Nth(head.ptr)[i]]]

Dequeued(t) ==
    pc[t] \in {"deq_count", "deq_take"}
        \/ (pc[t] \in Freeing /\ ret[t] = "deq_count")

(* size_ is the number of elements up to the operations that have taken    *)
(* effect and have not counted yet.                                        *)
SizeIsAccounted ==
    size = Length(head.ptr) - 1
             - Cardinality({t \in Users : pc[t] = "enq_count"})
             + Cardinality({t \in Users : Dequeued(t)})

(* With nobody inside an operation, the queue holds exactly the elements   *)
(* whose enqueue has returned and that no dequeue has returned.            *)
NoElementLost ==
    (\A t \in Users : pc[t] = "idle") =>
        /\ Ends(head.ptr)
        /\ {contents[i] : i \in DOMAIN contents} = sent \ got

(* A dequeue returns an intact element, and one that no other dequeue has  *)
(* returned.                                                               *)
DequeuedOnce ==
    \A t \in Users : pc[t] = "deq_count" => val[t] \in Values \ got

(* Refinement: an enqueue takes effect when its node is linked, a dequeue  *)
(* when head_ moves, a dequeue of nothing when next was read as null.      *)
entering ==
    [t \in Users |->
        IF pc[t] \in {"pool", "reset", "emplace", "construct", "enq_tail",
                      "enq_next", "enq_check", "enq_cas", "enq_help"}
        THEN val[t] ELSE None]

result ==
    [t \in Users |->
        IF empty[t] THEN Nothing
        ELSE IF pc[t] = "deq_take" THEN value[nxt[t]]
        ELSE IF Dequeued(t) THEN val[t]
        ELSE None]

Fifo == INSTANCE ConcurrentSequence
            WITH LastInFirstOut <- FALSE, Threads <- Users, in <- entering, out <- result

IsLinearizable == Fifo!Spec
=============================================================================
