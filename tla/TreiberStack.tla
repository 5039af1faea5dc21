---------------------------- MODULE TreiberStack ----------------------------
(***************************************************************************)
(* cppforge::data_structure::concurrent::TreiberStack: a lock-free stack   *)
(* whose nodes are recycled through a lock-free free pool.  Both heads     *)
(* carry a tag that every successful compare-and-swap increments; a tag    *)
(* counts on here, and a comparison sees what its 16 bits hold.            *)
(*                                                                         *)
(* Every access to shared memory is one step.  A failed compare-and-swap,  *)
(* spurious failures of the weak form included, loads the current head     *)
(* into the local copy.  The tag stored in a node's next field is never    *)
(* read, so next is a plain pointer here.  std::optional::emplace first    *)
(* destroys the old element and then constructs the new one: two steps,    *)
(* and the constructor may throw in between.  Memory is sequentially       *)
(* consistent.                                                             *)
(***************************************************************************)
EXTENDS Integers, Sequences, FiniteSets

CONSTANTS
    Threads,
    Nodes,      \* what operator new can return; bound of the pool
    Values,     \* elements, each pushed at most once
    ElementKinds,   \* values of copyable
    TagMod,     \* 2^16 in the code
    Null, None, Nothing, Torn

ASSUME TreiberStackAssumption ==
    /\ IsFiniteSet(Threads) /\ IsFiniteSet(Nodes)
    /\ ElementKinds \subseteq BOOLEAN
    /\ TagMod \in Nat \ {0}
    /\ Null \notin Nodes
    /\ None \notin Values \cup {Nothing, Torn}
    /\ Nothing \notin Values \cup {Torn} /\ Torn \notin Values

VARIABLES
    copyable,   \* std::is_copy_constructible_v<T>; it does not change
    top,        \* top_: pointer and tag
    free_head,  \* free_head_
    size,       \* size_, as an integer: a negative one is a wrapped size_t
    next,       \* per node
    value,      \* per node: Nothing for a disengaged optional
    heap,       \* nodes not allocated
    unused,     \* values not pushed yet
    pc,         \* per thread
    old,        \* per thread: old_top or old_head
    nxt,        \* per thread: the next pointer read
    node,       \* per thread: the node it works on
    val,        \* per thread: the value pushed or extracted
    ret         \* per thread: where push_free_node returns to

shared == <<copyable, top, free_head, size, next, value, heap, unused>>
local == <<pc, old, nxt, node, val, ret>>
vars == <<shared, local>>

Pointers == Nodes \cup {Null}
Tagged == [ptr : Pointers, tag : Nat]
PC == {"idle", "pf_load", "pf_next", "pf_cas", "pf_reset", "emplace",
       "construct", "push_load", "push_link", "push_cas", "push_count",
       "pop_load", "pop_next", "pop_check", "pop_copy", "pop_cas",
       "pop_take", "free_load", "free_link", "free_cas", "pop_count"}

TypeOK ==
    /\ copyable \in BOOLEAN
    /\ top \in Tagged
    /\ free_head \in Tagged
    /\ size \in Int
    /\ next \in [Nodes -> Pointers]
    /\ value \in [Nodes -> Values \cup {Nothing, Torn}]
    /\ heap \subseteq Nodes
    /\ unused \subseteq Values
    /\ pc \in [Threads -> PC]
    /\ old \in [Threads -> Tagged]
    /\ nxt \in [Threads -> Pointers]
    /\ node \in [Threads -> Pointers]
    /\ val \in [Threads -> Values \cup {None, Torn}]
    /\ ret \in [Threads -> {"idle", "pop_load", "pop_count"}]

Null0 == [ptr |-> Null, tag |-> 0]

pack_ptr_same_tag(p, o) == [ptr |-> p, tag |-> o.tag]
(* The new head: pointer p and the tag after that of o. *)
pack_ptr(p, o) == [ptr |-> p, tag |-> o.tag + 1]

(* What compare_exchange compares: the pointer and the bits of the tag. *)
SamePointer(a, b) == a.ptr = b.ptr
SameWord(a, b) == a.ptr = b.ptr /\ (a.tag - b.tag) % TagMod = 0

GoTo(t, where) == pc' = [pc EXCEPT ![t] = where]
Load(t, head) == old' = [old EXCEPT ![t] = head]

-----------------------------------------------------------------------------
(* pop_free_node, inlined in push *)

push(t, v) ==
    /\ pc[t] = "idle"
    /\ v \in unused
    /\ unused' = unused \ {v}
    /\ val' = [val EXCEPT ![t] = v]
    /\ GoTo(t, "pf_load")
    /\ UNCHANGED <<copyable, top, free_head, size, next, value, heap, old,
                   nxt, node, ret>>

PopFreeLoad(t) ==
    /\ pc[t] = "pf_load"
    /\ Load(t, free_head)
    /\ GoTo(t, "pf_next")
    /\ UNCHANGED <<shared, nxt, node, val, ret>>

(* The pool is empty: new Node(). *)
Allocate(t) ==
    /\ pc[t] = "pf_next"
    /\ old[t].ptr = Null
    /\ \E n \in heap :
         /\ heap' = heap \ {n}
         /\ node' = [node EXCEPT ![t] = n]
         /\ next' = [next EXCEPT ![n] = Null]
         /\ value' = [value EXCEPT ![n] = Nothing]
    /\ GoTo(t, "emplace")
    /\ UNCHANGED <<copyable, top, free_head, size, unused, old, nxt, val,
                   ret>>

PopFreeNext(t) ==
    /\ pc[t] = "pf_next"
    /\ old[t].ptr # Null
    /\ nxt' = [nxt EXCEPT ![t] = next[old[t].ptr]]
    /\ GoTo(t, "pf_cas")
    /\ UNCHANGED <<shared, old, node, val, ret>>

PopFreeCas(t) ==
    /\ pc[t] = "pf_cas"
    /\ SameWord(free_head, old[t])
    /\ free_head' = pack_ptr(nxt[t], old[t])
    /\ node' = [node EXCEPT ![t] = old[t].ptr]
    /\ GoTo(t, "pf_reset")
    /\ UNCHANGED <<copyable, top, size, next, value, heap, unused, old, nxt,
                   val, ret>>

PopFreeReset(t) ==
    /\ pc[t] = "pf_reset"
    /\ next' = [next EXCEPT ![node[t]] = Null]
    /\ GoTo(t, "emplace")
    /\ UNCHANGED <<copyable, top, free_head, size, value, heap, unused, old,
                   nxt, node, val, ret>>

-----------------------------------------------------------------------------
(* push *)

EmplaceDestroys(t) ==
    /\ pc[t] = "emplace"
    /\ value' = [value EXCEPT ![node[t]] = Nothing]
    /\ GoTo(t, "construct")
    /\ UNCHANGED <<copyable, top, free_head, size, next, heap, unused, old,
                   nxt, node, val, ret>>

EmplaceConstructs(t) ==
    /\ pc[t] = "construct"
    /\ value' = [value EXCEPT ![node[t]] = val[t]]
    /\ GoTo(t, "push_load")
    /\ UNCHANGED <<copyable, top, free_head, size, next, heap, unused, old,
                   nxt, node, val, ret>>

EmplaceThrowsIgnored(t) ==
    /\ pc[t] = "construct"
    /\ GoTo(t, "push_load")
    /\ UNCHANGED <<shared, old, nxt, node, val, ret>>
EmplaceThrows(t) ==
    /\ pc[t] = "construct"
    /\ ret' = [ret EXCEPT ![t] = "idle"]
    /\ val' = [val EXCEPT ![t] = None]
    /\ GoTo(t, "free_load")
    /\ UNCHANGED <<shared, old, nxt, node>>

PushLoad(t) ==
    /\ pc[t] = "push_load"
    /\ Load(t, top)
    /\ GoTo(t, "push_link")
    /\ UNCHANGED <<shared, nxt, node, val, ret>>

PushLink(t) ==
    /\ pc[t] = "push_link"
    /\ next' = [next EXCEPT ![node[t]] = old[t].ptr]
    /\ GoTo(t, "push_cas")
    /\ UNCHANGED <<copyable, top, free_head, size, value, heap, unused, old,
                   nxt, node, val, ret>>

PushCas(t) ==
    /\ pc[t] = "push_cas"
    /\ SameWord(top, old[t])
    /\ top' = pack_ptr(node[t], old[t])
    /\ GoTo(t, "push_count")
    /\ UNCHANGED <<copyable, free_head, size, next, value, heap, unused, old,
                   nxt, node, val, ret>>

PushCount(t) ==
    /\ pc[t] = "push_count"
    /\ size' = size + 1
    /\ val' = [val EXCEPT ![t] = None]
    /\ GoTo(t, "idle")
    /\ UNCHANGED <<copyable, top, free_head, next, value, heap, unused, old,
                   nxt, node, ret>>

-----------------------------------------------------------------------------
(* try_pop *)

try_pop(t) ==
    /\ pc[t] = "idle"
    /\ GoTo(t, "pop_load")
    /\ UNCHANGED <<shared, old, nxt, node, val, ret>>

PopLoad(t) ==
    /\ pc[t] = "pop_load"
    /\ Load(t, top)
    /\ GoTo(t, "pop_next")
    /\ UNCHANGED <<shared, nxt, node, val, ret>>

PopEmpty(t) ==
    /\ pc[t] = "pop_next"
    /\ old[t].ptr = Null
    /\ GoTo(t, "idle")
    /\ UNCHANGED <<shared, old, nxt, node, val, ret>>

PopNext(t) ==
    /\ pc[t] = "pop_next"
    /\ old[t].ptr # Null
    /\ nxt' = [nxt EXCEPT ![t] = next[old[t].ptr]]
    /\ GoTo(t, IF copyable THEN "pop_check" ELSE "pop_cas")
    /\ UNCHANGED <<shared, old, node, val, ret>>

PopCheck(t) ==
    /\ pc[t] = "pop_check"
    /\ GoTo(t, IF value[old[t].ptr] = Nothing THEN "pop_load" ELSE "pop_copy")
    /\ UNCHANGED <<shared, old, nxt, node, val, ret>>

(* The copy is unsynchronised: an element destroyed since the check, or    *)
(* under construction, yields no value of T.                               *)
PopCopy(t) ==
    /\ pc[t] = "pop_copy"
    /\ val' = [val EXCEPT ![t] = IF value[old[t].ptr] = Nothing
                                 THEN Torn ELSE value[old[t].ptr]]
    /\ GoTo(t, "pop_cas")
    /\ UNCHANGED <<shared, old, nxt, node, ret>>

PopCas(t) ==
    /\ pc[t] = "pop_cas"
    /\ SameWord(top, old[t])
    /\ top' = pack_ptr(nxt[t], old[t])
    /\ node' = [node EXCEPT ![t] = old[t].ptr]
    /\ ret' = [ret EXCEPT ![t] = "pop_count"]
    /\ GoTo(t, IF copyable THEN "free_load" ELSE "pop_take")
    /\ UNCHANGED <<copyable, free_head, size, next, value, heap, unused, old,
                   nxt, val>>

(* The move-only path; a disengaged optional is given back and the pop     *)
(* starts again.  A moved-from optional stays engaged.                     *)
PopTake(t) ==
    /\ pc[t] = "pop_take"
    /\ IF value[node[t]] = Nothing
       THEN /\ ret' = [ret EXCEPT ![t] = "pop_load"]
            /\ UNCHANGED <<value, val>>
       ELSE /\ val' = [val EXCEPT ![t] = value[node[t]]]
            /\ value' = [value EXCEPT ![node[t]] = Torn]
            /\ UNCHANGED ret
    /\ GoTo(t, "free_load")
    /\ UNCHANGED <<copyable, top, free_head, size, next, heap, unused, old,
                   nxt, node>>

PopCountForgotten(t) ==
    /\ pc[t] = "pop_count"
    /\ size' = size
    /\ val' = [val EXCEPT ![t] = None]
    /\ GoTo(t, "idle")
    /\ UNCHANGED <<copyable, top, free_head, next, value, heap, unused, old,
                   nxt, node, ret>>
PopCount(t) ==
    /\ pc[t] = "pop_count"
    /\ size' = size - 1
    /\ val' = [val EXCEPT ![t] = None]
    /\ GoTo(t, "idle")
    /\ UNCHANGED <<copyable, top, free_head, next, value, heap, unused, old,
                   nxt, node, ret>>

-----------------------------------------------------------------------------
(* push_free_node *)

FreeLoad(t) ==
    /\ pc[t] = "free_load"
    /\ Load(t, free_head)
    /\ GoTo(t, "free_link")
    /\ UNCHANGED <<shared, nxt, node, val, ret>>

FreeLink(t) ==
    /\ pc[t] = "free_link"
    /\ next' = [next EXCEPT ![node[t]] = old[t].ptr]
    /\ GoTo(t, "free_cas")
    /\ UNCHANGED <<copyable, top, free_head, size, value, heap, unused, old,
                   nxt, node, val, ret>>

FreeCas(t) ==
    /\ pc[t] = "free_cas"
    /\ SameWord(free_head, old[t])
    /\ free_head' = pack_ptr(node[t], old[t])
    /\ GoTo(t, ret[t])
    /\ UNCHANGED <<copyable, top, size, next, value, heap, unused, old, nxt,
                   node, val, ret>>

(* compare_exchange_weak fails: the head has changed, or spuriously. *)
CasFails(t) ==
    \/ /\ pc[t] = "pf_cas" /\ Load(t, free_head) /\ GoTo(t, "pf_next")
       /\ UNCHANGED <<shared, nxt, node, val, ret>>
    \/ /\ pc[t] = "push_cas" /\ Load(t, top) /\ GoTo(t, "push_link")
       /\ UNCHANGED <<shared, nxt, node, val, ret>>
    \/ /\ pc[t] = "pop_cas" /\ Load(t, top) /\ GoTo(t, "pop_next")
       /\ val' = [val EXCEPT ![t] = None]
       /\ UNCHANGED <<shared, nxt, node, ret>>
    \/ /\ pc[t] = "free_cas" /\ Load(t, free_head) /\ GoTo(t, "free_link")
       /\ UNCHANGED <<shared, nxt, node, val, ret>>

-----------------------------------------------------------------------------
(* The nodes of a list, from its first: the n-th pointer that a walk along *)
(* the links meets, and the nodes in their order.                          *)
Nth(first, link) ==
    LET f[n \in 0..Cardinality(Nodes)] ==
            IF n = 0 THEN first
            ELSE IF f[n - 1] = Null THEN Null ELSE link[f[n - 1]]
    IN  f

Ends(first, link) == \E n \in 0..Cardinality(Nodes) : Nth(first, link)[n] = Null
Length(first, link) ==
    CHOOSE n \in 0..Cardinality(Nodes) :
        /\ Nth(first, link)[n] = Null
        /\ \A m \in 0..(n - 1) : Nth(first, link)[m] # Null
List(first, link) == [i \in 1..Length(first, link) |-> Nth(first, link)[i - 1]]
ListNodes(first, link) == {Nth(first, link)[n] : n \in 0..Cardinality(Nodes)} \ {Null}

(* destroy_all_nodes walks both lists; the move assignment from an empty   *)
(* stack does that and takes over its null heads.  Nobody uses the stack.  *)
AssignEmpty ==
    /\ \A t \in Threads : pc[t] = "idle"
    /\ heap' = heap \cup ListNodes(top.ptr, next) \cup ListNodes(free_head.ptr, next)
    /\ top' = Null0
    /\ free_head' = Null0
    /\ size' = 0
    /\ UNCHANGED <<copyable, next, value, unused, local>>

Init ==
    /\ copyable \in ElementKinds
    /\ top = Null0
    /\ free_head = Null0
    /\ size = 0
    /\ next = [n \in Nodes |-> Null]
    /\ value = [n \in Nodes |-> Nothing]
    /\ heap = Nodes
    /\ unused = Values
    /\ pc = [t \in Threads |-> "idle"]
    /\ old = [t \in Threads |-> Null0]
    /\ nxt = [t \in Threads |-> Null]
    /\ node = [t \in Threads |-> Null]
    /\ val = [t \in Threads |-> None]
    /\ ret = [t \in Threads |-> "idle"]

Step(t) ==
    \/ PopFreeLoad(t) \/ Allocate(t) \/ PopFreeNext(t) \/ PopFreeCas(t)
    \/ PopFreeReset(t)
    \/ EmplaceDestroys(t) \/ EmplaceConstructs(t) \/ EmplaceThrows(t)
    \/ PushLoad(t) \/ PushLink(t) \/ PushCas(t) \/ PushCount(t)
    \/ PopLoad(t) \/ PopEmpty(t) \/ PopNext(t) \/ PopCheck(t) \/ PopCopy(t)
    \/ PopCas(t) \/ PopTake(t) \/ PopCount(t)
    \/ FreeLoad(t) \/ FreeLink(t) \/ FreeCas(t)
    \/ CasFails(t)

Next ==
    \/ \E t \in Threads :
         \/ \E v \in Values : push(t, v)
         \/ try_pop(t)
         \/ Step(t)
    \/ AssignEmpty

Spec == Init /\ [][Next]_vars

-----------------------------------------------------------------------------
(* Properties *)

Freeing == {"free_load", "free_link", "free_cas"}

(* Where a thread owns the node it works on. *)
Owns(t) ==
    pc[t] \in Freeing \cup {"pf_reset", "emplace", "construct", "push_load",
                            "push_link", "push_cas", "pop_take"}

(* Every node is in exactly one place: not allocated, on the stack, in the *)
(* pool, or owned by one thread.  So no node is freed or reused twice and  *)
(* none leaks, which is what destroy_all_nodes relies on.                  *)
NodesArePartitioned ==
    LET owned == {node[t] : t \in {u \in Threads : Owns(u)}}
        places == <<heap, ListNodes(top.ptr, next), ListNodes(free_head.ptr, next), owned>>
    IN  /\ Ends(top.ptr, next) /\ Ends(free_head.ptr, next)
        /\ \A i, j \in 1..4 : i # j => places[i] \cap places[j] = {}
        /\ UNION {places[i] : i \in 1..4} = Nodes
        /\ \A t, u \in Threads :
             Owns(t) /\ Owns(u) /\ node[t] = node[u] => t = u

Popped(t) ==
    \/ pc[t] = "pop_count"
    \/ pc[t] \in Freeing /\ ret[t] = "pop_count"
    \/ pc[t] = "pop_take"

(* size_ is the length of the stack up to the operations that have taken   *)
(* effect and have not counted yet; exact when nobody uses the stack.      *)
SizeIsAccounted ==
    size = Length(top.ptr, next)
             - Cardinality({t \in Threads : pc[t] = "push_count"})
             + Cardinality({t \in Threads : Popped(t)})

(* The defensive branch of the move-only path is never taken: "This should *)
(* not happen on a correctly-operated stack".                              *)
TakesAnElement ==
    \A t \in Threads : pc[t] = "pop_take" => value[node[t]] \in Values

(* Refinement: the operations take effect atomically, at the successful    *)
(* compare-and-swap or, for a pop of an empty stack, when the null head    *)
(* was loaded; a pop returns the element it unlinked.                      *)
contents ==
    LET l == List(top.ptr, next) IN [i \in 1..Len(l) |-> value[l[i]]]

pushing ==
    [t \in Threads |->
        IF pc[t] \in {"pf_load", "pf_next", "pf_cas", "pf_reset", "emplace",
                      "construct", "push_load", "push_link", "push_cas"}
        THEN val[t] ELSE None]

result ==
    [t \in Threads |->
        IF pc[t] = "pop_next" /\ old[t].ptr = Null THEN Nothing
        ELSE IF pc[t] = "pop_take" THEN value[node[t]]
        ELSE IF Popped(t) THEN val[t]
        ELSE None]

Stack == INSTANCE ConcurrentSequence
            WITH LastInFirstOut <- TRUE, in <- pushing, out <- result

IsLinearizable == Stack!Spec
=============================================================================
