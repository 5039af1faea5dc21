------------------------------ MODULE CircularBuffers -----------------------
(***************************************************************************)
(* queue::RingBuffer, Deque, Heap and TopK: containers in an array.  Each  *)
(* has its own variables, except for the array and its indices.            *)
(***************************************************************************)
EXTENDS Integers, Sequences, FiniteSets

LOCAL INSTANCE Functions

CONSTANTS
    Values,
    Default,       \* T{}
    Capacities,    \* arguments of the constructor and of resize
    kMinCapacity,
    AnyResize,     \* FALSE: no resize to less than what the buffer holds
    MaxSize,       \* bound: elements
    Items,         \* integers; compare_ is <
    MaxRange,      \* bound: elements a heap is made of
    MaxHeap        \* bound: elements in the heap

VARIABLES
    buffer,      \* buffer_: [0 .. slots - 1 -> element]
    head,
    tail,        \* head_, tail_
    slots,       \* capacity_: one more than what the buffer holds
    contents,    \* history: the elements it should hold
    deque_size,  \* deque_size_
    capacity,    \* capacity_
    data,        \* data_
    bag          \* history: how often each value should be in the heap

-----------------------------------------------------------------------------
(* cppforge::data_structure::RingBuffer: capacity + 1 slots used in a      *)
(* circle, of which one is always free, so that head_ = tail_ means empty. *)
(* A full buffer drops an element at the other end to take a new one.      *)

RingBuffer_vars == <<buffer, head, tail, slots, contents>>

RingBuffer_TypeOK ==
    /\ slots - 1 \in Capacities
    /\ buffer \in [0 .. slots - 1 -> Values \cup {Default}]
    /\ head \in 0 .. slots - 1 /\ tail \in 0 .. slots - 1
    /\ contents \in Seq(Values) /\ Len(contents) < slots

next(i) == (i + 1) % slots
prev(i) == (i + slots - 1) % slots
size == (tail + slots - head) % slots
empty == head = tail
full == next(tail) = head
RingBuffer_at(i) == buffer[(head + i) % slots]

DropFirst(s) == SubSeq(s, 2, Len(s))
DropLast(s) == SubSeq(s, 1, Len(s) - 1)

-----------------------------------------------------------------------------
RingBuffer_push_back(v) ==
    /\ buffer' = [buffer EXCEPT ![tail] = v]
    /\ tail' = next(tail)
    /\ head' = IF next(tail) = head THEN next(head) ELSE head
    /\ contents' = Append(IF Len(contents) = slots - 1 THEN DropFirst(contents)
                          ELSE contents, v)
    /\ UNCHANGED slots

push_front_keeps_tail(v) ==
    /\ head' = prev(head)
    /\ buffer' = [buffer EXCEPT ![prev(head)] = v]
    /\ UNCHANGED <<tail, slots>>
    /\ contents' = <<v>> \o (IF Len(contents) = slots - 1 THEN DropLast(contents)
                             ELSE contents)

RingBuffer_push_front(v) ==
    /\ head' = prev(head)
    /\ buffer' = [buffer EXCEPT ![prev(head)] = v]
    /\ tail' = IF prev(head) = tail THEN prev(tail) ELSE tail
    /\ contents' = <<v>> \o (IF Len(contents) = slots - 1 THEN DropLast(contents)
                             ELSE contents)
    /\ UNCHANGED slots

RingBuffer_pop_front ==
    /\ ~ empty
    /\ head' = next(head)
    /\ contents' = DropFirst(contents)
    /\ UNCHANGED <<buffer, tail, slots>>

RingBuffer_pop_back ==
    /\ ~ empty
    /\ tail' = prev(tail)
    /\ contents' = DropLast(contents)
    /\ UNCHANGED <<buffer, head, slots>>

RingBuffer_clear ==
    /\ head' = 0 /\ tail' = 0
    /\ contents' = <<>>
    /\ UNCHANGED <<buffer, slots>>

(* "drops oldest elements if needed" (RingBuffer.hpp); the code copies from *)
(* the head, and drops the newest.                                          *)
resize(n) ==
    LET kept == IF size < n THEN size ELSE n
    IN /\ n # slots - 1
       /\ AnyResize \/ size <= n
       /\ buffer' = [i \in 0 .. n |-> IF i < kept THEN RingBuffer_at(i) ELSE Default]
       /\ head' = 0
       /\ tail' = kept
       /\ slots' = n + 1
       /\ contents' = SubSeq(contents, Len(contents) - kept + 1, Len(contents))

RingBuffer_Init ==
    /\ slots \in {c + 1 : c \in Capacities}
    /\ buffer = [i \in 0 .. slots - 1 |-> Default]
    /\ head = 0 /\ tail = 0
    /\ contents = <<>>

RingBuffer_Next ==
    \/ \E v \in Values : RingBuffer_push_back(v) \/ RingBuffer_push_front(v)
    \/ RingBuffer_pop_front \/ RingBuffer_pop_back \/ RingBuffer_clear
    \/ \E n \in Capacities : resize(n)


-----------------------------------------------------------------------------
(* size, empty, full, front, back and at(i) speak of the elements pushed    *)
(* and not yet popped or dropped, in their order, wherever the circle's     *)
(* seam is and whatever overflowed at either end.                           *)
RingBuffer_ReadsAsASequence ==
    /\ size = Len(contents)
    /\ empty = (contents = <<>>)
    /\ full = (Len(contents) = slots - 1)
    /\ \A i \in 1 .. Len(contents) : RingBuffer_at(i - 1) = contents[i]
    /\ contents # <<>> => buffer[prev(tail)] = contents[Len(contents)]

-----------------------------------------------------------------------------
(* cppforge::data_structure::Deque: a circular buffer that doubles when it *)
(* is full.  head_ = tail_ both when it is empty and when it is full, and  *)
(* deque_size_ tells which.  Copying is left out.                          *)

Deque_vars == <<buffer, head, tail, deque_size, capacity, contents>>

Deque_TypeOK ==
    /\ buffer \in [0 .. capacity - 1 -> Values \cup {Default}]
    /\ capacity > 0 => head \in 0 .. capacity - 1 /\ tail \in 0 .. capacity - 1
    /\ deque_size \in 0 .. capacity

Deque_at(i) == buffer[(head + i) % capacity]

(* grow when full: the elements go to the front of a new buffer.  What a    *)
(* push works on is a record of the members.                                *)
grown_unaligned ==
    LET n == IF capacity = 0 THEN kMinCapacity ELSE 2 * capacity
    IN IF deque_size # capacity
       THEN [buffer |-> buffer, head |-> head, tail |-> tail, cap |-> capacity]
       ELSE [buffer |-> [i \in 0 .. n - 1 |-> IF i < deque_size THEN buffer[i] ELSE Default],
             head |-> 0, tail |-> deque_size, cap |-> n]

grown ==
    LET n == IF capacity = 0 THEN kMinCapacity ELSE 2 * capacity
    IN IF deque_size # capacity
       THEN [buffer |-> buffer, head |-> head, tail |-> tail, cap |-> capacity]
       ELSE [buffer |-> [i \in 0 .. n - 1 |-> IF i < deque_size THEN Deque_at(i) ELSE Default],
             head |-> 0, tail |-> deque_size, cap |-> n]

-----------------------------------------------------------------------------
Deque_push_front(v) ==
    LET g == grown
        h == IF g.head = 0 THEN g.cap - 1 ELSE g.head - 1
    IN /\ deque_size < MaxSize
       /\ buffer' = [g.buffer EXCEPT ![h] = v]
       /\ head' = h
       /\ tail' = g.tail
       /\ capacity' = g.cap
       /\ deque_size' = deque_size + 1
       /\ contents' = <<v>> \o contents

Deque_push_back(v) ==
    LET g == grown
    IN /\ deque_size < MaxSize
       /\ buffer' = [g.buffer EXCEPT ![g.tail] = v]
       /\ tail' = (g.tail + 1) % g.cap
       /\ head' = g.head
       /\ capacity' = g.cap
       /\ deque_size' = deque_size + 1
       /\ contents' = Append(contents, v)

Deque_pop_front ==
    /\ deque_size # 0
    /\ head' = (head + 1) % capacity
    /\ deque_size' = deque_size - 1
    /\ contents' = Tail(contents)
    /\ UNCHANGED <<buffer, tail, capacity>>

Deque_pop_back ==
    /\ deque_size # 0
    /\ tail' = IF tail = 0 THEN capacity - 1 ELSE tail - 1
    /\ deque_size' = deque_size - 1
    /\ contents' = SubSeq(contents, 1, Len(contents) - 1)
    /\ UNCHANGED <<buffer, head, capacity>>

Deque_clear ==
    /\ buffer' = [i \in {} |-> Default]
    /\ head' = 0 /\ tail' = 0
    /\ deque_size' = 0 /\ capacity' = 0
    /\ contents' = <<>>

Deque_Init ==
    /\ buffer = [i \in {} |-> Default]
    /\ head = 0 /\ tail = 0
    /\ deque_size = 0 /\ capacity = 0
    /\ contents = <<>>

Deque_Next ==
    \/ \E v \in Values : Deque_push_front(v) \/ Deque_push_back(v)
    \/ Deque_pop_front \/ Deque_pop_back \/ Deque_clear


-----------------------------------------------------------------------------
(* front, back, at(i) and size speak of the elements pushed and not popped, *)
(* wherever the seam was when the buffer grew.                              *)
Deque_ReadsAsASequence ==
    /\ deque_size = Len(contents)
    /\ \A i \in 1 .. deque_size : Deque_at(i - 1) = contents[i]
    /\ deque_size > 0 =>
          buffer[IF tail = 0 THEN capacity - 1 ELSE tail - 1] = contents[deque_size]

-----------------------------------------------------------------------------
(* cppforge::data_structure::Heap: a binary heap in a vector, the greatest *)
(* element on top.                                                         *)

Heap_vars == <<data, bag>>

(* data[i + 1] is the element at index i. *)
swap(d, i, j) == [d EXCEPT ![i + 1] = d[j + 1], ![j + 1] = d[i + 1]]

RECURSIVE heapify_up(_, _)
heapify_up(d, i) ==
    LET parent == (i - 1) \div 2
    IN IF i > 0 /\ d[parent + 1] < d[i + 1]
       THEN heapify_up(swap(d, i, parent), parent) ELSE d

(* The child that comes up: the right one only if it beats the left one. *)
target_of_right(d, i) ==
    LET left == 2 * i + 1
        right == 2 * i + 2
    IN IF right < Len(d) /\ d[i + 1] < d[right + 1] THEN right
       ELSE IF left < Len(d) /\ d[i + 1] < d[left + 1] THEN left ELSE i

target_of(d, i) ==
    LET left == 2 * i + 1
        right == 2 * i + 2
        t == IF left < Len(d) /\ d[i + 1] < d[left + 1] THEN left ELSE i
    IN IF right < Len(d) /\ d[t + 1] < d[right + 1] THEN right ELSE t

RECURSIVE heapify_down(_, _)
heapify_down(d, i) ==
    IF target_of(d, i) = i THEN d
    ELSE heapify_down(swap(d, i, target_of(d, i)), target_of(d, i))

RECURSIVE heapify(_, _)
heapify(d, i) == IF i = 0 THEN d ELSE heapify(heapify_down(d, i - 1), i - 1)

BagOf(s) == [v \in Items |-> Cardinality({i \in DOMAIN s : s[i] = v})]

-----------------------------------------------------------------------------
push(v) ==
    /\ Len(data) < MaxHeap
    /\ data' = heapify_up(Append(data, v), Len(data))
    /\ bag' = [bag EXCEPT ![v] = @ + 1]

(* The last element is put in place of the top one and sifted down. *)
pop ==
    /\ data # <<>>
    /\ LET rest == SubSeq(swap(data, 0, Len(data) - 1), 1, Len(data) - 1)
       IN data' = IF rest = <<>> THEN rest ELSE heapify_down(rest, 0)
    /\ bag' = [bag EXCEPT ![data[1]] = @ - 1]

Heap_clear ==
    /\ data' = <<>>
    /\ bag' = [v \in Items |-> 0]

(* A heap made of any range of elements. *)
Heap_Init ==
    \E n \in 0 .. MaxRange : \E s \in [1 .. n -> Items] :
        /\ data = heapify(s, n \div 2)
        /\ bag = BagOf(s)

Heap_Next == (\E v \in Items : push(v)) \/ pop \/ Heap_clear


-----------------------------------------------------------------------------
(* The heap holds what was put in and not popped, and top() is the greatest *)
(* of it: sifting loses nothing and restores the order everywhere, also     *)
(* where a node has one child.                                              *)
TopIsGreatest ==
    /\ BagOf(data) = bag
    /\ \A i \in 1 .. Len(data) - 1 : data[i + 1] <= data[((i - 1) \div 2) + 1]

-----------------------------------------------------------------------------
(* cppforge::data_structure::TopK: a std::priority_queue with the least     *)
(* element on top, here the first of an ascending sequence, that keeps the  *)
(* greatest max_capacity_ of the numbers it was given, or all if that is 0. *)

TopK_vars == <<data, capacity, bag>>

Least(s) == s[1]
Pushed(s, num) ==
    LET before == Cardinality({i \in DOMAIN s : s[i] <= num})
    IN  SubSeq(s, 1, before) \o <<num>> \o SubSeq(s, before + 1, Len(s))

add_keeps_first(num) ==
    /\ data' = IF capacity > 0 /\ Len(data) >= capacity THEN data ELSE Pushed(data, num)
    /\ bag' = [bag EXCEPT ![num] = @ + 1]
    /\ UNCHANGED capacity
add(num) ==
    /\ data' = IF capacity > 0 /\ Len(data) >= capacity
               THEN IF num > Least(data) THEN Pushed(Tail(data), num) ELSE data
               ELSE Pushed(data, num)
    /\ bag' = [bag EXCEPT ![num] = @ + 1]
    /\ UNCHANGED capacity

(* In ascending order. *)
getTopK(count) ==
    LET n == IF count <= 0 \/ count > Len(data) THEN Len(data) ELSE count
    IN  SubSeq(data, Len(data) - n + 1, Len(data))

(* Another TopK. *)
construct(max_capacity) ==
    /\ data' = <<>> /\ bag' = [v \in Items |-> 0]
    /\ capacity' = max_capacity

TopK_Init ==
    /\ data = <<>> /\ bag = [v \in Items |-> 0]
    /\ capacity \in Capacities \cup {0}

Added(least) == SumFunctionOnSet(bag, {v \in Items : v >= least})

TopK_Next ==
    \/ SumFunction(bag) < MaxHeap /\ \E v \in Items : add(v)
    \/ \E c \in Capacities \cup {0} : construct(c)

(* getTopK answers with the greatest of all the numbers that were added, as *)
(* often as they were: what add turned away would not be among them.        *)
TopKAreGreatest ==
    \A count \in 0 .. MaxHeap :
        LET r == getTopK(count)
            all == SumFunction(bag)
            kept == IF capacity > 0 /\ capacity < all THEN capacity ELSE all
            n == IF count = 0 \/ count > kept THEN kept ELSE count
        IN /\ Len(r) = n
           /\ \A i \in 1 .. n - 1 : r[i] <= r[i + 1]
           /\ \A v \in Items :
                 LET room == n - Added(v + 1)
                 IN  BagOf(r)[v] = IF room <= 0 THEN 0 ELSE IF room < bag[v] THEN room ELSE bag[v]
=============================================================================
