----------------------------- MODULE MCLockFree -----------------------------
(***************************************************************************)
(* The lock-free stack and the lock-free queue, checked one at a time: a   *)
(* behaviour chooses one of them.  They share no memory, so variables of   *)
(* the same name share a place; one that the structure does not have holds *)
(* Absent.                                                                 *)
(***************************************************************************)
EXTENDS TreiberStack, TLC

CONSTANTS
    Structures,                          \* of this run: "stack", "queue"
    Producers, Consumers, MoveConsumers, \* threads of the queue
    QueueValues, QueueTagMod,
    Absent

VARIABLES structure, head, tail, h, tl, sent, got, empty

queueOnly == <<head, tail, h, tl, sent, got, empty>>
allVars == <<structure, vars, queueOnly>>

Queue == INSTANCE MichaelScottQueue WITH
    Values <- QueueValues, TagMod <- QueueTagMod

LockFreeInit ==
    /\ structure \in Structures
    /\ \/ structure = "stack" /\ Init /\ head = Absent /\ tail = Absent
              /\ h = Absent /\ tl = Absent /\ sent = Absent /\ got = Absent
              /\ empty = Absent
       \/ structure = "queue" /\ Queue!Init /\ top = Absent /\ old = Absent

StackNext == structure = "stack" /\ Next /\ UNCHANGED <<structure, queueOnly>>
QueueNext == structure = "queue" /\ Queue!Next /\ UNCHANGED <<structure, top, old>>

LockFreeNext == StackNext \/ QueueNext

LockFreeSpec == LockFreeInit /\ [][LockFreeNext]_allVars

(* Threads of one kind, nodes and values are alike. *)
Symmetry ==
    UNION {Permutations(S) : S \in 
                {Threads, Producers, MoveConsumers, Nodes, Values, QueueValues}}

-----------------------------------------------------------------------------
(* The stack.  Every node is not allocated, on the stack, in the pool or   *)
(* owned by one thread: none is freed or reused twice, none leaks.  size_  *)
(* is the number of elements up to the operations that have taken effect   *)
(* and have not counted yet.  A popped node holds an element, whatever     *)
(* constructor threw.                                                      *)
StackIsSound ==
    structure = "stack" =>
        TypeOK /\ NodesArePartitioned /\ SizeIsAccounted /\ TakesAnElement

(* push and try_pop take effect atomically between their call and their    *)
(* return: the stack implements ConcurrentSequence, last in first out.     *)
StackIsLinearizable ==
    /\ structure = "stack" => Stack!Init
    /\ [][structure = "stack" => [Stack!Next]_(Stack!vars)]_allVars

(* When nobody is inside an operation, the queue holds exactly the         *)
(* elements whose enqueue has returned and that no dequeue has returned.   *)
NoElementLost == structure = "queue" => Queue!NoElementLost

(* The queue.  Every node is in one place and tail_ never points outside   *)
(* the queue; size_ is accounted for; a dequeued element is intact and is  *)
(* dequeued once, and none is lost.                                        *)
QueueIsSound ==
    /\ structure = "queue" =>
          /\ Queue!TypeOK /\ Queue!NodesArePartitioned /\ Queue!SizeIsAccounted
          /\ Queue!DequeuedOnce
    /\ NoElementLost

(* enqueue and try_dequeue take effect atomically: the queue implements    *)
(* ConcurrentSequence, first in first out.                                 *)
QueueIsLinearizable ==
    /\ structure = "queue" => Queue!Fifo!Init
    /\ [][structure = "queue" => [Queue!Fifo!Next]_(Queue!Fifo!vars)]_allVars
=============================================================================
