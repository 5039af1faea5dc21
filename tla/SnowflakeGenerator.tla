------------------------- MODULE SnowflakeGenerator -------------------------
(***************************************************************************)
(* SnowflakeGenerator: NextId composes time, node and a counter.  The      *)
(* system clock may be set back; mutex_ is held while NextId waits for it. *)
(***************************************************************************)
EXTENDS Integers

CONSTANTS
    Threads, Nobody,
    Nodes,              \* pairs of datacenter and machine, one generator each
    worker_bits, sequence_bits,
    MaxTime             \* bound on the clock

VARIABLES
    clock,              \* GetCurrentTimestamp()
    last_timestamp, sequence,   \* of each generator
    mutex,              \* per generator: the thread inside NextId, or Nobody
    waiting,            \* per generator: "no", or which loop NextId waits in
    ids,                \* history: the ids that were returned
    newest              \* per generator: the id returned last, or -1

vars == <<clock, last_timestamp, sequence, mutex, waiting, ids, newest>>

max_sequence_and_one == 2 ^ sequence_bits
max_sequence == 2 ^ sequence_bits - 1

Init ==
    /\ clock \in 0 .. 1
    /\ last_timestamp = [n \in Nodes |-> -1] /\ sequence = [n \in Nodes |-> 0]
    /\ mutex = [n \in Nodes |-> Nobody] /\ waiting = [n \in Nodes |-> "no"]
    /\ ids = {} /\ newest = [n \in Nodes |-> -1]

(* The machine has the low 5 of the worker bits. *)
GenerateUniqueId(timestamp, n, seq) ==
    timestamp * 2 ^ (worker_bits + sequence_bits)
        + (n[1] * 32 + n[2]) * 2 ^ sequence_bits + seq

Return(n, timestamp, seq) ==
    LET id == GenerateUniqueId(timestamp, n, seq) IN
    /\ last_timestamp' = [last_timestamp EXCEPT ![n] = timestamp]
    /\ sequence' = [sequence EXCEPT ![n] = seq]
    /\ ids' = ids \cup {id} /\ newest' = [newest EXCEPT ![n] = id]
    /\ mutex' = [mutex EXCEPT ![n] = Nobody] /\ waiting' = [waiting EXCEPT ![n] = "no"]
    /\ UNCHANGED clock

Wait(n, loop, seq) ==
    /\ waiting' = [waiting EXCEPT ![n] = loop]
    /\ sequence' = [sequence EXCEPT ![n] = seq]
    /\ UNCHANGED <<clock, last_timestamp, mutex, ids, newest>>

Lock(t, n) ==
    /\ mutex[n] = Nobody
    /\ mutex' = [mutex EXCEPT ![n] = t]
    /\ waiting' = [waiting EXCEPT ![n] = "clock"]
    /\ UNCHANGED <<clock, last_timestamp, sequence, ids, newest>>

(* A reading of the clock; "clock" is the loop behind a rollback and "til"  *)
(* is TilNextMillis, which waits until the clock passes last_timestamp_.    *)
NextId(n) ==
    LET bumped == (sequence[n] + 1) % (max_sequence + 1) IN
    /\ mutex[n] # Nobody
    /\ \/ /\ waiting[n] = "clock" /\ clock > last_timestamp[n]
          /\ Return(n, clock, 0)
       \/ /\ waiting[n] = "clock" /\ clock = last_timestamp[n] /\ bumped # 0
          /\ Return(n, clock, bumped)
       \/ /\ waiting[n] = "clock" /\ clock = last_timestamp[n] /\ bumped = 0
          /\ Wait(n, "til", 0)
       \/ /\ waiting[n] = "til" /\ clock > last_timestamp[n]
          /\ Return(n, clock, sequence[n])

(* Time passes, or the system clock is set. *)
SetClock ==
    /\ clock' \in 0 .. MaxTime
    /\ UNCHANGED <<last_timestamp, sequence, mutex, waiting, ids, newest>>

Next ==
    \/ \E t \in Threads, n \in Nodes : Lock(t, n)
    \/ \E n \in Nodes : NextId(n)
    \/ SetClock

-----------------------------------------------------------------------------
(* An id that NextId returns was not returned before, by this generator or  *)
(* by one of another node, and is greater than the generator's last one,    *)
(* although the clock goes back and the sequence wraps.                     *)
IdsAreUnique ==
    \A n \in Nodes : mutex[n] # Nobody /\ mutex'[n] = Nobody =>
        newest'[n] \in ids' \ ids /\ newest'[n] > newest[n]

(* What is true between the steps: an id that was returned is of the time   *)
(* of its generator's last one, at a place its sequence has passed, or      *)
(* earlier, and whoever waits for the next millisecond holds the mutex.     *)
Passed(n, t, q) ==
    t < last_timestamp[n] \/ (t = last_timestamp[n] /\ (q <= sequence[n] \/ waiting[n] = "til"))

Composed(n, id) ==
    \E t \in 0 .. last_timestamp[n], q \in 0 .. max_sequence :
        id = GenerateUniqueId(t, n, q) /\ Passed(n, t, q)

IInv ==
    /\ clock \in Nat
    /\ last_timestamp \in [Nodes -> Int]
    /\ sequence \in [Nodes -> 0 .. max_sequence]
    /\ mutex \in [Nodes -> Threads \cup {Nobody}]
    /\ waiting \in [Nodes -> {"no", "clock", "til"}]
    /\ newest \in [Nodes -> Int]
    /\ \A n \in Nodes : waiting[n] = "til" => mutex[n] # Nobody /\ sequence[n] = 0
    /\ \A n \in Nodes : newest[n] = -1 \/ Composed(n, newest[n])
    /\ \A id \in ids : \E n \in Nodes : Composed(n, id)
=============================================================================
