------------------------------ MODULE SeqLock ------------------------------
(***************************************************************************)
(* cppforge::data_structure::concurrent::SeqLock: one writer, any number   *)
(* of readers, a sequence counter and data that is copied word by word.    *)
(*                                                                         *)
(* in_order says what the hardware keeps in order.  The code orders its    *)
(* accesses with release stores, acquire loads and compiler barriers only. *)
(*   in_order = TRUE   (x86)  stores become visible, and loads are         *)
(*            performed, in program order;                                 *)
(*   in_order = FALSE  (ARM64) a data store may become visible before the  *)
(*            odd counter, whose release store orders only what precedes   *)
(*            it, and the second load of the counter may be performed      *)
(*            before the data loads, as acquire orders only what follows.  *)
(*                                                                         *)
(* The counter is a 64-bit word in the code and a natural number here: it  *)
(* would have to wrap within one read to matter.                           *)
(***************************************************************************)
EXTENDS Integers

CONSTANTS
    Readers,     \* reader threads
    Words,       \* the machine words of T
    Values,      \* contents of a word
    MemoryModels,  \* the values in_order may have
    MaxWrites,   \* bound: critical sections of the writer
    None

Snapshots == [Words -> Values]

ASSUME SeqLockAssumption ==
    /\ Values # {}
    /\ MemoryModels \subseteq BOOLEAN
    /\ MaxWrites \in Nat
    /\ None \notin Snapshots
    /\ None \notin Nat

VARIABLES
    in_order,   \* the memory model, see above; it does not change
    seq,        \* seq_ as the readers see it
    data,       \* data_ as the readers see it
    writer,     \* "idle", or "writing" between acquire and release
    unseen,     \* the odd counter was stored but is not visible yet
    dirty,      \* words written in the current critical section
    writes,     \* critical sections begun
    committed,  \* history: data at the last release
    pc,         \* per reader: where it is in load or try_load
    seq0, seq1, \* per reader: the two reads of the counter
    left,       \* per reader: the words still to be copied
    copy,       \* per reader: the local copy
    ret,        \* per reader: the value returned by the last call
    then        \* history, per reader: committed when seq0 was read

writerVars == <<in_order, seq, data, writer, unseen, dirty, writes, committed>>
readerVars == <<pc, seq0, seq1, left, copy, ret, then>>
vars == <<writerVars, readerVars>>

TypeOK ==
    /\ in_order \in BOOLEAN
    /\ seq \in Nat
    /\ data \in Snapshots
    /\ writer \in {"idle", "writing"}
    /\ unseen \in BOOLEAN
    /\ dirty \subseteq Words
    /\ writes \in Nat
    /\ committed \in Snapshots
    /\ pc \in [Readers -> {"idle", "load", "try_load",
                           "copy_load", "copy_try_load"}]
    /\ seq0 \in [Readers -> Nat]
    /\ seq1 \in [Readers -> Nat \cup {None}]
    /\ left \in [Readers -> SUBSET Words]
    /\ copy \in [Readers -> Snapshots]
    /\ ret \in [Readers -> Snapshots \cup {None}]
    /\ then \in [Readers -> Snapshots]

-----------------------------------------------------------------------------
(* The writer: store(), or a WriteGuard from lock() to its destructor. *)

acquire_write_lock_decrement == seq' = seq - 1
acquire_write_lock == seq' = IF in_order THEN seq + 1 ELSE seq

release_write_lock_forgotten == seq' = seq
release_write_lock == seq' = seq + 1

BeginWrite ==
    /\ writer = "idle"
    /\ writes < MaxWrites
    /\ acquire_write_lock
    /\ unseen' = ~ in_order
    /\ writer' = "writing"
    /\ dirty' = {}
    /\ writes' = writes + 1
    /\ UNCHANGED <<in_order, data, committed, readerVars>>

(* The odd counter reaches the readers. *)
CounterVisible ==
    /\ unseen
    /\ seq' = seq + 1
    /\ unseen' = FALSE
    /\ UNCHANGED <<in_order, data, writer, dirty, writes, committed, readerVars>>

WriteWord(w, v) ==
    /\ writer = "writing"
    /\ w \notin dirty
    /\ data' = [data EXCEPT ![w] = v]
    /\ dirty' = dirty \cup {w}
    /\ UNCHANGED <<in_order, seq, writer, unseen, writes, committed, readerVars>>

(* A release store: everything before it is visible. *)
EndWrite ==
    /\ writer = "writing"
    /\ ~ unseen
    /\ release_write_lock
    /\ writer' = "idle"
    /\ committed' = data
    /\ UNCHANGED <<in_order, data, unseen, dirty, writes, readerVars>>

-----------------------------------------------------------------------------
(* The readers. *)

Call(r, op) ==
    /\ pc[r] = "idle"
    /\ pc' = [pc EXCEPT ![r] = op]
    /\ ret' = [ret EXCEPT ![r] = None]
    /\ UNCHANGED <<writerVars, seq0, seq1, left, copy, then>>

WriterActiveNever(s) == FALSE
WriterActive(s) == s % 2 = 1

(* R1: read the counter; while it is odd load spins and try_load gives up. *)
SpinOrGiveUp(r) ==
    /\ pc[r] \in {"load", "try_load"}
    /\ WriterActive(seq)
    /\ pc' = [pc EXCEPT ![r] = IF @ = "load" THEN "load" ELSE "idle"]
    /\ UNCHANGED <<writerVars, seq0, seq1, left, copy, ret, then>>

ReadSeq0(r) ==
    /\ pc[r] \in {"load", "try_load"}
    /\ ~ WriterActive(seq)
    /\ pc' = [pc EXCEPT ![r] = IF @ = "load" THEN "copy_load"
                                             ELSE "copy_try_load"]
    /\ seq0' = [seq0 EXCEPT ![r] = seq]
    /\ seq1' = [seq1 EXCEPT ![r] = None]
    /\ left' = [left EXCEPT ![r] = Words]
    /\ then' = [then EXCEPT ![r] = committed]
    /\ UNCHANGED <<writerVars, copy, ret>>

InCopy(r) == pc[r] \in {"copy_load", "copy_try_load"}

(* R2: copy a word. *)
CopyWord(r, w) ==
    /\ InCopy(r)
    /\ w \in left[r]
    /\ left' = [left EXCEPT ![r] = @ \ {w}]
    /\ copy' = [copy EXCEPT ![r] = [@ EXCEPT ![w] = data[w]]]
    /\ UNCHANGED <<writerVars, pc, seq0, seq1, ret, then>>

(* R3: read the counter again. *)
ReadSeq1(r) ==
    /\ InCopy(r)
    /\ seq1[r] = None
    /\ in_order => left[r] = {}
    /\ seq1' = [seq1 EXCEPT ![r] = seq]
    /\ UNCHANGED <<writerVars, pc, seq0, left, copy, ret, then>>

CopyFinished(r) == InCopy(r) /\ seq1[r] # None /\ left[r] = {}

(* Both reads of the counter agree: return the copy. *)
Return(r) ==
    /\ CopyFinished(r)
    /\ seq0[r] = seq1[r]
    /\ pc' = [pc EXCEPT ![r] = "idle"]
    /\ ret' = [ret EXCEPT ![r] = copy[r]]
    /\ UNCHANGED <<writerVars, seq0, seq1, left, copy, then>>

(* They differ: load retries, try_load gives up. *)
Retry(r) ==
    /\ CopyFinished(r)
    /\ seq0[r] # seq1[r]
    /\ pc' = [pc EXCEPT ![r] = IF @ = "copy_load" THEN "load" ELSE "idle"]
    /\ UNCHANGED <<writerVars, seq0, seq1, left, copy, ret, then>>

-----------------------------------------------------------------------------
Init ==
    /\ in_order \in MemoryModels
    /\ seq = 0
    /\ data \in Snapshots
    /\ writer = "idle"
    /\ unseen = FALSE
    /\ dirty = {}
    /\ writes = 0
    /\ committed = data
    /\ pc = [r \in Readers |-> "idle"]
    /\ seq0 = [r \in Readers |-> 0]
    /\ seq1 = [r \in Readers |-> None]
    /\ left = [r \in Readers |-> {}]
    /\ copy = [r \in Readers |-> data]
    /\ ret = [r \in Readers |-> None]
    /\ then = [r \in Readers |-> data]

Write == BeginWrite \/ CounterVisible \/ EndWrite
         \/ \E w \in Words, v \in Values : WriteWord(w, v)

ReadStep(r) ==
    \/ SpinOrGiveUp(r)
    \/ ReadSeq0(r)
    \/ \E w \in Words : CopyWord(r, w)
    \/ ReadSeq1(r)
    \/ Return(r)
    \/ Retry(r)

Next ==
    \/ Write
    \/ \E r \in Readers :
         \/ \E op \in {"load", "try_load"} : Call(r, op)
         \/ ReadStep(r)

Spec == Init /\ [][Next]_vars

(* Threads inside a call keep running; a WriteGuard is destroyed some time. *)
FairSpec ==
    /\ Spec
    /\ \A r \in Readers : WF_vars(ReadStep(r))
    /\ WF_vars(CounterVisible)
    /\ WF_vars(EndWrite)

-----------------------------------------------------------------------------
(* SeqLock "guaranteeing a consistent snapshot", on any hardware.           *)
SnapshotOnAnyHardware ==
    \A r \in Readers :
        ret[r] # None => ret[r] = then[r]

(* On hardware that keeps accesses in order, load, try_load and ReadGuard   *)
(* return exactly what was committed when they read seq0: never a mixture   *)
(* of two writes, and never an older value.                                 *)
ConsistentSnapshot == in_order => SnapshotOnAnyHardware

(* A load returns once the writer leaves it alone: with finitely many       *)
(* critical sections no reader spins for ever.                              *)
LoadReturns ==
    \A r \in Readers :
        pc[r] \in {"load", "copy_load"} ~> pc[r] = "idle"
=============================================================================
