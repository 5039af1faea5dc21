--------------------------- MODULE SeqLockProofs ---------------------------
(* Theorems about SeqLock for any number of readers, any size of the data   *)
(* and any number of writes.                                                *)
EXTENDS SeqLock, TLAPS

(* While the counter is even no write is in progress. *)
WriterInv ==
    /\ ~ unseen
    /\ writer = "idle" <=> seq % 2 = 0
    /\ writer = "idle" => data = committed

(* While the counter still is seq0, the words copied so far are those of    *)
(* the data; once the second read found it unchanged the copy is what was   *)
(* committed at the first.                                                  *)
ReaderInv(r) ==
    /\ ret[r] # None => ret[r] = then[r]
    /\ pc[r] # "idle" => ret[r] = None
    /\ InCopy(r) =>
         /\ seq0[r] <= seq
         /\ seq0[r] % 2 = 0
         /\ seq0[r] = seq =>
              /\ then[r] = data
              /\ \A w \in Words \ left[r] : copy[r][w] = data[w]
         /\ seq1[r] = seq0[r] => copy[r] = then[r]
         /\ seq1[r] # None => left[r] = {}

IInv == TypeOK /\ WriterInv /\ \A r \in Readers : ReaderInv(r)

LEMMA InitInv == Init => IInv
<1> SUFFICES ASSUME Init PROVE IInv
  OBVIOUS
<1>1. TypeOK
  BY SeqLockAssumption DEF Init, TypeOK
<1>2. WriterInv
  BY DEF Init, WriterInv
<1>3. \A r \in Readers : ReaderInv(r)
  BY DEF Init, ReaderInv, InCopy
<1> QED BY <1>1, <1>2, <1>3 DEF IInv

LEMMA WriteInv ==
    ASSUME in_order, IInv, Write
    PROVE  IInv'
<1>1. CASE BeginWrite
  <2>1. /\ seq' = seq + 1 /\ seq % 2 = 0 /\ data' = data
        /\ unseen' = FALSE /\ writer' = "writing"
    BY <1>1 DEF BeginWrite, acquire_write_lock, IInv, WriterInv
  <2>2. TypeOK'
    BY <1>1, <2>1 DEF BeginWrite, IInv, TypeOK, readerVars
  <2>3. WriterInv'
    BY <2>1 DEF IInv, TypeOK, WriterInv
  <2>4. ASSUME NEW r \in Readers PROVE ReaderInv(r)'
    <3>1. seq0[r] \in Nat /\ seq \in Nat
      BY DEF IInv, TypeOK
    <3>2. UNCHANGED readerVars /\ ReaderInv(r)
      BY <1>1 DEF BeginWrite, IInv
    <3> QED BY <2>1, <3>1, <3>2 DEF ReaderInv, InCopy, readerVars
  <2> QED BY <2>2, <2>3, <2>4 DEF IInv
<1>2. CASE CounterVisible
  BY <1>2 DEF CounterVisible, IInv, WriterInv
<1>3. CASE EndWrite
  <2>1. /\ seq' = seq + 1 /\ seq % 2 # 0 /\ data' = data /\ unseen' = FALSE
        /\ writer' = "idle" /\ committed' = data
    BY <1>3 DEF EndWrite, release_write_lock, IInv, WriterInv
  <2>2. TypeOK'
    BY <1>3, <2>1 DEF EndWrite, IInv, TypeOK, readerVars
  <2>3. WriterInv'
    BY <2>1 DEF IInv, TypeOK, WriterInv
  <2>4. ASSUME NEW r \in Readers PROVE ReaderInv(r)'
    <3>1. seq0[r] \in Nat /\ seq \in Nat
      BY DEF IInv, TypeOK
    <3>2. UNCHANGED readerVars /\ ReaderInv(r)
      BY <1>3 DEF EndWrite, IInv
    <3> QED BY <2>1, <3>1, <3>2 DEF ReaderInv, InCopy, readerVars
  <2> QED BY <2>2, <2>3, <2>4 DEF IInv
<1>4. ASSUME NEW w \in Words, NEW v \in Values, WriteWord(w, v) PROVE IInv'
  <2>1. seq % 2 # 0 /\ UNCHANGED <<seq, writer, unseen, committed, readerVars>>
    BY <1>4 DEF WriteWord, IInv, WriterInv
  <2>2. TypeOK'
    BY <1>4 DEF WriteWord, IInv, TypeOK, readerVars, Snapshots
  <2>3. WriterInv'
    BY <1>4, <2>1 DEF WriteWord, IInv, WriterInv
  <2>4. ASSUME NEW r \in Readers PROVE ReaderInv(r)'
    <3>1. ReaderInv(r)
      BY DEF IInv
    <3> QED BY <2>1, <3>1 DEF ReaderInv, InCopy, readerVars
  <2> QED BY <2>2, <2>3, <2>4 DEF IInv
<1> QED BY <1>1, <1>2, <1>3, <1>4 DEF Write

LEMMA ReadInv ==
    ASSUME in_order, IInv, NEW r \in Readers,
           (\E op \in {"load", "try_load"} : Call(r, op)) \/ ReadStep(r)
    PROVE  IInv'
<1>a. UNCHANGED writerVars
  BY DEF Call, ReadStep, SpinOrGiveUp, ReadSeq0, CopyWord, ReadSeq1, Return, Retry
<1>b. WriterInv'
  BY <1>a DEF IInv, WriterInv, writerVars
<1>c. SUFFICES TypeOK' /\ \A q \in Readers : ReaderInv(q)'
  BY <1>b DEF IInv
<1>d. ReaderInv(r) /\ TypeOK /\ WriterInv
  BY DEF IInv
<1>e. ASSUME NEW q \in Readers, q # r
      PROVE  /\ pc'[q] = pc[q] /\ seq0'[q] = seq0[q] /\ seq1'[q] = seq1[q]
             /\ left'[q] = left[q] /\ copy'[q] = copy[q] /\ ret'[q] = ret[q]
             /\ then'[q] = then[q]
  BY <1>e, <1>d DEF TypeOK, Call, ReadStep, SpinOrGiveUp, ReadSeq0, CopyWord,
     ReadSeq1, Return, Retry
<1>f. ASSUME NEW q \in Readers, q # r PROVE ReaderInv(q)'
  <2>1. ReaderInv(q)
    BY DEF IInv
  <2> QED BY <1>e, <1>f, <1>a, <2>1 DEF ReaderInv, InCopy, writerVars
<1>g. SUFFICES TypeOK' /\ ReaderInv(r)'
  BY <1>f
<1>1. ASSUME NEW op \in {"load", "try_load"}, Call(r, op)
      PROVE  TypeOK' /\ ReaderInv(r)'
  BY <1>1, <1>a, <1>d DEF Call, TypeOK, ReaderInv, InCopy, writerVars
<1>2. CASE SpinOrGiveUp(r)
  BY <1>2, <1>a, <1>d DEF SpinOrGiveUp, TypeOK, ReaderInv, InCopy, writerVars
<1>3. CASE ReadSeq0(r)
  <2>1. TypeOK'
    BY <1>3, <1>a, <1>d, SeqLockAssumption DEF ReadSeq0, TypeOK, writerVars
  <2>2. seq % 2 = 0 /\ data = committed
    BY <1>3, <1>d DEF ReadSeq0, WriterActive, TypeOK, WriterInv
  <2>3. /\ seq0'[r] = seq /\ seq1'[r] = None /\ left'[r] = Words
        /\ then'[r] = committed /\ ret'[r] = ret[r] /\ pc[r] # "idle"
    BY <1>3, <1>d DEF ReadSeq0, TypeOK
  <2>4. seq \in Nat /\ None # seq
    BY <1>d, SeqLockAssumption DEF TypeOK
  <2> QED BY <2>1, <2>2, <2>3, <2>4, <1>a, <1>d DEF ReaderInv, writerVars
<1>4. ASSUME NEW w \in Words, CopyWord(r, w) PROVE TypeOK' /\ ReaderInv(r)'
  <2>1. TypeOK'
    BY <1>4, <1>a, <1>d DEF CopyWord, TypeOK, writerVars, Snapshots
  <2>2. /\ left'[r] = left[r] \ {w}
        /\ copy'[r] = [copy[r] EXCEPT ![w] = data[w]]
        /\ UNCHANGED <<pc, seq0, seq1, ret, then>>
    BY <1>4, <1>d DEF CopyWord, TypeOK
  <2>3. seq1[r] = None /\ seq0[r] # None
    BY <1>4, <1>d, SeqLockAssumption DEF CopyWord, ReaderInv, TypeOK
  <2>4. copy[r] \in [Words -> Values]
    BY <1>d DEF TypeOK, Snapshots
  <2> QED BY <2>1, <2>2, <2>3, <2>4, <1>a, <1>d DEF ReaderInv, InCopy, writerVars
<1>5. CASE ReadSeq1(r)
  <2>1. TypeOK'
    BY <1>5, <1>a, <1>d DEF ReadSeq1, TypeOK, writerVars
  <2>2. /\ seq1'[r] = seq /\ left[r] = {} /\ InCopy(r)
        /\ UNCHANGED <<pc, seq0, left, copy, ret, then>>
    BY <1>5, <1>d DEF ReadSeq1, TypeOK
  <2>3. seq0[r] = seq => copy[r] = then[r]
    <3>1. copy[r] \in [Words -> Values] /\ data \in [Words -> Values]
      BY <1>d DEF TypeOK, Snapshots
    <3> QED BY <2>2, <3>1, <1>d DEF ReaderInv
  <2> QED BY <2>1, <2>2, <2>3, <1>a, <1>d DEF ReaderInv, InCopy, writerVars
<1>6. CASE Return(r)
  <2>1. TypeOK'
    BY <1>6, <1>a, <1>d DEF Return, TypeOK, writerVars
  <2>2. /\ pc'[r] = "idle" /\ ret'[r] = copy[r] /\ copy[r] = then[r]
        /\ UNCHANGED then
    BY <1>6, <1>d DEF Return, CopyFinished, TypeOK, ReaderInv
  <2> QED BY <2>1, <2>2 DEF ReaderInv, InCopy
<1>7. CASE Retry(r)
  BY <1>7, <1>a, <1>d
     DEF Retry, CopyFinished, TypeOK, ReaderInv, InCopy, writerVars
<1> QED BY <1>1, <1>2, <1>3, <1>4, <1>5, <1>6, <1>7 DEF ReadStep

(* On hardware that keeps accesses in order IInv is inductive. *)
LEMMA NextInv == IInv /\ in_order /\ [Next]_vars => IInv'
<1> SUFFICES ASSUME IInv, in_order, [Next]_vars PROVE IInv'
  OBVIOUS
<1>1. CASE UNCHANGED vars
  BY <1>1 DEF vars, writerVars, readerVars, IInv, TypeOK, WriterInv,
              ReaderInv, InCopy
<1>2. CASE Next
  BY <1>2, WriteInv, ReadInv DEF Next
<1> QED BY <1>1, <1>2

LEMMA NextModel == [Next]_vars => in_order' = in_order
BY DEF Next, Write, BeginWrite, CounterVisible, EndWrite, WriteWord, Call, ReadStep,
   SpinOrGiveUp, ReadSeq0, CopyWord, ReadSeq1, Return, Retry, vars, writerVars

(* The types need no assumption on the hardware. *)
LEMMA NextType == TypeOK /\ [Next]_vars => TypeOK'
<1> SUFFICES ASSUME TypeOK, [Next]_vars PROVE TypeOK'
  OBVIOUS
<1>1. CASE BeginWrite \/ CounterVisible \/ EndWrite
  <2>1. seq' \in Nat
    BY <1>1 DEF BeginWrite, acquire_write_lock, CounterVisible, EndWrite,
       release_write_lock, TypeOK
  <2>2. writes' \in Nat
    BY <1>1 DEF BeginWrite, CounterVisible, EndWrite, TypeOK
  <2>3. unseen' \in BOOLEAN
    BY <1>1, Zenon DEF BeginWrite, CounterVisible, EndWrite, TypeOK
  <2> QED BY <1>1, <2>1, <2>2, <2>3 DEF BeginWrite, CounterVisible, EndWrite, TypeOK, readerVars
<1>2. ASSUME NEW w \in Words, NEW v \in Values, WriteWord(w, v) PROVE TypeOK'
  BY <1>2 DEF WriteWord, TypeOK, readerVars, Snapshots
<1>3. ASSUME NEW r \in Readers, NEW op \in {"load", "try_load"}, Call(r, op)
      PROVE  TypeOK'
  BY <1>3 DEF Call, TypeOK, writerVars
<1>4. ASSUME NEW r \in Readers, SpinOrGiveUp(r) \/ ReadSeq0(r) \/ ReadSeq1(r)
      PROVE  TypeOK'
  <2>1. CASE SpinOrGiveUp(r)
    BY <2>1 DEF SpinOrGiveUp, TypeOK, writerVars
  <2>2. CASE ReadSeq0(r)
    BY <2>2 DEF ReadSeq0, TypeOK, writerVars
  <2>3. CASE ReadSeq1(r)
    BY <2>3 DEF ReadSeq1, TypeOK, writerVars
  <2> QED BY <1>4, <2>1, <2>2, <2>3
<1>5. ASSUME NEW r \in Readers, NEW w \in Words, CopyWord(r, w) PROVE TypeOK'
  BY <1>5 DEF CopyWord, TypeOK, writerVars, Snapshots
<1>6. ASSUME NEW r \in Readers, Return(r) \/ Retry(r) PROVE TypeOK'
  BY <1>6 DEF Return, Retry, InCopy, CopyFinished, TypeOK, writerVars
<1>7. CASE UNCHANGED vars
  BY <1>7 DEF vars, writerVars, readerVars, TypeOK
<1> QED BY <1>1, <1>2, <1>3, <1>4, <1>5, <1>6, <1>7 DEF Next, Write, ReadStep

(* The counter as the readers see it is odd exactly from when the odd value *)
(* has reached them until the release: neither end of a critical section is *)
(* ever counted twice or left out, also where the odd value comes late.     *)
OddWhileWriting ==
    /\ unseen => writer = "writing"
    /\ seq % 2 = 1 <=> writer = "writing" /\ ~ unseen

LEMMA NextOdd == TypeOK /\ OddWhileWriting /\ [Next]_vars => OddWhileWriting'
<1> SUFFICES ASSUME TypeOK, OddWhileWriting, [Next]_vars PROVE OddWhileWriting'
  OBVIOUS
<1>1. seq \in Nat /\ seq % 2 \in {0, 1} /\ (seq + 1) % 2 = 1 - (seq % 2)
  BY DEF TypeOK
<1>2. CASE BeginWrite
  <2>1. writer' = "writing" /\ (unseen' <=> ~ in_order)
    BY <1>2, Zenon DEF BeginWrite
  <2>2. seq' = (IF in_order THEN seq + 1 ELSE seq) /\ seq % 2 = 0
    BY <1>1, <1>2 DEF BeginWrite, acquire_write_lock, OddWhileWriting
  <2> QED BY <1>1, <2>1, <2>2 DEF OddWhileWriting
<1>3. CASE CounterVisible
  BY <1>1, <1>3 DEF CounterVisible, OddWhileWriting
<1>4. CASE EndWrite
  BY <1>1, <1>4 DEF EndWrite, release_write_lock, OddWhileWriting
<1>5. CASE UNCHANGED <<seq, writer, unseen>>
  BY <1>5 DEF OddWhileWriting
<1>6. ASSUME NEW w \in Words, NEW v \in Values, WriteWord(w, v)
      PROVE  UNCHANGED <<seq, writer, unseen>>
  BY <1>6 DEF WriteWord
<1>7. ASSUME NEW r \in Readers, (\E op \in {"load", "try_load"} : Call(r, op)) \/ ReadStep(r)
      PROVE  UNCHANGED <<seq, writer, unseen>>
  BY <1>7 DEF Call, ReadStep, SpinOrGiveUp, ReadSeq0, CopyWord, ReadSeq1, Return, Retry, writerVars
<1> QED BY <1>2, <1>3, <1>4, <1>5, <1>6, <1>7 DEF Next, Write, vars, writerVars

(* SeqLock keeps its variables well typed, and its counter tells the readers *)
(* of every critical section, whatever the hardware.                        *)
THEOREM TypeCorrect == Spec => [](TypeOK /\ OddWhileWriting)
<1>1. Init => TypeOK /\ OddWhileWriting
  BY InitInv DEF IInv, Init, OddWhileWriting
<1>2. TypeOK /\ OddWhileWriting /\ [Next]_vars => (TypeOK /\ OddWhileWriting)'
  BY NextType, NextOdd
<1> QED BY <1>1, <1>2, PTL DEF Spec

(* Every value a reader obtains is the one that was committed when it read  *)
(* the counter: for any number of readers and writes and any size of T, as  *)
(* long as there is one writer and the hardware keeps accesses in order.    *)
THEOREM SnapshotsAreConsistent == Spec => []ConsistentSnapshot
<1> DEFINE Ordered == in_order => IInv
<1>1. Init => Ordered
  BY InitInv
<1>2. Ordered /\ [Next]_vars => Ordered'
  BY NextInv, NextModel
<1>3. Ordered => ConsistentSnapshot
  BY DEF IInv, ReaderInv, ConsistentSnapshot, SnapshotOnAnyHardware
<1> HIDE DEF Ordered
<1> QED BY <1>1, <1>2, <1>3, PTL DEF Spec
=============================================================================
