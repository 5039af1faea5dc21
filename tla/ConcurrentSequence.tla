------------------------- MODULE ConcurrentSequence -------------------------
(***************************************************************************)
(* What a linearizable stack or queue promises: between the call and the   *)
(* return of an operation there is one instant at which it takes effect on *)
(* a sequence.  A removal that has observed an empty container may still   *)
(* change its mind and try again.                                          *)
(***************************************************************************)
EXTENDS Sequences

CONSTANTS Threads, Values, None, Nothing,
    LastInFirstOut   \* a stack, not a queue

VARIABLES
    contents,  \* the element to remove next comes first
    in,        \* per thread: the value it is adding
    out        \* per thread: the result of its removal, Nothing for none

vars == <<contents, in, out>>

CallAdd(t, v) ==
    /\ in[t] = None
    /\ in' = [in EXCEPT ![t] = v]
    /\ UNCHANGED <<contents, out>>

Add(t) ==
    /\ in[t] # None
    /\ contents' = IF LastInFirstOut THEN <<in[t]>> \o contents ELSE Append(contents, in[t])
    /\ in' = [in EXCEPT ![t] = None]
    /\ UNCHANGED out

(* The constructor of the element threw. *)
AddThrows(t) ==
    /\ in[t] # None
    /\ in' = [in EXCEPT ![t] = None]
    /\ UNCHANGED <<contents, out>>

Remove(t) ==
    /\ out[t] = None
    /\ contents # <<>>
    /\ out' = [out EXCEPT ![t] = Head(contents)]
    /\ contents' = Tail(contents)
    /\ UNCHANGED in

SeesNothing(t) ==
    /\ out[t] = None
    /\ contents = <<>>
    /\ out' = [out EXCEPT ![t] = Nothing]
    /\ UNCHANGED <<contents, in>>

ReturnsOrRetries(t) ==
    /\ out[t] # None
    /\ out' = [out EXCEPT ![t] = None]
    /\ UNCHANGED <<contents, in>>

(* The whole container is replaced by an empty one, nobody using it. *)
Replace ==
    /\ \A t \in Threads : in[t] = None /\ out[t] = None
    /\ contents' = <<>>
    /\ UNCHANGED <<in, out>>

Init ==
    /\ contents = <<>>
    /\ in = [t \in Threads |-> None]
    /\ out = [t \in Threads |-> None]

Next ==
    \/ \E t \in Threads :
         \/ \E v \in Values : CallAdd(t, v)
         \/ Add(t) \/ AddThrows(t)
         \/ Remove(t) \/ SeesNothing(t) \/ ReturnsOrRetries(t)
    \/ Replace

Spec == Init /\ [][Next]_vars
=============================================================================
