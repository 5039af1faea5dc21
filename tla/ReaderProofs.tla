---------------------------- MODULE ReaderProofs ----------------------------
(***************************************************************************)
(* Proofs about the services that call handlers in an order (EventBus, and *)
(* MiddlewareChain with Router) and about those whose readers must agree   *)
(* with their writers (ServiceProvider, MultiLevelCache and                *)
(* ConcurrentHashMap).                                                     *)
(***************************************************************************)
EXTENDS Services, FiniteSetTheorems, SequenceTheorems, WellFoundedInduction, TLAPS

LEMMA LeastNatural ==
    ASSUME NEW S, S \subseteq Nat, S # {}
    PROVE  \E m \in S : \A n \in S : m <= n
<1>1. PICK x \in S : TRUE
  OBVIOUS
<1>2. PICK m \in S : \A y \in S : ~ (<<y, m>> \in OpToRel(<, Nat))
  BY <1>1, WFMin, NatLessThanWellFounded
<1>3. \A y \in S : ~ (y < m)
  <2> SUFFICES ASSUME NEW y \in S, y < m PROVE FALSE
    OBVIOUS
  <2>1. <<y, m>> \in OpToRel(<, Nat)
    BY Zenon DEF OpToRel
  <2> QED BY <2>1, <1>2
<1> QED BY <1>3

LEMMA AllButLast ==
    ASSUME NEW R, NEW s \in Seq(R), s # <<>>
    PROVE  LET t == SubSeq(s, 1, Len(s) - 1) IN
           /\ t \in Seq(R) /\ Len(t) = Len(s) - 1
           /\ \A i \in 1 .. Len(s) - 1 : t[i] = s[i]
<1> DEFINE n == Len(s) - 1
<1>1. Len(s) \in Nat \ {0} /\ n \in Nat /\ n < Len(s)
  BY EmptySeq
<1>2. 1 \in 1 .. Len(s) + 1 /\ n \in 1 - 1 .. Len(s) /\ n - 1 + 1 = n
  BY <1>1
<1> HIDE DEF n
<1>3. /\ SubSeq(s, 1, n) \in Seq(R) /\ Len(SubSeq(s, 1, n)) = n - 1 + 1
      /\ \A i \in 1 .. n - 1 + 1 : SubSeq(s, 1, n)[i] = s[1 + i - 1]
  BY <1>2, SubSeqProperties
<1>4. \A i \in 1 .. n : 1 + i - 1 = i
  BY <1>1
<1> QED BY <1>2, <1>3, <1>4 DEF n

LEMMA FirstRoute ==
    ASSUME NEW r, s2 \in Seq(Routes), MaxRoutes \in 0 .. 403, Len(s2) <= MaxRoutes
    PROVE  LET i == HO!RouterHandle(r) IN
           /\ i \in Nat
           /\ i # 404 => s2[i] = r /\ \A j \in 1 .. i - 1 : s2[j] # r
           /\ i = 404 => \A j \in DOMAIN s2 : s2[j] # r
<1> DEFINE I == {i \in DOMAIN s2 : s2[i] = r}
<1>1. HO!RouterHandle(r) = IF I = {} THEN 404 ELSE HO!Min(I)
  BY DEF HO!RouterHandle
<1>2. DOMAIN s2 = 1 .. Len(s2) /\ Len(s2) \in Nat /\ Len(s2) < 404
  OBVIOUS
<1>3. CASE I = {}
  BY <1>1, <1>3
<1>4. CASE I # {}
  <2>1. \E m \in I : \A n \in I : m <= n
    <3>1. I \subseteq Nat
      BY <1>2
    <3> HIDE DEF I
    <3> QED BY <3>1, <1>4, LeastNatural
  <2> DEFINE m == HO!Min(I)
  <2>2. m \in I /\ \A n \in I : m <= n
    BY <2>1, Zenon DEF HO!Min
  <2>3. HO!RouterHandle(r) = m
    BY <1>1, <1>4
  <2> HIDE DEF m
  <2>4. m \in 1 .. Len(s2) /\ s2[m] = r /\ m # 404
    BY <1>2, <2>2
  <2>5. ASSUME NEW j \in 1 .. m - 1, s2[j] = r PROVE FALSE
    <3>1. j \in DOMAIN s2 /\ j < m
      BY <1>2, <2>4
    <3>2. m <= j
      BY <2>2, <2>5, <3>1
    <3> QED BY <1>2, <2>4, <3>1, <3>2
  <2> QED BY <2>3, <2>4, <2>5
<1> QED BY <1>3, <1>4

-----------------------------------------------------------------------------
(* MiddlewareChain *)

LEMMA MiddlewareInit == HO!MiddlewareChain_Init => HO!MiddlewareChain_IInv
<1> SUFFICES ASSUME HO!MiddlewareChain_Init PROVE HO!MiddlewareChain_IInv
  OBVIOUS
<1>1. /\ s1 = 0 /\ s2 = <<>> /\ s3 = "none" /\ s4 = 0 /\ s5 = <<>> /\ s6 = <<>> /\ s7 = 0
  BY DEF HO!MiddlewareChain_Init
<1>2. <<>> = [i \in 1 .. 0 |-> i]
  OBVIOUS
<1> QED
  BY <1>1, <1>2, MiddlewareAssumption DEF HO!MiddlewareChain_IInv, HO!PassesInOrder, HO!Unused

(* The sequence 1, 2, ..., n goes on with n + 1. *)
LEMMA CountsOn ==
    ASSUME NEW s \in Seq(Nat), s = [i \in 1 .. Len(s) |-> i]
    PROVE  LET t == Append(s, Len(s) + 1) IN t = [i \in 1 .. Len(t) |-> i]
<1> DEFINE t == Append(s, Len(s) + 1)
<1>1. t \in Seq(Nat) /\ Len(t) = Len(s) + 1 /\ Len(s) \in Nat
  OBVIOUS
<1>2. \A i \in 1 .. Len(t) : t[i] = i
  <2> SUFFICES ASSUME NEW i \in 1 .. Len(s) + 1 PROVE t[i] = i
    BY <1>1
  <2>1. CASE i \in 1 .. Len(s)
    BY <2>1
  <2>2. CASE i = Len(s) + 1
    BY <2>2
  <2> QED BY <2>1, <2>2, <1>1
<1>3. t = [i \in 1 .. Len(t) |-> t[i]]
  BY <1>1
<1> QED BY <1>2, <1>3

(* The calls under way after next was entered: one more, at the index. *)
LEMMA EnteredCalls ==
    ASSUME NEW s \in Seq([at : Nat, calls : Nat]), NEW n \in Nat,
           \A i \in 1 .. Len(s) : s[i].at <= n,
           \A i \in 1 .. Len(s) - 1 : s[i].at < s[i + 1].at
    PROVE  LET t == Append(s, [at |-> n + 1, calls |-> 0]) IN
           /\ t \in Seq([at : Nat, calls : Nat])
           /\ \A i \in 1 .. Len(t) : t[i].at <= n + 1
           /\ \A i \in 1 .. Len(t) - 1 : t[i].at < t[i + 1].at
<1> DEFINE f == [at |-> n + 1, calls |-> 0]
           t == Append(s, f)
<1>1. f \in [at : Nat, calls : Nat] /\ f.at = n + 1
  OBVIOUS
<1> HIDE DEF f
<1>2. t \in Seq([at : Nat, calls : Nat]) /\ Len(t) = Len(s) + 1 /\ Len(s) \in Nat
  BY <1>1
<1>3. (\A i \in 1 .. Len(s) : t[i] = s[i]) /\ t[Len(s) + 1] = f
  BY <1>1
<1> HIDE DEF t
<1>4. ASSUME NEW i \in 1 .. Len(s) PROVE s[i].at \in Nat
  <2>1. s[i] \in [at : Nat, calls : Nat]
    BY ElementOfSeq
  <2> QED BY <2>1
<1>5. ASSUME NEW i \in 1 .. Len(t) PROVE t[i].at <= n + 1
  <2>1. CASE i \in 1 .. Len(s)
    BY <1>3, <1>4, <2>1
  <2>2. CASE i = Len(s) + 1
    BY <1>1, <1>3, <2>2
  <2> QED BY <1>2, <2>1, <2>2
<1>6. ASSUME NEW i \in 1 .. Len(t) - 1 PROVE t[i].at < t[i + 1].at
  <2>1. i \in 1 .. Len(s) /\ t[i] = s[i]
    BY <1>2, <1>3
  <2>2. CASE i + 1 \in 1 .. Len(s)
    <3>1. i \in 1 .. Len(s) - 1 /\ t[i + 1] = s[i + 1]
      BY <1>2, <1>3, <2>2
    <3> QED BY <2>1, <3>1
  <2>3. CASE i = Len(s)
    <3>1. s[i].at <= n /\ s[i].at \in Nat /\ t[i + 1].at = n + 1
      BY <1>1, <1>3, <1>4, <2>1, <2>3
    <3> QED BY <2>1, <3>1
  <2> QED BY <1>2, <2>1, <2>2, <2>3
<1> QED BY <1>2, <1>5, <1>6 DEF t, f

(* The function next, called with the stack s of the calls under way. *)
LEMMA NextKeeps ==
    ASSUME HO!MiddlewareChain_IInv, NEW s \in Seq([at : Nat, calls : Nat]),
           \A i \in 1 .. Len(s) : s[i].at <= s4,
           \A i \in 1 .. Len(s) - 1 : s[i].at < s[i + 1].at,
           HO!next(s), s1' = s1, s2' = s2, s3' \in Routes, s7 # 0 => s3' = s3
    PROVE  HO!MiddlewareChain_IInv'
<1>1. /\ s1 \in Nat /\ s4 \in 0 .. s1 /\ s2 \in Seq(Routes) /\ Len(s2) <= MaxRoutes
      /\ s6 \in Seq(Nat) /\ Len(s6) = s4 /\ s6 = [i \in 1 .. Len(s6) |-> i] /\ s7 \in Nat
  BY DEF HO!MiddlewareChain_IInv, HO!PassesInOrder
<1>2. ~ HO!Unused'
  BY MiddlewareAssumption DEF HO!Unused
<1>3. CASE s4 < s1
  <2>1. /\ s4' = s4 + 1 /\ s5' = Append(s, [at |-> s4 + 1, calls |-> 0])
        /\ s6' = Append(s6, s4 + 1)
        /\ s7' = IF s4 + 1 = s1 THEN HO!RouterHandle(s3') ELSE s7
    BY <1>3 DEF HO!next
  <2>2. s4' \in 0 .. s1 /\ s7 = 0
    <3>1. s7 # 0 => s4 = s1
      BY DEF HO!MiddlewareChain_IInv, HO!PassesInOrder
    <3> QED BY <1>1, <1>3, <2>1, <3>1
  <2>3. /\ s5' \in Seq([at : Nat, calls : Nat])
        /\ \A i \in 1 .. Len(s5') : s5'[i].at <= s4'
        /\ \A i \in 1 .. Len(s5') - 1 : s5'[i].at < s5'[i + 1].at
    <3> DEFINE t == Append(s, [at |-> s4 + 1, calls |-> 0])
    <3>1. s4 \in Nat
      BY <1>1
    <3>2. /\ t \in Seq([at : Nat, calls : Nat])
          /\ \A i \in 1 .. Len(t) : t[i].at <= s4 + 1
          /\ \A i \in 1 .. Len(t) - 1 : t[i].at < t[i + 1].at
      BY <3>1, EnteredCalls
    <3>3. s5' = t /\ s4' = s4 + 1
      BY <2>1
    <3> HIDE DEF t
    <3> QED BY <3>2, <3>3
  <2>4. s6' \in Seq(Nat) /\ Len(s6') = s4' /\ s6' = [i \in 1 .. Len(s6') |-> i]
    <3>1. s6' = Append(s6, Len(s6) + 1)
      BY <1>1, <2>1
    <3>2. s6' \in Seq(Nat) /\ Len(s6') = Len(s6) + 1
      BY <1>1, <3>1
    <3> QED BY <1>1, <2>1, <3>1, <3>2, CountsOn
  <2>5. /\ s7' \in Nat
        /\ s7' # 0 => /\ Len(s6') = s1'
                      /\ s7' # 404 => /\ s2'[s7'] = s3'
                                      /\ \A i \in 1 .. s7' - 1 : s2'[i] # s3'
                      /\ s7' = 404 => \A i \in DOMAIN s2' : s2'[i] # s3'
    <3>1. CASE s4 + 1 = s1
      <4> DEFINE n == HO!RouterHandle(s3')
      <4>1. s7' = n /\ Len(s6') = s1'
        BY <2>1, <2>4, <3>1
      <4>2. /\ n \in Nat
            /\ n # 404 => s2[n] = s3' /\ \A j \in 1 .. n - 1 : s2[j] # s3'
            /\ n = 404 => \A j \in DOMAIN s2 : s2[j] # s3'
        BY <1>1, FirstRoute, MiddlewareAssumption
      <4> HIDE DEF n
      <4> QED BY <4>1, <4>2
    <3>2. CASE s4 + 1 # s1
      BY <2>1, <2>2, <3>2
    <3> QED BY <3>1, <3>2
  <2> QED
    BY <1>1, <1>2, <2>2, <2>3, <2>4, <2>5 DEF HO!MiddlewareChain_IInv, HO!PassesInOrder
<1>4. CASE ~ (s4 < s1)
  <2>1. s5' = s /\ s4' = s4 /\ s6' = s6 /\ s7' = s7
    BY <1>4 DEF HO!next
  <2> QED
    BY <1>1, <1>2, <2>1 DEF HO!MiddlewareChain_IInv, HO!PassesInOrder
<1> QED BY <1>3, <1>4

LEMMA MiddlewareNext ==
    HO!MiddlewareChain_IInv /\ HO!MiddlewareChain_Next => HO!MiddlewareChain_IInv'
<1> SUFFICES ASSUME HO!MiddlewareChain_IInv, HO!MiddlewareChain_Next
             PROVE  HO!MiddlewareChain_IInv'
  OBVIOUS
<1>1. CASE HO!add
  BY <1>1 DEF HO!MiddlewareChain_IInv, HO!PassesInOrder, HO!add, HO!Unused
<1>2. ASSUME NEW r \in Routes, HO!AddRoute(r) PROVE HO!MiddlewareChain_IInv'
  BY <1>2, MiddlewareAssumption DEF HO!MiddlewareChain_IInv, HO!PassesInOrder, HO!AddRoute, HO!Unused
<1>3. ASSUME NEW r \in Routes, HO!execute(r) PROVE HO!MiddlewareChain_IInv'
  <2>1. s5 = <<>> /\ s7 = 0 /\ s3' = r /\ HO!next(<<>>) /\ s1' = s1 /\ s2' = s2
    BY <1>3 DEF HO!execute, HO!MiddlewareChain_IInv
  <2>2. <<>> \in Seq([at : Nat, calls : Nat]) /\ Len(<<>>) = 0
    OBVIOUS
  <2>3. \A i \in 1 .. 0 : FALSE
    OBVIOUS
  <2>4. \A i \in 1 .. 0 - 1 : FALSE
    OBVIOUS
  <2> DEFINE s == <<>>
  <2>5. s \in Seq([at : Nat, calls : Nat]) /\ HO!next(s)
        /\ (\A i \in 1 .. Len(s) : s[i].at <= s4)
        /\ \A i \in 1 .. Len(s) - 1 : s[i].at < s[i + 1].at
    BY <2>1, <2>2, <2>3, <2>4
  <2> HIDE DEF s
  <2> QED BY <2>1, <2>5, NextKeeps
<1>4. CASE HO!CallNext
  <2> DEFINE n == Len(s5)
             s == [s5 EXCEPT ![n] = HO!Counted(s5[n])]
  <2>1. s5 # <<>> /\ s3' = s3 /\ HO!next(s) /\ s1' = s1 /\ s2' = s2
    BY <1>4 DEF HO!CallNext
  <2>2. s5 \in Seq([at : Nat, calls : Nat]) /\ n \in 1 .. n
    BY <2>1 DEF HO!MiddlewareChain_IInv
  <2>3. HO!Counted(s5[n]) \in [at : Nat, calls : Nat] /\ HO!Counted(s5[n]).at = s5[n].at
    <3>1. s5[n] \in [at : Nat, calls : Nat]
      BY <2>2, ElementOfSeq
    <3> HIDE DEF n
    <3> QED BY <3>1 DEF HO!Counted
  <2>4. s \in Seq([at : Nat, calls : Nat]) /\ Len(s) = n
    BY <2>2, <2>3, ExceptSeq
  <2>5. \A i \in 1 .. n : s[i].at = s5[i].at
    BY <2>2, <2>3
  <2>6. s3' \in Routes
    BY <2>1 DEF HO!MiddlewareChain_IInv, HO!Unused
  <2>7. /\ \A i \in 1 .. n : s5[i].at <= s4
        /\ \A i \in 1 .. n - 1 : s5[i].at < s5[i + 1].at
    BY DEF HO!MiddlewareChain_IInv, HO!PassesInOrder
  <2> HIDE DEF s, n
  <2>8. \A i \in 1 .. n : s[i].at <= s4
    BY <2>5, <2>7
  <2>9. ASSUME NEW i \in 1 .. n - 1 PROVE s[i].at < s[i + 1].at
    <3>1. i \in 1 .. n /\ i + 1 \in 1 .. n
      BY <2>2
    <3> QED BY <2>5, <2>7, <3>1
  <2> QED BY <2>1, <2>4, <2>6, <2>8, <2>9, NextKeeps
<1>5. CASE HO!HandleReturns
  <2>1. s5 # <<>> /\ s5' = SubSeq(s5, 1, Len(s5) - 1) /\ UNCHANGED <<s1, s2, s3, s4, s6, s7>>
    BY <1>5 DEF HO!HandleReturns, HO!Front
  <2>2. s5 \in Seq([at : Nat, calls : Nat]) /\ Len(s5) \in Nat \ {0}
    BY <2>1 DEF HO!MiddlewareChain_IInv
  <2>3. /\ s5' \in Seq([at : Nat, calls : Nat]) /\ Len(s5') = Len(s5) - 1
        /\ \A i \in 1 .. Len(s5') : s5'[i] = s5[i]
    BY <2>1, <2>2, AllButLast
  <2>4. ASSUME NEW i \in 1 .. Len(s5') PROVE s5'[i].at <= s4
    <3>1. i \in 1 .. Len(s5)
      BY <2>2, <2>3
    <3> QED BY <2>3, <3>1 DEF HO!MiddlewareChain_IInv
  <2>5. \A i \in 1 .. Len(s5') - 1 : s5'[i].at < s5'[i + 1].at
    <3> SUFFICES ASSUME NEW i \in 1 .. Len(s5') - 1 PROVE s5'[i].at < s5'[i + 1].at
      OBVIOUS
    <3>1. i \in 1 .. Len(s5) - 1 /\ i \in 1 .. Len(s5') /\ i + 1 \in 1 .. Len(s5')
      BY <2>2, <2>3
    <3> QED BY <2>3, <3>1 DEF HO!MiddlewareChain_IInv, HO!PassesInOrder
  <2>6. ~ HO!Unused
    BY <2>1 DEF HO!MiddlewareChain_IInv
  <2> QED
    BY <2>1, <2>3, <2>4, <2>5, <2>6 DEF HO!MiddlewareChain_IInv, HO!PassesInOrder, HO!Unused
<1>6. CASE HO!ExecuteReturns
  <2>1. <<>> = [i \in 1 .. 0 |-> i]
    OBVIOUS
  <2> QED
    BY <1>6, <2>1 DEF HO!ExecuteReturns, HO!MiddlewareChain_IInv, HO!PassesInOrder, HO!Unused
<1> QED BY <1>1, <1>2, <1>3, <1>4, <1>5, <1>6 DEF HO!MiddlewareChain_Next

-----------------------------------------------------------------------------
(* EventBus *)

Hears(h, p) == {h[i][3] : i \in {i \in DOMAIN h : h[i][1] = p}}

LEMMA HeardAppended ==
    ASSUME NEW S, NEW h \in Seq(S), NEW x \in S, NEW p
    PROVE  Hears(Append(h, x), p) = Hears(h, p) \cup (IF x[1] = p THEN {x[3]} ELSE {})
<1> DEFINE g == Append(h, x)
           n == Len(h)
<1>1. /\ DOMAIN g = 1 .. n + 1 /\ DOMAIN h = 1 .. n /\ n \in Nat
      /\ g[n + 1] = x /\ \A i \in 1 .. n : g[i] = h[i]
  OBVIOUS
<1> HIDE DEF g, n
<1>2. \A i \in DOMAIN g : i = n + 1 \/ i \in DOMAIN h
  BY <1>1
<1>3. ASSUME NEW y \in Hears(g, p)
      PROVE  y \in Hears(h, p) \cup (IF x[1] = p THEN {x[3]} ELSE {})
  <2>1. PICK i \in DOMAIN g : g[i][1] = p /\ y = g[i][3]
    BY DEF Hears
  <2>2. CASE i = n + 1
    BY <1>1, <2>1, <2>2
  <2>3. CASE i \in DOMAIN h
    BY <1>1, <2>1, <2>3 DEF Hears
  <2> QED BY <1>2, <2>2, <2>3
<1>4. ASSUME NEW y \in Hears(h, p) PROVE y \in Hears(g, p)
  <2>1. PICK i \in DOMAIN h : h[i][1] = p /\ y = h[i][3]
    BY DEF Hears
  <2>2. i \in DOMAIN g /\ g[i] = h[i]
    BY <1>1, <2>1
  <2> QED BY <2>1, <2>2 DEF Hears
<1>5. ASSUME x[1] = p PROVE x[3] \in Hears(g, p)
  <2>1. n + 1 \in DOMAIN g /\ g[n + 1][1] = p
    BY <1>1, <1>5
  <2> QED BY <1>1, <2>1 DEF Hears
<1>6. Hears(g, p) = Hears(h, p) \cup (IF x[1] = p THEN {x[3]} ELSE {})
  BY <1>3, <1>4, <1>5
<1> QED BY <1>6 DEF g

(* The invariant as a predicate of the four values, so that it can be       *)
(* stated of the state before a step and of the state after it.             *)
Distinct(stack) ==
    \A t, u \in Threads : \A k \in DOMAIN stack[t], l \in DOMAIN stack[u] :
        stack[t][k].payload = stack[u][l].payload => t = u /\ k = l

FrameIsComplete(f, heard) ==
    f.next <= f.handlers + 1 /\ Hears(heard, f.payload) = 1 .. f.next - 1

InOrder(heard) ==
    \A i, j \in DOMAIN heard :
        heard[i][1] = heard[j][1] /\ i < j => heard[i][3] < heard[j][3]

FramesOf(published) ==
    [event : Events, payload : 1 .. published, handlers : Nat, next : Nat \ {0}]

BusInv(subscribers, stack, published, heard) ==
    /\ subscribers \in [Events -> Nat] /\ published \in Nat
    /\ stack \in [Threads -> Seq(FramesOf(published))]
    /\ heard \in Seq((1 .. published) \X Events \X Nat)
    /\ Distinct(stack)
    /\ InOrder(heard)
    /\ \A t \in Threads : \A k \in DOMAIN stack[t] : FrameIsComplete(stack[t][k], heard)

LEMMA BusInvIs ==
    /\ OB!EventBus_IInv <=> BusInv(s1, s2, s3, s4)
    /\ OB!EventBus_IInv' <=> BusInv(s1', s2', s3', s4')
<1>1. OB!EventBus_IInv <=> BusInv(s1, s2, s3, s4)
  BY DEF OB!EventBus_IInv, OB!DispatchIsComplete, OB!Frames, OB!HeardBy, BusInv, Distinct,
         InOrder, FramesOf, FrameIsComplete, Hears
<1>2. OB!EventBus_IInv' <=> BusInv(s1', s2', s3', s4')
  BY DEF OB!EventBus_IInv, OB!DispatchIsComplete, OB!Frames, OB!HeardBy, BusInv, Distinct,
         InOrder, FramesOf, FrameIsComplete, Hears
<1> QED BY <1>1, <1>2

LEMMA EventBusInit == OB!EventBus_Init => OB!EventBus_IInv
<1> SUFFICES ASSUME OB!EventBus_Init PROVE BusInv(s1, s2, s3, s4)
  BY BusInvIs
<1>1. /\ s1 = [e \in Events |-> 0] /\ s2 = [t \in Threads |-> <<>>] /\ s3 = 0 /\ s4 = <<>>
  BY DEF OB!EventBus_Init
<1>2. s2 \in [Threads -> Seq(FramesOf(s3))] /\ \A t \in Threads : DOMAIN s2[t] = {}
  BY <1>1
<1>3. s4 \in Seq((1 .. s3) \X Events \X Nat) /\ DOMAIN s4 = {}
  BY <1>1
<1> QED BY <1>1, <1>2, <1>3 DEF BusInv, Distinct, InOrder

(* A step that only takes calls of publish away. *)
LEMMA FewerFrames ==
    ASSUME BusInv(s1, s2, s3, s4), s1' \in [Events -> Nat], s3' = s3, s4' = s4,
           s2' \in [Threads -> Seq(FramesOf(s3))],
           \A t \in Threads : \A k \in DOMAIN s2'[t] :
               k \in DOMAIN s2[t] /\ s2'[t][k] = s2[t][k]
    PROVE  BusInv(s1', s2', s3', s4')
<1>1. Distinct(s2')
  BY DEF BusInv, Distinct
<1>2. \A t \in Threads : \A k \in DOMAIN s2'[t] : FrameIsComplete(s2'[t][k], s4)
  BY DEF BusInv
<1> QED BY <1>1, <1>2 DEF BusInv

LEMMA SubscribeKeeps ==
    ASSUME OB!EventBus_IInv, NEW e \in Events, OB!subscribe(e)
    PROVE  OB!EventBus_IInv'
<1>1. s1' \in [Events -> Nat] /\ s2' = s2 /\ s3' = s3 /\ s4' = s4
  BY BusInvIs DEF BusInv, OB!subscribe
<1>2. s2' \in [Threads -> Seq(FramesOf(s3))]
  BY <1>1, BusInvIs DEF BusInv
<1> QED BY <1>1, <1>2, FewerFrames, BusInvIs

(* publish returns when its round is over, or throws what a handler threw. *)
LEMMA PublishReturnsKeeps ==
    ASSUME OB!EventBus_IInv, NEW t \in Threads, OB!PublishReturns(t) \/ OB!HandlerThrows(t)
    PROVE  OB!EventBus_IInv'
<1>1. /\ s2[t] # <<>> /\ s2' = [s2 EXCEPT ![t] = SubSeq(s2[t], 1, Len(s2[t]) - 1)]
      /\ s1' = s1 /\ s3' = s3 /\ s4' = s4
  BY DEF OB!PublishReturns, OB!HandlerThrows, OB!Front
<1>2. s2 \in [Threads -> Seq(FramesOf(s3))] /\ s1 \in [Events -> Nat]
  BY BusInvIs DEF BusInv
<1> DEFINE n == Len(s2[t])
           f == SubSeq(s2[t], 1, n - 1)
<1>3. s2[t] \in Seq(FramesOf(s3)) /\ n \in Nat /\ DOMAIN s2[t] = 1 .. n
  BY <1>2
<1>4. f \in Seq(FramesOf(s3)) /\ Len(f) = n - 1 /\ \A k \in 1 .. n - 1 : f[k] = s2[t][k]
  BY <1>1, <1>3, AllButLast
<1>5. DOMAIN f = 1 .. n - 1
  BY <1>4
<1> HIDE DEF n, f
<1>6. s2' = [s2 EXCEPT ![t] = f]
  BY <1>1 DEF n, f
<1>7. s2' \in [Threads -> Seq(FramesOf(s3))]
  BY <1>2, <1>4, <1>6
<1>8. ASSUME NEW u \in Threads, NEW k \in DOMAIN s2'[u]
      PROVE  k \in DOMAIN s2[u] /\ s2'[u][k] = s2[u][k]
  <2>1. CASE u = t
    <3>1. k \in 1 .. n - 1 /\ s2'[u] = f
      BY <1>2, <1>5, <1>6, <2>1
    <3> QED BY <1>3, <1>4, <2>1, <3>1
  <2>2. CASE u # t
    BY <1>2, <1>6, <2>2
  <2> QED BY <2>1, <2>2
<1> QED BY <1>1, <1>2, <1>7, <1>8, FewerFrames, BusInvIs

(* Facts about a frame that the leaves below need one at a time. *)
LEMMA FrameFields ==
    ASSUME NEW n, NEW f \in FramesOf(n), n \in Nat
    PROVE  /\ f.event \in Events /\ f.payload \in 1 .. n /\ f.payload \in Nat
           /\ f.handlers \in Nat /\ f.next \in Nat \ {0}
  BY DEF FramesOf

LEMMA MoreFrames ==
    ASSUME NEW n \in Nat
    PROVE  /\ FramesOf(n) \subseteq FramesOf(n + 1)
           /\ (1 .. n) \X Events \X Nat \subseteq (1 .. n + 1) \X Events \X Nat
<1>1. 1 .. n \subseteq 1 .. n + 1
  OBVIOUS
<1>2. FramesOf(n) \subseteq FramesOf(n + 1)
  BY <1>1 DEF FramesOf
<1>3. (1 .. n) \X Events \X Nat \subseteq (1 .. n + 1) \X Events \X Nat
  BY <1>1, Zenon
<1> QED BY <1>2, <1>3

LEMMA PublishKeeps ==
    ASSUME OB!EventBus_IInv, NEW t \in Threads, NEW e \in Events, OB!publish(t, e)
    PROVE  OB!EventBus_IInv'
<1> DEFINE f == [event |-> e, payload |-> s3 + 1, handlers |-> s1[e], next |-> 1]
           n == Len(s2[t])
<1>1. /\ s3' = s3 + 1 /\ s2' = [s2 EXCEPT ![t] = Append(s2[t], f)] /\ s1' = s1 /\ s4' = s4
  BY DEF OB!publish
<1>2. /\ s1 \in [Events -> Nat] /\ s3 \in Nat /\ s2 \in [Threads -> Seq(FramesOf(s3))]
      /\ s4 \in Seq((1 .. s3) \X Events \X Nat) /\ Distinct(s2) /\ InOrder(s4)
      /\ \A u \in Threads : \A k \in DOMAIN s2[u] : FrameIsComplete(s2[u][k], s4)
  BY BusInvIs DEF BusInv
<1>3. f \in FramesOf(s3 + 1) /\ f.payload = s3 + 1 /\ f.next = 1 /\ f.handlers \in Nat
  BY <1>2 DEF FramesOf
<1> HIDE DEF f
<1>4. s2 \in [Threads -> Seq(FramesOf(s3 + 1))] /\ s4 \in Seq((1 .. s3 + 1) \X Events \X Nat)
  <2>1. Seq(FramesOf(s3)) \subseteq Seq(FramesOf(s3 + 1))
    BY <1>2, MoreFrames, SeqMonotonic
  <2>2. Seq((1 .. s3) \X Events \X Nat) \subseteq Seq((1 .. s3 + 1) \X Events \X Nat)
    BY <1>2, MoreFrames, SeqMonotonic
  <2> QED BY <1>2, <2>1, <2>2
<1>5. /\ n \in Nat /\ DOMAIN s2[t] = 1 .. n
      /\ Append(s2[t], f) \in Seq(FramesOf(s3 + 1))
      /\ DOMAIN Append(s2[t], f) = 1 .. n + 1
      /\ Append(s2[t], f)[n + 1] = f
      /\ \A k \in 1 .. n : Append(s2[t], f)[k] = s2[t][k]
  BY <1>3, <1>4
<1> HIDE DEF n
<1>6. s2' \in [Threads -> Seq(FramesOf(s3 + 1))]
  BY <1>1, <1>4, <1>5
<1>7. ASSUME NEW u \in Threads, NEW k \in DOMAIN s2'[u]
      PROVE  \/ k \in DOMAIN s2[u] /\ s2'[u][k] = s2[u][k] /\ s2'[u][k].payload \in 1 .. s3
             \/ u = t /\ k = n + 1 /\ s2'[u][k] = f
  <2>1. CASE u = t /\ k = n + 1
    BY <1>1, <1>2, <1>5, <2>1
  <2>2. CASE ~ (u = t /\ k = n + 1)
    <3>1. k \in DOMAIN s2[u] /\ s2'[u][k] = s2[u][k]
      <4>1. CASE u = t
        <5>1. s2'[u] = Append(s2[t], f)
          BY <1>1, <1>2, <4>1
        <5>2. k \in 1 .. n
          BY <1>5, <2>2, <4>1, <5>1
        <5> QED BY <1>5, <4>1, <5>1, <5>2
      <4>2. CASE u # t
        BY <1>1, <1>2, <4>2
      <4> QED BY <4>1, <4>2
    <3>2. s2[u] \in Seq(FramesOf(s3))
      BY <1>2
    <3>3. s2[u][k] \in FramesOf(s3)
      BY <3>1, <3>2
    <3> QED BY <1>2, <3>1, <3>3, FrameFields
  <2> QED BY <2>1, <2>2
<1>8. Distinct(s2')
  <2> SUFFICES ASSUME NEW u \in Threads, NEW v \in Threads,
                      NEW k \in DOMAIN s2'[u], NEW l \in DOMAIN s2'[v],
                      s2'[u][k].payload = s2'[v][l].payload
               PROVE  u = v /\ k = l
    BY DEF Distinct
  <2>1. s3 + 1 \notin 1 .. s3
    BY <1>2
  <2>2. CASE (u = t /\ k = n + 1) \/ (v = t /\ l = n + 1)
    <3>1. ASSUME NEW w \in Threads, NEW j \in DOMAIN s2'[w]
          PROVE  s2'[w][j].payload = s3 + 1 <=> w = t /\ j = n + 1
      <4>1. n + 1 \notin DOMAIN s2[t]
        BY <1>5
      <4> QED BY <1>3, <1>7, <2>1, <4>1
    <3>2. s2'[u][k].payload = s3 + 1 \/ s2'[v][l].payload = s3 + 1
      BY <2>2, <3>1
    <3> QED BY <3>1, <3>2
  <2>3. CASE ~ (u = t /\ k = n + 1) /\ ~ (v = t /\ l = n + 1)
    <3>1. k \in DOMAIN s2[u] /\ s2'[u][k] = s2[u][k] /\ l \in DOMAIN s2[v] /\ s2'[v][l] = s2[v][l]
      BY <1>7, <2>3
    <3> QED BY <1>2, <3>1 DEF Distinct
  <2> QED BY <2>2, <2>3
<1>9. FrameIsComplete(f, s4)
  <2>1. \A i \in DOMAIN s4 : s4[i][1] # s3 + 1
    <3> SUFFICES ASSUME NEW i \in DOMAIN s4 PROVE s4[i][1] # s3 + 1
      OBVIOUS
    <3>1. s4[i] \in (1 .. s3) \X Events \X Nat
      BY <1>2
    <3>2. s4[i][1] \in 1 .. s3
      BY <3>1
    <3> QED BY <1>2, <3>2
  <2>2. Hears(s4, s3 + 1) = {}
    BY <2>1 DEF Hears
  <2>3. 1 .. 1 - 1 = {}
    OBVIOUS
  <2> QED BY <1>3, <2>2, <2>3 DEF FrameIsComplete
<1>10. \A u \in Threads : \A k \in DOMAIN s2'[u] : FrameIsComplete(s2'[u][k], s4)
  BY <1>2, <1>7, <1>9
<1> QED BY <1>1, <1>2, <1>4, <1>6, <1>8, <1>10, BusInvIs DEF BusInv

LEMMA CallHandlerKeeps ==
    ASSUME OB!EventBus_IInv, NEW t \in Threads, OB!CallHandler(t)
    PROVE  OB!EventBus_IInv'
<1> DEFINE n == Len(s2[t])
           f == s2[t][n]
           g == OB!Advanced(f)
           b == SubSeq(s2[t], 1, n - 1)
           x == <<f.payload, f.event, f.next>>
<1>1. /\ s2[t] # <<>> /\ f.next <= f.handlers /\ s4' = Append(s4, x)
      /\ s2' = [s2 EXCEPT ![t] = Append(b, g)] /\ s1' = s1 /\ s3' = s3
  BY DEF OB!CallHandler, OB!Last, OB!Front
<1>2. /\ s1 \in [Events -> Nat] /\ s3 \in Nat /\ s2 \in [Threads -> Seq(FramesOf(s3))]
      /\ s4 \in Seq((1 .. s3) \X Events \X Nat) /\ Distinct(s2) /\ InOrder(s4)
      /\ \A u \in Threads : \A k \in DOMAIN s2[u] : FrameIsComplete(s2[u][k], s4)
  BY BusInvIs DEF BusInv
<1>3. n \in Nat \ {0} /\ DOMAIN s2[t] = 1 .. n /\ n \in DOMAIN s2[t]
  BY <1>1, <1>2, EmptySeq
<1>4. f \in FramesOf(s3)
  BY <1>2, <1>3
<1>5. /\ f.event \in Events /\ f.payload \in 1 .. s3
      /\ f.handlers \in Nat /\ f.next \in Nat \ {0}
  BY <1>2, <1>4, FrameFields
<1>6. b \in Seq(FramesOf(s3)) /\ Len(b) = n - 1 /\ \A k \in 1 .. n - 1 : b[k] = s2[t][k]
  BY <1>1, <1>2, AllButLast
<1> HIDE DEF n, f, b
<1>7. g \in FramesOf(s3) /\ g.payload = f.payload /\ g.next = f.next + 1 /\ g.handlers = f.handlers
  BY <1>5 DEF FramesOf, OB!Advanced
<1> HIDE DEF g
<1>8. /\ Append(b, g) \in Seq(FramesOf(s3)) /\ DOMAIN Append(b, g) = 1 .. n
      /\ Append(b, g)[n] = g /\ \A k \in 1 .. n - 1 : Append(b, g)[k] = s2[t][k]
  <2>1. Len(Append(b, g)) = n
    BY <1>3, <1>6, <1>7
  <2> QED BY <1>3, <1>6, <1>7, <2>1
<1>9. s2' \in [Threads -> Seq(FramesOf(s3))]
  BY <1>1, <1>2, <1>8
<1>10. ASSUME NEW u \in Threads, NEW k \in DOMAIN s2'[u]
       PROVE  /\ k \in DOMAIN s2[u]
              /\ u = t /\ k = n => s2'[u][k] = g /\ s2[u][k] = f
              /\ ~ (u = t /\ k = n) => s2'[u][k] = s2[u][k]
  <2>1. CASE u = t
    <3>1. s2'[u] = Append(b, g) /\ k \in 1 .. n
      BY <1>1, <1>2, <1>8, <2>1
    <3>2. k = n \/ k \in 1 .. n - 1
      BY <1>3, <3>1
    <3> QED BY <1>3, <1>8, <2>1, <3>1, <3>2 DEF f
  <2>2. CASE u # t
    BY <1>1, <1>2, <2>2
  <2> QED BY <2>1, <2>2
<1>11. \A u \in Threads : \A k \in DOMAIN s2'[u] : s2'[u][k].payload = s2[u][k].payload
  BY <1>7, <1>10
<1>12. Distinct(s2')
  BY <1>2, <1>10, <1>11 DEF Distinct
<1>13. x \in (1 .. s3) \X Events \X Nat /\ x[1] = f.payload /\ x[3] = f.next
  BY <1>5
<1> HIDE DEF x
<1>14. s4' \in Seq((1 .. s3) \X Events \X Nat)
  BY <1>1, <1>2, <1>13
<1>15. FrameIsComplete(f, s4)
  BY <1>2, <1>3 DEF f
<1>16. InOrder(s4')
  <2> DEFINE m == Len(s4)
  <2>1. /\ DOMAIN s4' = 1 .. m + 1 /\ DOMAIN s4 = 1 .. m /\ m \in Nat
        /\ s4'[m + 1] = x /\ \A i \in 1 .. m : s4'[i] = s4[i]
    BY <1>1, <1>2, <1>13
  <2> HIDE DEF m
  <2> SUFFICES ASSUME NEW i \in DOMAIN s4', NEW j \in DOMAIN s4',
                      s4'[i][1] = s4'[j][1], i < j
               PROVE  s4'[i][3] < s4'[j][3]
    BY DEF InOrder
  <2>2. i \in DOMAIN s4 /\ s4'[i] = s4[i]
    BY <2>1
  <2>3. CASE j \in DOMAIN s4
    BY <1>2, <2>1, <2>2, <2>3 DEF InOrder
  <2>4. CASE j = m + 1
    <3>1. s4[i][3] \in Hears(s4, f.payload)
      BY <1>13, <2>1, <2>2, <2>4 DEF Hears
    <3>2. s4[i][3] \in 1 .. f.next - 1
      BY <1>15, <3>1 DEF FrameIsComplete
    <3> QED BY <1>5, <1>13, <2>1, <2>2, <2>4, <3>2
  <2> QED BY <2>1, <2>3, <2>4
<1>17. \A p : Hears(s4', p) = Hears(s4, p) \cup (IF x[1] = p THEN {x[3]} ELSE {})
  <2> DEFINE S == (1 .. s3) \X Events \X Nat
  <2>1. s4 \in Seq(S) /\ x \in S /\ s4' = Append(s4, x)
    BY <1>1, <1>2, <1>13
  <2> HIDE DEF S
  <2> QED BY <2>1, HeardAppended
<1>18. ASSUME NEW p, p # f.payload PROVE Hears(s4', p) = Hears(s4, p)
  <2>1. x[1] # p
    BY <1>13, <1>18
  <2>2. (IF x[1] = p THEN {x[3]} ELSE {}) = {}
    BY <2>1
  <2>3. Hears(s4', p) = Hears(s4, p) \cup {}
    BY <1>17, <2>2
  <2> QED BY <2>3
<1>19. FrameIsComplete(g, s4')
  <2>1. Hears(s4', g.payload) = (1 .. f.next - 1) \cup {f.next}
    BY <1>7, <1>13, <1>15, <1>17 DEF FrameIsComplete
  <2>2. (1 .. f.next - 1) \cup {f.next} = 1 .. (f.next + 1) - 1
    BY <1>5
  <2>3. f.next + 1 <= f.handlers + 1
    BY <1>1, <1>5
  <2> QED BY <1>7, <2>1, <2>2, <2>3 DEF FrameIsComplete
<1>20. ASSUME NEW u \in Threads, NEW k \in DOMAIN s2'[u]
       PROVE  FrameIsComplete(s2'[u][k], s4')
  <2>1. CASE u = t /\ k = n
    BY <1>10, <1>19, <2>1
  <2>2. CASE ~ (u = t /\ k = n)
    <3>1. s2'[u][k] = s2[u][k] /\ k \in DOMAIN s2[u]
      BY <1>10, <2>2
    <3>2. s2[u][k].payload # f.payload
      BY <1>2, <1>3, <2>2, <3>1 DEF Distinct, f
    <3>3. Hears(s4', s2[u][k].payload) = Hears(s4, s2[u][k].payload)
      BY <1>18, <3>2
    <3>4. FrameIsComplete(s2[u][k], s4)
      BY <1>2, <3>1
    <3> QED BY <3>1, <3>3, <3>4 DEF FrameIsComplete
  <2> QED BY <2>1, <2>2
<1> QED BY <1>1, <1>2, <1>9, <1>12, <1>14, <1>16, <1>20, BusInvIs DEF BusInv

LEMMA EventBusNext == OB!EventBus_IInv /\ OB!EventBus_Next => OB!EventBus_IInv'
  BY SubscribeKeeps, PublishKeeps, CallHandlerKeeps, PublishReturnsKeeps DEF OB!EventBus_Next

-----------------------------------------------------------------------------
(* The services together: a service keeps its own invariant, and the places *)
(* of one are never those of another.                                       *)
HandlerIInv ==
    /\ service = "events" => OB!EventBus_IInv
    /\ service = "middleware" => HO!MiddlewareChain_IInv

LEMMA HandlerInit == Init => HandlerIInv
  BY EventBusInit, MiddlewareInit DEF Init, HandlerIInv

LEMMA HandlerNext == HandlerIInv /\ [Next]_vars => HandlerIInv'
<1> SUFFICES ASSUME HandlerIInv, [Next]_vars PROVE HandlerIInv'
  OBVIOUS
<1>1. CASE EventBus
  BY <1>1, EventBusNext DEF EventBus, HandlerIInv
<1>2. CASE Middleware
  BY <1>2, MiddlewareNext DEF Middleware, HandlerIInv
<1>3. CASE Scheduler \/ Delayed \/ Periodic \/ HashMap \/ Cache \/ Provider
           \/ Lru \/ Lfu \/ HashRing \/ Snowflake \/ Connectivity \/ Watcher \/ Session
  BY <1>3 DEF Scheduler, Delayed, Periodic, HashMap, Cache, Provider, Snowflake,
     Lru, Lfu, HashRing, Connectivity, Watcher, Session, HandlerIInv
<1>4. CASE UNCHANGED vars
  <2>1. /\ service' = service /\ s1' = s1 /\ s2' = s2 /\ s3' = s3 /\ s4' = s4
        /\ s5' = s5 /\ s6' = s6 /\ s7' = s7
    BY <1>4 DEF vars, From5, From6, From7
  <2>2. OB!EventBus_IInv' <=> OB!EventBus_IInv
    BY <2>1, BusInvIs
  <2>3. HO!MiddlewareChain_IInv' <=> HO!MiddlewareChain_IInv
    BY <2>1 DEF HO!MiddlewareChain_IInv, HO!PassesInOrder, HO!Unused
  <2> QED BY <2>1, <2>2, <2>3 DEF HandlerIInv
<1> QED BY <1>1, <1>2, <1>3, <1>4 DEF Next

(* Handlers and middlewares are called completely and in order: publish of  *)
(* EventBus calls each handler of the copy it took once, in the order of    *)
(* their subscriptions, for any handlers that publish and subscribe         *)
(* themselves; execute of MiddlewareChain enters each middleware at most    *)
(* once and in order, however often next is called, and Router answers with *)
(* the first route that fits.                                               *)
THEOREM HandlersKeepTheOrder == Spec => []HandlersAreCalledInOrder
<1>1. HandlerIInv => HandlersAreCalledInOrder
  BY DEF HandlerIInv, HandlersAreCalledInOrder, OB!EventBus_IInv, HO!MiddlewareChain_IInv
<1> QED BY <1>1, HandlerInit, HandlerNext, PTL DEF Spec

-----------------------------------------------------------------------------
(* ServiceProvider *)

LEMMA ProviderInit == HO!ServiceProvider_Init => HO!ServiceProvider_IInv
<1> SUFFICES ASSUME HO!ServiceProvider_Init PROVE HO!ServiceProvider_IInv
  OBVIOUS
<1>1. /\ s1 = <<>> /\ s2 = FALSE /\ s3 = [t \in Types |-> Absent] /\ s4 = Absent
      /\ s5 = [c \in Callers |-> <<>>] /\ s6 = 0 /\ s7 = {}
  BY DEF HO!ServiceProvider_Init
<1>2. /\ s1 \in Seq(Descriptors) /\ s6 \in Nat
      /\ s5 \in [Callers -> Seq(Types)] /\ DOMAIN s3 = Types
  BY <1>1
<1>3. \A c \in Callers : s5[c] = <<>> /\ DOMAIN s5[c] = {}
  BY <1>1
<1>4. \A t \in Types : s3[t] = Absent
  BY <1>1
<1> QED BY <1>1, <1>2, <1>3, <1>4 DEF HO!ServiceProvider_IInv

(* The descriptors of a provider do not change any more. *)
LEMMA SameDescriptors ==
    ASSUME s1' = s1, NEW t
    PROVE  /\ HO!Registered(t)' <=> HO!Registered(t)
           /\ HO!Descriptor(t)' = HO!Descriptor(t)
           /\ HO!Single(t)' <=> HO!Single(t)
  BY DEF HO!Registered, HO!Descriptor, HO!Single, HO!Places

(* What a factory resolves is a type. *)
LEMMA NeedsAreTypes ==
    ASSUME s1 \in Seq(Descriptors), NEW t, HO!Registered(t)
    PROVE  HO!Descriptor(t).needs \subseteq Types
<1> DEFINE P == HO!Places(t)
<1>1. P # {} /\ P \subseteq DOMAIN s1 /\ DOMAIN s1 \subseteq Nat
  BY DEF HO!Registered, HO!Places
<1>2. HO!Descriptor(t) = s1[HO!Min(P)]
  BY DEF HO!Descriptor
<1> HIDE DEF P
<1>3. \E m \in P : \A n \in P : m <= n
  BY <1>1, LeastNatural
<1>4. HO!Min(P) \in P
  BY <1>3, Zenon DEF HO!Min
<1>5. s1[HO!Min(P)] \in Descriptors
  BY <1>1, <1>4
<1> QED BY <1>2, <1>5, ProviderAssumption

(* A type goes on the stack of a caller. *)
LEMMA Pushed ==
    ASSUME NEW c \in Callers, NEW t \in Types, s5 \in [Callers -> Seq(Types)],
           s5' = [s5 EXCEPT ![c] = Append(@, t)]
    PROVE  /\ s5' \in [Callers -> Seq(Types)]
           /\ \A d \in Callers \ {c} : s5'[d] = s5[d]
           /\ DOMAIN s5'[c] = DOMAIN s5[c] \cup {Len(s5[c]) + 1}
           /\ \A i \in DOMAIN s5[c] : s5'[c][i] = s5[c][i] /\ i # Len(s5[c]) + 1
           /\ s5'[c][Len(s5[c]) + 1] = t
<1>1. s5[c] \in Seq(Types) /\ s5'[c] = Append(s5[c], t)
  OBVIOUS
<1>2. /\ DOMAIN s5[c] = 1 .. Len(s5[c]) /\ DOMAIN s5'[c] = 1 .. Len(s5[c]) + 1
      /\ Len(s5[c]) \in Nat
      /\ \A i \in 1 .. Len(s5[c]) : s5'[c][i] = s5[c][i]
      /\ s5'[c][Len(s5[c]) + 1] = t /\ s5'[c] \in Seq(Types)
  BY <1>1
<1>3. s5' \in [Callers -> Seq(Types)] /\ \A d \in Callers \ {c} : s5'[d] = s5[d]
  BY <1>2
<1> QED BY <1>2, <1>3

LEMMA ResolveKeeps ==
    ASSUME HO!ServiceProvider_IInv, s2, NEW c \in Callers, NEW t \in Types,
           HO!resolve(c, t), UNCHANGED <<s1, s2, s3, s6>>
    PROVE  HO!ServiceProvider_IInv'
<1> USE DEF HO!ServiceProvider_IInv
<1>1. /\ \A u : HO!Registered(u)' <=> HO!Registered(u)
      /\ \A u : HO!Single(u)' <=> HO!Single(u)
  BY SameDescriptors
<1>2. CASE HO!Throws(t) /\ s5' = [s5 EXCEPT ![c] = <<>>] /\ s7' = s7
           /\ s4' = IF s4 = c THEN Absent ELSE s4
  <2>1. s5' \in [Callers -> Seq(Types)] /\ s5'[c] = <<>> /\ DOMAIN s5'[c] = {}
        /\ \A d \in Callers \ {c} : s5'[d] = s5[d]
    BY <1>2
  <2>2. \A d \in Callers : \A i \in DOMAIN s5'[d] :
           d # c /\ i \in DOMAIN s5[d] /\ s5'[d][i] = s5[d][i]
    BY <2>1
  <2>3. \A d \in Callers : \A i, j \in DOMAIN s5'[d] :
          HO!Single(s5'[d][i]) =>
              /\ s4' = d /\ s3[s5'[d][i]] = Absent
              /\ HO!Single(s5'[d][j]) => i = j
    BY <1>2, <2>2
  <2>4. s4' # Absent => s4' \in Callers /\ \E i \in DOMAIN s5'[s4'] : HO!Single(s5'[s4'][i])
    BY <1>2, <2>1
  <2> QED BY <1>1, <1>2, <2>1, <2>2, <2>3, <2>4
<1>3. CASE /\ HO!Single(t) /\ s4 = Absent /\ s3[t] # Absent
           /\ s7' = s7 \cup {<<t, s3[t]>>} /\ s4' = s4 /\ s5' = s5
  <2>1. s7' = s7
    BY <1>3
  <2> QED BY <1>1, <1>3, <2>1
<1> DEFINE n == Len(s5[c]) + 1
<1>4. ASSUME s5' = [s5 EXCEPT ![c] = Append(@, t)], ~HO!Throws(t)
      PROVE  /\ s5' \in [Callers -> Seq(Types)]
             /\ \A d \in Callers \ {c} : s5'[d] = s5[d]
             /\ DOMAIN s5'[c] = DOMAIN s5[c] \cup {n} /\ s5'[c][n] = t
             /\ \A i \in DOMAIN s5[c] : s5'[c][i] = s5[c][i] /\ i # n
             /\ \A d \in Callers : \A i \in DOMAIN s5'[d] : HO!Registered(s5'[d][i])
  <2>1. HO!Registered(t)
    BY <1>4 DEF HO!Throws
  <2>2. /\ s5' \in [Callers -> Seq(Types)]
        /\ \A d \in Callers \ {c} : s5'[d] = s5[d]
        /\ DOMAIN s5'[c] = DOMAIN s5[c] \cup {n} /\ s5'[c][n] = t
        /\ \A i \in DOMAIN s5[c] : s5'[c][i] = s5[c][i] /\ i # n
    BY <1>4, Pushed
  <2> HIDE DEF n
  <2> QED BY <2>1, <2>2
<1> HIDE DEF n
<1>5. CASE /\ ~HO!Throws(t) /\ HO!Single(t) /\ s4 = Absent /\ s3[t] = Absent
           /\ s4' = c /\ s5' = [s5 EXCEPT ![c] = Append(@, t)] /\ s7' = s7
  <2>1. \A d \in Callers : \A i \in DOMAIN s5[d] : ~HO!Single(s5[d][i])
    BY <1>5, ProviderAssumption
  <2>2. \A d \in Callers : \A i \in DOMAIN s5'[d] :
           HO!Single(s5'[d][i]) => d = c /\ i = n
    BY <1>4, <1>5, <2>1
  <2>3. \A d \in Callers : \A i, j \in DOMAIN s5'[d] :
          HO!Single(s5'[d][i]) =>
              /\ s4' = d /\ s3[s5'[d][i]] = Absent
              /\ HO!Single(s5'[d][j]) => i = j
    BY <1>4, <1>5, <2>2
  <2>4. s4' # Absent => s4' \in Callers /\ \E i \in DOMAIN s5'[s4'] : HO!Single(s5'[s4'][i])
    BY <1>4, <1>5
  <2> QED BY <1>1, <1>4, <1>5, <2>3, <2>4
<1>6. CASE /\ ~HO!Throws(t) /\ ~HO!Single(t)
           /\ s4' = s4 /\ s5' = [s5 EXCEPT ![c] = Append(@, t)] /\ s7' = s7
  <2>1. \A d \in Callers : \A i \in DOMAIN s5'[d] :
           HO!Single(s5'[d][i]) => i \in DOMAIN s5[d] /\ s5'[d][i] = s5[d][i]
    BY <1>4, <1>6
  <2>2. \A d \in Callers : \A i, j \in DOMAIN s5'[d] :
          HO!Single(s5'[d][i]) =>
              /\ s4' = d /\ s3[s5'[d][i]] = Absent
              /\ HO!Single(s5'[d][j]) => i = j
    BY <1>6, <2>1
  <2>3. s4' # Absent => s4' \in Callers /\ \E i \in DOMAIN s5'[s4'] : HO!Single(s5'[s4'][i])
    <3> SUFFICES ASSUME s4' # Absent
                 PROVE  s4' \in Callers /\ \E i \in DOMAIN s5'[s4'] : HO!Single(s5'[s4'][i])
      OBVIOUS
    <3>1. PICK i \in DOMAIN s5[s4] : HO!Single(s5[s4][i])
      BY <1>6
    <3>2. s4 \in Callers /\ s4' = s4
      BY <1>6
    <3>3. i \in DOMAIN s5'[s4] /\ s5'[s4][i] = s5[s4][i]
      BY <1>4, <1>6, <3>2
    <3> QED BY <3>1, <3>2, <3>3
  <2> QED BY <1>1, <1>4, <1>6, <2>2, <2>3
<1> QED BY <1>2, <1>3, <1>5, <1>6 DEF HO!resolve, HO!Locked, HO!Single

(* The innermost factory makes its instance. *)
LEMMA ReturnKeeps ==
    ASSUME HO!ServiceProvider_IInv, NEW c \in Callers, HO!FactoryReturns(c)
    PROVE  HO!ServiceProvider_IInv'
<1> USE DEF HO!ServiceProvider_IInv
<1> DEFINE n == Len(s5[c])
           t == s5[c][n]
<1>1. /\ s5[c] # <<>> /\ s6' = s6 + 1 /\ s7' = s7 \cup {<<t, s6 + 1>>}
      /\ s5' = [s5 EXCEPT ![c] = SubSeq(s5[c], 1, n - 1)]
      /\ HO!Single(t) => s3' = [s3 EXCEPT ![t] = s6 + 1] /\ s4' = Absent
      /\ ~HO!Single(t) => s3' = s3 /\ s4' = s4
      /\ s1' = s1 /\ s2' = s2
  BY DEF HO!FactoryReturns, HO!Last, HO!Front, HO!Single
<1>2. s5[c] \in Seq(Types) /\ s6 \in Nat
  OBVIOUS
<1>3. /\ n \in Nat \ {0} /\ t \in Types /\ n \in DOMAIN s5[c]
      /\ DOMAIN s5[c] = 1 .. n
  BY <1>1, <1>2
<1>4. /\ SubSeq(s5[c], 1, n - 1) \in Seq(Types)
      /\ DOMAIN SubSeq(s5[c], 1, n - 1) = 1 .. n - 1
      /\ \A i \in 1 .. n - 1 : SubSeq(s5[c], 1, n - 1)[i] = s5[c][i]
  BY <1>2, <1>3
<1>5. /\ s5' \in [Callers -> Seq(Types)] /\ DOMAIN s5'[c] = 1 .. n - 1
      /\ \A d \in Callers \ {c} : s5'[d] = s5[d]
      /\ \A d \in Callers : \A i \in DOMAIN s5'[d] :
            i \in DOMAIN s5[d] /\ s5'[d][i] = s5[d][i] /\ (d = c => i # n)
      /\ \A i \in DOMAIN s5[c] : i # n => i \in DOMAIN s5'[c] /\ s5'[c][i] = s5[c][i]
  BY <1>1, <1>2, <1>3, <1>4
<1>6. s2 /\ s2'
  BY <1>1
<1> HIDE DEF n, t
<1>7. \A u : HO!Registered(u)' <=> HO!Registered(u)
  BY <1>1, SameDescriptors
<1>8. \A u : HO!Single(u)' <=> HO!Single(u)
  BY <1>1, SameDescriptors
<1>9. \A x \in s7 : x[2] # s6 + 1 /\ x[2] \in Nat /\ x[1] \in Types
  BY <1>2
<1>10. /\ DOMAIN s3' = Types
       /\ \A u \in Types : s3'[u] = s3[u] \/ (u = t /\ HO!Single(t) /\ s3'[u] = s6 + 1)
       /\ HO!Single(t) => s3'[t] = s6 + 1 /\ s3[t] = Absent
  BY <1>1, <1>3 DEF t
<1>11. \A x \in s7' :
          /\ \E u \in Types, m \in 1 .. s6' : x = <<u, m>>
          /\ HO!Single(x[1]) => s3'[x[1]] = x[2]
  <2> SUFFICES ASSUME NEW x \in s7'
               PROVE  /\ \E u \in Types, m \in 1 .. s6' : x = <<u, m>>
                      /\ HO!Single(x[1]) => s3'[x[1]] = x[2]
    OBVIOUS
  <2>1. CASE x \in s7
    <3>1. PICK u \in Types, m \in 1 .. s6 : x = <<u, m>>
      BY <2>1
    <3>2. m \in 1 .. s6'
      BY <1>1, <1>2
    <3>3. HO!Single(u) => s3[u] = m /\ u # t
      BY <2>1, <3>1, <1>2, <1>10, ProviderAssumption
    <3> QED BY <3>1, <3>2, <3>3, <1>10
  <2>2. CASE x = <<t, s6 + 1>>
    <3>1. s6' \in 1 .. s6'
      BY <1>1, <1>2
    <3> QED BY <2>2, <3>1, <1>1, <1>3, <1>10
  <2> QED BY <1>1, <2>1, <2>2
<1>12. \A x, y \in s7' : x[2] = y[2] => x[1] = y[1]
  BY <1>1, <1>9
<1>13. \A u \in Types : s3'[u] # Absent => <<u, s3'[u]>> \in s7'
  BY <1>1, <1>10
<1>14. \A d \in Callers : \A i, j \in DOMAIN s5'[d] :
          HO!Single(s5'[d][i]) =>
              /\ s4' = d /\ s3'[s5'[d][i]] = Absent
              /\ HO!Single(s5'[d][j]) => i = j
  <2> SUFFICES ASSUME NEW d \in Callers, NEW i \in DOMAIN s5'[d], NEW j \in DOMAIN s5'[d],
                      HO!Single(s5'[d][i])
               PROVE  /\ s4' = d /\ s3'[s5'[d][i]] = Absent
                      /\ HO!Single(s5'[d][j]) => i = j
    BY Zenon
  <2>1. /\ i \in DOMAIN s5[d] /\ s5'[d][i] = s5[d][i] /\ j \in DOMAIN s5[d]
        /\ s5'[d][j] = s5[d][j] /\ (d = c => i # n)
    BY <1>5
  <2>2. s4 = d /\ s3[s5[d][i]] = Absent /\ (HO!Single(s5[d][j]) => i = j)
    BY <2>1
  <2>3. ~HO!Single(t)
    BY <2>1, <2>2, <1>3 DEF t
  <2> QED BY <1>1, <2>1, <2>2, <2>3
<1>15. s4' # Absent => s4' \in Callers /\ \E i \in DOMAIN s5'[s4'] : HO!Single(s5'[s4'][i])
  <2> SUFFICES ASSUME s4' # Absent
               PROVE  s4' \in Callers /\ \E i \in DOMAIN s5'[s4'] : HO!Single(s5'[s4'][i])
    OBVIOUS
  <2>1. ~HO!Single(t) /\ s4' = s4 /\ s4 \in Callers
    BY <1>1
  <2>2. PICK i \in DOMAIN s5[s4] : HO!Single(s5[s4][i])
    BY <2>1
  <2>3. i \in DOMAIN s5'[s4] /\ s5'[s4][i] = s5[s4][i]
    BY <2>1, <2>2, <1>5 DEF t
  <2> QED BY <2>1, <2>2, <2>3
<1>16. s1' \in Seq(Descriptors) /\ s6' \in Nat
  BY <1>1
<1>17. \A d \in Callers : \A i \in DOMAIN s5'[d] : HO!Registered(s5'[d][i])
  BY <1>5
<1> QED BY <1>5, <1>6, <1>7, <1>8, <1>10, <1>11, <1>12, <1>13, <1>14, <1>15, <1>16, <1>17

LEMMA ProviderNext ==
    ASSUME HO!ServiceProvider_IInv, HO!ServiceProvider_Next
    PROVE  HO!ServiceProvider_IInv'
<1>1. ASSUME NEW d \in Descriptors, HO!addDescriptor(d)
      PROVE  HO!ServiceProvider_IInv'
  <2>1. /\ ~s2 /\ s1' = Append(s1, d)
        /\ s2' = s2 /\ s3' = s3 /\ s4' = s4 /\ s5' = s5 /\ s6' = s6 /\ s7' = s7
    BY <1>1 DEF HO!addDescriptor
  <2>2. /\ s7 = {} /\ \A c \in Callers : s5[c] = <<>> /\ DOMAIN s5[c] = {}
    BY <2>1 DEF HO!ServiceProvider_IInv
  <2>3. s1' \in Seq(Descriptors)
    BY <2>1 DEF HO!ServiceProvider_IInv
  <2> QED BY <2>1, <2>2, <2>3 DEF HO!ServiceProvider_IInv
<1>2. ASSUME HO!buildServiceProvider
      PROVE  HO!ServiceProvider_IInv'
  <2>1. /\ s2' /\ s1' = s1 /\ s3' = s3 /\ s4' = s4 /\ s5' = s5 /\ s6' = s6 /\ s7' = s7
    BY <1>2 DEF HO!buildServiceProvider
  <2>2. \A u : (HO!Registered(u)' <=> HO!Registered(u)) /\ (HO!Single(u)' <=> HO!Single(u))
    BY <2>1, SameDescriptors
  <2> QED BY <2>1, <2>2 DEF HO!ServiceProvider_IInv
<1>3. ASSUME NEW c \in Callers, NEW t \in Types, HO!getService(c, t)
      PROVE  HO!ServiceProvider_IInv'
  BY <1>3, ResolveKeeps DEF HO!getService
<1>4. ASSUME NEW c \in Callers, HO!FactoryResolves(c)
      PROVE  HO!ServiceProvider_IInv'
  <2> DEFINE u == s5[c][Len(s5[c])]
  <2>1. s5[c] # <<>> /\ UNCHANGED <<s1, s2, s3, s6>>
        /\ \E t \in HO!Descriptor(u).needs : HO!resolve(c, t)
    BY <1>4 DEF HO!FactoryResolves, HO!Last
  <2>2. s2 /\ s5[c] \in Seq(Types) /\ s1 \in Seq(Descriptors)
    BY <2>1 DEF HO!ServiceProvider_IInv
  <2>3. Len(s5[c]) \in DOMAIN s5[c]
    BY <2>1, <2>2
  <2>4. HO!Registered(u)
    BY <2>3 DEF HO!ServiceProvider_IInv
  <2> HIDE DEF u
  <2>5. HO!Descriptor(u).needs \subseteq Types
    BY <2>2, <2>4, NeedsAreTypes
  <2>6. PICK t \in Types : HO!resolve(c, t)
    BY <2>1, <2>5
  <2> QED BY <2>1, <2>2, <2>6, ResolveKeeps
<1> QED BY <1>1, <1>2, <1>3, <1>4, ReturnKeeps, Zenon DEF HO!ServiceProvider_Next

LEMMA ProviderAgrees == HO!ServiceProvider_IInv => HO!OneInstancePerSingleton
<1> SUFFICES ASSUME HO!ServiceProvider_IInv PROVE HO!OneInstancePerSingleton
  OBVIOUS
<1>1. ASSUME NEW x \in s7, NEW y \in s7
      PROVE  /\ x[1] = y[1] /\ HO!Single(x[1]) => x[2] = y[2]
             /\ x[2] = y[2] => x[1] = y[1]
  BY DEF HO!ServiceProvider_IInv
<1>2. s4 # Absent => \E i \in DOMAIN s5[s4] : HO!Single(s5[s4][i])
  BY DEF HO!ServiceProvider_IInv
<1> QED BY <1>1, <1>2, Zenon DEF HO!OneInstancePerSingleton, HO!Single

-----------------------------------------------------------------------------
(* MultiLevelCache: the first level is a list that holds a key once. *)

KeysDiffer(l) ==
    /\ l \in Seq(ML!Entry)
    /\ \A i, j \in DOMAIN l : l[i].key = l[j].key => i = j

PartOf(m, l) == \A i \in DOMAIN m : \E j \in DOMAIN l : m[i] = l[j]

LEMMA OneRemoved ==
    ASSUME NEW l, KeysDiffer(l), NEW p \in DOMAIN l
    PROVE  LET m == ML!RemoveAt(l, p) IN
           /\ KeysDiffer(m) /\ PartOf(m, l) /\ Len(m) = Len(l) - 1
           /\ \A i \in DOMAIN m : m[i].key # l[p].key
<1> DEFINE n == Len(l)
           m == ML!RemoveAt(l, p)
           a == SubSeq(l, 1, p - 1)
           b == SubSeq(l, p + 1, n)
<1>1. l \in Seq(ML!Entry) /\ n \in Nat /\ p \in 1 .. n /\ DOMAIN l = 1 .. n
  BY DEF KeysDiffer
<1>2. /\ 1 \in 1 .. n + 1 /\ p - 1 \in 1 - 1 .. n /\ (p - 1) - 1 + 1 = p - 1
      /\ p + 1 \in 1 .. n + 1 /\ n \in (p + 1) - 1 .. n /\ n - (p + 1) + 1 = n - p
  BY <1>1
<1>3. /\ a \in Seq(ML!Entry) /\ Len(a) = p - 1
      /\ \A i \in 1 .. p - 1 : a[i] = l[1 + i - 1]
  BY <1>1, <1>2, SubSeqProperties
<1>4. /\ b \in Seq(ML!Entry) /\ Len(b) = n - p
      /\ \A i \in 1 .. n - p : b[i] = l[(p + 1) + i - 1]
  BY <1>1, <1>2, SubSeqProperties
<1>5. m = a \o b
  BY DEF ML!RemoveAt
<1> HIDE DEF a, b, m, n
<1>6. /\ m \in Seq(ML!Entry) /\ Len(m) = Len(a) + Len(b)
      /\ \A i \in 1 .. Len(a) + Len(b) : m[i] = IF i <= Len(a) THEN a[i] ELSE b[i - Len(a)]
  BY <1>3, <1>4, <1>5, ConcatProperties
<1>7. Len(m) = n - 1 /\ DOMAIN m = 1 .. n - 1
  BY <1>1, <1>3, <1>4, <1>6
<1>8. ASSUME NEW i \in 1 .. n - 1
      PROVE  m[i] = l[IF i < p THEN i ELSE i + 1]
  <2>1. CASE i < p
    <3>1. i \in 1 .. Len(a) + Len(b) /\ i \in 1 .. p - 1 /\ i <= Len(a) /\ 1 + i - 1 = i
      BY <1>1, <1>3, <1>4, <2>1
    <3> QED BY <1>3, <1>6, <2>1, <3>1
  <2>2. CASE ~(i < p)
    <3>1. /\ i \in 1 .. Len(a) + Len(b) /\ i - (p - 1) \in 1 .. n - p /\ ~(i <= Len(a))
          /\ (p + 1) + (i - (p - 1)) - 1 = i + 1
      BY <1>1, <1>3, <1>4, <2>2
    <3> QED BY <1>3, <1>4, <1>6, <2>2, <3>1
  <2> QED BY <2>1, <2>2
<1> DEFINE place == [i \in 1 .. n - 1 |-> IF i < p THEN i ELSE i + 1]
<1>9. \A i, j \in 1 .. n - 1 :
          /\ place[i] \in DOMAIN l /\ place[i] # p
          /\ place[i] = place[j] => i = j
  BY <1>1
<1>10. \A i \in DOMAIN m : m[i] = l[place[i]]
  BY <1>7, <1>8
<1> HIDE DEF place
<1>11. PartOf(m, l)
  BY <1>7, <1>9, <1>10 DEF PartOf
<1>12. KeysDiffer(m) /\ \A i \in DOMAIN m : m[i].key # l[p].key
  <2>1. ASSUME NEW i \in DOMAIN m, NEW j \in DOMAIN m, m[i].key = m[j].key
        PROVE  i = j
    <3>1. place[i] \in DOMAIN l /\ place[j] \in DOMAIN l /\ l[place[i]].key = l[place[j]].key
      BY <1>7, <1>9, <1>10, <2>1
    <3>2. place[i] = place[j]
      BY <3>1 DEF KeysDiffer
    <3> QED BY <1>7, <1>9, <3>2
  <2>2. ASSUME NEW i \in DOMAIN m PROVE m[i].key # l[p].key
    BY <1>7, <1>9, <1>10 DEF KeysDiffer
  <2> QED BY <1>6, <2>1, <2>2 DEF KeysDiffer
<1> QED BY <1>7, <1>11, <1>12 DEF m, n

LEMMA WithoutKey ==
    ASSUME NEW l, KeysDiffer(l), NEW k
    PROVE  LET m == ML!Without(l, k) IN
           /\ KeysDiffer(m) /\ PartOf(m, l) /\ Len(m) \in Nat /\ Len(l) \in Nat
           /\ Len(m) = IF k \in ML!Held(l) THEN Len(l) - 1 ELSE Len(l)
           /\ \A i \in DOMAIN m : m[i].key # k
<1>0. Len(l) \in Nat
  BY DEF KeysDiffer
<1>1. CASE k \in ML!Held(l)
  <2> DEFINE p == ML!At(l, k)
  <2>1. p \in DOMAIN l /\ l[p].key = k
    BY <1>1 DEF ML!Held, ML!At
  <2>2. ML!Without(l, k) = ML!RemoveAt(l, p)
    BY <1>1 DEF ML!Without
  <2> HIDE DEF p
  <2>3. Len(ML!RemoveAt(l, p)) \in Nat
    BY <2>1, OneRemoved DEF KeysDiffer
  <2> QED BY <1>0, <1>1, <2>1, <2>2, <2>3, OneRemoved
<1>2. CASE k \notin ML!Held(l)
  <2>1. ML!Without(l, k) = l
    BY <1>2 DEF ML!Without
  <2> QED BY <1>0, <1>2, <2>1 DEF PartOf, ML!Held
<1> QED BY <1>1, <1>2

LEMMA WithoutOldest ==
    ASSUME NEW l, KeysDiffer(l), l # <<>>
    PROVE  LET m == ML!Front(l) IN
           /\ KeysDiffer(m) /\ PartOf(m, l) /\ Len(m) = Len(l) - 1
<1>1. l \in Seq(ML!Entry) /\ DOMAIN l = 1 .. Len(l) /\ Len(l) \in Nat
  BY DEF KeysDiffer
<1> DEFINE m == SubSeq(l, 1, Len(l) - 1)
<1>2. ML!Front(l) = m
  BY DEF ML!Front
<1>3. /\ m \in Seq(ML!Entry) /\ Len(m) = Len(l) - 1
      /\ \A i \in 1 .. Len(l) - 1 : m[i] = l[i]
  BY <1>1, AllButLast
<1> HIDE DEF m
<1>4. DOMAIN m = 1 .. Len(l) - 1
  BY <1>3
<1>5. \A i \in DOMAIN m : i \in DOMAIN l /\ m[i] = l[i]
  BY <1>1, <1>3, <1>4
<1> QED BY <1>2, <1>3, <1>5 DEF KeysDiffer, PartOf

LEMMA AtTheFront ==
    ASSUME NEW m, KeysDiffer(m), NEW e \in ML!Entry, \A i \in DOMAIN m : m[i].key # e.key
    PROVE  LET l == <<e>> \o m IN
           /\ KeysDiffer(l) /\ Len(l) = Len(m) + 1
           /\ \A i \in DOMAIN l : l[i] = e \/ \E j \in DOMAIN m : l[i] = m[j]
<1> DEFINE l == <<e>> \o m
<1>1. m \in Seq(ML!Entry) /\ DOMAIN m = 1 .. Len(m) /\ Len(m) \in Nat
  BY DEF KeysDiffer
<1>2. <<e>> \in Seq(ML!Entry) /\ Len(<<e>>) = 1 /\ <<e>>[1] = e
  OBVIOUS
<1>3. /\ l \in Seq(ML!Entry) /\ Len(l) = 1 + Len(m)
      /\ \A i \in 1 .. 1 + Len(m) : l[i] = IF i <= 1 THEN <<e>>[i] ELSE m[i - 1]
  BY <1>1, <1>2, ConcatProperties
<1> HIDE DEF l
<1>4. DOMAIN l = 1 .. 1 + Len(m) /\ Len(l) = Len(m) + 1
  BY <1>1, <1>3
<1>5. \A i \in DOMAIN l :
          \/ i = 1 /\ l[i] = e
          \/ i # 1 /\ i \in Nat /\ i - 1 \in DOMAIN m /\ l[i] = m[i - 1]
  BY <1>1, <1>2, <1>3, <1>4
<1>6. \A i, j \in DOMAIN l : l[i].key = l[j].key => i = j
  BY <1>5 DEF KeysDiffer
<1> QED BY <1>3, <1>4, <1>5, <1>6 DEF KeysDiffer, l

(* What a list has to be for a key that the backend did not refuse. *)
Current(l, put_last, stale) ==
    \A i \in DOMAIN l : l[i].key \notin stale => l[i].value = put_last[l[i].key]

LEMMA AgreeParts ==
    ASSUME NEW l, NEW second, NEW put_last, NEW stale
    PROVE  ML!Agree(l, second, put_last, stale) <=>
              /\ KeysDiffer(l) /\ Len(l) <= CacheCapacity /\ Current(l, put_last, stale)
              /\ second \in [CacheKeys -> Values \cup {Absent}]
              /\ put_last \in [CacheKeys -> Values \cup {Absent}]
              /\ \A k \in CacheKeys \ stale : second[k] = put_last[k]
<1>1. ASSUME KeysDiffer(l), NEW i \in DOMAIN l PROVE l[i].key \in CacheKeys
  <2>1. l \in Seq(ML!Entry) /\ i \in 1 .. Len(l)
    BY <1>1 DEF KeysDiffer
  <2>2. l[i] \in ML!Entry
    BY <2>1
  <2> QED BY <2>2 DEF ML!Entry
<1> QED BY <1>1 DEF ML!Agree, KeysDiffer, Current

LEMMA CacheInit == ML!MLInit => ML!MLIInv
<1> SUFFICES ASSUME ML!MLInit PROVE ML!MLIInv
  OBVIOUS
<1>1. /\ s1 = <<>> /\ s3 = [k \in CacheKeys |-> Absent]
      /\ s4 = [k \in CacheKeys |-> Absent] /\ s5 = {}
  BY DEF ML!MLInit, ML!Init
<1>2. s1 \in Seq(ML!Entry) /\ Len(s1) = 0 /\ DOMAIN s1 = {}
  BY <1>1
<1> QED BY <1>1, <1>2, CacheAssumption DEF ML!MLIInv, ML!Agree

(* A put keeps the list in order and below its capacity. *)
LEMMA PutKeeps ==
    ASSUME NEW l, KeysDiffer(l), Len(l) <= CacheCapacity, NEW k, NEW e \in ML!Entry, e.key = k,
           NEW rest,
           \/ k \notin ML!Held(l) /\ Len(l) >= CacheCapacity /\ rest = ML!Front(l)
           \/ (k \in ML!Held(l) \/ ~(Len(l) >= CacheCapacity)) /\ rest = ML!Without(l, k)
    PROVE  LET m == <<e>> \o rest IN
           /\ KeysDiffer(m) /\ Len(m) <= CacheCapacity
           /\ \A i \in DOMAIN m :
                 m[i] = e \/ (m[i].key # k /\ \E j \in DOMAIN l : m[i] = l[j])
<1> DEFINE m == <<e>> \o rest
<1>2. Len(l) \in Nat /\ (l = <<>> => Len(l) = 0)
  BY DEF KeysDiffer
<1>3. /\ KeysDiffer(rest) /\ PartOf(rest, l) /\ Len(rest) + 1 <= CacheCapacity
      /\ \A i \in DOMAIN rest : rest[i].key # k
  <2>1. CASE k \notin ML!Held(l) /\ Len(l) >= CacheCapacity /\ rest = ML!Front(l)
    <3>1. l # <<>> /\ \A i \in DOMAIN l : l[i].key # k
      BY <1>2, <2>1, CacheAssumption DEF ML!Held
    <3>2. KeysDiffer(ML!Front(l)) /\ PartOf(ML!Front(l), l) /\ Len(ML!Front(l)) = Len(l) - 1
      BY <3>1, WithoutOldest
    <3>3. Len(ML!Front(l)) + 1 <= CacheCapacity
      BY <1>2, <3>2, CacheAssumption
    <3>4. \A i \in DOMAIN ML!Front(l) : ML!Front(l)[i].key # k
      BY <3>1, <3>2 DEF PartOf
    <3> QED BY <2>1, <3>2, <3>3, <3>4
  <2>2. CASE (k \in ML!Held(l) \/ ~(Len(l) >= CacheCapacity)) /\ rest = ML!Without(l, k)
    <3>1. LET w == ML!Without(l, k) IN
          /\ KeysDiffer(w) /\ PartOf(w, l) /\ Len(w) \in Nat
          /\ Len(w) = IF k \in ML!Held(l) THEN Len(l) - 1 ELSE Len(l)
          /\ \A i \in DOMAIN w : w[i].key # k
      BY WithoutKey
    <3>2. Len(ML!Without(l, k)) + 1 <= CacheCapacity
      BY <1>2, <2>2, <3>1, CacheAssumption
    <3> QED BY <2>2, <3>1, <3>2
  <2> QED BY <2>1, <2>2
<1>4. \A i \in DOMAIN rest : rest[i].key # e.key
  BY <1>3
<1> HIDE DEF m
<1>5. /\ KeysDiffer(m) /\ Len(m) = Len(rest) + 1
      /\ \A i \in DOMAIN m : m[i] = e \/ \E j \in DOMAIN rest : m[i] = rest[j]
  BY <1>3, <1>4, AtTheFront DEF m
<1>6. /\ KeysDiffer(m) /\ Len(m) <= CacheCapacity
      /\ \A i \in DOMAIN m : m[i] = e \/ (m[i].key # k /\ \E j \in DOMAIN l : m[i] = l[j])
  BY <1>3, <1>5 DEF PartOf
<1> QED BY <1>6 DEF m

LEMMA CacheNext ==
    ASSUME ML!MLIInv, ML!MLNext
    PROVE  ML!MLIInv'
<1>1. /\ KeysDiffer(s1) /\ Len(s1) <= CacheCapacity /\ Current(s1, s4, s5)
      /\ s3 \in [CacheKeys -> Values \cup {Absent}]
      /\ s4 \in [CacheKeys -> Values \cup {Absent}]
      /\ \A k \in CacheKeys \ s5 : s3[k] = s4[k]
  BY AgreeParts DEF ML!MLIInv
<1>2. SUFFICES
      /\ KeysDiffer(s1') /\ Len(s1') <= CacheCapacity /\ Current(s1', s4', s5')
      /\ s3' \in [CacheKeys -> Values \cup {Absent}]
      /\ s4' \in [CacheKeys -> Values \cup {Absent}]
      /\ \A k \in CacheKeys \ s5' : s3'[k] = s4'[k]
  BY AgreeParts DEF ML!MLIInv
<1>3. Len(s1) \in Nat /\ \A i \in DOMAIN s1 : s1[i] \in ML!Entry
  BY <1>1 DEF KeysDiffer
<1>4. ASSUME NEW k \in CacheKeys, NEW v \in Values, ML!put(k, v)
      PROVE  /\ KeysDiffer(s1') /\ Len(s1') <= CacheCapacity
             /\ \A i \in DOMAIN s1' :
                   \/ s1'[i].key = k /\ s1'[i].value = v
                   \/ s1'[i].key # k /\ \E j \in DOMAIN s1 : s1'[i] = s1[j]
  <2> DEFINE e == [key |-> k, value |-> v]
             rest == IF k \notin ML!Held(s1) /\ Len(s1) >= CacheCapacity
                     THEN ML!Front(s1) ELSE ML!Without(s1, k)
  <2>1. s1' = <<e>> \o rest
    BY <1>4 DEF ML!put
  <2>2. e \in ML!Entry /\ e.key = k /\ e.value = v
    BY DEF ML!Entry
  <2>3. \/ k \notin ML!Held(s1) /\ Len(s1) >= CacheCapacity /\ rest = ML!Front(s1)
        \/ (k \in ML!Held(s1) \/ ~(Len(s1) >= CacheCapacity)) /\ rest = ML!Without(s1, k)
    OBVIOUS
  <2> HIDE DEF e, rest
  <2>4. /\ KeysDiffer(s1') /\ Len(s1') <= CacheCapacity
        /\ \A i \in DOMAIN s1' :
              s1'[i] = e \/ (s1'[i].key # k /\ \E j \in DOMAIN s1 : s1'[i] = s1[j])
    <3>1. CASE k \notin ML!Held(s1) /\ Len(s1) >= CacheCapacity /\ rest = ML!Front(s1)
      BY <1>1, <2>1, <2>2, <3>1, PutKeeps
    <3>2. CASE (k \in ML!Held(s1) \/ ~(Len(s1) >= CacheCapacity)) /\ rest = ML!Without(s1, k)
      BY <1>1, <2>1, <2>2, <3>2, PutKeeps
    <3> QED BY <2>3, <3>1, <3>2
  <2> QED BY <2>2, <2>4
<1>5. ASSUME NEW k \in CacheKeys, ML!getBoth(k), k \notin ML!Held(s1), s3[k] # Absent
      PROVE  /\ KeysDiffer(s1') /\ Len(s1') <= CacheCapacity /\ Current(s1', s4', s5')
             /\ s3' = s3 /\ s4' = s4 /\ s5' = s5
  <2>1. ML!put(k, s3[k]) /\ s3' = s3 /\ s4' = s4 /\ s5' = s5 /\ s3[k] \in Values
    BY <1>1, <1>5 DEF ML!getBoth
  <2> QED BY <1>1, <1>4, <2>1 DEF Current
<1>6. ASSUME NEW k \in CacheKeys, ML!getBoth(k), k \in ML!Held(s1) \/ s3[k] = Absent
      PROVE  /\ KeysDiffer(s1') /\ Len(s1') <= CacheCapacity /\ Current(s1', s4', s5')
             /\ s3' = s3 /\ s4' = s4 /\ s5' = s5
  <2>1. ML!get(k) /\ s3' = s3 /\ s4' = s4 /\ s5' = s5
    BY <1>6 DEF ML!getBoth
  <2>2. CASE k \in ML!Held(s1)
    <3> DEFINE p == ML!At(s1, k)
               w == ML!Without(s1, k)
    <3>1. p \in DOMAIN s1 /\ s1[p].key = k /\ s1[p] \in ML!Entry
      BY <1>3, <2>2 DEF ML!Held, ML!At
    <3>2. s1' = <<s1[p]>> \o w
      BY <2>1, <2>2 DEF ML!get
    <3>3. /\ KeysDiffer(w) /\ PartOf(w, s1) /\ Len(w) = Len(s1) - 1
          /\ \A i \in DOMAIN w : w[i].key # k
      BY <1>1, <2>2, WithoutKey
    <3> HIDE DEF p, w
    <3>4. /\ KeysDiffer(s1') /\ Len(s1') = Len(w) + 1
          /\ \A i \in DOMAIN s1' : s1'[i] = s1[p] \/ \E j \in DOMAIN w : s1'[i] = w[j]
      BY <3>1, <3>2, <3>3, AtTheFront
    <3>5. PartOf(s1', s1)
      BY <3>1, <3>3, <3>4 DEF PartOf
    <3>6. Len(s1') <= CacheCapacity
      BY <1>1, <1>3, <3>3, <3>4, CacheAssumption
    <3> QED BY <1>1, <2>1, <3>4, <3>5, <3>6 DEF PartOf, Current
  <2>3. CASE k \notin ML!Held(s1)
    BY <1>1, <2>1, <2>3 DEF ML!get
  <2> QED BY <2>2, <2>3
<1>7. ASSUME NEW k \in CacheKeys, NEW v \in Values \cup {Absent}, ML!Backend(k, v),
             s4' = [s4 EXCEPT ![k] = v]
      PROVE  /\ s3' \in [CacheKeys -> Values \cup {Absent}]
             /\ s4' \in [CacheKeys -> Values \cup {Absent}]
             /\ \A u \in CacheKeys \ s5' : s3'[u] = s4'[u]
             /\ \A u : u # k /\ u \notin s5' => u \notin s5 /\ s4'[u] = s4[u]
             /\ s4'[k] = v
  BY <1>1, <1>7 DEF ML!Backend
<1>8. ASSUME NEW k \in CacheKeys, NEW v \in Values, ML!putBoth(k, v)
      PROVE  /\ KeysDiffer(s1') /\ Len(s1') <= CacheCapacity /\ Current(s1', s4', s5')
             /\ s3' \in [CacheKeys -> Values \cup {Absent}]
             /\ s4' \in [CacheKeys -> Values \cup {Absent}]
             /\ \A u \in CacheKeys \ s5' : s3'[u] = s4'[u]
  <2>1. ML!put(k, v) /\ ML!Backend(k, v) /\ s4' = [s4 EXCEPT ![k] = v]
    BY <1>8 DEF ML!putBoth
  <2>2. Current(s1', s4', s5')
    <3> SUFFICES ASSUME NEW i \in DOMAIN s1', s1'[i].key \notin s5'
                 PROVE  s1'[i].value = s4'[s1'[i].key]
      BY DEF Current
    <3>1. CASE s1'[i].key = k /\ s1'[i].value = v
      BY <1>7, <2>1, <3>1
    <3>2. CASE s1'[i].key # k /\ \E j \in DOMAIN s1 : s1'[i] = s1[j]
      <4>1. PICK j \in DOMAIN s1 : s1'[i] = s1[j]
        BY <3>2
      <4>2. s1'[i].key \notin s5 /\ s4'[s1'[i].key] = s4[s1'[i].key]
        BY <1>7, <2>1, <3>2
      <4> QED BY <1>1, <4>1, <4>2 DEF Current
    <3> QED BY <1>4, <2>1, <3>1, <3>2
  <2> QED BY <1>4, <1>7, <2>1, <2>2
<1>9. ASSUME NEW k \in CacheKeys, ML!removeBoth(k)
      PROVE  /\ KeysDiffer(s1') /\ Len(s1') <= CacheCapacity /\ Current(s1', s4', s5')
             /\ s3' \in [CacheKeys -> Values \cup {Absent}]
             /\ s4' \in [CacheKeys -> Values \cup {Absent}]
             /\ \A u \in CacheKeys \ s5' : s3'[u] = s4'[u]
  <2>1. s1' = ML!Without(s1, k) /\ ML!Backend(k, Absent) /\ s4' = [s4 EXCEPT ![k] = Absent]
    BY <1>9 DEF ML!removeBoth, ML!remove
  <2>2. /\ KeysDiffer(s1') /\ PartOf(s1', s1) /\ Len(s1') \in Nat
        /\ Len(s1') = IF k \in ML!Held(s1) THEN Len(s1) - 1 ELSE Len(s1)
        /\ \A i \in DOMAIN s1' : s1'[i].key # k
    BY <1>1, <2>1, WithoutKey
  <2>3. Len(s1') <= CacheCapacity
    BY <1>1, <1>3, <2>2, CacheAssumption
  <2>4. Current(s1', s4', s5')
    <3> SUFFICES ASSUME NEW i \in DOMAIN s1', s1'[i].key \notin s5'
                 PROVE  s1'[i].value = s4'[s1'[i].key]
      BY DEF Current
    <3>1. PICK j \in DOMAIN s1 : s1'[i] = s1[j]
      BY <2>2 DEF PartOf
    <3>2. s1'[i].key \notin s5 /\ s4'[s1'[i].key] = s4[s1'[i].key]
      BY <1>7, <2>1, <2>2
    <3> QED BY <1>1, <3>1, <3>2 DEF Current
  <2> QED BY <1>7, <2>1, <2>2, <2>3, <2>4
<1>10. ASSUME ML!clearBoth
       PROVE  /\ KeysDiffer(s1') /\ Len(s1') <= CacheCapacity /\ Current(s1', s4', s5')
              /\ s3' \in [CacheKeys -> Values \cup {Absent}]
              /\ s4' \in [CacheKeys -> Values \cup {Absent}]
              /\ \A u \in CacheKeys \ s5' : s3'[u] = s4'[u]
  <2>1. /\ s1' = <<>> /\ s3' = [k \in CacheKeys |-> Absent]
        /\ s4' = [k \in CacheKeys |-> Absent] /\ s5' = {}
    BY <1>10 DEF ML!clearBoth, ML!clear
  <2>2. s1' \in Seq(ML!Entry) /\ Len(s1') = 0 /\ DOMAIN s1' = {}
    BY <2>1
  <2> QED BY <2>1, <2>2, CacheAssumption DEF KeysDiffer, Current
<1>11. CASE \E k \in CacheKeys : ML!getBoth(k)
  <2>1. PICK k \in CacheKeys : ML!getBoth(k)
    BY <1>11
  <2> QED BY <1>1, <1>5, <1>6, <2>1
<1> QED BY <1>8, <1>9, <1>10, <1>11 DEF ML!MLNext

LEMMA CacheAgrees == ML!MLIInv => ML!LevelsAgree
<1> SUFFICES ASSUME ML!MLIInv PROVE ML!LevelsAgree
  OBVIOUS
<1>1. \A k \in CacheKeys \ s5 : ML!Lookup(k) = s4[k]
  <2> SUFFICES ASSUME NEW k \in CacheKeys \ s5 PROVE ML!Lookup(k) = s4[k]
    OBVIOUS
  <2>1. CASE k \in ML!Held(s1)
    <3>1. ML!At(s1, k) \in DOMAIN s1 /\ s1[ML!At(s1, k)].key = k
      BY <2>1 DEF ML!Held, ML!At
    <3> QED BY <2>1, <3>1 DEF ML!MLIInv, ML!Agree, ML!Lookup
  <2>2. CASE k \notin ML!Held(s1)
    BY <2>2 DEF ML!MLIInv, ML!Agree, ML!Lookup
  <2> QED BY <2>1, <2>2
<1> QED BY <1>1 DEF ML!MLIInv, ML!Agree, ML!LevelsAgree

-----------------------------------------------------------------------------
(* ConcurrentHashMap: a table holds the keys of its segment, each in the    *)
(* bucket of its hash.                                                      *)

LEMMA Remainder ==
    ASSUME NEW a \in Nat, NEW b \in Nat \ {0}
    PROVE  a % b \in 0 .. b - 1 /\ a \div b \in Nat
  OBVIOUS

LEMMA SegmentIn ==
    ASSUME NEW k \in Keys
    PROVE  HM!segment_for(k) \in HM!Segments /\ HM!segment_for(k) \in Nat
<1>1. hasher[k] \in Nat
  BY HashMapAssumption
<1> QED BY <1>1, Remainder, HashMapAssumption DEF HM!segment_for, HM!Segments

LEMMA BucketIn ==
    ASSUME NEW k \in Keys, NEW cap \in Nat \ {0}
    PROVE  HM!bucket_index(k, cap) \in 0 .. cap - 1
<1>1. hasher[k] \div SEGMENT_COUNT \in Nat
  BY HashMapAssumption, Remainder
<1> QED BY <1>1, Remainder DEF HM!bucket_index

Maps == [Keys -> SUBSET Values]

(* Only the keys of the segment matter to its table. *)
LEMMA SameTable ==
    ASSUME NEW s, NEW cap, NEW m \in Maps, NEW n \in Maps,
           \A k \in Keys : HM!segment_for(k) = s => m[k] = n[k]
    PROVE  HM!Table(s, cap, m) = HM!Table(s, cap, n)
<1> DEFINE T(h, b) == {e \in Keys \X Values : /\ e[2] \in h[e[1]]
                                              /\ HM!segment_for(e[1]) = s
                                              /\ HM!bucket_index(e[1], cap) = b}
<1>1. ASSUME NEW b PROVE T(m, b) = T(n, b)
  OBVIOUS
<1> HIDE DEF T
<1>2. [b \in 0 .. cap - 1 |-> T(m, b)] = [b \in 0 .. cap - 1 |-> T(n, b)]
  BY <1>1
<1> QED BY <1>2 DEF HM!Table, T

(* The chain of a bucket. *)
LEMMA InTable ==
    ASSUME NEW s, NEW cap, NEW m, NEW b \in 0 .. cap - 1, NEW k, NEW v
    PROVE  <<k, v>> \in HM!Table(s, cap, m)[b] <=>
              /\ k \in Keys /\ v \in Values /\ v \in m[k]
              /\ HM!segment_for(k) = s /\ HM!bucket_index(k, cap) = b
  BY DEF HM!Table

LEMMA TablesArePairs ==
    ASSUME NEW s, NEW cap, NEW m, NEW b \in 0 .. cap - 1, NEW e \in HM!Table(s, cap, m)[b]
    PROVE  e \in Keys \X Values /\ e = <<e[1], e[2]>>
  BY DEF HM!Table

(* One key gets other nodes. *)
OnlyKey(k, m, n) == \A j \in Keys \ {k} : n[j] = m[j]
Rechained(chain, old, k, values) ==
    \A e : e \in chain <=> (e \in old /\ e[1] # k) \/ \E v \in values : e = <<k, v>>

LEMMA ChainReplaced ==
    ASSUME NEW s, NEW cap \in Nat \ {0}, NEW m \in Maps, NEW n \in Maps, NEW k \in Keys,
           HM!segment_for(k) = s, OnlyKey(k, m, n),
           NEW b, b = HM!bucket_index(k, cap),
           NEW T, T = HM!Table(s, cap, m), NEW U, U = HM!Table(s, cap, n),
           NEW chain, Rechained(chain, T[b], k, n[k])
    PROVE  /\ b \in DOMAIN T /\ DOMAIN T = DOMAIN U
           /\ T = [c \in DOMAIN T |-> T[c]] /\ U = [c \in DOMAIN U |-> U[c]]
           /\ \A c \in DOMAIN U : U[c] = IF c = b THEN chain ELSE T[c]
<1>1. b \in 0 .. cap - 1 /\ DOMAIN T = 0 .. cap - 1 /\ DOMAIN U = 0 .. cap - 1
  BY BucketIn DEF HM!Table
<1>2. /\ \A c \in 0 .. cap - 1 : \A i, v : <<i, v>> \in T[c] <=>
              /\ i \in Keys /\ v \in Values /\ v \in m[i]
              /\ HM!segment_for(i) = s /\ HM!bucket_index(i, cap) = c
      /\ \A c \in 0 .. cap - 1 : \A e \in T[c] : e \in Keys \X Values /\ e = <<e[1], e[2]>>
  BY InTable, TablesArePairs
<1>3. /\ \A c \in 0 .. cap - 1 : \A i, v : <<i, v>> \in U[c] <=>
              /\ i \in Keys /\ v \in Values /\ v \in n[i]
              /\ HM!segment_for(i) = s /\ HM!bucket_index(i, cap) = c
      /\ \A c \in 0 .. cap - 1 : \A e \in U[c] : e \in Keys \X Values /\ e = <<e[1], e[2]>>
  BY InTable, TablesArePairs
<1>4. U = [c \in 0 .. cap - 1 |-> U[c]] /\ T = [c \in 0 .. cap - 1 |-> T[c]]
  BY DEF HM!Table
<1>5. ASSUME NEW c \in 0 .. cap - 1, c # b PROVE T[c] = U[c]
  <2>1. ASSUME NEW e \in T[c] PROVE e \in U[c]
    <3>1. e = <<e[1], e[2]>> /\ e[1] \in Keys /\ e[2] \in Values /\ e[1] # k
      BY <1>2, <1>5
    <3> QED BY <1>2, <1>3, <3>1 DEF OnlyKey
  <2>2. ASSUME NEW e \in U[c] PROVE e \in T[c]
    <3>1. e = <<e[1], e[2]>> /\ e[1] \in Keys /\ e[2] \in Values /\ e[1] # k
      BY <1>3, <1>5
    <3> QED BY <1>2, <1>3, <3>1 DEF OnlyKey
  <2> QED BY <2>1, <2>2
<1>6. chain = U[b]
  <2>1. ASSUME NEW e \in chain PROVE e \in U[b]
    <3>1. CASE e \in T[b] /\ e[1] # k
      <4>1. e = <<e[1], e[2]>> /\ e[1] \in Keys /\ e[2] \in Values
        BY <1>1, <1>2, <3>1
      <4> QED BY <1>1, <1>2, <1>3, <3>1, <4>1 DEF OnlyKey
    <3>2. CASE \E v \in n[k] : e = <<k, v>>
      <4>1. PICK v \in n[k] : e = <<k, v>>
        BY <3>2
      <4>2. v \in Values
        BY DEF Maps
      <4> QED BY <1>1, <1>3, <4>1, <4>2
    <3> QED BY <3>1, <3>2 DEF Rechained
  <2>2. ASSUME NEW e \in U[b] PROVE e \in chain
    <3>1. e = <<e[1], e[2]>> /\ e[1] \in Keys /\ e[2] \in Values /\ e[2] \in n[e[1]]
      BY <1>1, <1>3
    <3>2. CASE e[1] = k
      BY <3>1, <3>2 DEF Rechained
    <3>3. CASE e[1] # k
      <4>1. e[2] \in m[e[1]] /\ HM!segment_for(e[1]) = s /\ HM!bucket_index(e[1], cap) = b
        BY <1>1, <1>3, <3>1, <3>3 DEF OnlyKey
      <4>2. e \in T[b]
        BY <1>1, <1>2, <3>1, <4>1
      <4> QED BY <3>3, <4>2 DEF Rechained
    <3> QED BY <3>2, <3>3
  <2> QED BY <2>1, <2>2
<1> QED BY <1>1, <1>4, <1>5, <1>6

(* rehash: every node goes to its bucket in the table twice as long. *)
LEMMA TableDoubled ==
    ASSUME NEW s, NEW cap \in Nat \ {0}, NEW m \in Maps
    PROVE  HM!rehash(HM!Table(s, cap, m), cap) = HM!Table(s, 2 * cap, m)
<1> DEFINE T == HM!Table(s, cap, m)
           U == HM!Table(s, 2 * cap, m)
           all == UNION {T[c] : c \in 0 .. cap - 1}
           R(b) == {e \in all : HM!bucket_index(e[1], 2 * cap) = b}
<1>1. /\ \A c \in 0 .. cap - 1 : \A i, v : <<i, v>> \in T[c] <=>
              /\ i \in Keys /\ v \in Values /\ v \in m[i]
              /\ HM!segment_for(i) = s /\ HM!bucket_index(i, cap) = c
      /\ \A c \in 0 .. cap - 1 : \A e \in T[c] : e \in Keys \X Values /\ e = <<e[1], e[2]>>
  BY InTable, TablesArePairs
<1>2. /\ \A c \in 0 .. 2 * cap - 1 : \A i, v : <<i, v>> \in U[c] <=>
              /\ i \in Keys /\ v \in Values /\ v \in m[i]
              /\ HM!segment_for(i) = s /\ HM!bucket_index(i, 2 * cap) = c
      /\ \A c \in 0 .. 2 * cap - 1 : \A e \in U[c] : e \in Keys \X Values /\ e = <<e[1], e[2]>>
  BY InTable, TablesArePairs
<1>3. U = [c \in 0 .. 2 * cap - 1 |-> U[c]]
  BY DEF HM!Table
<1>4. HM!rehash(T, cap) = [b \in 0 .. 2 * cap - 1 |-> R(b)]
  BY DEF HM!rehash
<1>5. \A k \in Keys : HM!bucket_index(k, cap) \in 0 .. cap - 1
  BY BucketIn
<1>6. \A e : e \in all <=> \E c \in 0 .. cap - 1 : e \in T[c]
  OBVIOUS
<1>7. \A b, e : e \in R(b) <=> e \in all /\ HM!bucket_index(e[1], 2 * cap) = b
  OBVIOUS
<1> HIDE DEF T, U, all, R
<1>8. ASSUME NEW b \in 0 .. 2 * cap - 1 PROVE R(b) = U[b]
  <2>1. ASSUME NEW e \in R(b) PROVE e \in U[b]
    <3>1. PICK c \in 0 .. cap - 1 : e \in T[c]
      BY <1>6, <1>7
    <3>2. e = <<e[1], e[2]>> /\ e[1] \in Keys /\ e[2] \in Values
      BY <1>1, <3>1
    <3> QED BY <1>1, <1>2, <1>7, <3>1, <3>2
  <2>2. ASSUME NEW e \in U[b] PROVE e \in R(b)
    <3>1. e = <<e[1], e[2]>> /\ e[1] \in Keys /\ e[2] \in Values
      BY <1>2
    <3>2. /\ e[2] \in m[e[1]] /\ HM!segment_for(e[1]) = s
          /\ HM!bucket_index(e[1], 2 * cap) = b
      BY <1>2, <3>1
    <3>3. e \in T[HM!bucket_index(e[1], cap)]
      BY <1>1, <1>5, <3>1, <3>2
    <3> QED BY <1>5, <1>6, <1>7, <3>1, <3>2, <3>3
  <2> QED BY <2>1, <2>2
<1>9. [b \in 0 .. 2 * cap - 1 |-> R(b)] = [b \in 0 .. 2 * cap - 1 |-> U[b]]
  BY <1>8
<1>10. HM!rehash(T, cap) = U
  BY <1>3, <1>4, <1>9
<1> QED BY <1>10 DEF T, U

(* A segment without keys has empty chains. *)
LEMMA TableCleared ==
    ASSUME NEW s, NEW cap, NEW m \in Maps, \A k \in Keys : HM!segment_for(k) = s => m[k] = {}
    PROVE  HM!Table(s, cap, m) = [b \in 0 .. cap - 1 |-> {}]
<1> DEFINE T(b) == {e \in Keys \X Values : /\ e[2] \in m[e[1]]
                                           /\ HM!segment_for(e[1]) = s
                                           /\ HM!bucket_index(e[1], cap) = b}
<1>1. ASSUME NEW b PROVE T(b) = {}
  OBVIOUS
<1> HIDE DEF T
<1>2. [b \in 0 .. cap - 1 |-> T(b)] = [b \in 0 .. cap - 1 |-> {}]
  BY <1>1
<1> QED BY <1>2 DEF HM!Table, T

(* What a walk records while keys come and go. *)
LEMMA WalkFields ==
    ASSUME NEW op, NEW next, NEW shown, NEW again, NEW all, NEW some, NEW doomed,
           NEW w, w = HM!Walk(op, next, shown, again, all, some, doomed)
    PROVE  /\ w.op = op /\ w.next = next /\ w.shown = shown /\ w.again = again
           /\ w.all = all /\ w.some = some /\ w.doomed = doomed
  BY DEF HM!Walk

LEMMA SeenPasses ==
    ASSUME NEW w, NEW P, NEW Q, HM!WalkHasPassed(w, P), NEW stored, NEW removed,
           P \ removed \subseteq Q, Q \subseteq P \cup stored
    PROVE  HM!WalkHasPassed(HM!Seen(w, stored, removed), Q)
<1> DEFINE x == HM!Seen(w, stored, removed)
<1>1. /\ x.op = w.op /\ x.next = w.next /\ x.shown = w.shown /\ x.again = w.again
      /\ x.all = w.all \ removed /\ x.some = w.some \cup stored /\ x.doomed = w.doomed \ stored
  BY WalkFields DEF HM!Seen
<1> HIDE DEF x
<1>2. HM!WalkHasPassed(x, Q)
  BY <1>1 DEF HM!WalkHasPassed
<1> QED BY <1>2 DEF x

(* clear has emptied the segment it is at. *)
LEMMA ClearPasses ==
    ASSUME NEW w, NEW Q, Q \subseteq Keys, HM!WalkHasPassed(w, Q), w.op = "clear",
           \A k \in Q : HM!segment_for(k) # w.next
    PROVE  HM!WalkHasPassed(HM!Advanced(w, {}, {}), Q)
<1> DEFINE x == HM!Advanced(w, {}, {})
<1>1. x.op = "clear" /\ x.next = w.next + 1 /\ x.doomed = w.doomed
  BY WalkFields DEF HM!Advanced
<1> HIDE DEF x
<1>2. w.next \in Nat /\ \A k \in w.doomed \cap Q : HM!segment_for(k) >= w.next
  BY DEF HM!WalkHasPassed
<1>3. \A k \in w.doomed \cap Q : HM!segment_for(k) >= w.next + 1
  BY <1>2, SegmentIn
<1>4. HM!WalkHasPassed(x, Q)
  BY <1>1, <1>2, <1>3 DEF HM!WalkHasPassed
<1> QED BY <1>4 DEF x

(* for_each has shown the keys of the segment it is at. *)
LEMMA EachPasses ==
    ASSUME NEW w, NEW P, P \subseteq Keys, HM!WalkHasPassed(w, P), w.op = "each",
           NEW keys, keys = {k \in P : HM!segment_for(k) = w.next}
    PROVE  HM!WalkHasPassed(HM!Advanced(w, keys, keys \cap w.shown), P)
<1> DEFINE x == HM!Advanced(w, keys, keys \cap w.shown)
<1>1. /\ x.op = "each" /\ x.next = w.next + 1 /\ x.shown = w.shown \cup keys
      /\ x.again = w.again \cup (keys \cap w.shown) /\ x.all = w.all /\ x.some = w.some
  BY WalkFields DEF HM!Advanced
<1> HIDE DEF x
<1>2. /\ w.next \in Nat
      /\ w.all \subseteq P /\ P \subseteq w.some
      /\ \A k \in w.all : HM!segment_for(k) < w.next => k \in w.shown
      /\ \A k \in w.shown : k \in Keys /\ HM!segment_for(k) < w.next
      /\ w.shown \subseteq w.some /\ w.again = {}
  BY DEF HM!WalkHasPassed
<1>3. \A k \in Keys : HM!segment_for(k) < w.next + 1 <=>
                          HM!segment_for(k) < w.next \/ HM!segment_for(k) = w.next
  BY <1>2, SegmentIn
<1>4. \A k \in x.all : HM!segment_for(k) < x.next => k \in x.shown
  BY <1>1, <1>2, <1>3
<1>5. \A k \in x.shown : k \in Keys /\ HM!segment_for(k) < x.next
  BY <1>1, <1>2, <1>3
<1>6. keys \cap w.shown = {}
  <2> SUFFICES ASSUME NEW k \in keys, k \in w.shown PROVE FALSE
    OBVIOUS
  <2>1. HM!segment_for(k) = w.next /\ HM!segment_for(k) < w.next
    BY <1>2
  <2> QED BY <1>2, <2>1
<1>7. x.shown \subseteq x.some /\ x.again = {} /\ x.all \subseteq P /\ P \subseteq x.some
  BY <1>1, <1>2, <1>6
<1>8. x.next \in Nat
  BY <1>1, <1>2
<1>9. HM!WalkHasPassed(x, P)
  BY <1>1, <1>4, <1>5, <1>7, <1>8 DEF HM!WalkHasPassed
<1> QED BY <1>9 DEF x

(* How many keys a segment has. *)
Of(m, s) == {k \in Keys : m[k] # {} /\ HM!segment_for(k) = s}

In(m) == {k \in Keys : m[k] # {}}

LEMMA PresentIs ==
    /\ HM!Present = In(s5) /\ HM!Present' = In(s5')
    /\ \A s : {k \in HM!Present : HM!segment_for(k) = s} = Of(s5, s)
    /\ \A s : {k \in HM!Present' : HM!segment_for(k) = s} = Of(s5', s)
  BY DEF HM!Present, In, Of

LEMMA SameCount == \A S : HM!Cardinality(S) = Cardinality(S)
  BY DEF HM!Cardinality, Cardinality

(* The invariant, with the counts and the keys as functions of the map. *)
LEMMA IInvIs ==
    HM!IInv <=> /\ HM!ChainsHoldTheMap
                /\ DOMAIN s3 = HM!Segments
                /\ \A s \in HM!Segments : s3[s] = Cardinality(Of(s5, s))
                /\ DOMAIN s4 = Threads
                /\ \A t \in Threads : HM!WalkHasPassed(s4[t], In(s5))
<1>1. \A s : HM!Cardinality({k \in HM!Present : HM!segment_for(k) = s})
                = Cardinality(Of(s5, s))
  BY PresentIs, SameCount
<1> QED BY <1>1, PresentIs DEF HM!IInv, HM!SizesCount

LEMMA NextIInvIs ==
    HM!IInv' <=> /\ HM!ChainsHoldTheMap'
                 /\ DOMAIN s3' = HM!Segments
                 /\ \A s \in HM!Segments : s3'[s] = Cardinality(Of(s5', s))
                 /\ DOMAIN s4' = Threads
                 /\ \A t \in Threads : HM!WalkHasPassed(s4'[t], In(s5'))
<1>1. \A s : HM!Cardinality({k \in HM!Present' : HM!segment_for(k) = s})
                = Cardinality(Of(s5', s))
  BY PresentIs, SameCount
<1> QED BY <1>1, PresentIs DEF HM!IInv, HM!SizesCount

(* The chain of a key is the one that its hash says. *)
LEMMA ChainOf ==
    ASSUME HM!ChainsHoldTheMap, NEW k \in Keys, NEW s, s = HM!segment_for(k),
           NEW b, b = HM!bucket_index(k, s2[s])
    PROVE  /\ s \in HM!Segments /\ s2[s] \in Nat \ {0} /\ b \in 0 .. s2[s] - 1
           /\ s1[s] = HM!Table(s, s2[s], s5)
           /\ HM!Chain(k) = s1[s][b]
           /\ HM!NodesOf(k) = {e \in s1[s][b] : e[1] = k}
           /\ HM!NodesOf(k) = {<<k, v>> : v \in s5[k]}
<1>1. s \in HM!Segments /\ s2[s] \in Nat \ {0} /\ s1[s] = HM!Table(s, s2[s], s5)
  BY SegmentIn DEF HM!ChainsHoldTheMap
<1>2. b \in 0 .. s2[s] - 1
  BY <1>1, BucketIn
<1>3. HM!Chain(k) = s1[s][b] /\ HM!NodesOf(k) = {e \in s1[s][b] : e[1] = k}
  BY DEF HM!Chain, HM!NodesOf
<1>4. s5[k] \subseteq Values
  BY DEF HM!ChainsHoldTheMap
<1>5. \A i, v : <<i, v>> \in s1[s][b] <=>
              /\ i \in Keys /\ v \in Values /\ v \in s5[i]
              /\ HM!segment_for(i) = s /\ HM!bucket_index(i, s2[s]) = b
  <2>1. \A i, v : <<i, v>> \in HM!Table(s, s2[s], s5)[b] <=>
              /\ i \in Keys /\ v \in Values /\ v \in s5[i]
              /\ HM!segment_for(i) = s /\ HM!bucket_index(i, s2[s]) = b
    BY <1>2 DEF HM!Table
  <2> QED BY <1>1, <2>1
<1>6. \A e \in s1[s][b] : e = <<e[1], e[2]>>
  BY <1>1, <1>2, TablesArePairs
<1>7. ASSUME NEW e, e \in s1[s][b], e[1] = k PROVE \E v \in s5[k] : e = <<k, v>>
  BY <1>5, <1>6, <1>7
<1>8. ASSUME NEW v \in s5[k] PROVE <<k, v>> \in s1[s][b]
  BY <1>4, <1>5
<1>9. {e \in s1[s][b] : e[1] = k} = {<<k, v>> : v \in s5[k]}
  BY <1>7, <1>8
<1> QED BY <1>1, <1>2, <1>3, <1>9

(* One key changes, in a table of whatever length. *)
LEMMA KeyChanges ==
    ASSUME HM!IInv, NEW k \in Keys, NEW n \in Maps, s5' = n,
           OnlyKey(k, s5, n), \A v, w \in n[k] : v = w,
           NEW s, s = HM!segment_for(k), NEW c \in Nat \ {0},
           DOMAIN s1' = HM!Segments, s1'[s] = HM!Table(s, c, n),
           s2' \in [HM!Segments -> Nat \ {0}], s2'[s] = c,
           DOMAIN s3' = HM!Segments, s3'[s] = Cardinality(Of(n, s)),
           \A r \in HM!Segments \ {s} : s1'[r] = s1[r] /\ s2'[r] = s2[r] /\ s3'[r] = s3[r],
           DOMAIN s4' = Threads,
           \A t \in Threads : HM!WalkHasPassed(s4'[t], In(n))
    PROVE  HM!IInv'
<1>1. /\ s5 \in Maps /\ \A j \in Keys : \A v, w \in s5[j] : v = w
      /\ s2 \in [HM!Segments -> Nat \ {0}] /\ DOMAIN s1 = HM!Segments
      /\ \A r \in HM!Segments : s1[r] = HM!Table(r, s2[r], s5)
  BY IInvIs DEF HM!ChainsHoldTheMap, Maps
<1>2. DOMAIN s3 = HM!Segments /\ \A r \in HM!Segments : s3[r] = Cardinality(Of(s5, r))
  BY IInvIs
<1>3. s \in HM!Segments
  BY SegmentIn
<1>4. ASSUME NEW r \in HM!Segments, r # s
      PROVE  HM!Table(r, s2[r], s5) = HM!Table(r, s2[r], n)
  BY <1>1, <1>4, SameTable DEF OnlyKey
<1>5. \A r : r # s => Of(n, r) = Of(s5, r)
  BY DEF Of, OnlyKey
<1>6. \A r \in HM!Segments : s1'[r] = HM!Table(r, s2'[r], s5')
  BY <1>1, <1>3, <1>4
<1>7. HM!ChainsHoldTheMap'
  <2>1. s2' \in [HM!Segments -> Nat \ {0}] /\ DOMAIN s1' = HM!Segments
    BY <1>1, <1>3
  <2>2. \A j \in Keys : \A v, w \in s5'[j] : v = w
    BY <1>1 DEF OnlyKey
  <2> QED BY <1>6, <2>1, <2>2 DEF HM!ChainsHoldTheMap, Maps
<1>8. /\ DOMAIN s3' = HM!Segments
      /\ \A r \in HM!Segments : s3'[r] = Cardinality(Of(s5', r))
  BY <1>2, <1>3, <1>5
<1> QED BY <1>7, <1>8, NextIInvIs

(* The table after a step that gave one key other nodes. *)
LEMMA TableOfKey ==
    ASSUME HM!IInv, NEW k \in Keys, NEW n \in Maps, OnlyKey(k, s5, n),
           NEW s, HM!segment_for(k) = s, NEW b, b = HM!bucket_index(k, s2[s]),
           NEW chain, Rechained(chain, s1[s][b], k, n[k])
    PROVE  [s1[s] EXCEPT ![b] = chain] = HM!Table(s, s2[s], n)
<1>1. PICK U, T, cap, m : U = HM!Table(s, s2[s], n) /\ T = s1[s] /\ cap = s2[s] /\ m = s5
  OBVIOUS
<1>2. s \in HM!Segments /\ cap \in Nat \ {0} /\ T = HM!Table(s, cap, m) /\ m \in Maps
  BY <1>1, SegmentIn, IInvIs DEF HM!ChainsHoldTheMap, Maps
<1>3. /\ b \in DOMAIN T /\ DOMAIN T = DOMAIN U
      /\ T = [c \in DOMAIN T |-> T[c]] /\ U = [c \in DOMAIN U |-> U[c]]
      /\ \A c \in DOMAIN U : U[c] = IF c = b THEN chain ELSE T[c]
  <2>1. /\ OnlyKey(k, m, n) /\ Rechained(chain, T[b], k, n[k])
        /\ b = HM!bucket_index(k, cap) /\ U = HM!Table(s, cap, n)
    BY <1>1
  <2> QED BY <1>2, <2>1, ChainReplaced
<1> QED BY <1>1, <1>3

LEMMA OthersPass ==
    ASSUME HM!IInv, NEW Q, NEW stored, NEW removed, NEW t \in Threads,
           In(s5) \ removed \subseteq Q, Q \subseteq In(s5) \cup stored
    PROVE  HM!WalkHasPassed(HM!Others(stored, removed)[t], Q)
<1>1. HM!WalkHasPassed(s4[t], In(s5))
  BY IInvIs
<1>2. HM!Others(stored, removed)[t] =
          IF HM!Idle(t) THEN s4[t] ELSE HM!Seen(s4[t], stored, removed)
  BY DEF HM!Others
<1>3. CASE HM!Idle(t)
  <2>1. s4[t].op = "none"
    BY <1>3 DEF HM!Idle
  <2>2. HM!WalkHasPassed(s4[t], Q)
    BY <1>1, <2>1 DEF HM!WalkHasPassed
  <2> QED BY <1>2, <1>3, <2>2
<1>4. CASE ~HM!Idle(t)
  BY <1>1, <1>2, <1>4, SeenPasses
<1> QED BY <1>3, <1>4

LEMMA AssignKeeps ==
    ASSUME HM!IInv, NEW k \in Keys, NEW v \in Values, HM!Assign(k, v)
    PROVE  HM!IInv'
<1> DEFINE s == HM!segment_for(k)
           b == HM!bucket_index(k, s2[s])
           n == [s5 EXCEPT ![k] = {v}]
           chain == (HM!Chain(k) \ HM!NodesOf(k)) \cup {<<k, v>>}
<1>0. HM!segment_for(k) = s /\ b = HM!bucket_index(k, s2[s])
  OBVIOUS
<1>1. /\ HM!NodesOf(k) # {} /\ s1' = [s1 EXCEPT ![s] = [s1[s] EXCEPT ![b] = chain]]
      /\ s5' = n /\ s2' = s2 /\ s3' = s3 /\ s4' = s4
  BY DEF HM!Assign
<1>2. /\ s \in HM!Segments /\ s2[s] \in Nat \ {0} /\ b \in 0 .. s2[s] - 1
      /\ s1[s] = HM!Table(s, s2[s], s5)
      /\ HM!Chain(k) = s1[s][b]
      /\ HM!NodesOf(k) = {e \in s1[s][b] : e[1] = k}
      /\ HM!NodesOf(k) = {<<k, u>> : u \in s5[k]}
  BY IInvIs, ChainOf
<1>3. /\ s5 \in Maps /\ s2 \in [HM!Segments -> Nat \ {0}] /\ DOMAIN s1 = HM!Segments
      /\ DOMAIN s3 = HM!Segments /\ s3[s] = Cardinality(Of(s5, s))
      /\ DOMAIN s4 = Threads /\ \A t \in Threads : HM!WalkHasPassed(s4[t], In(s5))
  BY <1>2, IInvIs DEF HM!ChainsHoldTheMap, Maps
<1>4. /\ n \in Maps /\ n[k] = {v} /\ OnlyKey(k, s5, n)
      /\ s5[k] # {}
  BY <1>1, <1>2, <1>3 DEF Maps, OnlyKey
<1>5. Rechained(chain, s1[s][b], k, n[k])
  BY <1>2, <1>4 DEF Rechained
<1> HIDE DEF s, b, n, chain
<1>6. [s1[s] EXCEPT ![b] = chain] = HM!Table(s, s2[s], n)
  BY <1>0, <1>4, <1>5, TableOfKey
<1>7. Of(n, s) = Of(s5, s) /\ In(n) = In(s5)
  BY <1>4 DEF Of, In, OnlyKey
<1>8. /\ DOMAIN s1' = HM!Segments /\ s1'[s] = HM!Table(s, s2[s], n)
      /\ s2' \in [HM!Segments -> Nat \ {0}] /\ s2'[s] = s2[s]
      /\ DOMAIN s3' = HM!Segments /\ s3'[s] = Cardinality(Of(n, s))
      /\ \A r \in HM!Segments \ {s} : s1'[r] = s1[r] /\ s2'[r] = s2[r] /\ s3'[r] = s3[r]
  BY <1>1, <1>2, <1>3, <1>6, <1>7
<1>9. /\ \A u, w \in n[k] : u = w
      /\ DOMAIN s4' = Threads /\ \A t \in Threads : HM!WalkHasPassed(s4'[t], In(n))
  BY <1>1, <1>3, <1>4, <1>7
<1> QED BY <1>1, <1>2, <1>4, <1>8, <1>9, KeyChanges DEF s

LEMMA AddKeeps ==
    ASSUME HM!IInv, NEW k \in Keys, NEW v \in Values, HM!Add(k, v)
    PROVE  HM!IInv'
<1> DEFINE s == HM!segment_for(k)
           b == HM!bucket_index(k, s2[s])
           n == [s5 EXCEPT ![k] = {v}]
           chain == HM!Chain(k) \cup {<<k, v>>}
           longer == [s1[s] EXCEPT ![b] = chain]
<1>0. HM!segment_for(k) = s /\ b = HM!bucket_index(k, s2[s])
  OBVIOUS
<1>1. /\ HM!NodesOf(k) = {} /\ s3' = [s3 EXCEPT ![s] = s3[s] + 1]
      /\ \/ s1' = [s1 EXCEPT ![s] = longer] /\ s2' = s2
         \/ /\ s1' = [s1 EXCEPT ![s] = HM!rehash(longer, s2[s])]
            /\ s2' = [s2 EXCEPT ![s] = 2 * s2[s]]
      /\ s5' = n /\ s4' = HM!Others({k}, {})
  BY DEF HM!Add
<1>2. /\ s \in HM!Segments /\ s2[s] \in Nat \ {0} /\ b \in 0 .. s2[s] - 1
      /\ s1[s] = HM!Table(s, s2[s], s5)
      /\ HM!Chain(k) = s1[s][b]
      /\ HM!NodesOf(k) = {e \in s1[s][b] : e[1] = k}
      /\ HM!NodesOf(k) = {<<k, u>> : u \in s5[k]}
  BY IInvIs, ChainOf
<1>3. /\ s5 \in Maps /\ s2 \in [HM!Segments -> Nat \ {0}] /\ DOMAIN s1 = HM!Segments
      /\ DOMAIN s3 = HM!Segments /\ s3[s] = Cardinality(Of(s5, s))
  BY <1>2, IInvIs DEF HM!ChainsHoldTheMap, Maps
<1>4. /\ n \in Maps /\ n[k] = {v} /\ OnlyKey(k, s5, n)
      /\ s5[k] = {}
  <2>1. s5[k] = {}
    <3> SUFFICES ASSUME NEW u \in s5[k] PROVE FALSE
      OBVIOUS
    <3>1. <<k, u>> \in HM!NodesOf(k)
      BY <1>2
    <3> QED BY <1>1, <3>1
  <2> QED BY <1>3, <2>1 DEF Maps, OnlyKey
<1>5. Rechained(chain, s1[s][b], k, n[k])
  BY <1>1, <1>2, <1>4 DEF Rechained
<1> HIDE DEF s, b, n, chain
<1>6. longer = HM!Table(s, s2[s], n)
  <2>1. [s1[s] EXCEPT ![b] = chain] = HM!Table(s, s2[s], n)
    BY <1>0, <1>4, <1>5, TableOfKey
  <2> QED BY <2>1
<1> HIDE DEF longer
<1>7. HM!rehash(longer, s2[s]) = HM!Table(s, 2 * s2[s], n) /\ 2 * s2[s] \in Nat \ {0}
  BY <1>2, <1>4, <1>6, TableDoubled
<1>8. Cardinality(Of(n, s)) = Cardinality(Of(s5, s)) + 1
  <2>1. Of(n, s) = Of(s5, s) \cup {k} /\ k \notin Of(s5, s)
    BY <1>0, <1>4 DEF Of, OnlyKey
  <2>2. IsFiniteSet(Of(s5, s))
    BY FS_Subset, HashMapAssumption DEF Of, OnlyKey
  <2> QED BY <2>1, <2>2, FS_AddElement
<1>9. PICK c \in Nat \ {0} :
      /\ DOMAIN s1' = HM!Segments /\ s1'[s] = HM!Table(s, c, n)
      /\ s2' \in [HM!Segments -> Nat \ {0}] /\ s2'[s] = c
      /\ \A r \in HM!Segments \ {s} : s1'[r] = s1[r] /\ s2'[r] = s2[r]
  <2>1. CASE s1' = [s1 EXCEPT ![s] = longer] /\ s2' = s2
    BY <1>2, <1>3, <1>6, <2>1
  <2>2. CASE /\ s1' = [s1 EXCEPT ![s] = HM!rehash(longer, s2[s])]
             /\ s2' = [s2 EXCEPT ![s] = 2 * s2[s]]
    <3>1. PICK d \in Nat \ {0} : d = 2 * s2[s]
      BY <1>7
    <3>2. s1'[s] = HM!Table(s, d, n) /\ s2'[s] = d
      BY <1>2, <1>3, <1>7, <2>2, <3>1
    <3> QED BY <1>2, <1>3, <2>2, <3>1, <3>2
  <2> QED BY <1>1, <2>1, <2>2
<1>10. /\ DOMAIN s3' = HM!Segments /\ s3'[s] = Cardinality(Of(n, s))
       /\ \A r \in HM!Segments \ {s} : s3'[r] = s3[r]
  BY <1>1, <1>2, <1>3, <1>8
<1>11. In(s5) \ {} \subseteq In(n) /\ In(n) \subseteq In(s5) \cup {k}
  BY <1>4 DEF In, OnlyKey
<1>12. DOMAIN s4' = Threads
  BY <1>1 DEF HM!Others
<1>13. \A t \in Threads : HM!WalkHasPassed(s4'[t], In(n))
  BY <1>1, <1>11, OthersPass
<1>14. \A u, w \in n[k] : u = w
  BY <1>4
<1> QED BY <1>0, <1>1, <1>4, <1>9, <1>10, <1>12, <1>13, <1>14, KeyChanges

LEMMA EraseKeeps ==
    ASSUME HM!IInv, NEW t \in Threads, NEW k \in Keys, HM!erase(t, k)
    PROVE  HM!IInv'
<1> DEFINE s == HM!segment_for(k)
           b == HM!bucket_index(k, s2[s])
           n == [s5 EXCEPT ![k] = {}]
           chain == HM!Chain(k) \ HM!NodesOf(k)
<1>0. HM!segment_for(k) = s /\ b = HM!bucket_index(k, s2[s])
  OBVIOUS
<1>1. /\ HM!NodesOf(k) # {} /\ s3' = [s3 EXCEPT ![s] = s3[s] - 1]
      /\ s1' = [s1 EXCEPT ![s] = [s1[s] EXCEPT ![b] = chain]] /\ s2' = s2
      /\ s5' = n /\ s4' = HM!Others({}, {k})
  BY DEF HM!erase
<1>2. /\ s \in HM!Segments /\ s2[s] \in Nat \ {0} /\ b \in 0 .. s2[s] - 1
      /\ s1[s] = HM!Table(s, s2[s], s5)
      /\ HM!Chain(k) = s1[s][b]
      /\ HM!NodesOf(k) = {e \in s1[s][b] : e[1] = k}
      /\ HM!NodesOf(k) = {<<k, u>> : u \in s5[k]}
  BY IInvIs, ChainOf
<1>3. /\ s5 \in Maps /\ s2 \in [HM!Segments -> Nat \ {0}] /\ DOMAIN s1 = HM!Segments
      /\ DOMAIN s3 = HM!Segments /\ s3[s] = Cardinality(Of(s5, s))
  BY <1>2, IInvIs DEF HM!ChainsHoldTheMap, Maps
<1>4. /\ n \in Maps /\ n[k] = {} /\ OnlyKey(k, s5, n)
      /\ s5[k] # {}
  BY <1>1, <1>2, <1>3 DEF Maps, OnlyKey
<1>5. Rechained(chain, s1[s][b], k, n[k])
  BY <1>1, <1>2, <1>4 DEF Rechained
<1> HIDE DEF s, b, n, chain
<1>6. [s1[s] EXCEPT ![b] = chain] = HM!Table(s, s2[s], n)
  BY <1>0, <1>4, <1>5, TableOfKey
<1>7. Cardinality(Of(n, s)) = Cardinality(Of(s5, s)) - 1
  <2>1. Of(n, s) = Of(s5, s) \ {k} /\ k \in Of(s5, s)
    BY <1>0, <1>4 DEF Of, OnlyKey
  <2>2. IsFiniteSet(Of(s5, s))
    BY FS_Subset, HashMapAssumption DEF Of, OnlyKey
  <2> QED BY <2>1, <2>2, FS_RemoveElement
<1>8. /\ DOMAIN s1' = HM!Segments /\ s1'[s] = HM!Table(s, s2[s], n)
      /\ s2' \in [HM!Segments -> Nat \ {0}] /\ s2'[s] = s2[s]
      /\ DOMAIN s3' = HM!Segments /\ s3'[s] = Cardinality(Of(n, s))
      /\ \A r \in HM!Segments \ {s} : s1'[r] = s1[r] /\ s2'[r] = s2[r] /\ s3'[r] = s3[r]
  BY <1>1, <1>2, <1>3, <1>6, <1>7
<1>9. In(s5) \ {k} \subseteq In(n) /\ In(n) \subseteq In(s5) \cup {}
  BY <1>4 DEF In, OnlyKey
<1>10. DOMAIN s4' = Threads
  BY <1>1 DEF HM!Others
<1>11. \A u \in Threads : HM!WalkHasPassed(s4'[u], In(n))
  BY <1>1, <1>9, OthersPass
<1>12. \A u, w \in n[k] : u = w
  BY <1>4
<1> QED BY <1>0, <1>1, <1>2, <1>4, <1>8, <1>10, <1>11, <1>12, KeyChanges

LEMMA ClearKeeps ==
    ASSUME HM!IInv, NEW t \in Threads, HM!clear(t)
    PROVE  HM!IInv'
<1> DEFINE s == s4[t].next
           gone == {k \in HM!Present : HM!segment_for(k) = s}
           n == [k \in Keys |-> IF k \in gone THEN {} ELSE s5[k]]
           others == HM!Others({}, gone)
<1>1. /\ s4[t].op = "clear" /\ s \in HM!Segments
      /\ s1' = [s1 EXCEPT ![s] = [b \in 0 .. s2[s] - 1 |-> {}]]
      /\ s2' = s2 /\ s3' = [s3 EXCEPT ![s] = 0] /\ s5' = n
      /\ s4' = [others EXCEPT ![t] = HM!Advanced(HM!Seen(s4[t], {}, gone), {}, {})]
  BY DEF HM!clear
<1>2. /\ s5 \in Maps /\ \A k \in Keys : \A v, w \in s5[k] : v = w
      /\ s2 \in [HM!Segments -> Nat \ {0}] /\ DOMAIN s1 = HM!Segments
      /\ \A r \in HM!Segments : s1[r] = HM!Table(r, s2[r], s5)
  BY IInvIs DEF HM!ChainsHoldTheMap, Maps
<1>3. /\ DOMAIN s3 = HM!Segments /\ \A r \in HM!Segments : s3[r] = Cardinality(Of(s5, r))
      /\ DOMAIN s4 = Threads /\ HM!WalkHasPassed(s4[t], In(s5))
  BY IInvIs
<1>4. /\ n \in Maps
      /\ \A k \in Keys : HM!segment_for(k) = s => n[k] = {}
      /\ \A k \in Keys : HM!segment_for(k) # s => n[k] = s5[k]
      /\ \A k \in Keys : n[k] = {} \/ n[k] = s5[k]
  BY <1>2 DEF Maps, HM!Present
<1>5. /\ In(s5) \ gone \subseteq In(n) /\ In(n) \subseteq In(s5) \cup {}
      /\ \A k \in In(n) : HM!segment_for(k) # s
  BY <1>4 DEF In, HM!Present
<1>6. \A u \in Threads : HM!WalkHasPassed(others[u], In(n))
  BY <1>5, OthersPass
<1>7. DOMAIN others = Threads
  BY DEF HM!Others
<1> HIDE DEF s, gone, n, others
<1>8. HM!ChainsHoldTheMap'
  <2>1. ASSUME NEW r \in HM!Segments
        PROVE  s1'[r] = HM!Table(r, s2'[r], s5')
    <3>1. CASE r = s
      BY <1>1, <1>2, <1>4, <3>1, TableCleared
    <3>2. CASE r # s
      <4>1. HM!Table(r, s2[r], s5) = HM!Table(r, s2[r], n)
        BY <1>2, <1>4, <3>2, SameTable
      <4> QED BY <1>1, <1>2, <3>2, <4>1
    <3> QED BY <3>1, <3>2
  <2>2. \A k \in Keys : \A v, w \in s5'[k] : v = w
    BY <1>1, <1>2, <1>4
  <2>3. s2' \in [HM!Segments -> Nat \ {0}] /\ DOMAIN s1' = HM!Segments /\ s5' \in Maps
    BY <1>1, <1>2, <1>4
  <2> QED BY <2>1, <2>2, <2>3 DEF HM!ChainsHoldTheMap, Maps
<1>9. /\ DOMAIN s3' = HM!Segments
      /\ \A r \in HM!Segments : s3'[r] = Cardinality(Of(s5', r))
  <2>1. Of(n, s) = {} /\ \A r : r # s => Of(n, r) = Of(s5, r)
    BY <1>4 DEF Of
  <2>2. Cardinality({}) = 0
    BY FS_EmptySet
  <2> QED BY <1>1, <1>3, <2>1, <2>2
<1>10. HM!WalkHasPassed(HM!Advanced(HM!Seen(s4[t], {}, gone), {}, {}), In(n))
  <2>1. PICK w : w = HM!Seen(s4[t], {}, gone)
    OBVIOUS
  <2>2. HM!WalkHasPassed(w, In(n))
    BY <1>3, <1>5, <2>1, SeenPasses
  <2>3. w.op = "clear" /\ w.next = s
    BY <1>1, <2>1, WalkFields DEF HM!Seen, s
  <2>4. In(n) \subseteq Keys /\ \A k \in In(n) : HM!segment_for(k) # w.next
    BY <1>5, <2>3 DEF In
  <2>5. HM!WalkHasPassed(HM!Advanced(w, {}, {}), In(n))
    BY <2>2, <2>3, <2>4, ClearPasses
  <2> QED BY <2>1, <2>5
<1>11. DOMAIN s4' = Threads /\ \A u \in Threads : HM!WalkHasPassed(s4'[u], In(s5'))
  BY <1>1, <1>6, <1>7, <1>10
<1> QED BY <1>8, <1>9, <1>11, NextIInvIs

LEMMA EachKeeps ==
    ASSUME HM!IInv, NEW t \in Threads, HM!for_each_impl(t)
    PROVE  HM!IInv'
<1> DEFINE s == s4[t].next
           At(k, b) == {e \in s1[s][b] : e[1] = k}
           keys == {k \in Keys : \E b \in 0 .. s2[s] - 1 : At(k, b) # {}}
           twice == {k \in keys : \E b, c \in 0 .. s2[s] - 1 :
                        \E e \in At(k, b), f \in At(k, c) : b # c \/ e # f}
<1>1. /\ s4[t].op = "each" /\ s \in HM!Segments
      /\ s4' = [s4 EXCEPT ![t] =
                   HM!Advanced(s4[t], keys, twice \cup (keys \cap s4[t].shown))]
      /\ s1' = s1 /\ s2' = s2 /\ s3' = s3 /\ s5' = s5
  BY DEF HM!for_each_impl
<1>2. /\ s5 \in Maps /\ \A k \in Keys : \A v, w \in s5[k] : v = w
      /\ s2[s] \in Nat \ {0} /\ s1[s] = HM!Table(s, s2[s], s5)
  BY <1>1, IInvIs DEF HM!ChainsHoldTheMap, Maps
<1>3. ASSUME NEW b \in 0 .. s2[s] - 1
      PROVE  /\ \A k, v : <<k, v>> \in s1[s][b] <=>
                    /\ k \in Keys /\ v \in Values /\ v \in s5[k]
                    /\ HM!segment_for(k) = s /\ HM!bucket_index(k, s2[s]) = b
             /\ \A e \in s1[s][b] : e = <<e[1], e[2]>>
  BY <1>2 DEF HM!Table
<1>4. keys = {k \in In(s5) : HM!segment_for(k) = s}
  <2>1. ASSUME NEW k \in Keys, NEW b \in 0 .. s2[s] - 1, NEW e \in s1[s][b], e[1] = k
        PROVE  s5[k] # {} /\ HM!segment_for(k) = s
    <3>1. e = <<k, e[2]>>
      BY <1>3, <2>1
    <3> QED BY <1>3, <3>1
  <2>2. ASSUME NEW k \in Keys, s5[k] # {}, HM!segment_for(k) = s
        PROVE  \E b \in 0 .. s2[s] - 1 : At(k, b) # {}
    <3>1. PICK v \in s5[k] : v \in Values
      BY <1>2, <2>2 DEF Maps
    <3>2. PICK b \in 0 .. s2[s] - 1 : b = HM!bucket_index(k, s2[s])
      BY <1>2, BucketIn
    <3>3. <<k, v>> \in s1[s][b]
      BY <1>3, <2>2, <3>1, <3>2
    <3>4. <<k, v>> \in At(k, b)
      BY <3>3
    <3> QED BY <3>4
  <2> QED BY <2>1, <2>2 DEF In
<1>5. twice = {}
  <2> SUFFICES ASSUME NEW k \in twice PROVE FALSE
    OBVIOUS
  <2>0. PICK b \in 0 .. s2[s] - 1, c \in 0 .. s2[s] - 1 :
           \E e \in At(k, b), f \in At(k, c) : b # c \/ e # f
    OBVIOUS
  <2>a. PICK e \in At(k, b), f \in At(k, c) : b # c \/ e # f
    BY <2>0
  <2>b. k \in Keys /\ e \in s1[s][b] /\ f \in s1[s][c] /\ e[1] = k /\ f[1] = k
    OBVIOUS
  <2>1. e = <<k, e[2]>> /\ f = <<k, f[2]>>
    BY <1>3, <2>b
  <2>2. /\ b = HM!bucket_index(k, s2[s]) /\ c = HM!bucket_index(k, s2[s])
        /\ e[2] \in s5[k] /\ f[2] \in s5[k]
    BY <1>3, <2>1, <2>b
  <2>3. e[2] = f[2]
    BY <1>2, <2>2, <2>b
  <2> QED BY <2>a, <2>1, <2>2, <2>3
<1> HIDE DEF keys, twice, s, At
<1>6. /\ DOMAIN s4 = Threads /\ \A u \in Threads : HM!WalkHasPassed(s4[u], In(s5))
      /\ DOMAIN s3 = HM!Segments /\ \A r \in HM!Segments : s3[r] = Cardinality(Of(s5, r))
      /\ HM!ChainsHoldTheMap
  BY IInvIs
<1>7. HM!WalkHasPassed(HM!Advanced(s4[t], keys, keys \cap s4[t].shown), In(s5))
  <2>1. In(s5) \subseteq Keys /\ keys = {k \in In(s5) : HM!segment_for(k) = s4[t].next}
    BY <1>4 DEF In, s
  <2> QED BY <1>1, <1>6, <2>1, EachPasses
<1>8. DOMAIN s4' = Threads /\ \A u \in Threads : HM!WalkHasPassed(s4'[u], In(s5'))
  <2>1. twice \cup (keys \cap s4[t].shown) = keys \cap s4[t].shown
    BY <1>5
  <2> QED BY <1>1, <1>6, <1>7, <2>1
<1>9. HM!ChainsHoldTheMap'
  BY <1>1, <1>6 DEF HM!ChainsHoldTheMap
<1> QED BY <1>1, <1>6, <1>8, <1>9, NextIInvIs

(* A thread begins or ends a walk. *)
LEMMA WalkKeeps ==
    ASSUME HM!IInv, NEW t \in Threads, NEW w, HM!WalkHasPassed(w, In(s5)),
           s4' = [s4 EXCEPT ![t] = w], s1' = s1, s2' = s2, s3' = s3, s5' = s5
    PROVE  HM!IInv'
<1>1. /\ DOMAIN s4 = Threads /\ \A u \in Threads : HM!WalkHasPassed(s4[u], In(s5))
      /\ DOMAIN s3 = HM!Segments /\ \A r \in HM!Segments : s3[r] = Cardinality(Of(s5, r))
      /\ HM!ChainsHoldTheMap
  BY IInvIs
<1>2. HM!ChainsHoldTheMap'
  BY <1>1 DEF HM!ChainsHoldTheMap
<1>3. DOMAIN s4' = Threads /\ \A u \in Threads : HM!WalkHasPassed(s4'[u], In(s5'))
  BY <1>1
<1> QED BY <1>1, <1>2, <1>3, NextIInvIs

LEMMA BeginKeeps ==
    ASSUME HM!IInv, NEW t \in Threads, NEW op \in {"clear", "each"}, HM!Begin(t, op)
    PROVE  HM!IInv'
<1>1. PICK w : w = HM!Walk(op, 0, {}, {}, In(s5), In(s5), In(s5))
  OBVIOUS
<1>2. s4' = [s4 EXCEPT ![t] = w] /\ s1' = s1 /\ s2' = s2 /\ s3' = s3 /\ s5' = s5
  BY <1>1, PresentIs DEF HM!Begin
<1>3. /\ w.op = op /\ w.next = 0 /\ w.shown = {} /\ w.again = {}
      /\ w.all = In(s5) /\ w.some = In(s5) /\ w.doomed = In(s5)
  BY <1>1, WalkFields
<1>4. \A k \in In(s5) : HM!segment_for(k) >= 0 /\ ~(HM!segment_for(k) < 0)
  BY SegmentIn DEF In
<1>5. HM!WalkHasPassed(w, In(s5))
  BY <1>3, <1>4 DEF HM!WalkHasPassed
<1> QED BY <1>2, <1>5, WalkKeeps

LEMMA EndKeeps ==
    ASSUME HM!IInv, NEW t \in Threads, HM!End(t)
    PROVE  HM!IInv'
<1>1. PICK w : w = HM!NoWalk
  OBVIOUS
<1>2. s4' = [s4 EXCEPT ![t] = w] /\ s1' = s1 /\ s2' = s2 /\ s3' = s3 /\ s5' = s5
  BY <1>1 DEF HM!End
<1>3. w.op = "none" /\ w.next = 0
  BY <1>1, WalkFields DEF HM!NoWalk
<1>4. HM!WalkHasPassed(w, In(s5))
  BY <1>3 DEF HM!WalkHasPassed
<1> QED BY <1>2, <1>4, WalkKeeps

LEMMA HashMapInit == HM!Init => HM!IInv
<1> SUFFICES ASSUME HM!Init PROVE HM!IInv
  OBVIOUS
<1> DEFINE cap == INITIAL_SEGMENT_CAPACITY
<1>1. /\ s1 = [s \in HM!Segments |-> [b \in 0 .. cap - 1 |-> {}]]
      /\ s2 = [s \in HM!Segments |-> cap] /\ s3 = [s \in HM!Segments |-> 0]
      /\ s4 = [t \in Threads |-> HM!NoWalk] /\ s5 = [k \in Keys |-> {}]
  BY DEF HM!Init
<1>2. s5 \in Maps /\ \A k \in Keys : s5[k] = {}
  BY <1>1 DEF Maps
<1>3. \A s \in HM!Segments : s1[s] = HM!Table(s, s2[s], s5)
  <2> SUFFICES ASSUME NEW s \in HM!Segments PROVE s1[s] = HM!Table(s, s2[s], s5)
    OBVIOUS
  <2>1. HM!Table(s, cap, s5) = [b \in 0 .. cap - 1 |-> {}]
    BY <1>2, TableCleared
  <2> QED BY <1>1, <2>1
<1>4. HM!ChainsHoldTheMap
  BY <1>1, <1>2, <1>3, HashMapAssumption DEF HM!ChainsHoldTheMap, Maps
<1>5. DOMAIN s3 = HM!Segments /\ \A s \in HM!Segments : s3[s] = Cardinality(Of(s5, s))
  <2>1. \A s : Of(s5, s) = {}
    BY <1>2 DEF Of
  <2> QED BY <1>1, <2>1, FS_EmptySet
<1>6. PICK w : w = HM!NoWalk
  OBVIOUS
<1>7. w.op = "none" /\ w.next = 0
  BY <1>6, WalkFields DEF HM!NoWalk
<1>8. HM!WalkHasPassed(w, In(s5))
  BY <1>7 DEF HM!WalkHasPassed
<1>9. DOMAIN s4 = Threads /\ \A t \in Threads : HM!WalkHasPassed(s4[t], In(s5))
  BY <1>1, <1>6, <1>8
<1> QED BY <1>4, <1>5, <1>9, IInvIs

LEMMA HashMapNext ==
    ASSUME HM!IInv, HM!Next
    PROVE  HM!IInv'
<1>1. PICK t \in Threads :
        \/ \E k \in Keys : HM!erase(t, k)
        \/ \E k \in Keys, v \in Values : HM!insert(t, k, v) \/ HM!insert_or_assign(t, k, v)
        \/ HM!Begin(t, "clear") \/ HM!Begin(t, "each") \/ HM!clear(t)
        \/ HM!for_each_impl(t) \/ HM!End(t)
  BY Zenon DEF HM!Next
<1>2. CASE \E k \in Keys : HM!erase(t, k)
  BY <1>2, EraseKeeps
<1>3. CASE \E k \in Keys, v \in Values : HM!insert(t, k, v) \/ HM!insert_or_assign(t, k, v)
  <2>1. PICK k \in Keys, v \in Values : HM!insert(t, k, v) \/ HM!insert_or_assign(t, k, v)
    BY <1>3
  <2>2. HM!Add(k, v) \/ HM!Assign(k, v)
    BY <2>1 DEF HM!insert, HM!insert_or_assign
  <2> QED BY <2>2, AddKeeps, AssignKeeps
<1>4. CASE HM!Begin(t, "clear") \/ HM!Begin(t, "each")
  BY <1>4, BeginKeeps
<1> QED BY <1>1, <1>2, <1>3, <1>4, ClearKeeps, EachKeeps, EndKeeps

LEMMA HashMapFinds == HM!IInv => HM!FindsExactlyTheMap
<1> SUFFICES ASSUME HM!IInv PROVE HM!FindsExactlyTheMap
  OBVIOUS
<1>1. ASSUME NEW k \in Keys PROVE HM!get(k) = s5[k]
  <2>1. HM!NodesOf(k) = {<<k, v>> : v \in s5[k]}
    BY IInvIs, ChainOf
  <2>2. HM!get(k) = {e[2] : e \in HM!NodesOf(k)}
    BY DEF HM!get
  <2>3. ASSUME NEW v \in HM!get(k) PROVE v \in s5[k]
    <3>1. PICK e \in HM!NodesOf(k) : v = e[2]
      BY <2>2
    <3>2. PICK u \in s5[k] : e = <<k, u>>
      BY <2>1
    <3> QED BY <3>1, <3>2
  <2>4. ASSUME NEW v \in s5[k] PROVE v \in HM!get(k)
    <3>1. <<k, v>> \in HM!NodesOf(k) /\ <<k, v>>[2] = v
      BY <2>1
    <3> QED BY <2>2, <3>1
  <2> QED BY <2>3, <2>4
<1> QED BY <1>1 DEF HM!FindsExactlyTheMap, HM!IInv, HM!SizesCount

LEMMA HashMapWalks == HM!IInv => HM!WalksAreConsistent
<1> SUFFICES ASSUME HM!IInv, NEW t \in Threads, s4[t].next \notin HM!Segments
             PROVE  /\ s4[t].op = "each" =>
                          /\ s4[t].all \subseteq s4[t].shown /\ s4[t].shown \subseteq s4[t].some
                          /\ s4[t].again = {}
                    /\ s4[t].op = "clear" => s4[t].doomed \cap In(s5) = {}
  BY PresentIs DEF HM!WalksAreConsistent
<1>1. PICK w : w = s4[t]
  OBVIOUS
<1>2. HM!WalkHasPassed(w, In(s5)) /\ w.next \notin HM!Segments
  BY <1>1, IInvIs
<1>3. \A k \in Keys : HM!segment_for(k) < w.next /\ ~(HM!segment_for(k) >= w.next)
  <2>1. w.next \in Nat /\ w.next >= SEGMENT_COUNT
    BY <1>2, HashMapAssumption DEF HM!WalkHasPassed, HM!Segments
  <2> SUFFICES ASSUME NEW k \in Keys
               PROVE  HM!segment_for(k) < w.next /\ ~(HM!segment_for(k) >= w.next)
    OBVIOUS
  <2>2. HM!segment_for(k) \in 0 .. SEGMENT_COUNT - 1
    BY SegmentIn DEF HM!Segments
  <2> QED BY <2>1, <2>2, HashMapAssumption
<1>4. In(s5) \subseteq Keys
  BY DEF In
<1>5. /\ w.op = "each" => w.all \subseteq w.shown /\ w.shown \subseteq w.some /\ w.again = {}
      /\ w.op = "clear" => w.doomed \cap In(s5) = {}
  BY <1>2, <1>3, <1>4 DEF HM!WalkHasPassed
<1> QED BY <1>1, <1>5

-----------------------------------------------------------------------------
(* The three services together. *)

ReaderIInv ==
    /\ service = "hash map" => HM!IInv
    /\ service = "cache" => ML!MLIInv
    /\ service = "provider" => HO!ServiceProvider_IInv

LEMMA ReaderInit == Init => ReaderIInv
  BY HashMapInit, CacheInit, ProviderInit DEF Init, ReaderIInv

LEMMA ReaderNext == ReaderIInv /\ [Next]_vars => ReaderIInv'
<1> SUFFICES ASSUME ReaderIInv, [Next]_vars PROVE ReaderIInv'
  OBVIOUS
<1>1. CASE HashMap
  BY <1>1, HashMapNext DEF HashMap, ReaderIInv
<1>2. CASE Cache
  BY <1>2, CacheNext DEF Cache, ReaderIInv
<1>3. CASE Provider
  BY <1>3, ProviderNext DEF Provider, ReaderIInv
<1>4. CASE Scheduler \/ Delayed \/ Periodic \/ EventBus \/ Middleware
           \/ Lru \/ Lfu \/ HashRing \/ Snowflake \/ Connectivity \/ Watcher \/ Session
  BY <1>4 DEF Scheduler, Delayed, Periodic, EventBus, Middleware, Snowflake,
     Lru, Lfu, HashRing, Connectivity, Watcher, Session, ReaderIInv
<1>5. CASE UNCHANGED vars
  <2>1. /\ service' = service /\ s1' = s1 /\ s2' = s2 /\ s3' = s3 /\ s4' = s4
        /\ s5' = s5 /\ s6' = s6 /\ s7' = s7
    BY <1>5 DEF vars, From5, From6, From7
  <2>2. HM!IInv => HM!IInv'
    <3>1. HM!ChainsHoldTheMap => HM!ChainsHoldTheMap'
      BY <2>1 DEF HM!ChainsHoldTheMap
    <3> QED BY <2>1, <3>1, IInvIs, NextIInvIs
  <2>3. ML!MLIInv => ML!MLIInv'
    BY <2>1 DEF ML!MLIInv
  <2>4. HO!ServiceProvider_IInv => HO!ServiceProvider_IInv'
    <3>1. \A u : (HO!Registered(u)' <=> HO!Registered(u)) /\ (HO!Single(u)' <=> HO!Single(u))
      BY <2>1, SameDescriptors
    <3> QED BY <2>1, <3>1 DEF HO!ServiceProvider_IInv
  <2> QED BY <2>1, <2>2, <2>3, <2>4 DEF ReaderIInv
<1> QED BY <1>1, <1>2, <1>3, <1>4, <1>5 DEF Next

(* Readers agree with the writers, for any threads, hash function, number   *)
(* of segments, capacities and descriptors: get of ConcurrentHashMap finds  *)
(* exactly what was stored last, through every rehash, its sizes count the  *)
(* keys, and for_each and clear, which lock one segment after the other,    *)
(* miss no key that was there all the time and none that was there when     *)
(* they began; get of MultiLevelCache answers what was put last unless the  *)
(* backend refused that write, within the capacity; ServiceProvider gives   *)
(* one instance per singleton, also when threads resolve it first at the    *)
(* same time.                                                               *)
THEOREM ReadersSeeTheWriters == Spec => []ReadersAgree
<1>1. ReaderIInv => ReadersAgree
  BY HashMapFinds, HashMapWalks, CacheAgrees, ProviderAgrees DEF ReaderIInv, ReadersAgree
<1> QED BY <1>1, ReaderInit, ReaderNext, PTL DEF Spec

=============================================================================
