--------------------------- MODULE CollectionProofs ---------------------------
(***************************************************************************)
(* Proofs about what the library offers the services: ConsistentHash and   *)
(* the caches.                                                             *)
(***************************************************************************)
EXTENDS ReaderProofs

-----------------------------------------------------------------------------
(* ConsistentHash. *)

LEMMA CountUp == \A n \in Nat : IsFiniteSet(1 .. n) /\ Cardinality(1 .. n) = n
  BY FS_Interval

(* A ring of hashes. *)
IsRing(r) == DOMAIN r \subseteq Nat /\ DOMAIN r # {}

LEMMA LeastIs ==
    ASSUME NEW H, H \subseteq Nat, H # {}
    PROVE  CR!Least(H) \in H /\ \A g \in H : CR!Least(H) <= g
<1>1. \E h \in H : \A g \in H : h <= g
  BY LeastNatural
<1> QED BY <1>1 DEF CR!Least

(* lower_bound, or the beginning. *)
LEMMA FromIs ==
    ASSUME NEW r, IsRing(r), NEW h \in Nat
    PROVE  /\ CR!From(r, h) \in DOMAIN r /\ CR!From(r, h) \in Nat
           /\ \/ CR!From(r, h) >= h /\ \A g \in DOMAIN r : g >= h => CR!From(r, h) <= g
              \/ \A g \in DOMAIN r : g < h /\ CR!From(r, h) <= g
<1> DEFINE behind == {g \in DOMAIN r : g >= h}
<1>1. CASE behind = {}
  <2>1. CR!From(r, h) = CR!Least(DOMAIN r)
    BY <1>1 DEF CR!From
  <2>2. \A g \in DOMAIN r : g < h
    BY <1>1 DEF IsRing
  <2>3. /\ CR!Least(DOMAIN r) \in DOMAIN r
        /\ \A g \in DOMAIN r : CR!Least(DOMAIN r) <= g
    BY LeastIs DEF IsRing
  <2> QED BY <2>1, <2>2, <2>3 DEF IsRing
<1>2. CASE behind # {}
  <2>1. CR!From(r, h) = CR!Least(behind)
    BY <1>2 DEF CR!From
  <2>2. behind \subseteq Nat
    BY DEF IsRing
  <2>3. CR!Least(behind) \in behind /\ \A g \in behind : CR!Least(behind) <= g
    BY <1>2, <2>2, LeastIs
  <2> QED BY <2>1, <2>3 DEF IsRing
<1> QED BY <1>1, <1>2

(* Two rings that differ in the places of one node: a hash that is owned by *)
(* other nodes on both has the same owner.                                  *)
LEMMA OwnerStays ==
    ASSUME NEW r, NEW q, IsRing(r), IsRing(q), NEW n, NEW h \in Nat,
           \A g \in DOMAIN r : r[g] # n => g \in DOMAIN q /\ q[g] = r[g],
           \A g \in DOMAIN q : q[g] # n => g \in DOMAIN r /\ r[g] = q[g]
    PROVE  LET was == r[CR!From(r, h)]
               is == q[CR!From(q, h)]
           IN is = was \/ n \in {was, is}
<1> DEFINE a == CR!From(r, h)
           b == CR!From(q, h)
<1>1. /\ a \in DOMAIN r /\ a \in Nat
      /\ \/ a >= h /\ \A g \in DOMAIN r : g >= h => a <= g
         \/ \A g \in DOMAIN r : g < h /\ a <= g
  BY FromIs
<1>2. /\ b \in DOMAIN q /\ b \in Nat
      /\ \/ b >= h /\ \A g \in DOMAIN q : g >= h => b <= g
         \/ \A g \in DOMAIN q : g < h /\ b <= g
  BY FromIs
<1> HIDE DEF a, b
<1>3. r[a] # n /\ q[b] # n => a = b /\ q[b] = r[a]
  BY <1>1, <1>2
<1> QED BY <1>3 DEF a, b

LEMMA ReplicasAre ==
    ASSUME NEW n \in Names, NEW c \in ReplicaCounts
    PROVE  /\ CR!Replicas(n, c) \subseteq Nat /\ CR!Replicas(n, c) # {}
           /\ IsFiniteSet(CR!Replicas(n, c))
           /\ \A m \in Names, d \in ReplicaCounts :
                 CR!Replicas(m, d) \cap CR!Replicas(n, c) # {} => m = n
<1>1. c \in Nat /\ c # 0
  BY RingAssumption DEF ReplicaCounts
<1>2. CR!Replicas(n, c) \subseteq Nat
  BY RingAssumption DEF CR!Replicas
<1>3. CR!Replicas(n, c) # {}
  <2>1. 0 \in 0 .. c - 1
    BY <1>1
  <2> QED BY <2>1 DEF CR!Replicas
<1>4. IsFiniteSet(CR!Replicas(n, c))
  <2>1. IsFiniteSet(0 .. c - 1)
    BY <1>1, FS_Interval
  <2> DEFINE f == [i \in 0 .. c - 1 |-> hashVNode[n][i]]
             R == CR!Replicas(n, c)
  <2>2. f \in Surjection(0 .. c - 1, R)
    <3>1. f \in [0 .. c - 1 -> R]
      BY DEF CR!Replicas
    <3>2. \A h \in R : \E i \in 0 .. c - 1 : f[i] = h
      BY DEF CR!Replicas
    <3> QED BY <3>1, <3>2 DEF Surjection
  <2> QED BY <2>1, <2>2, FS_Surjection
<1>5. ASSUME NEW m \in Names, NEW d \in ReplicaCounts,
             CR!Replicas(m, d) \cap CR!Replicas(n, c) # {}
      PROVE  m = n
  <2>1. PICK h : h \in CR!Replicas(m, d) /\ h \in CR!Replicas(n, c)
    BY <1>5
  <2>2. PICK i \in 0 .. d - 1 : h = hashVNode[m][i]
    BY <2>1 DEF CR!Replicas
  <2>3. PICK j \in 0 .. c - 1 : h = hashVNode[n][j]
    BY <2>1 DEF CR!Replicas
  <2>4. \A b \in ReplicaCounts : \A x \in Names, y \in 0 .. b - 1 :
            hashVNode[n][j] = hashVNode[x][y] => n = x
    BY RingAssumption, Zenon
  <2>5. hashVNode[n][j] = hashVNode[m][i]
    BY <2>2, <2>3
  <2> QED BY <2>4, <2>5
<1> QED BY <1>2, <1>3, <1>4, <1>5

(* The inductive invariant: the ring holds the replicas of its members. *)
RingHolds(r, c) ==
    /\ c \in [Names -> ReplicaCounts \cup {Absent}]
    /\ \A n \in Names : c[n] # Absent =>
          \A h \in CR!Replicas(n, c[n]) : h \in DOMAIN r /\ r[h] = n
    /\ \A h \in DOMAIN r : \E n \in Names : c[n] # Absent /\ h \in CR!Replicas(n, c[n])

LEMMA RingInit == CR!Init => RingHolds(s1, s2)
  BY DEF CR!Init, RingHolds

LEMMA HeldBy ==
    ASSUME NEW r, NEW c, RingHolds(r, c), NEW h \in DOMAIN r
    PROVE  /\ r[h] \in Names /\ c[r[h]] # Absent /\ c[r[h]] \in ReplicaCounts
           /\ h \in CR!Replicas(r[h], c[r[h]]) /\ h \in Nat
<1>1. PICK n \in Names : c[n] # Absent /\ h \in CR!Replicas(n, c[n])
  BY DEF RingHolds
<1>2. c[n] \in ReplicaCounts /\ r[h] = n
  BY <1>1 DEF RingHolds
<1> QED BY <1>1, <1>2, ReplicasAre

(* A node's replicas change: the rest of the ring stays. *)
OnlyOf(n, r, q) ==
    /\ \A g \in DOMAIN r : r[g] # n => g \in DOMAIN q /\ q[g] = r[g]
    /\ \A g \in DOMAIN q : q[g] # n => g \in DOMAIN r /\ r[g] = q[g]

LEMMA DroppedIs ==
    ASSUME RingHolds(s1, s2), NEW n \in Names, NEW rest, rest = CR!Dropped(CR!Old(n))
    PROVE  /\ \A h \in DOMAIN rest : h \in DOMAIN s1 /\ rest[h] = s1[h] /\ s1[h] # n
           /\ \A h \in DOMAIN s1 : s1[h] # n => h \in DOMAIN rest
<1> DEFINE old == CR!Old(n)
<1>1. DOMAIN rest = DOMAIN s1 \ old /\ \A h \in DOMAIN rest : rest[h] = s1[h]
  BY DEF CR!Dropped
<1>2. ASSUME NEW h \in DOMAIN s1, s1[h] = n PROVE h \in old
  <2>1. s2[n] # Absent /\ h \in CR!Replicas(n, s2[n])
    BY <1>2, HeldBy
  <2> QED BY <2>1 DEF CR!Old, CR!Members
<1>3. ASSUME NEW h \in old PROVE s1[h] = n
  <2>1. s2[n] # Absent /\ h \in CR!Replicas(n, s2[n])
    BY <1>3 DEF CR!Old, CR!Members
  <2> QED BY <2>1 DEF RingHolds
<1> QED BY <1>1, <1>2, <1>3

LEMMA AddKeepsTheRing ==
    ASSUME RingHolds(s1, s2), NEW n \in Names, NEW c \in Counts, CR!addNode(n, c)
    PROVE  RingHolds(s1', s2') /\ OnlyOf(n, s1, s1')
<1> DEFINE e == CR!Effective(c)
           new == CR!Replicas(n, e)
<1>0. PICK rest : rest = CR!Dropped(CR!Old(n))
  OBVIOUS
<1>1. /\ \A h \in DOMAIN rest : h \in DOMAIN s1 /\ rest[h] = s1[h] /\ s1[h] # n
      /\ \A h \in DOMAIN s1 : s1[h] # n => h \in DOMAIN rest
  BY <1>0, DroppedIs
<1>2. e \in ReplicaCounts
  BY RingAssumption DEF CR!Effective, ReplicaCounts
<1>3. /\ s1' = [h \in DOMAIN rest \cup new |-> IF h \in new THEN n ELSE rest[h]]
      /\ s2' = [s2 EXCEPT ![n] = e]
  BY <1>0 DEF CR!addNode
<1>4. s2 \in [Names -> ReplicaCounts \cup {Absent}]
  BY DEF RingHolds
<1>5. /\ s2' \in [Names -> ReplicaCounts \cup {Absent}] /\ s2'[n] = e
      /\ \A m \in Names : m # n => s2'[m] = s2[m]
  BY <1>2, <1>3, <1>4
<1>6. /\ DOMAIN s1' = DOMAIN rest \cup new
      /\ \A h \in new : s1'[h] = n
      /\ \A h \in DOMAIN rest : h \notin new => s1'[h] = rest[h]
  BY <1>3
<1>7. ASSUME NEW h \in DOMAIN rest PROVE h \notin new
  <2>1. s1[h] \in Names /\ s2[s1[h]] \in ReplicaCounts /\ h \in CR!Replicas(s1[h], s2[s1[h]])
    BY <1>1, HeldBy
  <2> QED BY <2>1, <1>1, <1>2, ReplicasAre
<1> HIDE DEF e, new
<1>8. ASSUME NEW m \in Names, s2'[m] # Absent, NEW h \in CR!Replicas(m, s2'[m])
      PROVE  h \in DOMAIN s1' /\ s1'[h] = m
  <2>1. CASE m = n
    BY <2>1, <1>5, <1>6, <1>8 DEF new
  <2>2. CASE m # n
    <3>1. h \in DOMAIN s1 /\ s1[h] = m
      BY <2>2, <1>5, <1>8 DEF RingHolds
    <3> QED BY <3>1, <2>2, <1>1, <1>6, <1>7
  <2> QED BY <2>1, <2>2
<1>9. ASSUME NEW h \in DOMAIN s1'
      PROVE  \E m \in Names : s2'[m] # Absent /\ h \in CR!Replicas(m, s2'[m])
  <2>1. CASE h \in new
    <3>1. e # Absent
      BY <1>2, RingAssumption, ProviderAssumption
    <3> QED BY <2>1, <3>1, <1>5 DEF new
  <2>2. CASE h \notin new
    <3>1. h \in DOMAIN s1 /\ s1[h] # n
      BY <2>2, <1>1, <1>6
    <3>2. s1[h] \in Names /\ s2[s1[h]] # Absent /\ h \in CR!Replicas(s1[h], s2[s1[h]])
      BY <3>1, HeldBy
    <3> QED BY <3>1, <3>2, <1>5
  <2> QED BY <2>1, <2>2
<1>10. OnlyOf(n, s1, s1')
  BY <1>1, <1>6, <1>7 DEF OnlyOf
<1> QED BY <1>5, <1>8, <1>9, <1>10 DEF RingHolds

LEMMA RemoveKeepsTheRing ==
    ASSUME RingHolds(s1, s2), NEW n \in Names, CR!removeNode(n)
    PROVE  RingHolds(s1', s2') /\ OnlyOf(n, s1, s1')
<1>0. s1' = CR!Dropped(CR!Old(n)) /\ s2' = [s2 EXCEPT ![n] = Absent]
  BY DEF CR!removeNode
<1>1. /\ \A h \in DOMAIN s1' : h \in DOMAIN s1 /\ s1'[h] = s1[h] /\ s1[h] # n
      /\ \A h \in DOMAIN s1 : s1[h] # n => h \in DOMAIN s1'
  BY <1>0, DroppedIs
<1>2. s2 \in [Names -> ReplicaCounts \cup {Absent}]
  BY DEF RingHolds
<1>3. /\ s2' \in [Names -> ReplicaCounts \cup {Absent}] /\ s2'[n] = Absent
      /\ \A m \in Names : m # n => s2'[m] = s2[m]
  BY <1>0, <1>2
<1>4. ASSUME NEW m \in Names, s2'[m] # Absent, NEW h \in CR!Replicas(m, s2'[m])
      PROVE  h \in DOMAIN s1' /\ s1'[h] = m
  <2>1. m # n /\ h \in DOMAIN s1 /\ s1[h] = m
    BY <1>3, <1>4 DEF RingHolds
  <2> QED BY <2>1, <1>1
<1>5. ASSUME NEW h \in DOMAIN s1'
      PROVE  \E m \in Names : s2'[m] # Absent /\ h \in CR!Replicas(m, s2'[m])
  <2>1. h \in DOMAIN s1 /\ s1[h] # n
    BY <1>1
  <2>2. s1[h] \in Names /\ s2[s1[h]] # Absent /\ h \in CR!Replicas(s1[h], s2[s1[h]])
    BY <2>1, HeldBy
  <2> QED BY <2>1, <2>2, <1>3
<1>6. OnlyOf(n, s1, s1')
  BY <1>1 DEF OnlyOf
<1> QED BY <1>3, <1>4, <1>5, <1>6 DEF RingHolds

-----------------------------------------------------------------------------
(* The loop of getNodes.  What a loop computes is a function of the number  *)
(* of its steps; induction is over sets of such numbers.                    *)
LEMMA StepByStep ==
    ASSUME NEW K \in Nat, NEW P \in SUBSET (0 .. K), 0 \in P,
           \A i \in 1 .. K : i - 1 \in P => i \in P
    PROVE  P = 0 .. K
<1> SUFFICES ASSUME (0 .. K) \ P # {} PROVE FALSE
  OBVIOUS
<1>1. PICK m \in (0 .. K) \ P : \A i \in (0 .. K) \ P : m <= i
  <2>1. (0 .. K) \ P \subseteq Nat
    OBVIOUS
  <2> QED BY <2>1, LeastNatural
<1>2. m \in 1 .. K
  BY <1>1
<1>3. m - 1 \in P
  BY <1>1, <1>2
<1> QED BY <1>1, <1>2, <1>3

IsRun(f, x, K, step) == f[0] = x /\ \A i \in 1 .. K : f[i] = step[<<i, f[i - 1]>>]

LEMMA LoopRuns ==
    ASSUME NEW X, NEW x0 \in X, NEW K \in Nat, NEW step \in [(1 .. K) \X X -> X]
    PROVE  \E f \in [0 .. K -> X] : IsRun(f, x0, K, step)
<1> DEFINE Runs(f, m) == f[0] = x0 /\ \A i \in 1 .. m : f[i] = step[<<i, f[i - 1]>>]
           P == {m \in 0 .. K : \E f \in [0 .. m -> X] : Runs(f, m)}
<1>1. 0 \in P
  <2> DEFINE f == [i \in 0 .. 0 |-> x0]
  <2>1. f \in [0 .. 0 -> X] /\ Runs(f, 0)
    OBVIOUS
  <2> HIDE DEF f, Runs
  <2>2. \E g \in [0 .. 0 -> X] : Runs(g, 0)
    BY <2>1
  <2> QED BY <2>2
<1>2. ASSUME NEW m \in 1 .. K, m - 1 \in P PROVE m \in P
  <2>1. PICK f \in [0 .. (m - 1) -> X] : Runs(f, m - 1)
    BY <1>2
  <2>2. m - 1 \in 0 .. (m - 1) /\ f[m - 1] \in X
    OBVIOUS
  <2>3. PICK x \in X : x = step[<<m, f[m - 1]>>]
    BY <2>2
  <2> DEFINE g == [i \in 0 .. m |-> IF i = m THEN x ELSE f[i]]
  <2>4. g \in [0 .. m -> X]
    BY <2>3
  <2>5. g[m] = x /\ g[m - 1] = f[m - 1]
    BY <2>2
  <2>6. \A i \in 1 .. m : i # m => i \in 1 .. (m - 1) /\ g[i] = f[i] /\ g[i - 1] = f[i - 1]
    OBVIOUS
  <2>7. g[0] = x0
    BY <2>1
  <2> HIDE DEF g
  <2>8. Runs(g, m)
    BY <2>1, <2>3, <2>5, <2>6, <2>7
  <2> HIDE DEF Runs
  <2>9. \E e \in [0 .. m -> X] : Runs(e, m)
    BY <2>4, <2>8
  <2> QED BY <2>9
<1>3. P = 0 .. K
  <2> HIDE DEF P
  <2>1. P \in SUBSET (0 .. K)
    BY DEF P
  <2> QED BY <1>1, <1>2, <2>1, StepByStep
<1>4. \E f \in [0 .. K -> X] : Runs(f, K)
  <2> HIDE DEF Runs
  <2>1. K \in P
    BY <1>3
  <2> QED BY <2>1
<1>5. \A f : Runs(f, K) <=> IsRun(f, x0, K, step)
  BY DEF IsRun
<1> HIDE DEF Runs
<1> QED BY <1>4, <1>5

LEMMA SameCountOnTheRing == \A S : CR!Cardinality(S) = Cardinality(S)
  BY DEF CR!Cardinality, Cardinality, CR!IsFiniteSet, IsFiniteSet

LEMMA PlaceIs ==
    ASSUME NEW r, IsRing(r), IsFiniteSet(DOMAIN r), NEW h \in Nat, NEW K, K = Cardinality(DOMAIN r)
    PROVE  /\ K \in Nat /\ K > 0
           /\ CR!Place(r, h) \in [0 .. K -> DOMAIN r]
           /\ CR!Place(r, h)[0] = CR!From(r, h)
           /\ \A i \in 1 .. K : CR!Place(r, h)[i] = CR!From(r, CR!Place(r, h)[i - 1] + 1)
<1>0. K \in Nat /\ K > 0
  BY FS_CardinalityType, FS_EmptySet DEF IsRing
<1> DEFINE W(f) == [i \in 0 .. K |-> IF i = 0 THEN CR!From(r, h) ELSE CR!From(r, f[i - 1] + 1)]
           R == DOMAIN r
           step == [p \in (1 .. K) \X R |-> CR!From(r, p[2] + 1)]
<1>1. CR!Place(r, h) = CHOOSE f : f = W(f)
  BY SameCountOnTheRing DEF CR!Place
<1>2. \E f : f = W(f)
  <2>1. ASSUME NEW p \in (1 .. K) \X R PROVE CR!From(r, p[2] + 1) \in R
    <3>1. p[2] + 1 \in Nat
      BY DEF IsRing
    <3> QED BY <3>1, FromIs
  <2>2. step \in [(1 .. K) \X R -> R]
    BY <2>1
  <2>3. CR!From(r, h) \in R
    BY FromIs
  <2>4. PICK f \in [0 .. K -> R] : IsRun(f, CR!From(r, h), K, step)
    <3> HIDE DEF step, R
    <3> QED BY <2>2, <2>3, <1>0, LoopRuns
  <2>5. \A i \in 1 .. K : f[i] = CR!From(r, f[i - 1] + 1)
    <3> SUFFICES ASSUME NEW i \in 1 .. K PROVE f[i] = CR!From(r, f[i - 1] + 1)
      OBVIOUS
    <3>1. i - 1 \in 0 .. K /\ f[i - 1] \in R
      BY <1>0
    <3>2. <<i, f[i - 1]>> \in (1 .. K) \X R
      BY <3>1
    <3> QED BY <3>2, <2>4 DEF IsRun
  <2>6. f = W(f)
    BY <2>4, <2>5, <1>0 DEF IsRun
  <2> QED BY <2>6
<1>3. PICK f : f = CR!Place(r, h)
  OBVIOUS
<1>4. f = W(f)
  <2> HIDE DEF W
  <2> QED BY <1>1, <1>2, <1>3
<1>5. /\ DOMAIN f = 0 .. K /\ f[0] = CR!From(r, h)
      /\ \A i \in 1 .. K : f[i] = CR!From(r, f[i - 1] + 1)
  BY <1>0, <1>4
<1>6. \A i \in 0 .. K : f[i] \in R
  <2> DEFINE P == {i \in 0 .. K : f[i] \in R}
  <2>1. 0 \in P
    BY <1>0, <1>5, FromIs
  <2>2. ASSUME NEW i \in 1 .. K, i - 1 \in P PROVE i \in P
    <3>1. f[i - 1] + 1 \in Nat
      BY <2>2 DEF IsRing
    <3> QED BY <3>1, <1>5, FromIs
  <2>3. P = 0 .. K
    <3>1. P \in SUBSET (0 .. K)
      OBVIOUS
    <3> HIDE DEF P
    <3> QED BY <2>1, <2>2, <3>1, <1>0, StepByStep
  <2> QED BY <2>3
<1>7. f \in [0 .. K -> R]
  BY <1>4, <1>6
<1> QED BY <1>0, <1>3, <1>5, <1>7

(* The hashes from p on, around the ring, to q. *)
Between(p, g, q) == IF p <= q THEN p <= g /\ g <= q ELSE g >= p \/ g <= q
Arc(R, p, q) == {g \in R : Between(p, g, q)}

LEMMA ArcGrows ==
    ASSUME NEW r, IsRing(r), NEW p \in DOMAIN r, NEW q \in DOMAIN r,
           Arc(DOMAIN r, p, q) # DOMAIN r, NEW s, s = CR!From(r, q + 1)
    PROVE  /\ s \notin Arc(DOMAIN r, p, q)
           /\ Arc(DOMAIN r, p, s) = Arc(DOMAIN r, p, q) \cup {s}
<1> DEFINE R == DOMAIN r
<1>1. p \in Nat /\ q \in Nat /\ R \subseteq Nat /\ q + 1 \in Nat
  BY DEF IsRing
<1>2. /\ s \in R /\ s \in Nat
      /\ \/ s >= q + 1 /\ \A g \in R : g >= q + 1 => s <= g
         \/ \A g \in R : g < q + 1 /\ s <= g
  BY <1>1, FromIs
<1>3. PICK o \in R : ~ Between(p, o, q)
  BY DEF Arc
<1> HIDE DEF R
<1>4. ~ Between(p, s, q)
  BY <1>1, <1>2, <1>3 DEF Between
<1>5. ASSUME NEW g \in R PROVE Between(p, g, s) <=> Between(p, g, q) \/ g = s
  <2>1. g \in Nat /\ o \in Nat
    BY <1>1
  <2>2. CASE s >= q + 1 /\ \A x \in R : x >= q + 1 => s <= x
    <3>1. (g >= q + 1 => s <= g) /\ (o >= q + 1 => s <= o)
      BY <2>2
    <3> QED BY <1>1, <1>2, <1>3, <2>1, <2>2, <3>1 DEF Between
  <2>3. CASE \A x \in R : x < q + 1 /\ s <= x
    <3>1. g < q + 1 /\ s <= g /\ o < q + 1 /\ s <= o /\ p < q + 1
      BY <2>3 DEF R
    <3> QED BY <1>1, <1>2, <1>3, <2>1, <3>1 DEF Between
  <2> QED BY <1>2, <2>2, <2>3
<1> QED BY <1>2, <1>4, <1>5 DEF Arc, R

Visited(at, K) == {at[i] : i \in 0 .. K - 1}

LEMMA LoopGoesAround ==
    ASSUME NEW r, IsRing(r), IsFiniteSet(DOMAIN r), NEW h \in Nat, NEW K, K = Cardinality(DOMAIN r)
    PROVE  Visited(CR!Place(r, h), K) = DOMAIN r
<1>0. PICK f : f = CR!Place(r, h)
  OBVIOUS
<1> DEFINE R == DOMAIN r
           p == f[0]
           Seen(i) == {f[j] : j \in 0 .. i}
           P == {i \in 0 .. (K - 1) : \/ Seen(i) = R
                                      \/ Seen(i) = Arc(R, p, f[i]) /\ Cardinality(Seen(i)) = i + 1}
<1>1. /\ K \in Nat /\ K > 0 /\ f \in [0 .. K -> R]
      /\ \A i \in 1 .. K : f[i] = CR!From(r, f[i - 1] + 1)
  BY <1>0, PlaceIs
<1>2. \A i \in 0 .. K : Seen(i) \subseteq R
  BY <1>1
<1>3. 0 \in P
  <2>1. p \in R /\ p \in Nat /\ R \subseteq Nat
    BY <1>1 DEF IsRing
  <2>2. Seen(0) = {p}
    OBVIOUS
  <2>3. Cardinality(Seen(0)) = 1
    BY <2>2, FS_Singleton
  <2>4. Arc(R, p, p) = {p}
    BY <2>1 DEF Arc, Between
  <2> QED BY <1>1, <2>2, <2>3, <2>4
<1>4. ASSUME NEW i \in 1 .. (K - 1), i - 1 \in P PROVE i \in P
  <2>1. /\ i \in 0 .. K /\ i - 1 \in 0 .. K /\ i \in 1 .. K /\ i \in 0 .. (K - 1)
        /\ f[i] \in R /\ f[i - 1] \in R /\ p \in R
    BY <1>1
  <2>2. Seen(i) = Seen(i - 1) \cup {f[i]}
    <3>1. \A j \in 0 .. i : j \in 0 .. (i - 1) \/ j = i
      BY <2>1
    <3>2. \A j \in 0 .. (i - 1) : j \in 0 .. i
      BY <2>1
    <3>3. i \in 0 .. i
      BY <2>1
    <3> QED BY <3>1, <3>2, <3>3
  <2>3. f[i] = CR!From(r, f[i - 1] + 1)
    BY <1>1, <2>1
  <2>4. Seen(i - 1) = R \/ (Seen(i - 1) = Arc(R, p, f[i - 1]) /\ Cardinality(Seen(i - 1)) = i)
    BY <1>4, <2>1
  <2>5. Seen(i - 1) \subseteq R /\ Seen(i) \subseteq R
    BY <1>2, <2>1
  <2> HIDE DEF Seen, R
  <2>6. CASE Seen(i - 1) = R
    BY <2>1, <2>2, <2>6
  <2>7. CASE Seen(i - 1) # R
    <3>1. /\ f[i] \notin Arc(R, p, f[i - 1])
          /\ Arc(R, p, f[i]) = Arc(R, p, f[i - 1]) \cup {f[i]}
      BY <2>1, <2>3, <2>4, <2>7, ArcGrows DEF R
    <3>2. IsFiniteSet(Seen(i - 1))
      BY <2>5, FS_Subset DEF R
    <3>3. Cardinality(Seen(i - 1) \cup {f[i]}) = i + 1
      <4> HIDE DEF P
      <4>1. f[i] \notin Seen(i - 1) /\ Cardinality(Seen(i - 1)) = i
        BY <3>1, <2>4, <2>7
      <4>2. PICK S : S = Seen(i - 1)
        OBVIOUS
      <4>3. Cardinality(S \cup {f[i]}) = IF f[i] \in S THEN Cardinality(S) ELSE Cardinality(S) + 1
        BY <3>2, <4>2, FS_AddElement
      <4> QED BY <4>1, <4>2, <4>3
    <3> QED BY <2>1, <2>2, <2>4, <2>7, <3>1, <3>3
  <2> QED BY <2>6, <2>7
<1>5. K - 1 \in P
  <2> HIDE DEF P
  <2>1. P \in SUBSET (0 .. (K - 1)) /\ K - 1 \in Nat
    BY <1>1 DEF P
  <2>2. P = 0 .. (K - 1)
    BY <1>3, <1>4, <2>1, StepByStep
  <2> QED BY <2>1, <2>2
<1>6. Seen(K - 1) = R
  <2>1. Seen(K - 1) \subseteq R
    BY <1>1, <1>2
  <2>2. Seen(K - 1) = R \/ Cardinality(Seen(K - 1)) = K
    BY <1>1, <1>5
  <2> HIDE DEF Seen
  <2> QED BY <2>1, <2>2, FS_Subset
<1> QED BY <1>0, <1>6 DEF Visited

LEMMA FoundIs ==
    ASSUME NEW r, IsRing(r), IsFiniteSet(DOMAIN r), NEW h \in Nat, NEW n \in Nat,
           NEW K, K = Cardinality(DOMAIN r), NEW at, at = CR!Place(r, h), NEW f, f = CR!Found(r, h, n)
    PROVE  f[0] = <<>> /\ \A i \in 1 .. K : f[i] = CR!More(f[i - 1], r[at[i - 1]], n)
<1> DEFINE M == {r[g] : g \in DOMAIN r}
           W(g) == [i \in 0 .. K |-> IF i = 0 THEN <<>> ELSE CR!More(g[i - 1], r[at[i - 1]], n)]
           step == [p \in (1 .. K) \X Seq(M) |-> CR!More(p[2], r[at[p[1] - 1]], n)]
<1>0. K \in Nat /\ at \in [0 .. K -> DOMAIN r]
  BY PlaceIs
<1>1. f = CHOOSE g : g = W(g)
  BY SameCountOnTheRing DEF CR!Found
<1>2. \E g : g = W(g)
  <2>1. ASSUME NEW p \in (1 .. K) \X Seq(M) PROVE CR!More(p[2], r[at[p[1] - 1]], n) \in Seq(M)
    <3>1. p[1] - 1 \in 0 .. K /\ at[p[1] - 1] \in DOMAIN r
      BY <1>0
    <3>2. PICK x \in M : x = r[at[p[1] - 1]]
      BY <3>1
    <3> HIDE DEF M
    <3>3. PICK s \in Seq(M) : s = p[2]
      OBVIOUS
    <3>4. CR!More(s, x, n) \in Seq(M)
      BY DEF CR!More
    <3> QED BY <3>2, <3>3, <3>4
  <2>2. step \in [(1 .. K) \X Seq(M) -> Seq(M)]
    BY <2>1
  <2>3. PICK g \in [0 .. K -> Seq(M)] : IsRun(g, <<>>, K, step)
    <3> HIDE DEF step, M
    <3>1. <<>> \in Seq(M)
      OBVIOUS
    <3> QED BY <3>1, <2>2, <1>0, LoopRuns
  <2>4. \A i \in 1 .. K : g[i] = CR!More(g[i - 1], r[at[i - 1]], n)
    <3> SUFFICES ASSUME NEW i \in 1 .. K PROVE g[i] = CR!More(g[i - 1], r[at[i - 1]], n)
      OBVIOUS
    <3>2. g[i] = step[<<i, g[i - 1]>>]
      BY <2>3 DEF IsRun
    <3> HIDE DEF M
    <3>3. i - 1 \in 0 .. K
      BY <1>0
    <3>4. g[i - 1] \in Seq(M)
      BY <3>3, Zenon
    <3>1. <<i, g[i - 1]>> \in (1 .. K) \X Seq(M)
      BY <3>4, Zenon
    <3> QED BY <3>1, <3>2
  <2>5. g = W(g)
    <3> HIDE DEF M
    <3> QED BY <1>0, <2>3, <2>4 DEF IsRun
  <2> QED BY <2>5
<1>3. f = W(f)
  <2> HIDE DEF W
  <2> QED BY <1>1, <1>2
<1> QED BY <1>0, <1>3

(* The distinct nodes of S, or n of them. *)
Gathers(s, S, n) ==
    /\ s \in Seq(S) /\ Len(s) <= n
    /\ \A i, j \in 1 .. Len(s) : s[i] = s[j] => i = j
    /\ Len(s) = n \/ \A x \in S : \E j \in 1 .. Len(s) : s[j] = x

LEMMA MoreGathers ==
    ASSUME NEW S, NEW s, NEW n \in Nat, Gathers(s, S, n), NEW x
    PROVE  /\ Gathers(CR!More(s, x, n), S \cup {x}, n)
           /\ Len(s) > 0 => Len(CR!More(s, x, n)) > 0 /\ CR!More(s, x, n)[1] = s[1]
<1>0. PICK T : T = S \cup {x}
  OBVIOUS
<1>1. s \in Seq(S) /\ DOMAIN s = 1 .. Len(s)
  BY DEF Gathers
<1>2. Len(s) \in Nat /\ Len(s) <= n
  <2>1. Len(s) <= n
    BY Zenon DEF Gathers
  <2>2. Len(s) \in Nat
    BY <1>1
  <2> QED BY <2>1, <2>2
<1>3. \A i, j \in 1 .. Len(s) : s[i] = s[j] => i = j
  BY DEF Gathers
<1>4. Len(s) # n => \A y \in S : \E j \in 1 .. Len(s) : s[j] = y
  BY DEF Gathers
<1>5. s \in Seq(T)
  <2>1. s \in [1 .. Len(s) -> T]
    BY <1>0, <1>1
  <2> QED BY <1>2, <2>1
<1>6. CASE Len(s) >= n \/ \E j \in DOMAIN s : s[j] = x
  <2>1. CR!More(s, x, n) = s
    BY <1>6 DEF CR!More
  <2>2. ASSUME Len(s) # n, NEW y \in T PROVE \E j \in 1 .. Len(s) : s[j] = y
    <3>1. ~ (Len(s) >= n)
      BY <1>2, <2>2
    <3>2. \E j \in 1 .. Len(s) : s[j] = x
      BY <1>1, <1>6, <3>1
    <3> QED BY <1>0, <1>4, <2>2, <3>2
  <2>3. Gathers(s, T, n)
    BY <1>2, <1>3, <1>5, <2>2 DEF Gathers
  <2> QED BY <1>0, <2>1, <2>3
<1>7. CASE ~ (Len(s) >= n \/ \E j \in DOMAIN s : s[j] = x)
  <2>1. PICK m : m = Append(s, x)
    OBVIOUS
  <2>2. CR!More(s, x, n) = m
    BY <1>7, <2>1 DEF CR!More
  <2>3. /\ m \in Seq(T) /\ Len(m) = Len(s) + 1 /\ m[Len(s) + 1] = x
        /\ \A i \in 1 .. Len(s) : m[i] = s[i]
    BY <1>0, <1>2, <1>5, <2>1
  <2>4. \A i \in 1 .. Len(s) : s[i] # x
    BY <1>1, <1>7
  <2>5. Len(m) = Len(s) + 1 /\ \A i \in 1 .. Len(m) : i \in 1 .. Len(s) \/ i = Len(s) + 1
    BY <1>2, <2>3
  <2>6. \A i, j \in 1 .. Len(m) : m[i] = m[j] => i = j
    BY <1>3, <2>3, <2>4, <2>5
  <2>7. Len(s) + 1 \in 1 .. Len(m) /\ \A i \in 1 .. Len(s) : i \in 1 .. Len(m)
    BY <1>2, <2>5
  <2>8. ASSUME NEW y \in T PROVE \E j \in 1 .. Len(m) : m[j] = y
    <3>1. CASE y = x
      BY <3>1, <2>3, <2>7
    <3>2. CASE y # x
      <4>1. Len(s) # n /\ y \in S
        BY <1>0, <1>2, <1>7, <3>2
      <4>2. PICK j \in 1 .. Len(s) : s[j] = y
        BY <1>4, <4>1
      <4> QED BY <4>2, <2>3, <2>7
    <3> QED BY <3>1, <3>2
  <2>9. Len(m) <= n
    BY <1>2, <1>7, <2>5
  <2>10. Gathers(m, T, n)
    BY <2>3, <2>6, <2>8, <2>9 DEF Gathers
  <2>11. Len(s) > 0 => 1 \in 1 .. Len(s)
    BY <1>2
  <2> QED BY <1>0, <1>2, <2>2, <2>3, <2>5, <2>10, <2>11
<1> QED BY <1>6, <1>7

OwnersOn(r) == {r[g] : g \in DOMAIN r}

(* What getNodes answers. *)
Answers(r, h, n) ==
    LET s == CR!Found(r, h, n)[Cardinality(DOMAIN r)]
    IN Gathers(s, OwnersOn(r), n) /\ Len(s) > 0 /\ s[1] = r[CR!From(r, h)]

LEMMA NodesGathered ==
    ASSUME NEW r, IsRing(r), IsFiniteSet(DOMAIN r), NEW h \in Nat, NEW n \in Nat \ {0}
    PROVE  Answers(r, h, n)
<1> DEFINE K == Cardinality(DOMAIN r)
<1>0. PICK at : at = CR!Place(r, h)
  OBVIOUS
<1>1. PICK f : f = CR!Found(r, h, n)
  OBVIOUS
<1>2. /\ K \in Nat /\ K > 0 /\ at \in [0 .. K -> DOMAIN r] /\ at[0] = CR!From(r, h)
      /\ Visited(at, K) = DOMAIN r
  <2>1. /\ K \in Nat /\ K > 0 /\ at \in [0 .. K -> DOMAIN r] /\ at[0] = CR!From(r, h)
    BY <1>0, PlaceIs
  <2>2. Visited(at, K) = DOMAIN r
    BY <1>0, LoopGoesAround
  <2> QED BY <2>1, <2>2
<1> HIDE DEF K
<1>3. f[0] = <<>> /\ \A i \in 1 .. K : f[i] = CR!More(f[i - 1], r[at[i - 1]], n)
  <2>1. n \in Nat
    OBVIOUS
  <2> QED BY <2>1, <1>0, <1>1, FoundIs DEF K
<1> DEFINE Met(i) == {r[at[j]] : j \in 0 .. (i - 1)}
           Good(i) == /\ Gathers(f[i], Met(i), n)
                      /\ i > 0 => Len(f[i]) > 0 /\ f[i][1] = r[at[0]]
           P == {i \in 0 .. K : Good(i)}
<1>4. 0 \in P
  <2>1. Met(0) = {}
    OBVIOUS
  <2>2. Gathers(<<>>, {}, n)
    BY DEF Gathers
  <2>3. Good(0)
    <3>1. Gathers(f[0], Met(0), n)
      <4> HIDE DEF Met
      <4> QED BY <1>3, <2>1, <2>2, Zenon
    <3>2. ~ (0 > 0)
      OBVIOUS
    <3> QED BY <3>1, <3>2, Zenon
  <2>4. 0 \in 0 .. K
    BY <1>2
  <2> HIDE DEF Good
  <2> QED BY <2>3, <2>4
<1>5. ASSUME NEW i \in 1 .. K, i - 1 \in P PROVE i \in P
  <2>1. Gathers(f[i - 1], Met(i - 1), n) /\ f[i] = CR!More(f[i - 1], r[at[i - 1]], n)
    BY <1>3, <1>5
  <2>2. Met(i) = Met(i - 1) \cup {r[at[i - 1]]}
    <3>1. \A j \in 0 .. (i - 1) : j \in 0 .. (i - 1 - 1) \/ j = i - 1
      BY <1>2
    <3>2. \A j \in 0 .. (i - 1 - 1) : j \in 0 .. (i - 1)
      BY <1>2
    <3>3. i - 1 \in 0 .. (i - 1)
      BY <1>2
    <3> QED BY <3>1, <3>2, <3>3
  <2>3. /\ Gathers(f[i], Met(i), n)
        /\ Len(f[i - 1]) > 0 => Len(f[i]) > 0 /\ f[i][1] = f[i - 1][1]
    <3> HIDE DEF Met
    <3> QED BY <2>1, <2>2, MoreGathers
  <2>4. Len(f[i]) > 0 /\ f[i][1] = r[at[0]]
    <3>1. CASE i = 1
      <4>1. f[1] = CR!More(<<>>, r[at[0]], n)
        BY <1>3, <2>1, <3>1
      <4>2. CR!More(<<>>, r[at[0]], n) = <<r[at[0]]>>
        BY DEF CR!More
      <4> QED BY <3>1, <4>1, <4>2
    <3>2. CASE i # 1
      BY <1>5, <2>3, <3>2
    <3> QED BY <3>1, <3>2
  <2> QED BY <2>3, <2>4
<1>6. Good(K)
  <2> HIDE DEF Good
  <2>1. P \in SUBSET (0 .. K)
    OBVIOUS
  <2> HIDE DEF P
  <2>2. P = 0 .. K
    BY <1>2, <1>4, <1>5, <2>1, StepByStep
  <2> QED BY <1>2, <2>2 DEF P
<1>7. Met(K) = OwnersOn(r)
  <2>1. \A j \in 0 .. (K - 1) : at[j] \in DOMAIN r
    BY <1>2
  <2>2. \A g \in DOMAIN r : \E j \in 0 .. (K - 1) : at[j] = g
    BY <1>2 DEF Visited
  <2> QED BY <2>1, <2>2 DEF OwnersOn
<1> HIDE DEF Met
<1> QED BY <1>1, <1>2, <1>6, <1>7 DEF Answers, K

-----------------------------------------------------------------------------
LEMMA RingIsFinite ==
    ASSUME NEW r, NEW c, RingHolds(r, c)
    PROVE  IsFiniteSet(DOMAIN r) /\ DOMAIN r \subseteq Nat
<1> DEFINE M == {n \in Names : c[n] # Absent}
           f == [n \in M |-> CR!Replicas(n, c[n])]
           S == {CR!Replicas(n, c[n]) : n \in M}
<1>1. IsFiniteSet(M)
  BY RingAssumption, FS_Subset
<1>2. \A n \in M : c[n] \in ReplicaCounts
  BY DEF RingHolds
<1>3. IsFiniteSet(S)
  <2>1. f \in Surjection(M, S)
    <3>1. f \in [M -> S]
      OBVIOUS
    <3>2. \A h \in S : \E n \in M : f[n] = h
      OBVIOUS
    <3> QED BY <3>1, <3>2 DEF Surjection
  <2> QED BY <1>1, <2>1, FS_Surjection
<1>4. \A T \in S : IsFiniteSet(T)
  BY <1>2, ReplicasAre
<1>5. IsFiniteSet(UNION S)
  <2> HIDE DEF S
  <2> QED BY <1>3, <1>4, FS_UNION
<1>6. DOMAIN r \subseteq UNION S
  BY DEF RingHolds
<1>7. DOMAIN r \subseteq Nat
  BY HeldBy
<1> QED BY <1>5, <1>6, <1>7, FS_Subset

(* The invariant says what the run checks. *)
LEMMA RingHoldsIts ==
    ASSUME RingHolds(s1, s2)
    PROVE  CR!TypeOK /\ CR!RingHoldsTheMembers
<1> DEFINE M == CR!Members
<1>1. /\ s2 \in [Names -> ReplicaCounts \cup {Absent}]
      /\ \A n \in M : n \in Names /\ s2[n] \in ReplicaCounts
  BY DEF RingHolds, CR!Members
<1>2. CR!TypeOK
  <2>1. s2 \in [Names -> Nat \cup {Absent}]
    BY <1>1, RingAssumption
  <2> QED BY <2>1, HeldBy DEF CR!TypeOK
<1>3. {<<h, s1[h]>> : h \in DOMAIN s1} = UNION {CR!Replicas(n, s2[n]) \X {n} : n \in M}
  <2>1. ASSUME NEW h \in DOMAIN s1
        PROVE  <<h, s1[h]>> \in UNION {CR!Replicas(n, s2[n]) \X {n} : n \in M}
    <3>1. s1[h] \in M /\ h \in CR!Replicas(s1[h], s2[s1[h]])
      BY HeldBy DEF CR!Members
    <3> QED BY <3>1
  <2>2. ASSUME NEW n \in M, NEW p \in CR!Replicas(n, s2[n]) \X {n}
        PROVE  p \in {<<h, s1[h]>> : h \in DOMAIN s1}
    <3>1. PICK h \in CR!Replicas(n, s2[n]) : p = <<h, n>>
      OBVIOUS
    <3>2. h \in DOMAIN s1 /\ s1[h] = n
      BY <3>1 DEF RingHolds, CR!Members
    <3> QED BY <3>1, <3>2
  <2> QED BY <2>1, <2>2
<1>4. {s1[g] : g \in DOMAIN s1} = M
  <2>1. \A g \in DOMAIN s1 : s1[g] \in M
    BY HeldBy DEF CR!Members
  <2>2. ASSUME NEW n \in M PROVE \E g \in DOMAIN s1 : s1[g] = n
    <3>1. PICK g : g \in CR!Replicas(n, s2[n])
      BY <1>1, ReplicasAre
    <3> QED BY <3>1 DEF RingHolds, CR!Members
  <2> QED BY <2>1, <2>2
<1>5. IsFiniteSet(DOMAIN s1) /\ (M # {} => IsRing(s1))
  BY <1>4, RingIsFinite DEF IsRing
<1>6. ASSUME M # {}, NEW k \in RingKeys, NEW n \in 1 .. CR!Cardinality(Names),
             NEW nodes, nodes = CR!getNodes(k, n)
      PROVE  LET found == {nodes[i] : i \in DOMAIN nodes} IN
             /\ nodes[1] = CR!getNode(k)
             /\ found \subseteq M
             /\ CR!Cardinality(found) = Len(nodes)
             /\ Len(nodes) = IF n < CR!Cardinality(M) THEN n ELSE CR!Cardinality(M)
  <2> DEFINE found == {nodes[i] : i \in DOMAIN nodes}
  <2>1. hashBytes[k] \in Nat /\ n \in Nat \ {0}
    <3>1. CR!Cardinality(Names) \in Nat
      BY RingAssumption, SameCountOnTheRing, FS_CardinalityType
    <3> QED BY <3>1, RingAssumption
  <2>2. nodes = CR!Found(s1, hashBytes[k], n)[Cardinality(DOMAIN s1)]
    BY <1>6, SameCountOnTheRing DEF CR!getNodes
  <2>3. Gathers(nodes, M, n) /\ Len(nodes) > 0 /\ nodes[1] = CR!getNode(k)
    <3>1. Answers(s1, hashBytes[k], n)
      <4>1. PICK h \in Nat : h = hashBytes[k]
        BY <2>1
      <4>2. PICK m \in Nat \ {0} : m = n
        BY <2>1
      <4>3. Answers(s1, h, m)
        BY <1>5, <1>6, NodesGathered
      <4> QED BY <4>1, <4>2, <4>3
    <3>2. OwnersOn(s1) = M
      BY <1>4 DEF OwnersOn
    <3> HIDE DEF M
    <3> QED BY <2>2, <3>1, <3>2 DEF Answers, CR!getNode
  <2>4. nodes \in Seq(M) /\ DOMAIN nodes = 1 .. Len(nodes)
    BY <2>3 DEF Gathers
  <2>5. found \subseteq M
    BY <2>4
  <2>6. IsFiniteSet(M)
    BY RingAssumption, FS_Subset DEF CR!Members
  <2>7. Len(nodes) \in Nat
    BY <2>4
  <2>8. Cardinality(found) = Len(nodes)
    <3>1. nodes \in Bijection(1 .. Len(nodes), found)
      <4>1. nodes \in [1 .. Len(nodes) -> found]
        BY <2>4
      <4>2. \A i, j \in 1 .. Len(nodes) : nodes[i] = nodes[j] => i = j
        BY <2>3 DEF Gathers
      <4>3. \A x \in found : \E i \in 1 .. Len(nodes) : nodes[i] = x
        BY <2>4
      <4> QED BY <4>1, <4>2, <4>3 DEF Bijection, Injection, Surjection, IsInjective
    <3>2. IsFiniteSet(1 .. Len(nodes)) /\ Cardinality(1 .. Len(nodes)) = Len(nodes)
      BY <2>7, CountUp
    <3>3. ExistsBijection(1 .. Len(nodes), found)
      BY <3>1 DEF ExistsBijection
    <3> HIDE DEF found
    <3> QED BY <3>2, <3>3, FS_Bijection
  <2>9. Len(nodes) <= n /\ (Len(nodes) # n => M \subseteq found)
    BY <2>3, <2>4 DEF Gathers
  <2>10. Cardinality(found) <= Cardinality(M) /\ Cardinality(M) \in Nat
    BY <2>5, <2>6, FS_Subset, FS_CardinalityType
  <2>11. Len(nodes) = IF n < Cardinality(M) THEN n ELSE Cardinality(M)
    <3>1. CASE Len(nodes) = n
      BY <3>1, <2>1, <2>8, <2>10
    <3>2. CASE Len(nodes) # n
      <4>1. found = M
        BY <2>5, <2>9, <3>2
      <4>2. Cardinality(M) = Len(nodes)
        BY <4>1, <2>8
      <4>3. Len(nodes) < n
        BY <3>2, <2>1, <2>7, <2>9
      <4> QED BY <4>2, <4>3, <2>1, <2>7
    <3> QED BY <3>1, <3>2
  <2> HIDE DEF found, M
  <2>12. /\ CR!Cardinality(found) = Len(nodes)
         /\ Len(nodes) = IF n < CR!Cardinality(M) THEN n ELSE CR!Cardinality(M)
    BY <2>8, <2>11, SameCountOnTheRing
  <2> QED BY <2>3, <2>5, <2>12 DEF found
<1> QED BY <1>2, <1>3, <1>6 DEF CR!RingHoldsTheMembers

LEMMA RingNext ==
    ASSUME RingHolds(s1, s2), CR!Next
    PROVE  RingHolds(s1', s2') /\ CR!OnlyItsKeysMove
<1>1. ASSUME NEW n \in Names, RingHolds(s1', s2'), OnlyOf(n, s1, s1')
      PROVE  CR!OnlyItsKeysMove
  <2> SUFFICES ASSUME CR!Members # {}, CR!Members' # {}, NEW k \in RingKeys
               PROVE  CR!getNode(k)' = CR!getNode(k) \/ n \in {CR!getNode(k), CR!getNode(k)'}
    BY DEF CR!OnlyItsKeysMove
  <2>1. IsRing(s1)
    <3>1. PICK m \in Names : s2[m] # Absent
      BY DEF CR!Members
    <3>2. s2[m] \in ReplicaCounts
      BY <3>1 DEF RingHolds
    <3>3. PICK g : g \in CR!Replicas(m, s2[m])
      BY <3>2, ReplicasAre
    <3>4. g \in DOMAIN s1
      BY <3>1, <3>3 DEF RingHolds
    <3> QED BY <3>4, RingIsFinite DEF IsRing
  <2>2. IsRing(s1')
    <3>1. PICK m \in Names : s2'[m] # Absent
      BY DEF CR!Members
    <3>2. s2'[m] \in ReplicaCounts
      BY <1>1, <3>1 DEF RingHolds
    <3>3. PICK g : g \in CR!Replicas(m, s2'[m])
      BY <3>2, ReplicasAre
    <3>4. g \in DOMAIN s1'
      BY <1>1, <3>1, <3>3 DEF RingHolds
    <3> QED BY <1>1, <3>4, RingIsFinite DEF IsRing
  <2>3. hashBytes[k] \in Nat
    BY RingAssumption
  <2>4. PICK r, q : r = s1 /\ q = s1'
    OBVIOUS
  <2>5. LET was == r[CR!From(r, hashBytes[k])]
            is == q[CR!From(q, hashBytes[k])]
        IN is = was \/ n \in {was, is}
    BY <1>1, <2>1, <2>2, <2>3, <2>4, OwnerStays DEF OnlyOf
  <2> QED BY <2>4, <2>5 DEF CR!getNode
<1>2. CASE CR!clear
  <2>1. s1' = [h \in {} |-> Absent] /\ s2' = [n \in Names |-> Absent]
    BY <1>2 DEF CR!clear
  <2>2. RingHolds(s1', s2')
    BY <2>1 DEF RingHolds
  <2>3. CR!Members' = {}
    BY <2>1 DEF CR!Members
  <2> QED BY <2>2, <2>3 DEF CR!OnlyItsKeysMove
<1>3. ASSUME NEW n \in Names, CR!removeNode(n)
      PROVE  RingHolds(s1', s2') /\ CR!OnlyItsKeysMove
  BY <1>1, <1>3, RemoveKeepsTheRing
<1>4. ASSUME NEW n \in Names, NEW c \in Counts, CR!addNode(n, c)
      PROVE  RingHolds(s1', s2') /\ CR!OnlyItsKeysMove
  BY <1>1, <1>4, AddKeepsTheRing
<1> QED BY <1>2, <1>3, <1>4 DEF CR!Next

RingIInv == service = "hash ring" => RingHolds(s1, s2)

LEMMA RingStep == RingIInv /\ [Next]_vars =>
                     RingIInv' /\ (service = "hash ring" => CR!OnlyItsKeysMove)
<1> SUFFICES ASSUME RingIInv, [Next]_vars
             PROVE  RingIInv' /\ (service = "hash ring" => CR!OnlyItsKeysMove)
  OBVIOUS
<1>1. CASE vars' = vars
  <2>1. service' = service /\ s1' = s1 /\ s2' = s2
    BY <1>1 DEF vars
  <2>2. service = "hash ring" => CR!OnlyItsKeysMove
    <3> SUFFICES ASSUME CR!Members # {} PROVE \E n \in Names : \A k \in RingKeys :
                     CR!getNode(k)' = CR!getNode(k) \/ n \in {CR!getNode(k), CR!getNode(k)'}
      BY DEF CR!OnlyItsKeysMove
    <3>1. PICK n \in Names : TRUE
      BY DEF CR!Members
    <3> QED BY <2>1, <3>1 DEF CR!getNode
  <2> QED BY <2>1, <2>2 DEF RingIInv
<1>2. CASE HashRing
  BY <1>2, RingNext DEF HashRing, RingIInv
<1>3. CASE service # "hash ring" /\ service' = service
  BY <1>3 DEF RingIInv
<1>4. Next => HashRing \/ (service # "hash ring" /\ service' = service)
  BY DEF Next, Scheduler, Delayed, Periodic, HashMap, Cache, Lru, Lfu, Provider, EventBus,
         Middleware, Snowflake, Connectivity, Watcher, Session
<1> QED BY <1>1, <1>2, <1>3, <1>4

(* For any nodes, keys, replica counts and hashes without collisions: the   *)
(* ring of ConsistentHash holds exactly the replicas of its members,        *)
(* getNodes finds the owner first and as many distinct members as there     *)
(* are, and a change of one node moves no key between two others.           *)
THEOREM RingMovesOnlyItsKeys == Spec => HashRingIsConsistent
<1>1. Init => RingIInv
  BY RingInit DEF Init, RingIInv
<1>2. RingIInv => (service = "hash ring" => CR!TypeOK /\ CR!RingHoldsTheMembers)
  BY RingHoldsIts DEF RingIInv
<1>3. RingIInv /\ [Next]_vars => [service = "hash ring" => CR!OnlyItsKeysMove]_vars
  BY RingStep
<1> QED BY <1>1, <1>2, <1>3, RingStep, PTL DEF Spec, HashRingIsConsistent

-----------------------------------------------------------------------------
(* LFUCache. *)

(* The lists L hold the keys that P places, with the values H, and within a *)
(* list the order of N.                                                     *)
ListOk(l) == /\ l \in Seq(CA!Entry) /\ DOMAIN l = 1 .. Len(l) /\ Len(l) \in Nat \ {0}
             /\ \A i \in 1 .. Len(l) : l[i] \in CA!Entry
Typed(L) == \A f \in DOMAIN L : f \in 1 .. MaxFreq /\ ListOk(L[f])
Placed(L, P) == \A f \in DOMAIN L : \A i \in 1 .. Len(L[f]) : P[L[f][i].key] = f
Sorted(L, N) ==
    \A f \in DOMAIN L : \A i, j \in 1 .. Len(L[f]) :
        i < j => /\ L[f][i].key # L[f][j].key
                 /\ <<L[f][i].key, L[f][j].key>> \in N
Kept(L, P, H) ==
    \A k \in StoreKeys : P[k] # Absent =>
        /\ P[k] \in DOMAIN L
        /\ \E i \in 1 .. Len(L[P[k]]) : L[P[k]][i] = [key |-> k, value |-> H[k]]
Shelves(L, P, H, N) == Typed(L) /\ Placed(L, P) /\ Sorted(L, N) /\ Kept(L, P, H)

LEMMA LeastOfThem ==
    ASSUME NEW F, F \subseteq 1 .. MaxFreq
    PROVE  /\ F = {} => CA!Least(F) = 0
           /\ F # {} => CA!Least(F) \in F /\ \A g \in F : CA!Least(F) <= g
<1>1. MaxFreq \in Nat
  BY StoreAssumption
<1>2. ASSUME F # {} PROVE \E h \in F : \A g \in F : h <= g
  <2>1. F \subseteq Nat
    BY <1>1
  <2> QED BY <1>2, <2>1, LeastNatural
<1> QED BY <1>2 DEF CA!Least

(* The place of a key in its list. *)
LEMMA AtIs ==
    ASSUME NEW L, NEW N, Typed(L), Sorted(L, N), NEW f \in DOMAIN L,
           NEW p \in 1 .. Len(L[f])
    PROVE  CA!At(L[f], L[f][p].key) = p
<1>1. DOMAIN L[f] = 1 .. Len(L[f]) /\ Len(L[f]) \in Nat
  BY DEF Typed, ListOk
<1>2. \A i \in 1 .. Len(L[f]) : L[f][i].key = L[f][p].key => i = p
  <2> SUFFICES ASSUME NEW i \in 1 .. Len(L[f]), i # p PROVE L[f][i].key # L[f][p].key
    OBVIOUS
  <2>1. i < p \/ p < i
    BY <1>1
  <2> QED BY <2>1 DEF Sorted
<1> QED BY <1>1, <1>2 DEF CA!At

(* Erasing the entry at p. *)
LEMMA ErasedIs ==
    ASSUME NEW l, ListOk(l), NEW p \in 1 .. Len(l)
    PROVE  LET e == CA!Erased(l, p) IN
           /\ DOMAIN e = 1 .. Len(l) - 1 /\ Len(e) = Len(l) - 1
           /\ \A i \in 1 .. Len(l) - 1 : e[i] = IF i < p THEN l[i] ELSE l[i + 1]
           /\ (Len(l) = 1) <=> (e = <<>>)
           /\ Len(l) # 1 => ListOk(e)
<1>1. Len(l) \in Nat \ {0}
  BY DEF ListOk
<1> DEFINE e == CA!Erased(l, p)
<1>2. /\ DOMAIN e = 1 .. Len(l) - 1
      /\ \A i \in 1 .. Len(l) - 1 : e[i] = IF i < p THEN l[i] ELSE l[i + 1]
  BY DEF CA!Erased
<1>3. \A i \in 1 .. Len(l) - 1 : e[i] \in CA!Entry
  BY <1>1, <1>2 DEF ListOk
<1>4. e \in Seq(CA!Entry)
  <2>1. e \in [1 .. Len(l) - 1 -> CA!Entry]
    BY <1>2, <1>3 DEF CA!Erased
  <2>2. Len(l) - 1 \in Nat
    BY <1>1
  <2> QED BY <2>1, <2>2
<1>5. Len(e) = Len(l) - 1
  BY <1>1, <1>2, <1>4
<1>6. (Len(l) = 1) <=> (e = <<>>)
  BY <1>1, <1>4, <1>5, EmptySeq
<1> HIDE DEF e
<1>7. Len(l) # 1 => ListOk(e)
  BY <1>1, <1>2, <1>3, <1>4, <1>5 DEF ListOk
<1> QED BY <1>2, <1>5, <1>6, <1>7 DEF e

(* The lists without the entry at p of list f. *)
LeftIn(L, f) == IF Len(L[f]) = 1 THEN DOMAIN L \ {f} ELSE DOMAIN L
Left(L, f, p) == [g \in LeftIn(L, f) |-> IF g = f THEN CA!Erased(L[f], p) ELSE L[g]]

(* What taken_out leaves: the list without the entry at p, or no list. *)
LEMMA TakenOutIs ==
    ASSUME NEW L, NEW m, NEW N, Typed(L), Sorted(L, N),
           NEW f \in DOMAIN L, NEW p \in 1 .. Len(L[f])
    PROVE  LET t == CA!taken_out([lists |-> L, min |-> m], f, L[f][p].key)
           IN /\ t.lists = Left(L, f, p)
              /\ Len(L[f]) = 1 /\ f = m => t.min = CA!Least(LeftIn(L, f))
              /\ ~ (Len(L[f]) = 1 /\ f = m) => t.min = m
<1> DEFINE e == CA!Erased(L[f], p)
           c == [lists |-> [L EXCEPT ![f] = e], min |-> m]
           t == CA!taken_out([lists |-> L, min |-> m], f, L[f][p].key)
<1>1. t = CA!remove_empty_freq_list(c, f)
  BY AtIs DEF CA!taken_out
<1>2. (Len(L[f]) = 1) <=> (e = <<>>)
  BY ErasedIs DEF Typed
<1> HIDE DEF e
<1>3. /\ c.lists = [g \in DOMAIN L |-> IF g = f THEN e ELSE L[g]] /\ c.min = m
      /\ DOMAIN c.lists = DOMAIN L /\ c.lists[f] = e
  OBVIOUS
<1>4. CASE Len(L[f]) = 1
  <2>1. t = [lists |-> [g \in DOMAIN L \ {f} |-> c.lists[g]],
             min |-> IF f = m THEN CA!Least(DOMAIN L \ {f}) ELSE m]
    BY <1>1, <1>2, <1>3, <1>4 DEF CA!remove_empty_freq_list
  <2>2. [g \in DOMAIN L \ {f} |-> c.lists[g]]
            = [g \in DOMAIN L \ {f} |-> IF g = f THEN e ELSE L[g]]
    BY <1>3
  <2> QED BY <1>4, <2>1, <2>2 DEF e, Left, LeftIn
<1>5. CASE Len(L[f]) # 1
  <2>1. t = c
    BY <1>1, <1>2, <1>3, <1>5 DEF CA!remove_empty_freq_list
  <2> QED BY <1>3, <1>5, <2>1 DEF e, Left, LeftIn
<1> QED BY <1>4, <1>5

(* Nothing changes but for the key k. *)
SameBut(F, G, k) == \A j \in StoreKeys \ {k} : G[j] = F[j]
OrderBut(N, M, k) == \A a, b \in StoreKeys \ {k} : <<a, b>> \in N => <<a, b>> \in M

LEMMA LeastIsLeast ==
    ASSUME NEW F, F \subseteq 1 .. MaxFreq, NEW m \in F, \A g \in F : m <= g
    PROVE  CA!Least(F) = m
<1>1. MaxFreq \in Nat
  BY StoreAssumption
<1>2. CA!Least(F) \in F /\ CA!Least(F) <= m /\ m <= CA!Least(F)
  BY LeastOfThem
<1>3. \A x, y \in F : x <= y /\ y <= x => x = y
  BY <1>1
<1> QED BY <1>2, <1>3

LEMMA TakingOut ==
    ASSUME NEW L, NEW m, NEW P, NEW H, NEW N, Shelves(L, P, H, N),
           NEW k \in StoreKeys, P[k] # Absent, Absent \notin Nat,
           NEW Q, NEW G, NEW M, Q[k] = Absent, SameBut(P, Q, k), SameBut(H, G, k),
           OrderBut(N, M, k)
    PROVE  LET t == CA!taken_out([lists |-> L, min |-> m], P[k], k)
           IN /\ Shelves(t.lists, Q, G, M) /\ DOMAIN t.lists \subseteq DOMAIN L
              /\ m = CA!Least(DOMAIN L) => t.min = CA!Least(DOMAIN t.lists)
<1> DEFINE f == P[k]
           t == CA!taken_out([lists |-> L, min |-> m], f, k)
           D == LeftIn(L, f)
<1>1. PICK p \in 1 .. Len(L[f]) : L[f][p] = [key |-> k, value |-> H[k]]
  BY DEF Shelves, Kept
<1>2. f \in DOMAIN L /\ L[f][p].key = k
  BY <1>1 DEF Shelves, Kept
<1> DEFINE e == CA!Erased(L[f], p)
<1>3. /\ t.lists = Left(L, f, p)
      /\ Len(L[f]) = 1 /\ f = m => t.min = CA!Least(D)
      /\ ~ (Len(L[f]) = 1 /\ f = m) => t.min = m
  BY <1>2, TakenOutIs DEF Shelves
<1>4. /\ DOMAIN e = 1 .. Len(L[f]) - 1 /\ Len(e) = Len(L[f]) - 1
      /\ \A i \in 1 .. Len(L[f]) - 1 : e[i] = IF i < p THEN L[f][i] ELSE L[f][i + 1]
      /\ Len(L[f]) # 1 => ListOk(e)
  BY <1>2, ErasedIs DEF Shelves, Typed
<1>5. /\ \A g \in DOMAIN L : g \in 1 .. MaxFreq /\ ListOk(L[g]) /\ Len(L[g]) \in Nat \ {0}
      /\ MaxFreq \in Nat
  BY StoreAssumption DEF Shelves, Typed, ListOk
<1> HIDE DEF e, t
<1>6. /\ DOMAIN t.lists = D /\ D \subseteq DOMAIN L
      /\ \A g \in D : g # f => t.lists[g] = L[g]
      /\ f \in D => t.lists[f] = e /\ Len(L[f]) # 1
  BY <1>3 DEF Left, LeftIn, e
<1> HIDE DEF D
<1>7. Typed(t.lists)
  BY <1>4, <1>5, <1>6 DEF Typed
(* No other entry has the key. *)
<1>8. \A g \in DOMAIN L : \A i \in 1 .. Len(L[g]) :
          /\ L[g][i].key \in StoreKeys
          /\ L[g][i].key = k => g = f /\ i = p
  <2> SUFFICES ASSUME NEW g \in DOMAIN L, NEW i \in 1 .. Len(L[g])
               PROVE  /\ L[g][i].key \in StoreKeys
                      /\ L[g][i].key = k => g = f /\ i = p
    OBVIOUS
  <2>1. L[g][i].key \in StoreKeys
    BY DEF Shelves, Typed, ListOk, CA!Entry
  <2>2. L[g][i].key = k => g = f
    BY DEF Shelves, Placed
  <2>3. ASSUME L[g][i].key = k PROVE i = p
    <3>1. CA!At(L[f], k) = p
      BY <1>2, AtIs DEF Shelves
    <3>2. CA!At(L[f], k) = i
      BY <2>2, <2>3, <1>2, AtIs DEF Shelves
    <3> QED BY <3>1, <3>2
  <2> QED BY <2>1, <2>2, <2>3
(* Where an entry of e comes from. *)
<1>9. \A i \in 1 .. Len(L[f]) - 1 :
         \E j \in 1 .. Len(L[f]) : j # p /\ e[i] = L[f][j] /\ j = IF i < p THEN i ELSE i + 1
  <2> SUFFICES ASSUME NEW i \in 1 .. Len(L[f]) - 1
               PROVE  \E j \in 1 .. Len(L[f]) : j # p /\ e[i] = L[f][j] /\ j = IF i < p THEN i ELSE i + 1
    OBVIOUS
  <2>1. Len(L[f]) \in Nat
    BY <1>2, <1>5
  <2>2. CASE i < p
    BY <1>4, <2>1, <2>2
  <2>3. CASE ~ (i < p)
    <3>1. i + 1 \in 1 .. Len(L[f]) /\ i + 1 # p
      BY <2>1, <2>3
    <3> QED BY <1>4, <2>3, <3>1
  <2> QED BY <2>2, <2>3
<1>10. Placed(t.lists, Q)
  <2> SUFFICES ASSUME NEW g \in D, NEW i \in 1 .. Len(t.lists[g])
               PROVE  Q[t.lists[g][i].key] = g
    BY <1>6 DEF Placed
  <2>1. CASE g # f
    <3>1. t.lists[g] = L[g] /\ g \in DOMAIN L
      BY <1>6, <2>1
    <3>2. L[g][i].key \in StoreKeys \ {k} /\ P[L[g][i].key] = g
      BY <1>8, <2>1, <3>1 DEF Shelves, Placed
    <3> QED BY <3>1, <3>2 DEF SameBut
  <2>2. CASE g = f
    <3>1. t.lists[g] = e /\ i \in 1 .. Len(L[f]) - 1
      BY <1>4, <1>6, <2>2
    <3>2. PICK j \in 1 .. Len(L[f]) : j # p /\ e[i] = L[f][j]
      BY <1>9, <3>1
    <3>3. L[f][j].key \in StoreKeys \ {k} /\ P[L[f][j].key] = f
      BY <1>2, <1>8, <3>2 DEF Shelves, Placed
    <3> QED BY <2>2, <3>1, <3>2, <3>3 DEF SameBut
  <2> QED BY <2>1, <2>2
<1>11. Sorted(t.lists, M)
  <2> SUFFICES ASSUME NEW g \in D, NEW i \in 1 .. Len(t.lists[g]),
                      NEW j \in 1 .. Len(t.lists[g]), i < j
               PROVE  /\ t.lists[g][i].key # t.lists[g][j].key
                      /\ <<t.lists[g][i].key, t.lists[g][j].key>> \in M
    BY <1>6 DEF Sorted
  <2>1. CASE g # f
    <3>1. t.lists[g] = L[g] /\ g \in DOMAIN L
      BY <1>6, <2>1
    <3>2. L[g][i].key \in StoreKeys \ {k} /\ L[g][j].key \in StoreKeys \ {k}
      BY <1>8, <2>1, <3>1
    <3>3. /\ L[g][i].key # L[g][j].key
          /\ <<L[g][i].key, L[g][j].key>> \in N
      BY <3>1 DEF Shelves, Sorted
    <3> QED BY <3>1, <3>2, <3>3 DEF OrderBut
  <2>2. CASE g = f
    <3>1. t.lists[g] = e /\ i \in 1 .. Len(L[f]) - 1 /\ j \in 1 .. Len(L[f]) - 1
      BY <1>4, <1>6, <2>2
    <3>2. PICK a \in 1 .. Len(L[f]) : a # p /\ e[i] = L[f][a] /\ a = IF i < p THEN i ELSE i + 1
      BY <1>9, <3>1
    <3>3. PICK b \in 1 .. Len(L[f]) : b # p /\ e[j] = L[f][b] /\ b = IF j < p THEN j ELSE j + 1
      BY <1>9, <3>1
    <3>4. a < b
      BY <3>1, <3>2, <3>3
    <3>5. L[f][a].key \in StoreKeys \ {k} /\ L[f][b].key \in StoreKeys \ {k}
      BY <1>2, <1>8, <3>2, <3>3
    <3>6. /\ L[f][a].key # L[f][b].key
          /\ <<L[f][a].key, L[f][b].key>> \in N
      BY <1>2, <3>4 DEF Shelves, Sorted
    <3> QED BY <2>2, <3>1, <3>2, <3>3, <3>5, <3>6 DEF OrderBut
  <2> QED BY <2>1, <2>2
<1>12. Kept(t.lists, Q, G)
  <2> SUFFICES ASSUME NEW j \in StoreKeys, Q[j] # Absent
               PROVE  /\ Q[j] \in DOMAIN t.lists
                      /\ \E i \in 1 .. Len(t.lists[Q[j]]) :
                            t.lists[Q[j]][i] = [key |-> j, value |-> G[j]]
    BY DEF Kept
  <2>1. j # k /\ Q[j] = P[j] /\ G[j] = H[j]
    BY DEF SameBut
  <2>2. PICK a \in 1 .. Len(L[P[j]]) : L[P[j]][a] = [key |-> j, value |-> H[j]]
    BY <2>1 DEF Shelves, Kept
  <2>3. P[j] \in DOMAIN L /\ L[P[j]][a].key = j
    BY <2>1, <2>2 DEF Shelves, Kept
  <2>4. CASE P[j] # f
    <3>1. P[j] \in D
      BY <2>3, <2>4 DEF D, LeftIn
    <3> QED BY <1>6, <2>1, <2>2, <2>4, <3>1
  <2>5. CASE P[j] = f
    <3>1. a # p
      BY <1>2, <2>1, <2>3, <2>5
    <3>2. Len(L[f]) # 1 /\ Len(L[f]) \in Nat /\ a \in Nat /\ p \in Nat
      <4>1. Len(L[f]) \in Nat
        BY <1>2, <1>5
      <4>2. a \in 1 .. Len(L[f])
        BY <2>5
      <4>3. \A n \in Nat : \A x, y \in 1 .. n : x # y => n # 1 /\ x \in Nat /\ y \in Nat
        OBVIOUS
      <4> QED BY <3>1, <4>1, <4>2, <4>3
    <3>3. f \in D
      BY <1>2, <3>2 DEF D, LeftIn
    <3>4. CASE a < p
      <4>1. a \in 1 .. Len(L[f]) - 1
        BY <3>2, <3>4, <2>5
      <4>2. e[a] = L[f][a]
        BY <1>4, <3>4, <4>1
      <4> QED BY <1>4, <1>6, <2>1, <2>2, <2>5, <3>3, <4>1, <4>2
    <3>5. CASE ~ (a < p)
      <4>1. a - 1 \in 1 .. Len(L[f]) - 1 /\ ~ (a - 1 < p) /\ (a - 1) + 1 = a
        BY <3>1, <3>2, <3>5, <2>5
      <4>2. e[a - 1] = L[f][a]
        BY <1>4, <4>1
      <4> QED BY <1>4, <1>6, <2>1, <2>2, <2>5, <3>3, <4>1, <4>2
    <3> QED BY <3>4, <3>5
  <2> QED BY <2>4, <2>5
<1>13. m = CA!Least(DOMAIN L) => t.min = CA!Least(D)
  <2> SUFFICES ASSUME m = CA!Least(DOMAIN L) PROVE t.min = CA!Least(D)
    OBVIOUS
  <2>1. m \in DOMAIN L /\ \A g \in DOMAIN L : m <= g
    BY <1>2, <1>5, LeastOfThem
  <2>2. CASE Len(L[f]) # 1
    BY <1>3, <2>2 DEF D, LeftIn
  <2>3. CASE Len(L[f]) = 1 /\ f = m
    BY <1>3, <2>3
  <2>4. CASE Len(L[f]) = 1 /\ f # m
    <3>1. m \in D /\ (\A g \in D : m <= g) /\ D \subseteq 1 .. MaxFreq
      BY <1>5, <2>1, <2>4 DEF D, LeftIn
    <3> QED BY <1>3, <2>4, <3>1, LeastIsLeast
  <2> QED BY <2>2, <2>3, <2>4
<1> QED BY <1>6, <1>7, <1>10, <1>11, <1>12, <1>13 DEF Shelves, t

LEMMA InFront ==
    ASSUME NEW e \in CA!Entry, NEW old \in Seq(CA!Entry)
    PROVE  LET l == <<e>> \o old IN
           /\ ListOk(l) /\ Len(l) = Len(old) + 1 /\ l[1] = e
           /\ \A i \in 2 .. Len(old) + 1 : l[i] = old[i - 1]
<1> DEFINE l == <<e>> \o old
<1>1. /\ l \in Seq(CA!Entry) /\ Len(l) = Len(old) + 1 /\ Len(old) \in Nat
      /\ l[1] = e
  OBVIOUS
<1>2. \A i \in 2 .. Len(old) + 1 : l[i] = old[i - 1]
  OBVIOUS
<1>3. DOMAIN l = 1 .. Len(l) /\ \A i \in 1 .. Len(l) : l[i] \in CA!Entry
  BY <1>1
<1> HIDE DEF l
<1> QED BY <1>1, <1>2, <1>3 DEF ListOk, l


(* k before every other key that P places. *)
FirstIn(M, P, k) == \A j \in StoreKeys : P[j] # Absent => <<k, j>> \in M

(* Q, G and M are P, H and N with k placed in list f, with v, before all. *)
Adds(P, Q, H, G, N, M, k, f, v) ==
    /\ P[k] = Absent /\ Q[k] = f /\ SameBut(P, Q, k)
    /\ G[k] = v /\ SameBut(H, G, k)
    /\ OrderBut(N, M, k) /\ FirstIn(M, P, k)

LEMMA PuttingInFront ==
    ASSUME NEW c, NEW P, NEW H, NEW N, Shelves(c.lists, P, H, N),
           NEW f \in 1 .. MaxFreq, NEW e \in CA!Entry,
           Absent \notin Nat, NEW Q, NEW G, NEW M, Adds(P, Q, H, G, N, M, e.key, f, e.value)
    PROVE  Shelves(CA!put_in_front(c, f, e).lists, Q, G, M)
<1> DEFINE k == e.key
           v == e.value
           t == CA!put_in_front(c, f, e)
           old == IF f \in DOMAIN c.lists THEN c.lists[f] ELSE <<>>
           l == <<e>> \o old
<1> USE DEF Adds
<1>1. PICK L : L = c.lists
  OBVIOUS
<1>2. e = [key |-> k, value |-> v] /\ k \in StoreKeys /\ v \in Values
  BY DEF CA!Entry
<1>3. /\ old \in Seq(CA!Entry)
      /\ f \in DOMAIN L => old = L[f]
      /\ f \notin DOMAIN L => Len(old) = 0
  BY <1>1 DEF Shelves, Typed, ListOk
<1> HIDE DEF old
<1>4. /\ ListOk(l) /\ Len(l) = Len(old) + 1 /\ l[1] = e /\ Len(old) \in Nat
      /\ \A i \in 2 .. Len(old) + 1 : l[i] = old[i - 1]
  BY <1>2, <1>3, InFront
<1>5. /\ t.lists = [g \in DOMAIN L \cup {f} |-> IF g = f THEN l ELSE L[g]]
      /\ t.min = c.min
  BY <1>1 DEF CA!put_in_front, old
<1> HIDE DEF l, t
<1>6. /\ DOMAIN t.lists = DOMAIN L \cup {f} /\ t.lists[f] = l
      /\ \A g \in DOMAIN L : g # f => t.lists[g] = L[g]
  BY <1>5
<1>7. Shelves(L, P, H, N)
  BY <1>1
<1>8. Typed(t.lists)
  BY <1>4, <1>6, <1>7 DEF Shelves, Typed
<1>9. \A g \in DOMAIN L : \A i \in 1 .. Len(L[g]) :
          /\ L[g][i].key \in StoreKeys \ {k} /\ P[L[g][i].key] = g
          /\ Q[L[g][i].key] = g /\ <<k, L[g][i].key>> \in M
  <2> SUFFICES ASSUME NEW g \in DOMAIN L, NEW i \in 1 .. Len(L[g])
               PROVE  /\ L[g][i].key \in StoreKeys \ {k} /\ P[L[g][i].key] = g
                      /\ Q[L[g][i].key] = g /\ <<k, L[g][i].key>> \in M
    OBVIOUS
  <2>1. L[g][i].key \in StoreKeys /\ P[L[g][i].key] = g
    BY <1>7 DEF Shelves, Typed, Placed, ListOk, CA!Entry
  <2>2. g # Absent
    BY <1>7, StoreAssumption DEF Shelves, Typed
  <2> QED BY <2>1, <2>2 DEF SameBut, FirstIn
(* The entries of l. *)
<1>10. \A i \in 1 .. Len(l) :
          \/ i = 1 /\ l[i] = e
          \/ i # 1 /\ f \in DOMAIN L /\ i - 1 \in 1 .. Len(L[f]) /\ l[i] = L[f][i - 1]
  <2> SUFFICES ASSUME NEW i \in 1 .. Len(l), i # 1
               PROVE  f \in DOMAIN L /\ i - 1 \in 1 .. Len(L[f]) /\ l[i] = L[f][i - 1]
    BY <1>4
  <2>1. i \in 2 .. Len(old) + 1 /\ i - 1 \in 1 .. Len(old) /\ Len(old) # 0
    BY <1>4
  <2> QED BY <1>3, <1>4, <2>1
<1>11. Placed(t.lists, Q)
  <2> SUFFICES ASSUME NEW g \in DOMAIN L \cup {f}, NEW i \in 1 .. Len(t.lists[g])
               PROVE  Q[t.lists[g][i].key] = g
    BY <1>6 DEF Placed
  <2>1. CASE g # f
    BY <1>6, <1>9, <2>1
  <2>2. CASE g = f
    <3>1. t.lists[g] = l /\ i \in 1 .. Len(l)
      BY <1>6, <2>2
    <3>2. CASE l[i] = e
      BY <1>2, <2>2, <3>1, <3>2
    <3>3. CASE f \in DOMAIN L /\ i - 1 \in 1 .. Len(L[f]) /\ l[i] = L[f][i - 1]
      <4>1. Q[L[f][i - 1].key] = f
        BY <1>9, <3>3
      <4> QED BY <2>2, <3>1, <3>3, <4>1
    <3> QED BY <1>10, <3>1, <3>2, <3>3
  <2> QED BY <2>1, <2>2
<1>12. Sorted(t.lists, M)
  <2> SUFFICES ASSUME NEW g \in DOMAIN L \cup {f}, NEW i \in 1 .. Len(t.lists[g]),
                      NEW j \in 1 .. Len(t.lists[g]), i < j
               PROVE  /\ t.lists[g][i].key # t.lists[g][j].key
                      /\ <<t.lists[g][i].key, t.lists[g][j].key>> \in M
    BY <1>6 DEF Sorted
  <2>1. \A h \in DOMAIN L : \A a, b \in 1 .. Len(L[h]) : a < b =>
            L[h][a].key # L[h][b].key /\ <<L[h][a].key, L[h][b].key>> \in M
    <3> SUFFICES ASSUME NEW h \in DOMAIN L, NEW a \in 1 .. Len(L[h]),
                        NEW b \in 1 .. Len(L[h]), a < b
                 PROVE  L[h][a].key # L[h][b].key /\ <<L[h][a].key, L[h][b].key>> \in M
      OBVIOUS
    <3>1. L[h][a].key # L[h][b].key /\ <<L[h][a].key, L[h][b].key>> \in N
      BY <1>7 DEF Shelves, Sorted
    <3>2. L[h][a].key \in StoreKeys \ {k} /\ L[h][b].key \in StoreKeys \ {k}
      BY <1>9
    <3> QED BY <3>1, <3>2 DEF OrderBut
  <2>2. CASE g # f
    BY <1>6, <2>1, <2>2
  <2>3. CASE g = f
    <3>1. t.lists[g] = l /\ i \in 1 .. Len(l) /\ j \in 1 .. Len(l) /\ j # 1
      BY <1>4, <1>6, <2>3
    <3>2. f \in DOMAIN L /\ j - 1 \in 1 .. Len(L[f]) /\ l[j] = L[f][j - 1]
      BY <1>10, <3>1
    <3>3. CASE i = 1
      <4>1. l[i].key = k
        BY <1>2, <1>4, <3>3
      <4> QED BY <1>9, <3>1, <3>2, <4>1
    <3>4. CASE i # 1
      <4>1. i - 1 \in 1 .. Len(L[f]) /\ l[i] = L[f][i - 1]
        BY <1>10, <3>1, <3>4
      <4>2. i - 1 < j - 1
        BY <1>4, <3>1
      <4> QED BY <2>1, <3>1, <3>2, <4>1, <4>2
    <3> QED BY <3>3, <3>4
  <2> QED BY <2>2, <2>3
<1>13. Kept(t.lists, Q, G)
  <2> SUFFICES ASSUME NEW j \in StoreKeys, Q[j] # Absent
               PROVE  /\ Q[j] \in DOMAIN t.lists
                      /\ \E i \in 1 .. Len(t.lists[Q[j]]) :
                            t.lists[Q[j]][i] = [key |-> j, value |-> G[j]]
    BY DEF Kept
  <2>1. CASE j = k
    <3>1. 1 \in 1 .. Len(l) /\ l[1] = [key |-> j, value |-> G[j]]
      BY <1>2, <1>4, <2>1
    <3> QED BY <1>6, <2>1, <3>1
  <2>2. CASE j # k
    <3>1. Q[j] = P[j] /\ G[j] = H[j]
      BY <2>2 DEF SameBut
    <3>2. PICK a \in 1 .. Len(L[P[j]]) : L[P[j]][a] = [key |-> j, value |-> H[j]]
      BY <1>7, <3>1 DEF Shelves, Kept
    <3>3. P[j] \in DOMAIN L
      BY <1>7, <3>1 DEF Shelves, Kept
    <3>4. CASE P[j] # f
      BY <1>6, <3>1, <3>2, <3>3, <3>4
    <3>5. CASE P[j] = f
      <4>1. old = L[f] /\ Len(L[f]) \in Nat
        BY <1>3, <1>4, <3>3, <3>5
      <4>2. a + 1 \in 2 .. Len(old) + 1 /\ (a + 1) - 1 = a /\ a + 1 \in 1 .. Len(l)
        BY <1>4, <3>5, <4>1
      <4>3. l[a + 1] = [key |-> j, value |-> H[j]]
        BY <1>4, <3>2, <3>5, <4>1, <4>2
      <4> QED BY <1>6, <3>1, <3>5, <4>2, <4>3
    <3> QED BY <3>4, <3>5
  <2> QED BY <2>1, <2>2
<1> QED BY <1>1, <1>5, <1>6, <1>8, <1>11, <1>12, <1>13 DEF Shelves, t

-----------------------------------------------------------------------------
(* The keys that P places. *)
KeysOf(P) == {k \in StoreKeys : P[k] # Absent}
Counted(P, U) == \A k \in StoreKeys : P[k] # Absent => U[k] = P[k]

LfuTyped(P, H, U, N) ==
    /\ P \in [StoreKeys -> 1 .. MaxFreq \cup {Absent}]
    /\ H \in [StoreKeys -> Values \cup {Absent}]
    /\ U \in [StoreKeys -> 0 .. MaxFreq]
    /\ N \subseteq StoreKeys \X StoreKeys

LfuOk(L, P, m, H, U, N) ==
    /\ Shelves(L, P, H, N) /\ m = CA!Least(DOMAIN L)
    /\ LfuTyped(P, H, U, N) /\ Counted(P, U)
    /\ Cardinality(KeysOf(P)) <= StoreCapacity

LEMMA SameCountInTheCache == \A S : CA!Cardinality(S) = Cardinality(S)
  BY DEF CA!Cardinality, Cardinality

LEMMA CachedIs == CA!Cached = KeysOf(s2) /\ CA!Cached' = KeysOf(s2')
  BY DEF CA!Cached, KeysOf, CA!Present

LEMMA KeysCounted ==
    ASSUME NEW P, NEW Q, NEW k \in StoreKeys, SameBut(P, Q, k)
    PROVE  /\ IsFiniteSet(KeysOf(P)) /\ Cardinality(KeysOf(P)) \in Nat
           /\ Q[k] = Absent => Cardinality(KeysOf(Q)) = Cardinality(KeysOf(P) \ {k})
           /\ P[k] # Absent /\ Q[k] # Absent => KeysOf(Q) = KeysOf(P)
           /\ P[k] = Absent /\ Q[k] # Absent =>
                 Cardinality(KeysOf(Q)) = Cardinality(KeysOf(P)) + 1
           /\ P[k] # Absent /\ Q[k] = Absent =>
                 Cardinality(KeysOf(Q)) = Cardinality(KeysOf(P)) - 1
<1>1. IsFiniteSet(KeysOf(P))
  BY StoreAssumption, FS_Subset DEF KeysOf
<1>2. Q[k] = Absent => KeysOf(Q) = KeysOf(P) \ {k}
  BY DEF KeysOf, SameBut
<1>3. P[k] # Absent /\ Q[k] # Absent => KeysOf(Q) = KeysOf(P)
  BY DEF KeysOf, SameBut
<1>4. P[k] = Absent /\ Q[k] # Absent => KeysOf(Q) = KeysOf(P) \cup {k} /\ k \notin KeysOf(P)
  BY DEF KeysOf, SameBut
<1>5. P[k] # Absent => k \in KeysOf(P)
  BY DEF KeysOf
<1> QED BY <1>1, <1>2, <1>3, <1>4, <1>5, FS_CardinalityType, FS_AddElement, FS_RemoveElement

LEMMA LfuHolds ==
    ASSUME LfuOk(s1, s2, s3, s4, s5, s6), Absent \notin Nat
    PROVE  CA!LFUCache_TypeOK /\ CA!ListsMatchTheMap /\ CA!PutSucceeds
<1>1. /\ Shelves(s1, s2, s4, s6) /\ s3 = CA!Least(DOMAIN s1) /\ LfuTyped(s2, s4, s5, s6)
      /\ Cardinality(KeysOf(s2)) <= StoreCapacity
      /\ MaxFreq \in Nat /\ StoreCapacity \in Nat \ {0}
  BY StoreAssumption DEF LfuOk
<1>2. DOMAIN s1 \subseteq 1 .. MaxFreq /\ \A f \in DOMAIN s1 : s1[f] \in Seq(CA!Entry)
  BY <1>1 DEF Shelves, Typed, ListOk
<1>3. s3 \in 0 .. MaxFreq
  <2>1. CASE DOMAIN s1 = {}
    BY <1>1, <1>2, <2>1, LeastOfThem
  <2>2. CASE DOMAIN s1 # {}
    <3>1. s3 \in DOMAIN s1
      BY <1>1, <1>2, <2>2, LeastOfThem
    <3> QED BY <1>1, <1>2, <3>1
  <2> QED BY <2>1, <2>2
<1>4. CA!LFUCache_TypeOK
  BY <1>1, <1>2, <1>3 DEF CA!LFUCache_TypeOK, LfuTyped
<1>5. \A f \in DOMAIN s1 :
          /\ s1[f] # <<>>
          /\ \A i \in DOMAIN s1[f] :
                s2[s1[f][i].key] = f /\ CA!At(s1[f], s1[f][i].key) = i
  <2> SUFFICES ASSUME NEW f \in DOMAIN s1
               PROVE  /\ s1[f] # <<>>
                      /\ \A i \in DOMAIN s1[f] :
                            s2[s1[f][i].key] = f /\ CA!At(s1[f], s1[f][i].key) = i
    OBVIOUS
  <2>1. ListOk(s1[f])
    BY <1>1 DEF Shelves, Typed
  <2>2. s1[f] # <<>> /\ DOMAIN s1[f] = 1 .. Len(s1[f])
    BY <2>1, EmptySeq DEF ListOk
  <2>3. \A i \in 1 .. Len(s1[f]) : s2[s1[f][i].key] = f
    BY <1>1 DEF Shelves, Placed
  <2>4. \A i \in 1 .. Len(s1[f]) : CA!At(s1[f], s1[f][i].key) = i
    BY <1>1, AtIs DEF Shelves
  <2> QED BY <2>2, <2>3, <2>4
<1>6. \A k \in CA!Cached : s2[k] \in DOMAIN s1 /\ CA!EntryOf(k) = [key |-> k, value |-> s4[k]]
  <2> SUFFICES ASSUME NEW k \in StoreKeys, s2[k] # Absent
               PROVE  s2[k] \in DOMAIN s1 /\ CA!EntryOf(k) = [key |-> k, value |-> s4[k]]
    BY DEF CA!Cached, CA!Present
  <2>1. PICK i \in 1 .. Len(s1[s2[k]]) : s1[s2[k]][i] = [key |-> k, value |-> s4[k]]
    BY <1>1 DEF Shelves, Kept
  <2>2. s2[k] \in DOMAIN s1 /\ s1[s2[k]][i].key = k
    BY <1>1, <2>1 DEF Shelves, Kept
  <2>3. CA!At(s1[s2[k]], k) = i
    BY <1>1, <2>2, AtIs DEF Shelves
  <2> QED BY <2>1, <2>2, <2>3 DEF CA!EntryOf
<1>7. CA!Cardinality(CA!Cached) = Cardinality(KeysOf(s2))
  BY CachedIs, SameCountInTheCache
<1>8. CA!ListsMatchTheMap
  BY <1>1, <1>5, <1>6, <1>7 DEF CA!ListsMatchTheMap
<1>9. CA!PutSucceeds
  <2> SUFFICES ASSUME CA!Cardinality(CA!Cached) >= StoreCapacity PROVE s3 \in DOMAIN s1
    BY DEF CA!PutSucceeds
  <2>1. KeysOf(s2) # {}
    BY <1>1, <1>7, FS_EmptySet
  <2>2. DOMAIN s1 # {}
    BY <1>1, <2>1 DEF Shelves, Kept, KeysOf
  <2> QED BY <1>1, <1>2, <2>2, LeastOfThem
<1> QED BY <1>4, <1>8, <1>9

-----------------------------------------------------------------------------
LEMMA LeastWith ==
    ASSUME NEW F, F \subseteq 1 .. MaxFreq, NEW f \in 1 .. MaxFreq
    PROVE  /\ CA!Least(F) = 0 \/ f < CA!Least(F) => CA!Least(F \cup {f}) = f
           /\ ~ (CA!Least(F) = 0 \/ f < CA!Least(F)) => CA!Least(F \cup {f}) = CA!Least(F)
<1>1. MaxFreq \in Nat /\ F \cup {f} \subseteq 1 .. MaxFreq /\ f \in F \cup {f}
  BY StoreAssumption
<1>2. CASE F = {}
  <2>1. \A g \in F \cup {f} : f <= g
    BY <1>1, <1>2
  <2> QED BY <1>1, <1>2, <2>1, LeastOfThem, LeastIsLeast
<1>3. CASE F # {}
  <2>1. PICK m \in F : m = CA!Least(F) /\ \A g \in F : m <= g
    BY <1>3, LeastOfThem
  <2>2. m \in Nat \ {0} /\ f \in Nat /\ \A g \in F : g \in Nat
    BY <1>1
  <2>3. CASE f < m
    <3>1. \A g \in F \cup {f} : f <= g
      BY <2>1, <2>2, <2>3
    <3> QED BY <1>1, <2>1, <2>3, <3>1, LeastIsLeast
  <2>4. CASE ~ (f < m)
    <3>1. m \in F \cup {f} /\ \A g \in F \cup {f} : m <= g
      BY <2>1, <2>2, <2>4
    <3> QED BY <1>1, <2>1, <2>2, <2>4, <3>1, LeastIsLeast
  <2> QED BY <2>3, <2>4
<1> QED BY <1>2, <1>3

LEMMA PairOf ==
    ASSUME NEW c, NEW f, NEW e, NEW m
    PROVE  LET t == CA!put_in_front(c, f, e)
           IN /\ [t EXCEPT !.min = m].lists = t.lists /\ [t EXCEPT !.min = m].min = m
              /\ DOMAIN t.lists = DOMAIN c.lists \cup {f} /\ t.min = c.min
  BY DEF CA!put_in_front

(* The history of uses when k is used, and when keys are dropped. *)
NewerWith(k, K) == CA!Without(K) \cup {<<k, j>> : j \in CA!Cached \ K}
OrderOutside(N, M, K) == \A a, b \in StoreKeys \ K : <<a, b>> \in N => <<a, b>> \in M
FirstOutside(M, k, K) == \A j \in StoreKeys \ K : s2[j] # Absent => <<k, j>> \in M

LEMMA TouchIs ==
    ASSUME NEW k \in StoreKeys, s6 \subseteq StoreKeys \X StoreKeys, NEW K
    PROVE  /\ NewerWith(k, K) \subseteq StoreKeys \X StoreKeys
           /\ CA!Without(K) \subseteq NewerWith(k, K)
           /\ CA!Without(K) \subseteq s6
           /\ FirstOutside(NewerWith(k, K), k, K)
           /\ OrderOutside(s6, CA!Without(K), K)
<1>1. CA!Cached \subseteq StoreKeys /\ \A j \in StoreKeys : s2[j] # Absent => j \in CA!Cached
  BY DEF CA!Cached, CA!Present
<1>2. CA!Without(K) \subseteq s6
  BY DEF CA!Without
<1>3. \A a, b \in StoreKeys \ K : <<a, b>> \in s6 => <<a, b>> \in CA!Without(K)
  BY DEF CA!Without
<1>4. {<<k, j>> : j \in CA!Cached \ K} \subseteq StoreKeys \X StoreKeys
  BY <1>1
<1>5. \A j \in StoreKeys \ K : s2[j] # Absent => <<k, j>> \in {<<k, i>> : i \in CA!Cached \ K}
  BY <1>1
<1>6. FirstOutside(NewerWith(k, K), k, K)
  BY <1>5 DEF FirstOutside, NewerWith
<1> QED BY <1>2, <1>3, <1>4, <1>6 DEF OrderOutside, NewerWith

LEMMA LfuUse ==
    ASSUME LfuOk(s1, s2, s3, s4, s5, s6), Absent \notin Nat, NEW k \in StoreKeys,
           NEW v \in Values, CA!Use(k, [key |-> k, value |-> v])
    PROVE  LfuOk(s1', s2', s3', s4', s5', s6') /\ KeysOf(s2') = KeysOf(s2)
<1> DEFINE e == [key |-> k, value |-> v]
           f == s2[k] + 1
           t == CA!taken_out(CA!Lists, s2[k], k)
           u == CA!put_in_front(t, f, e)
           P == [s2 EXCEPT ![k] = Absent]
           N == CA!Without({k})
<1>1. /\ Shelves(s1, s2, s4, s6) /\ s3 = CA!Least(DOMAIN s1) /\ LfuTyped(s2, s4, s5, s6)
      /\ Counted(s2, s5) /\ Cardinality(KeysOf(s2)) <= StoreCapacity /\ MaxFreq \in Nat
  BY StoreAssumption DEF LfuOk
<1>2. /\ s2[k] # Absent /\ s2[k] < MaxFreq
      /\ s1' = CA!update_frequency(CA!Lists, k, e).lists
      /\ s3' = CA!update_frequency(CA!Lists, k, e).min
      /\ s2' = [s2 EXCEPT ![k] = f] /\ s4' = [s4 EXCEPT ![k] = e.value]
      /\ s5' = [s5 EXCEPT ![k] = @ + 1] /\ CA!Touch(k)
  BY DEF CA!Use, CA!Present, CA!SetLists
<1>3. s2[k] \in 1 .. MaxFreq /\ f \in 1 .. MaxFreq /\ f # Absent
  BY <1>1, <1>2 DEF LfuTyped
<1>4. /\ P[k] = Absent /\ SameBut(s2, P, k) /\ SameBut(P, s2', k)
      /\ SameBut(s4, s4, k) /\ SameBut(s4, s4', k) /\ s4'[k] = v /\ s2'[k] = f
  BY <1>1, <1>2 DEF LfuTyped, SameBut
<1>5. /\ s6' \subseteq StoreKeys \X StoreKeys
      /\ OrderBut(s6, N, k) /\ OrderBut(N, s6', k) /\ FirstIn(s6', P, k)
  <2>1. s6' = NewerWith(k, {k})
    BY <1>2 DEF CA!Touch, NewerWith
  <2>2. /\ s6' \subseteq StoreKeys \X StoreKeys /\ N \subseteq s6'
        /\ FirstOutside(s6', k, {k}) /\ OrderOutside(s6, N, {k})
    BY <1>1, <2>1, TouchIs DEF LfuTyped
  <2> HIDE DEF N
  <2>3. FirstIn(s6', P, k)
    BY <1>1, <2>2 DEF FirstIn, FirstOutside, LfuTyped
  <2> QED BY <2>2, <2>3 DEF OrderBut, OrderOutside
<1>6. /\ Shelves(t.lists, P, s4, N) /\ t.min = CA!Least(DOMAIN t.lists)
      /\ DOMAIN t.lists \subseteq DOMAIN s1
  <2>1. CA!Lists = [lists |-> s1, min |-> s3]
    BY DEF CA!Lists
  <2> HIDE DEF P, N
  <2> QED BY <1>1, <1>2, <1>4, <1>5, <2>1, TakingOut
<1>7. /\ Shelves(u.lists, s2', s4', s6')
      /\ DOMAIN u.lists = DOMAIN t.lists \cup {f} /\ u.min = t.min
  <2>1. Adds(P, s2', s4, s4', N, s6', e.key, f, e.value)
    <3> HIDE DEF P, N, f
    <3> QED BY <1>4, <1>5 DEF Adds
  <2>2. e \in CA!Entry
    BY DEF CA!Entry
  <2> HIDE DEF P, N, t, f, e
  <2>3. Shelves(u.lists, s2', s4', s6')
    BY <1>3, <1>6, <2>1, <2>2, PuttingInFront
  <2> QED BY <2>3, PairOf
<1>8. s1' = u.lists /\ s3' = IF u.min = 0 \/ f < u.min THEN f ELSE u.min
  BY <1>2, PairOf DEF CA!update_frequency
<1>9. DOMAIN t.lists \subseteq 1 .. MaxFreq
  BY <1>1, <1>6 DEF Shelves, Typed
<1>10. s3' = CA!Least(DOMAIN s1')
  BY <1>3, <1>6, <1>7, <1>8, <1>9, LeastWith
<1>11. LfuTyped(s2', s4', s5', s6') /\ Counted(s2', s5')
  <2>1. s5[k] = s2[k]
    BY <1>1, <1>2 DEF Counted
  <2> QED BY <1>1, <1>2, <1>3, <1>5, <2>1 DEF LfuTyped, Counted
<1>12. KeysOf(s2') = KeysOf(s2)
  <2>1. SameBut(s2, s2', k)
    BY <1>4 DEF SameBut
  <2> QED BY <1>2, <1>3, <1>4, <2>1, KeysCounted
<1> QED BY <1>1, <1>7, <1>8, <1>10, <1>11, <1>12 DEF LfuOk

(* A new key, put after the keys of K were dropped. *)
LEMMA LfuPutNew ==
    ASSUME NEW c, NEW K, NEW k \in StoreKeys, NEW v \in Values, CA!PutNew(c, K, k, v),
           NEW P, P = [j \in StoreKeys |-> IF j \in K THEN Absent ELSE s2[j]],
           Absent \notin Nat, s2[k] = Absent, Shelves(c.lists, P, s4, CA!Without(K)),
           LfuTyped(s2, s4, s5, s6), Counted(s2, s5),
           Cardinality(KeysOf(P)) < StoreCapacity
    PROVE  /\ LfuOk(s1', s2', s3', s4', s5', s6')
           /\ s2' = [P EXCEPT ![k] = 1]
<1> DEFINE e == [key |-> k, value |-> v]
           u == CA!put_in_front(c, 1, e)
           N == CA!Without(K)
<1>1. /\ s1' = [u EXCEPT !.min = 1].lists /\ s3' = [u EXCEPT !.min = 1].min
      /\ s2' = [P EXCEPT ![k] = 1] /\ s6' = NewerWith(k, K)
      /\ s5' = [[j \in StoreKeys |-> IF j \in K THEN 0 ELSE s5[j]] EXCEPT ![k] = 1]
      /\ s4' = [[j \in StoreKeys |-> IF j \in K THEN Absent ELSE s4[j]] EXCEPT ![k] = v]
  BY DEF CA!PutNew, CA!SetLists, NewerWith
<1>2. MaxFreq \in Nat \ {0} /\ 1 \in 1 .. MaxFreq /\ 1 # Absent /\ StoreCapacity \in Nat
  BY StoreAssumption
<1>3. s1' = u.lists /\ s3' = 1 /\ DOMAIN s1' = DOMAIN c.lists \cup {1}
  BY <1>1, PairOf
<1>4. /\ s6' \subseteq StoreKeys \X StoreKeys
      /\ OrderBut(N, s6', k) /\ FirstIn(s6', P, k)
  <2>1. s6' \subseteq StoreKeys \X StoreKeys /\ N \subseteq s6' /\ FirstOutside(s6', k, K)
    BY <1>1, TouchIs DEF LfuTyped
  <2>2. FirstIn(s6', P, k)
    BY <2>1 DEF FirstIn, FirstOutside
  <2> QED BY <2>1, <2>2 DEF OrderBut
<1>5. PICK H : H = [j \in StoreKeys |-> IF j \in K THEN Absent ELSE s4[j]]
  OBVIOUS
(* The values of the keys that were dropped do not matter. *)
<1>6. Shelves(c.lists, P, H, N)
  <2>1. \A j \in StoreKeys : P[j] # Absent => H[j] = s4[j]
    BY <1>5
  <2>2. Kept(c.lists, P, H)
    BY <2>1 DEF Shelves, Kept
  <2> QED BY <2>2 DEF Shelves
<1>7. P[k] = Absent /\ SameBut(P, s2', k) /\ SameBut(H, s4', k) /\ s2'[k] = 1 /\ s4'[k] = v
  <2>1. s4' = [H EXCEPT ![k] = v]
    BY <1>1, <1>5
  <2> QED BY <1>1, <1>5, <2>1 DEF SameBut
<1>8. Shelves(u.lists, s2', s4', s6')
  <2>1. Adds(P, s2', H, s4', N, s6', e.key, 1, e.value)
    <3> HIDE DEF N
    <3> QED BY <1>4, <1>7 DEF Adds
  <2>2. e \in CA!Entry
    BY DEF CA!Entry
  <2> HIDE DEF N, e
  <2> QED BY <1>2, <1>6, <2>1, <2>2, PuttingInFront
<1>9. s3' = CA!Least(DOMAIN s1')
  <2>1. DOMAIN s1' \subseteq 1 .. MaxFreq /\ 1 \in DOMAIN s1' /\ \A g \in DOMAIN s1' : 1 <= g
    BY <1>2, <1>3, <1>8 DEF Shelves, Typed
  <2> QED BY <1>3, <2>1, LeastIsLeast
<1>10. LfuTyped(s2', s4', s5', s6') /\ Counted(s2', s5')
  <2>1. s2' \in [StoreKeys -> 1 .. MaxFreq \cup {Absent}]
    BY <1>1, <1>2 DEF LfuTyped
  <2>2. s4' \in [StoreKeys -> Values \cup {Absent}]
    BY <1>1 DEF LfuTyped
  <2>3. s5' \in [StoreKeys -> 0 .. MaxFreq]
    BY <1>1, <1>2 DEF LfuTyped
  <2>4. Counted(s2', s5')
    <3> SUFFICES ASSUME NEW j \in StoreKeys, s2'[j] # Absent PROVE s5'[j] = s2'[j]
      BY DEF Counted
    <3> QED BY <1>1 DEF Counted
  <2> QED BY <1>4, <2>1, <2>2, <2>3, <2>4 DEF LfuTyped
<1>11. Cardinality(KeysOf(s2')) <= StoreCapacity
  <2>1. Cardinality(KeysOf(s2')) = Cardinality(KeysOf(P)) + 1 /\ Cardinality(KeysOf(P)) \in Nat
    BY <1>2, <1>7, KeysCounted
  <2> QED BY <1>2, <2>1
<1> QED BY <1>1, <1>3, <1>8, <1>9, <1>10, <1>11 DEF LfuOk

LEMMA LfuPut ==
    ASSUME LfuOk(s1, s2, s3, s4, s5, s6), Absent \notin Nat, NEW k \in StoreKeys,
           NEW v \in Values, CA!put_new(k, v)
    PROVE  LfuOk(s1', s2', s3', s4', s5', s6') /\ KeysOf(s2) \subseteq KeysOf(s2')
<1>1. /\ Shelves(s1, s2, s4, s6) /\ LfuTyped(s2, s4, s5, s6) /\ Counted(s2, s5)
      /\ s2[k] = Absent /\ CA!Cardinality(CA!Cached) < StoreCapacity
      /\ CA!PutNew(CA!Lists, {}, k, v)
  BY DEF LfuOk, CA!put_new, CA!Present
<1>2. /\ CA!Lists.lists = s1 /\ CA!Without({}) = s6
      /\ s2 = [j \in StoreKeys |-> IF j \in {} THEN Absent ELSE s2[j]]
      /\ Cardinality(KeysOf(s2)) < StoreCapacity
  BY <1>1, CachedIs, SameCountInTheCache DEF CA!Lists, CA!Without, LfuTyped
<1>3. /\ LfuOk(s1', s2', s3', s4', s5', s6')
      /\ s2' = [s2 EXCEPT ![k] = 1]
  BY <1>1, <1>2, LfuPutNew
<1> QED BY <1>1, <1>3 DEF KeysOf, LfuTyped

(* The victim of a full cache. *)
IsVictim(w) ==
    /\ w \in StoreKeys /\ s2[w] = s3 /\ s3 # Absent
    /\ \A j \in StoreKeys \ {w} : s2[j] # Absent =>
          s3 < s2[j] \/ (s3 = s2[j] /\ <<j, w>> \in s6)

LEMMA VictimIs ==
    ASSUME LfuOk(s1, s2, s3, s4, s5, s6), Absent \notin Nat, s3 \in DOMAIN s1
    PROVE  IsVictim(CA!Victim(CA!Lists))
<1> DEFINE l == s1[s3]
           w == l[Len(l)].key
<1>1. /\ Typed(s1) /\ Placed(s1, s2) /\ Sorted(s1, s6) /\ Kept(s1, s2, s4)
      /\ s3 = CA!Least(DOMAIN s1) /\ MaxFreq \in Nat
  BY StoreAssumption DEF LfuOk, Shelves
<1>2. CA!Victim(CA!Lists) = w
  BY DEF CA!Victim, CA!Lists
<1>3. ListOk(l) /\ Len(l) \in Nat \ {0} /\ Len(l) \in 1 .. Len(l)
  BY <1>1 DEF Typed, ListOk
<1>4. w \in StoreKeys /\ s2[w] = s3 /\ s3 # Absent
  BY <1>1, <1>3 DEF ListOk, CA!Entry, Placed, Typed
<1>5. DOMAIN s1 \subseteq 1 .. MaxFreq /\ \A g \in DOMAIN s1 : s3 <= g
  BY <1>1, LeastOfThem DEF Typed
<1>6. ASSUME NEW j \in StoreKeys \ {w}, s2[j] # Absent
      PROVE  s3 < s2[j] \/ (s3 = s2[j] /\ <<j, w>> \in s6)
  <2>1. PICK i \in 1 .. Len(s1[s2[j]]) : s1[s2[j]][i] = [key |-> j, value |-> s4[j]]
    BY <1>1, <1>6 DEF Kept
  <2>2. s2[j] \in DOMAIN s1 /\ s1[s2[j]][i].key = j
    BY <1>1, <1>6, <2>1 DEF Kept
  <2>3. s3 < s2[j] \/ s3 = s2[j]
    BY <1>1, <1>5, <2>2
  <2>4. ASSUME s3 = s2[j] PROVE <<j, w>> \in s6
    <3>1. i \in 1 .. Len(l) /\ l[i].key = j
      BY <2>2, <2>4
    <3>2. i # Len(l)
      BY <1>6, <3>1
    <3>3. i < Len(l)
      BY <1>3, <3>1, <3>2
    <3> QED BY <1>1, <1>3, <3>1, <3>3 DEF Sorted
  <2> QED BY <2>3, <2>4
<1> HIDE DEF w
<1> QED BY <1>2, <1>4, <1>6 DEF IsVictim

LEMMA LfuEvict ==
    ASSUME LfuOk(s1, s2, s3, s4, s5, s6), Absent \notin Nat, NEW k \in StoreKeys,
           NEW v \in Values, CA!put_evict(k, v)
    PROVE  /\ LfuOk(s1', s2', s3', s4', s5', s6')
           /\ \E w : IsVictim(w) /\ KeysOf(s2) \ {w} \subseteq KeysOf(s2')
<1> DEFINE w == CA!Victim(CA!Lists)
           t == CA!taken_out(CA!Lists, s3, w)
           N == CA!Without({w})
<1>1. /\ Shelves(s1, s2, s4, s6) /\ LfuTyped(s2, s4, s5, s6) /\ Counted(s2, s5)
      /\ Cardinality(KeysOf(s2)) <= StoreCapacity
      /\ s2[k] = Absent /\ s3 \in DOMAIN s1 /\ CA!PutNew(t, {w}, k, v)
  BY DEF LfuOk, CA!put_evict, CA!Present
<1>2. IsVictim(w) /\ w \in StoreKeys /\ s2[w] = s3 /\ s3 # Absent
  BY <1>1, VictimIs DEF IsVictim
<1> HIDE DEF w
<1>3. PICK P : P = [j \in StoreKeys |-> IF j \in {w} THEN Absent ELSE s2[j]]
  OBVIOUS
<1>4. P[w] = Absent /\ SameBut(s2, P, w) /\ SameBut(s4, s4, w)
  BY <1>2, <1>3 DEF SameBut
<1>5. OrderBut(s6, N, w)
  BY <1>1, TouchIs DEF LfuTyped, OrderOutside, OrderBut
<1> HIDE DEF N
<1>6. Shelves(t.lists, P, s4, N)
  <2>1. CA!Lists = [lists |-> s1, min |-> s3]
    BY DEF CA!Lists
  <2> QED BY <1>1, <1>2, <1>4, <1>5, <2>1, TakingOut
<1>7. Cardinality(KeysOf(P)) < StoreCapacity
  <2>1. /\ Cardinality(KeysOf(P)) = Cardinality(KeysOf(s2)) - 1
        /\ Cardinality(KeysOf(s2)) \in Nat
    BY <1>2, <1>4, KeysCounted
  <2> QED BY <1>1, <2>1, StoreAssumption
<1> HIDE DEF t
<1>8. /\ LfuOk(s1', s2', s3', s4', s5', s6')
      /\ s2' = [P EXCEPT ![k] = 1]
  BY <1>1, <1>3, <1>6, <1>7, LfuPutNew DEF N
<1>9. KeysOf(s2) \ {w} \subseteq KeysOf(s2')
  BY <1>3, <1>8 DEF KeysOf
<1> QED BY <1>2, <1>8, <1>9

LEMMA LfuRemove ==
    ASSUME LfuOk(s1, s2, s3, s4, s5, s6), Absent \notin Nat, NEW k \in StoreKeys,
           CA!LFUCache_remove(k)
    PROVE  LfuOk(s1', s2', s3', s4', s5', s6') /\ KeysOf(s2') \subseteq KeysOf(s2)
<1> DEFINE t == CA!taken_out(CA!Lists, s2[k], k)
<1>1. /\ Shelves(s1, s2, s4, s6) /\ LfuTyped(s2, s4, s5, s6) /\ Counted(s2, s5)
      /\ Cardinality(KeysOf(s2)) <= StoreCapacity /\ s3 = CA!Least(DOMAIN s1)
  BY DEF LfuOk
<1>2. /\ s2[k] # Absent /\ s1' = t.lists /\ s3' = t.min
      /\ s2' = [s2 EXCEPT ![k] = Absent] /\ s5' = [s5 EXCEPT ![k] = 0]
      /\ s6' = CA!Without({k}) /\ s4' = [s4 EXCEPT ![k] = Absent]
  BY DEF CA!LFUCache_remove, CA!Present, CA!SetLists
<1>3. s2'[k] = Absent /\ SameBut(s2, s2', k) /\ SameBut(s4, s4', k)
  BY <1>1, <1>2 DEF SameBut, LfuTyped
<1>4. OrderBut(s6, s6', k) /\ s6' \subseteq s6
  BY <1>1, <1>2, TouchIs DEF LfuTyped, OrderOutside, OrderBut
<1>5. Shelves(s1', s2', s4', s6') /\ s3' = CA!Least(DOMAIN s1')
  <2>1. CA!Lists = [lists |-> s1, min |-> s3]
    BY DEF CA!Lists
  <2>3. PICK Q, G, M : Q = s2' /\ G = s4' /\ M = s6'
    OBVIOUS
  <2>4. /\ s2[k] # Absent /\ Q[k] = Absent /\ SameBut(s2, Q, k) /\ SameBut(s4, G, k)
        /\ OrderBut(s6, M, k)
    BY <1>2, <1>3, <1>4, <2>3
  <2>5. Shelves(t.lists, Q, G, M) /\ t.min = CA!Least(DOMAIN t.lists)
    BY <1>1, <2>1, <2>4, TakingOut
  <2>2. /\ Shelves(t.lists, s2', s4', s6')
        /\ t.min = CA!Least(DOMAIN t.lists)
    BY <2>3, <2>5
  <2> HIDE DEF t
  <2> QED BY <1>2, <2>2
<1>6. LfuTyped(s2', s4', s5', s6') /\ Counted(s2', s5')
  BY <1>1, <1>2, <1>4, StoreAssumption DEF LfuTyped, Counted
<1>7. Cardinality(KeysOf(s2')) <= StoreCapacity
  <2>1. /\ Cardinality(KeysOf(s2')) = Cardinality(KeysOf(s2)) - 1
        /\ Cardinality(KeysOf(s2)) \in Nat
    BY <1>2, <1>3, KeysCounted
  <2> QED BY <1>1, <2>1, StoreAssumption
<1>8. KeysOf(s2') \subseteq KeysOf(s2)
  BY <1>3 DEF KeysOf, SameBut
<1> QED BY <1>5, <1>6, <1>7, <1>8 DEF LfuOk

LEMMA LfuEmpty ==
    ASSUME NEW L, NEW P, NEW m, NEW H, NEW U, NEW N, L = CA!NoLists,
           P = [k \in StoreKeys |-> Absent], m = 0, H = [k \in StoreKeys |-> Absent],
           U = [k \in StoreKeys |-> 0], N = {}
    PROVE  LfuOk(L, P, m, H, U, N) /\ KeysOf(P) = {}
<1>1. DOMAIN L = {} /\ KeysOf(P) = {}
  BY DEF CA!NoLists, KeysOf
<1>2. Shelves(L, P, H, N) /\ m = CA!Least(DOMAIN L)
  BY <1>1 DEF Shelves, Typed, Placed, Sorted, Kept, CA!Least
<1>3. LfuTyped(P, H, U, N) /\ Counted(P, U)
  BY StoreAssumption DEF LfuTyped, Counted
<1> QED BY <1>1, <1>2, <1>3, StoreAssumption, FS_EmptySet DEF LfuOk

LEMMA LfuNext ==
    ASSUME LfuOk(s1, s2, s3, s4, s5, s6), Absent \notin Nat, CA!LFUCache_Next
    PROVE  LfuOk(s1', s2', s3', s4', s5', s6') /\ CA!EvictsLeastFrequentlyUsed
<1>1. /\ KeysOf(s2) \subseteq KeysOf(s2') => CA!EvictsLeastFrequentlyUsed
      /\ KeysOf(s2') \subseteq KeysOf(s2) => CA!EvictsLeastFrequentlyUsed
  BY DEF CA!EvictsLeastFrequentlyUsed, CA!Present, KeysOf
<1>2. ASSUME NEW k \in StoreKeys, CA!LFUCache_get(k)
      PROVE  LfuOk(s1', s2', s3', s4', s5', s6') /\ KeysOf(s2') = KeysOf(s2)
  <2>1. s2[k] # Absent /\ CA!Use(k, CA!EntryOf(k))
    BY <1>2 DEF CA!LFUCache_get, CA!Present
  <2>2. CA!EntryOf(k) = [key |-> k, value |-> s4[k]]
    BY <2>1, LfuHolds DEF CA!ListsMatchTheMap, CA!Cached, CA!Present
  <2>3. s4[k] \in Values
    <3>1. Typed(s1) /\ Kept(s1, s2, s4)
      BY DEF LfuOk, Shelves
    <3>2. PICK i \in 1 .. Len(s1[s2[k]]) : s1[s2[k]][i] = [key |-> k, value |-> s4[k]]
      BY <2>1, <3>1 DEF Kept
    <3>3. s1[s2[k]][i] \in CA!Entry
      BY <2>1, <3>1 DEF Kept, Typed, ListOk
    <3>4. s1[s2[k]][i].value \in Values
      BY <3>3 DEF CA!Entry
    <3> QED BY <3>2, <3>4
  <2>4. CA!Use(k, [key |-> k, value |-> s4[k]])
    BY <2>1, <2>2
  <2> QED BY <2>3, <2>4, LfuUse
<1>3. ASSUME NEW k \in StoreKeys, CA!LFUCache_remove(k)
      PROVE  LfuOk(s1', s2', s3', s4', s5', s6') /\ KeysOf(s2') \subseteq KeysOf(s2)
  BY <1>3, LfuRemove
<1>4. ASSUME NEW k \in StoreKeys, NEW v \in Values, CA!put_update(k, v)
      PROVE  LfuOk(s1', s2', s3', s4', s5', s6') /\ KeysOf(s2') = KeysOf(s2)
  BY <1>4, LfuUse DEF CA!put_update
<1>5. ASSUME NEW k \in StoreKeys, NEW v \in Values, CA!put_new(k, v)
      PROVE  LfuOk(s1', s2', s3', s4', s5', s6') /\ KeysOf(s2) \subseteq KeysOf(s2')
  BY <1>5, LfuPut
<1>6. ASSUME NEW k \in StoreKeys, NEW v \in Values, CA!put_evict(k, v)
      PROVE  LfuOk(s1', s2', s3', s4', s5', s6') /\ CA!EvictsLeastFrequentlyUsed
  <2>1. /\ LfuOk(s1', s2', s3', s4', s5', s6')
        /\ \E w : IsVictim(w) /\ KeysOf(s2) \ {w} \subseteq KeysOf(s2')
    BY <1>6, LfuEvict
  <2>2. PICK w : IsVictim(w) /\ KeysOf(s2) \ {w} \subseteq KeysOf(s2')
    BY <2>1
  <2>3. ASSUME NEW j \in StoreKeys, CA!Present(j), ~ CA!Present(j)', NEW i \in CA!Cached \ {j}
        PROVE  s5[j] < s5[i] \/ (s5[j] = s5[i] /\ <<i, j>> \in s6)
    <3>1. j = w
      BY <2>2, <2>3 DEF KeysOf, CA!Present
    <3>2. i \in StoreKeys \ {w} /\ s2[i] # Absent
      BY <3>1 DEF CA!Cached, CA!Present
    <3>3. s5[i] = s2[i] /\ s5[j] = s3
      BY <2>2, <3>1, <3>2 DEF LfuOk, Counted, IsVictim
    <3> QED BY <2>2, <3>1, <3>2, <3>3 DEF IsVictim
  <2> QED BY <2>1, <2>3 DEF CA!EvictsLeastFrequentlyUsed
<1>7. CASE CA!LFUCache_clear
  <2>1. /\ s1' = CA!NoLists /\ s2' = [k \in StoreKeys |-> Absent] /\ s3' = 0
        /\ s5' = [k \in StoreKeys |-> 0] /\ s6' = {} /\ s4' = [k \in StoreKeys |-> Absent]
    BY <1>7 DEF CA!LFUCache_clear
  <2>2. LfuOk(s1', s2', s3', s4', s5', s6') /\ KeysOf(s2') = {}
    BY <2>1, LfuEmpty
  <2> QED BY <1>1, <2>2
<1> QED BY <1>1, <1>2, <1>3, <1>4, <1>5, <1>6, <1>7 DEF CA!LFUCache_Next

-----------------------------------------------------------------------------
(* hash::LRUCache. *)

(* w is the path of n nodes from head_ to tail_, forward and backward. *)
Path(w, n) ==
    /\ n \in Nat /\ w[0] = Front /\ w[n + 1] = Back
    /\ \A i \in 1 .. n : w[i] \in StoreKeys
    /\ \A i, j \in 1 .. n : w[i] = w[j] => i = j
Linked(w, n, p, x) == \A i \in 0 .. n : x[w[i]] = w[i + 1] /\ p[w[i + 1]] = w[i]
On(w, n, k) == \E i \in 1 .. n : w[i] = k

LinksTyped(p, x) ==
    /\ p \in [CA!Linkable -> CA!Linkable \cup {Absent}]
    /\ x \in [CA!Linkable -> CA!Linkable \cup {Absent}]

LEMMA PathIsSimple ==
    ASSUME NEW w, NEW n, Path(w, n)
    PROVE  /\ \A i \in 0 .. n + 1 : w[i] \in CA!Linkable
           /\ \A i, j \in 0 .. n + 1 : w[i] = w[j] => i = j
<1>1. n \in Nat /\ Front # Back /\ Front \notin StoreKeys /\ Back \notin StoreKeys
  BY StoreAssumption DEF Path
<1>2. \A i \in 0 .. n + 1 :
         \/ i = 0 /\ w[i] = Front
         \/ i = n + 1 /\ w[i] = Back
         \/ i \in 1 .. n /\ w[i] \in StoreKeys
  <2> SUFFICES ASSUME NEW i \in 0 .. n + 1
               PROVE  \/ i = 0 /\ w[i] = Front
                      \/ i = n + 1 /\ w[i] = Back
                      \/ i \in 1 .. n /\ w[i] \in StoreKeys
    OBVIOUS
  <2>1. i = 0 \/ i = n + 1 \/ i \in 1 .. n
    BY <1>1
  <2> QED BY <2>1 DEF Path
<1>3. \A i \in 0 .. n + 1 : w[i] \in CA!Linkable
  BY <1>2 DEF CA!Linkable
<1>4. ASSUME NEW i \in 0 .. n + 1, NEW j \in 0 .. n + 1, w[i] = w[j] PROVE i = j
  BY <1>1, <1>2, <1>4 DEF Path
<1> QED BY <1>3, <1>4

(* remove_node: the path without the node at a. *)
Skip(w, n, a) == [i \in 0 .. n |-> IF i < a THEN w[i] ELSE w[i + 1]]

LEMMA SkipIs ==
    ASSUME NEW w, NEW n, Path(w, n), NEW a \in 1 .. n
    PROVE  /\ Path(Skip(w, n, a), n - 1)
           /\ \A k : On(Skip(w, n, a), n - 1, k) <=> On(w, n, k) /\ k # w[a]
<1> DEFINE u == Skip(w, n, a)
<1>1. n \in Nat /\ a \in Nat /\ a # 0 /\ a <= n /\ n - 1 \in Nat
  BY DEF Path
<1>2. /\ \A i \in 0 .. n : i < a => u[i] = w[i]
      /\ \A i \in 0 .. n : ~ (i < a) => u[i] = w[i + 1]
  BY DEF Skip
<1> HIDE DEF u
<1>3. u[0] = Front /\ u[(n - 1) + 1] = Back
  <2>1. u[n] = w[n + 1]
    BY <1>1, <1>2
  <2> QED BY <1>1, <1>2, <2>1 DEF Path
<1>4. \A i \in 1 .. n - 1 : \E j \in 1 .. n : j # a /\ u[i] = w[j] /\ j = IF i < a THEN i ELSE i + 1
  <2> SUFFICES ASSUME NEW i \in 1 .. n - 1
               PROVE  \E j \in 1 .. n : j # a /\ u[i] = w[j] /\ j = IF i < a THEN i ELSE i + 1
    OBVIOUS
  <2>1. CASE i < a
    <3>1. i \in 1 .. n /\ i # a /\ u[i] = w[i]
      BY <1>1, <1>2, <2>1
    <3> QED BY <2>1, <3>1
  <2>2. CASE ~ (i < a)
    <3>1. i + 1 \in 1 .. n /\ i + 1 # a /\ u[i] = w[i + 1]
      BY <1>1, <1>2, <2>2
    <3> QED BY <2>2, <3>1
  <2> QED BY <2>1, <2>2
<1>5. \A i, j \in 1 .. n - 1 : u[i] = u[j] => i = j
  <2> SUFFICES ASSUME NEW i \in 1 .. n - 1, NEW j \in 1 .. n - 1, u[i] = u[j] PROVE i = j
    OBVIOUS
  <2>1. PICK b \in 1 .. n : u[i] = w[b] /\ b = IF i < a THEN i ELSE i + 1
    BY <1>4
  <2>2. PICK c \in 1 .. n : u[j] = w[c] /\ c = IF j < a THEN j ELSE j + 1
    BY <1>4
  <2>3. b = c
    BY <2>1, <2>2 DEF Path
  <2> QED BY <1>1, <2>1, <2>2, <2>3
<1>6. Path(u, n - 1)
  BY <1>1, <1>3, <1>4, <1>5 DEF Path
<1>7. ASSUME NEW k PROVE On(u, n - 1, k) <=> On(w, n, k) /\ k # w[a]
  <2>1. On(u, n - 1, k) => On(w, n, k) /\ k # w[a]
    BY <1>4 DEF On, Path
  <2>2. ASSUME NEW b \in 1 .. n, w[b] = k, k # w[a] PROVE On(u, n - 1, k)
    <3>1. CASE b < a
      <4>1. b \in 1 .. n - 1 /\ u[b] = w[b]
        BY <1>1, <1>2, <3>1
      <4> QED BY <2>2, <4>1 DEF On
    <3>2. CASE ~ (b < a)
      <4>1. b - 1 \in 1 .. n - 1 /\ b - 1 \in 0 .. n /\ ~ (b - 1 < a) /\ (b - 1) + 1 = b
        BY <1>1, <2>2, <3>2
      <4>2. u[b - 1] = w[b]
        BY <1>2, <4>1
      <4> QED BY <2>2, <4>1, <4>2 DEF On
    <3> QED BY <3>1, <3>2
  <2> QED BY <2>1, <2>2 DEF On
<1> QED BY <1>6, <1>7 DEF u

LEMMA Unlinked ==
    ASSUME NEW w, NEW n, NEW p, NEW x, Path(w, n), Linked(w, n, p, x), LinksTyped(p, x),
           NEW a \in 1 .. n
    PROVE  LET l == CA!remove_node([prev |-> p, next |-> x], w[a])
           IN Linked(Skip(w, n, a), n - 1, l.prev, l.next) /\ LinksTyped(l.prev, l.next)
<1> DEFINE u == Skip(w, n, a)
           y == [x EXCEPT ![w[a - 1]] = w[a + 1]]
           q == [p EXCEPT ![w[a + 1]] = w[a - 1]]
           l == CA!remove_node([prev |-> p, next |-> x], w[a])
<1>1. n \in Nat /\ a \in Nat /\ a # 0 /\ a <= n /\ n - 1 \in Nat
  BY DEF Path
<1>2. /\ \A i \in 0 .. n : i < a => u[i] = w[i]
      /\ \A i \in 0 .. n : ~ (i < a) => u[i] = w[i + 1]
  BY DEF Skip
<1> HIDE DEF u
<1>3. /\ \A i \in 0 .. n + 1 : w[i] \in CA!Linkable
      /\ \A i, j \in 0 .. n + 1 : w[i] = w[j] => i = j
  BY PathIsSimple
<1>4. a \in 0 .. n /\ a - 1 \in 0 .. n /\ (a - 1) + 1 = a /\ a + 1 \in 0 .. n + 1 /\ a - 1 \in 0 .. n + 1
  BY <1>1
<1>5. x[w[a]] = w[a + 1] /\ p[w[a]] = w[a - 1]
  BY <1>4 DEF Linked
<1>6. l.next = y /\ l.prev = q
  BY <1>5 DEF CA!remove_node
<1>7. /\ y[w[a - 1]] = w[a + 1] /\ q[w[a + 1]] = w[a - 1]
      /\ \A i \in 0 .. n + 1 : i # a - 1 => y[w[i]] = x[w[i]]
      /\ \A i \in 0 .. n + 1 : i # a + 1 => q[w[i]] = p[w[i]]
  BY <1>3, <1>4 DEF LinksTyped
<1>8. LinksTyped(q, y)
  BY <1>3, <1>4 DEF LinksTyped
<1> HIDE DEF y, q
<1>9. ASSUME NEW i \in 0 .. n - 1 PROVE y[u[i]] = u[i + 1] /\ q[u[i + 1]] = u[i]
  <2>1. CASE i < a - 1
    <3>1. /\ u[i] = w[i] /\ u[i + 1] = w[i + 1] /\ i # a - 1 /\ i + 1 # a + 1
          /\ i \in 0 .. n /\ i \in 0 .. n + 1 /\ i + 1 \in 0 .. n + 1
      BY <1>1, <1>2, <2>1
    <3> QED BY <1>7, <3>1 DEF Linked
  <2>2. CASE i = a - 1
    <3>1. u[i] = w[a - 1] /\ u[i + 1] = w[a + 1]
      BY <1>1, <1>2, <2>2
    <3> QED BY <1>7, <3>1
  <2>3. CASE i > a - 1
    <3>1. /\ u[i] = w[i + 1] /\ u[i + 1] = w[(i + 1) + 1] /\ i + 1 # a - 1 /\ (i + 1) + 1 # a + 1
          /\ i + 1 \in 0 .. n /\ i + 1 \in 0 .. n + 1 /\ (i + 1) + 1 \in 0 .. n + 1
      BY <1>1, <1>2, <2>3
    <3> QED BY <1>7, <3>1 DEF Linked
  <2> QED BY <1>1, <2>1, <2>2, <2>3
<1> HIDE DEF l
<1>10. Linked(u, n - 1, q, y)
  BY <1>9 DEF Linked
<1> QED BY <1>6, <1>8, <1>10 DEF l, u

(* add_to_head: the path with the node k behind head_. *)
Push(w, n, k) == [i \in 0 .. n + 2 |-> IF i = 0 THEN Front ELSE IF i = 1 THEN k ELSE w[i - 1]]

LEMMA PushIs ==
    ASSUME NEW w, NEW n, Path(w, n), NEW k \in StoreKeys, ~ On(w, n, k)
    PROVE  /\ Path(Push(w, n, k), n + 1)
           /\ \A j : On(Push(w, n, k), n + 1, j) <=> On(w, n, j) \/ j = k
<1> DEFINE u == Push(w, n, k)
<1>1. n \in Nat /\ n + 1 \in Nat
  BY DEF Path
<1>2. u[0] = Front /\ u[1] = k /\ \A i \in 2 .. n + 2 : u[i] = w[i - 1]
  BY <1>1 DEF Push
<1> HIDE DEF u
<1>3. u[(n + 1) + 1] = Back
  <2>1. n + 2 \in 2 .. n + 2 /\ (n + 2) - 1 = n + 1 /\ (n + 1) + 1 = n + 2
    BY <1>1
  <2> QED BY <1>2, <2>1 DEF Path
<1>4. \A i \in 1 .. n + 1 :
         \/ i = 1 /\ u[i] = k
         \/ i # 1 /\ i - 1 \in 1 .. n /\ u[i] = w[i - 1]
  BY <1>1, <1>2
<1>5. \A i \in 1 .. n + 1 : u[i] \in StoreKeys
  BY <1>4 DEF Path
<1>6. ASSUME NEW i \in 1 .. n + 1, NEW j \in 1 .. n + 1, u[i] = u[j] PROVE i = j
  <2>1. CASE i = 1 /\ j = 1
    BY <2>1
  <2>2. CASE i = 1 /\ j # 1
    BY <1>4, <1>6, <2>2 DEF On
  <2>3. CASE i # 1 /\ j = 1
    BY <1>4, <1>6, <2>3 DEF On
  <2>4. CASE i # 1 /\ j # 1
    <3>1. i - 1 \in 1 .. n /\ j - 1 \in 1 .. n /\ w[i - 1] = w[j - 1]
      BY <1>4, <1>6, <2>4
    <3>2. i - 1 = j - 1
      BY <3>1 DEF Path
    <3> QED BY <1>1, <3>2
  <2> QED BY <2>1, <2>2, <2>3, <2>4
<1>7. Path(u, n + 1)
  BY <1>1, <1>2, <1>3, <1>5, <1>6 DEF Path
<1>8. ASSUME NEW j PROVE On(u, n + 1, j) <=> On(w, n, j) \/ j = k
  <2>1. On(u, n + 1, j) => On(w, n, j) \/ j = k
    BY <1>4 DEF On
  <2>2. On(u, n + 1, k)
    <3>1. 1 \in 1 .. n + 1
      BY <1>1
    <3> QED BY <1>2, <3>1 DEF On
  <2>3. ASSUME NEW b \in 1 .. n, w[b] = j PROVE On(u, n + 1, j)
    <3>1. b + 1 \in 1 .. n + 1 /\ b + 1 \in 2 .. n + 2 /\ (b + 1) - 1 = b
      BY <1>1
    <3> QED BY <1>2, <2>3, <3>1 DEF On
  <2> QED BY <2>1, <2>2, <2>3 DEF On
<1> QED BY <1>7, <1>8 DEF u

LEMMA Headed ==
    ASSUME NEW w, NEW n, NEW p, NEW x, Path(w, n), Linked(w, n, p, x), LinksTyped(p, x),
           NEW k \in StoreKeys, ~ On(w, n, k)
    PROVE  LET l == CA!add_to_head([prev |-> p, next |-> x], k)
           IN Linked(Push(w, n, k), n + 1, l.prev, l.next) /\ LinksTyped(l.prev, l.next)
<1> DEFINE u == Push(w, n, k)
           y == [x EXCEPT ![k] = w[1], ![Front] = k]
           q == [p EXCEPT ![k] = Front, ![w[1]] = k]
           l == CA!add_to_head([prev |-> p, next |-> x], k)
<1>1. n \in Nat /\ 0 \in 0 .. n /\ 0 + 1 = 1 /\ w[0] = Front
  BY DEF Path
<1>2. u[0] = Front /\ u[1] = k /\ \A i \in 2 .. n + 2 : u[i] = w[i - 1]
  BY <1>1 DEF Push
<1> HIDE DEF u
<1>3. /\ \A i \in 0 .. n + 1 : w[i] \in CA!Linkable
      /\ \A i, j \in 0 .. n + 1 : w[i] = w[j] => i = j
  BY PathIsSimple
<1>4. x[Front] = w[1] /\ w[1] \in CA!Linkable /\ k \in CA!Linkable /\ Front \in CA!Linkable
  BY <1>1, <1>3 DEF Linked, CA!Linkable
<1>5. l.next = y /\ l.prev = q
  BY <1>4 DEF CA!add_to_head
<1>6. \A i \in 0 .. n + 1 : w[i] # k
  <2> SUFFICES ASSUME NEW i \in 0 .. n + 1, w[i] = k PROVE FALSE
    OBVIOUS
  <2>1. i = 0 \/ i = n + 1 \/ i \in 1 .. n
    BY <1>1
  <2> QED BY <2>1, StoreAssumption DEF On, Path
<1>7. k # Front /\ k # w[1]
  BY <1>1, <1>6, StoreAssumption
<1>8. /\ y[Front] = k /\ y[k] = w[1] /\ q[k] = Front /\ q[w[1]] = k
      /\ \A i \in 0 .. n + 1 : i # 0 => y[w[i]] = x[w[i]]
      /\ \A i \in 0 .. n + 1 : i # 1 => q[w[i]] = p[w[i]]
  <2>1. y[Front] = k /\ y[k] = w[1] /\ q[k] = Front /\ q[w[1]] = k
    BY <1>4, <1>7 DEF LinksTyped
  <2>2. ASSUME NEW i \in 0 .. n + 1, i # 0 PROVE y[w[i]] = x[w[i]]
    <3>1. w[i] # Front /\ w[i] # k /\ w[i] \in CA!Linkable
      BY <1>1, <1>3, <1>6, <2>2
    <3> QED BY <3>1 DEF LinksTyped
  <2>3. ASSUME NEW i \in 0 .. n + 1, i # 1 PROVE q[w[i]] = p[w[i]]
    <3>1. w[i] # w[1] /\ w[i] # k /\ w[i] \in CA!Linkable
      BY <1>1, <1>3, <1>6, <2>3
    <3> QED BY <3>1 DEF LinksTyped
  <2> QED BY <2>1, <2>2, <2>3
<1>9. LinksTyped(q, y)
  BY <1>4 DEF LinksTyped
<1> HIDE DEF y, q
<1>10. ASSUME NEW i \in 0 .. n + 1 PROVE y[u[i]] = u[i + 1] /\ q[u[i + 1]] = u[i]
  <2>1. CASE i = 0
    BY <1>2, <1>8, <2>1
  <2>2. CASE i = 1
    <3>1. u[i + 1] = w[1] /\ u[i] = k
      BY <1>1, <1>2, <2>2
    <3> QED BY <1>8, <3>1
  <2>3. CASE i # 0 /\ i # 1
    <3>1. PICK j \in 1 .. n : j = i - 1
      BY <1>1, <2>3
    <3>2. u[i] = w[j] /\ u[i + 1] = w[j + 1]
      BY <1>1, <1>2, <2>3, <3>1
    <3>3. j \in 0 .. n /\ j \in 0 .. n + 1 /\ j + 1 \in 0 .. n + 1 /\ j # 0 /\ j + 1 # 1
      BY <1>1
    <3> QED BY <1>8, <3>2, <3>3 DEF Linked
  <2> QED BY <2>1, <2>2, <2>3
<1> HIDE DEF l
<1>11. Linked(u, n + 1, q, y)
  BY <1>10 DEF Linked
<1> QED BY <1>5, <1>9, <1>11 DEF l, u

LEMMA Freed ==
    ASSUME NEW w, NEW n, NEW p, NEW x, Path(w, n), Linked(w, n, p, x), LinksTyped(p, x),
           NEW k \in StoreKeys, ~ On(w, n, k)
    PROVE  LET l == CA!freed([prev |-> p, next |-> x], k)
           IN Linked(w, n, l.prev, l.next) /\ LinksTyped(l.prev, l.next)
<1> DEFINE y == [x EXCEPT ![k] = Absent]
           q == [p EXCEPT ![k] = Absent]
           l == CA!freed([prev |-> p, next |-> x], k)
<1>1. l.next = y /\ l.prev = q /\ LinksTyped(q, y)
  BY DEF CA!freed, LinksTyped, CA!Linkable
<1>2. n \in Nat /\ \A i \in 0 .. n + 1 : w[i] # k /\ w[i] \in CA!Linkable
  <2>1. n \in Nat
    BY DEF Path
  <2> SUFFICES ASSUME NEW i \in 0 .. n + 1 PROVE w[i] # k
    BY <2>1, PathIsSimple
  <2>2. i = 0 \/ i = n + 1 \/ i \in 1 .. n
    BY <2>1
  <2> QED BY <2>2, StoreAssumption DEF On, Path
<1>3. \A i \in 0 .. n + 1 : y[w[i]] = x[w[i]] /\ q[w[i]] = p[w[i]]
  BY <1>2 DEF LinksTyped
<1> HIDE DEF y, q, l
<1>4. Linked(w, n, q, y)
  <2> SUFFICES ASSUME NEW i \in 0 .. n PROVE y[w[i]] = w[i + 1] /\ q[w[i + 1]] = w[i]
    BY DEF Linked
  <2>1. i \in 0 .. n + 1 /\ i + 1 \in 0 .. n + 1
    BY <1>2
  <2> QED BY <1>3, <2>1 DEF Linked
<1> QED BY <1>1, <1>4 DEF l

-----------------------------------------------------------------------------
(* The walk from head_ along the links x follows the path. *)
Last == Cardinality(StoreKeys) + 1
Step(x, f) ==
    [n \in 0 .. Last |->
        IF n = 0 THEN Front
        ELSE IF f[n - 1] \in {Back, Absent} THEN f[n - 1] ELSE x[f[n - 1]]]
WalkOf(x) == CHOOSE f : f = Step(x, f)

LEMMA WalkIsWalk == CA!Walk = WalkOf(s3) /\ CA!Walk' = WalkOf(s3')
<1>1. CA!Cardinality(StoreKeys) = Cardinality(StoreKeys)
  BY SameCountInTheCache
<1> QED BY <1>1 DEF CA!Walk, WalkOf, Step, Last

LEMMA PathIsShort ==
    ASSUME NEW w, NEW n, Path(w, n)
    PROVE  n <= Cardinality(StoreKeys) /\ Cardinality(StoreKeys) \in Nat
<1> DEFINE f == [i \in 1 .. n |-> w[i]]
<1>1. n \in Nat /\ f \in [1 .. n -> StoreKeys] /\ \A i, j \in 1 .. n : f[i] = f[j] => i = j
  BY DEF Path
<1>2. f \in Injection(1 .. n, StoreKeys)
  BY <1>1 DEF Injection, IsInjective
<1>3. Cardinality(1 .. n) = n
  BY <1>1, CountUp
<1> HIDE DEF f
<1>4. Cardinality(1 .. n) <= Cardinality(StoreKeys)
  BY <1>2, FS_Injection, StoreAssumption
<1> QED BY <1>3, <1>4, FS_CardinalityType, StoreAssumption

LEMMA PathEnds ==
    ASSUME NEW w, NEW n, Path(w, n)
    PROVE  n \in Nat /\ Last \in Nat /\ n < Last /\ w[0] = Front /\ w[n + 1] = Back
<1>1. n \in Nat /\ w[0] = Front /\ w[n + 1] = Back
  BY DEF Path
<1>2. n <= Cardinality(StoreKeys) /\ Cardinality(StoreKeys) \in Nat
  BY PathIsShort
<1> QED BY <1>1, <1>2 DEF Last

Stop(w, n, i) == IF i <= n THEN w[i] ELSE Back

LEMMA WalkFollows ==
    ASSUME NEW w, NEW n, NEW p, NEW x, Path(w, n), Linked(w, n, p, x)
    PROVE  /\ DOMAIN WalkOf(x) = 0 .. Last
           /\ \A i \in 0 .. Last : WalkOf(x)[i] = Stop(w, n, i)
<1> DEFINE f == WalkOf(x)
           g == [i \in 0 .. Last |-> Stop(w, n, i)]
<1>1. n \in Nat /\ Last \in Nat /\ n < Last /\ w[0] = Front /\ w[n + 1] = Back
  BY PathEnds
<1>2. ASSUME NEW i \in 1 .. Last
      PROVE  /\ i - 1 \in 0 .. Last
             /\ Stop(w, n, i) = IF Stop(w, n, i - 1) \in {Back, Absent} THEN Stop(w, n, i - 1)
                                ELSE x[Stop(w, n, i - 1)]
  <2>1. i \in Nat /\ i - 1 \in 0 .. Last
    BY <1>1
  <2>2. CASE i <= n + 1
    <3>1. /\ i - 1 \in 0 .. n /\ (i - 1) + 1 = i /\ i - 1 <= n
          /\ i - 1 = 0 \/ i - 1 \in 1 .. n
      BY <1>1, <2>1, <2>2
    <3>2. w[i - 1] \notin {Back, Absent}
      BY <1>1, <3>1, StoreAssumption DEF Path
    <3>3. x[w[i - 1]] = w[i]
      BY <3>1 DEF Linked
    <3>4. Stop(w, n, i - 1) = w[i - 1]
      BY <3>1 DEF Stop
    <3>5. Stop(w, n, i) = w[i]
      BY <1>1, <2>1, <2>2 DEF Stop
    <3> QED BY <2>1, <3>2, <3>3, <3>4, <3>5
  <2>3. CASE ~ (i <= n + 1)
    <3>1. Stop(w, n, i - 1) = Back /\ Stop(w, n, i) = Back
      BY <1>1, <2>1, <2>3 DEF Stop
    <3> QED BY <2>1, <3>1
  <2> QED BY <2>2, <2>3
<1>3. g = Step(x, g)
  <2> SUFFICES ASSUME NEW i \in 0 .. Last
               PROVE  g[i] = IF i = 0 THEN Front
                             ELSE IF g[i - 1] \in {Back, Absent} THEN g[i - 1] ELSE x[g[i - 1]]
    BY DEF Step
  <2>1. CASE i = 0
    BY <1>1, <2>1 DEF Stop
  <2>2. CASE i # 0
    <3>1. i \in 1 .. Last
      BY <1>1, <2>2
    <3>2. g[i] = Stop(w, n, i) /\ g[i - 1] = Stop(w, n, i - 1)
      BY <1>2, <3>1
    <3> QED BY <1>2, <2>2, <3>1, <3>2
  <2> QED BY <2>1, <2>2
<1>4. f = Step(x, f)
  <2> HIDE DEF g
  <2> QED BY <1>3 DEF WalkOf
<1> HIDE DEF f
<1>5. DOMAIN f = 0 .. Last /\ \A i \in 0 .. Last : f[i] = IF i = 0 THEN Front
                             ELSE IF f[i - 1] \in {Back, Absent} THEN f[i - 1] ELSE x[f[i - 1]]
  BY <1>4 DEF Step
<1> DEFINE D == {i \in 0 .. Last : f[i] # Stop(w, n, i)}
<1>6. D = {}
  <2> SUFFICES ASSUME D # {} PROVE FALSE
    OBVIOUS
  <2>1. D \subseteq Nat
    BY <1>1
  <2>2. PICK m \in D : \A i \in D : m <= i
    <3> HIDE DEF D
    <3> QED BY <2>1, LeastNatural
  <2>3. m \in 0 .. Last /\ f[m] # Stop(w, n, m)
    OBVIOUS
  <2>4. m # 0
    BY <1>1, <1>5, <2>3 DEF Stop
  <2>5. m \in 1 .. Last /\ m - 1 \in 0 .. Last /\ m - 1 \notin D
    BY <1>1, <2>2, <2>3, <2>4
  <2>6. f[m - 1] = Stop(w, n, m - 1)
    BY <2>5
  <2> QED BY <1>2, <1>5, <2>3, <2>4, <2>5, <2>6
<1> QED BY <1>5, <1>6 DEF f

LengthOf(x) == Cardinality({i \in DOMAIN WalkOf(x) : WalkOf(x)[i] \in StoreKeys})
ListOf(x, V) == [i \in 1 .. LengthOf(x) |-> [key |-> WalkOf(x)[i], value |-> V[WalkOf(x)[i]]]]
Items(w, n, V) == [i \in 1 .. n |-> [key |-> w[i], value |-> V[w[i]]]]

LEMMA ListIsList ==
    /\ CA!Length = LengthOf(s3)
    /\ CA!cache_list = ListOf(s3, s1) /\ CA!cache_list' = ListOf(s3', s1')
<1>1. CA!Length = LengthOf(s3) /\ CA!Length' = LengthOf(s3')
  BY WalkIsWalk, SameCountInTheCache DEF CA!Length, LengthOf
<1>2. CA!cache_list = ListOf(s3, s1)
  BY <1>1, WalkIsWalk DEF CA!cache_list, ListOf
<1>3. CA!cache_list' = ListOf(s3', s1')
  BY <1>1, WalkIsWalk DEF CA!cache_list, ListOf
<1> QED BY <1>1, <1>2, <1>3

LEMMA ListIsPath ==
    ASSUME NEW w, NEW n, NEW p, NEW x, NEW V, Path(w, n), Linked(w, n, p, x)
    PROVE  LengthOf(x) = n /\ ListOf(x, V) = Items(w, n, V)
<1>1. n \in Nat /\ Last \in Nat /\ n < Last /\ w[0] = Front /\ w[n + 1] = Back
  BY PathEnds
<1>2. /\ DOMAIN WalkOf(x) = 0 .. Last
      /\ \A i \in 0 .. Last : WalkOf(x)[i] = Stop(w, n, i)
  BY WalkFollows
<1>3. \A i \in 0 .. Last : Stop(w, n, i) \in StoreKeys <=> i \in 1 .. n
  <2> SUFFICES ASSUME NEW i \in 0 .. Last PROVE Stop(w, n, i) \in StoreKeys <=> i \in 1 .. n
    OBVIOUS
  <2>1. i = 0 \/ i \in 1 .. n \/ i > n
    BY <1>1
  <2> QED BY <1>1, <2>1, StoreAssumption DEF Stop, Path
<1>4. {i \in DOMAIN WalkOf(x) : WalkOf(x)[i] \in StoreKeys} = 1 .. n
  BY <1>1, <1>2, <1>3
<1>5. LengthOf(x) = n
  <2>1. Cardinality(1 .. n) = n
    BY <1>1, CountUp
  <2> QED BY <1>4, <2>1 DEF LengthOf
<1>6. \A i \in 1 .. n : WalkOf(x)[i] = w[i]
  BY <1>1, <1>2 DEF Stop
<1> QED BY <1>5, <1>6 DEF ListOf, Items

-----------------------------------------------------------------------------
(* The entries of a path as cache::LRUCache changes them. *)
Cell == [key : StoreKeys, value : Values \cup {Absent}]
Store == [StoreKeys -> Values \cup {Absent}]

LEMMA ItemsAre ==
    ASSUME NEW w, NEW n, NEW V \in Store, Path(w, n)
    PROVE  LET l == Items(w, n, V)
           IN /\ l \in Seq(Cell) /\ Len(l) = n /\ DOMAIN l = 1 .. n /\ n \in Nat
              /\ \A i \in 1 .. n : l[i] = [key |-> w[i], value |-> V[w[i]]] /\ l[i] \in Cell
<1> DEFINE l == Items(w, n, V)
<1>1. n \in Nat /\ \A i \in 1 .. n : w[i] \in StoreKeys
  BY DEF Path
<1>2. DOMAIN l = 1 .. n /\ \A i \in 1 .. n : l[i] = [key |-> w[i], value |-> V[w[i]]]
  BY DEF Items
<1>3. \A i \in 1 .. n : l[i] \in Cell
  BY <1>1, <1>2 DEF Cell, Store
<1>4. l \in [1 .. n -> Cell]
  BY <1>2, <1>3 DEF Items
<1> HIDE DEF l
<1>5. l \in Seq(Cell)
  BY <1>1, <1>4
<1>6. Len(l) = n
  BY <1>1, <1>2, <1>5
<1> QED BY <1>1, <1>2, <1>3, <1>5, <1>6 DEF l

LEMMA HeldIs ==
    ASSUME NEW w, NEW n, NEW V, Path(w, n), NEW k
    PROVE  /\ k \in CA!LRU!Held(Items(w, n, V)) <=> On(w, n, k)
           /\ \A a \in 1 .. n : CA!LRU!At(Items(w, n, V), w[a]) = a
<1>1. /\ DOMAIN Items(w, n, V) = 1 .. n
      /\ \A i \in 1 .. n : Items(w, n, V)[i].key = w[i]
  BY DEF Items
<1>2. k \in CA!LRU!Held(Items(w, n, V)) <=> On(w, n, k)
  BY <1>1 DEF CA!LRU!Held, On
<1>3. ASSUME NEW a \in 1 .. n PROVE CA!LRU!At(Items(w, n, V), w[a]) = a
  BY <1>1 DEF CA!LRU!At, Path
<1> QED BY <1>2, <1>3

(* Sequences are equal when their places are. *)
LEMMA SameSeq ==
    ASSUME NEW R, NEW s \in Seq(R), NEW t \in Seq(R), Len(s) = Len(t),
           \A i \in 1 .. Len(s) : s[i] = t[i]
    PROVE  s = t
  OBVIOUS

LEMMA FrontIs ==
    ASSUME NEW R, NEW s \in Seq(R), NEW a \in 1 .. Len(s)
    PROVE  /\ CA!LRU!RemoveAt(s, a) \in Seq(R) /\ Len(CA!LRU!RemoveAt(s, a)) = Len(s) - 1
           /\ \A i \in 1 .. Len(s) - 1 :
                 CA!LRU!RemoveAt(s, a)[i] = IF i < a THEN s[i] ELSE s[i + 1]
           /\ CA!LRU!Front(s) = CA!LRU!RemoveAt(s, Len(s))
<1> DEFINE n == Len(s)
           x == SubSeq(s, 1, a - 1)
           y == SubSeq(s, a + 1, n)
<1>1. n \in Nat /\ a \in Nat /\ a # 0 /\ a <= n
  OBVIOUS
<1>0. CA!LRU!Front(s) = CA!LRU!RemoveAt(s, n)
  <2>1. SubSeq(s, n + 1, n) = <<>>
    BY <1>1, SubSeqEmpty
  <2>2. SubSeq(s, 1, n - 1) \in Seq(R)
    BY <1>1, SubSeqProperties
  <2> QED BY <2>1, <2>2, ConcatEmptySeq DEF CA!LRU!Front, CA!LRU!RemoveAt
<1>2. /\ x \in Seq(R) /\ Len(x) = a - 1 /\ \A i \in 1 .. a - 1 : x[i] = s[i]
  BY <1>1, SubSeqProperties
<1>3. /\ y \in Seq(R) /\ Len(y) = n - a /\ \A i \in 1 .. n - a : y[i] = s[a + i]
  BY <1>1, SubSeqProperties
<1>4. CA!LRU!RemoveAt(s, a) = x \o y
  BY DEF CA!LRU!RemoveAt
<1> HIDE DEF n, x, y
<1>5. /\ x \o y \in Seq(R) /\ Len(x \o y) = n - 1
      /\ \A i \in 1 .. n - 1 : (x \o y)[i] = IF i < a THEN x[i] ELSE y[i - (a - 1)]
  <2>1. /\ x \o y \in Seq(R) /\ Len(x \o y) = Len(x) + Len(y)
        /\ \A i \in 1 .. Len(x) + Len(y) : (x \o y)[i] =
              IF i <= Len(x) THEN x[i] ELSE y[i - Len(x)]
    BY <1>2, <1>3, ConcatProperties
  <2> QED BY <1>1, <1>2, <1>3, <2>1
<1>6. ASSUME NEW i \in 1 .. n - 1
      PROVE  (x \o y)[i] = IF i < a THEN s[i] ELSE s[i + 1]
  <2>1. CASE i < a
    <3>1. i \in 1 .. a - 1
      BY <1>1, <2>1
    <3> QED BY <1>2, <1>5, <2>1, <3>1
  <2>2. CASE ~ (i < a)
    <3>1. i - (a - 1) \in 1 .. n - a /\ a + (i - (a - 1)) = i + 1
      BY <1>1, <2>2
    <3> QED BY <1>3, <1>5, <2>2, <3>1
  <2> QED BY <2>1, <2>2
<1> QED BY <1>0, <1>4, <1>5, <1>6 DEF n

LEMMA ItemsSkip ==
    ASSUME NEW w, NEW n, NEW V \in Store, Path(w, n), NEW a \in 1 .. n
    PROVE  CA!LRU!RemoveAt(Items(w, n, V), a) = Items(Skip(w, n, a), n - 1, V)
<1> DEFINE l == Items(w, n, V)
           u == Skip(w, n, a)
           m == Items(u, n - 1, V)
           t == CA!LRU!RemoveAt(l, a)
<1>1. /\ l \in Seq(Cell) /\ Len(l) = n /\ n \in Nat
      /\ \A i \in 1 .. n : l[i] = [key |-> w[i], value |-> V[w[i]]]
  BY ItemsAre
<1>2. Path(u, n - 1)
  BY SkipIs
<1>3. \A i \in 1 .. n - 1 : u[i] = IF i < a THEN w[i] ELSE w[i + 1]
  BY <1>1 DEF Skip
<1> HIDE DEF l, u
<1>4. /\ m \in Seq(Cell) /\ Len(m) = n - 1
      /\ \A i \in 1 .. n - 1 : m[i] = [key |-> u[i], value |-> V[u[i]]]
  BY <1>2, ItemsAre
<1>5. /\ t \in Seq(Cell) /\ Len(t) = n - 1
      /\ \A i \in 1 .. n - 1 : t[i] = IF i < a THEN l[i] ELSE l[i + 1]
  BY <1>1, FrontIs
<1> HIDE DEF m, t
<1>6. ASSUME NEW i \in 1 .. n - 1 PROVE t[i] = m[i]
  <2>1. i \in 1 .. n /\ i + 1 \in 1 .. n
    BY <1>1
  <2> QED BY <1>1, <1>3, <1>4, <1>5, <2>1
<1>7. t = m
  BY <1>4, <1>5, <1>6, SameSeq
<1> QED BY <1>7 DEF t, m, l, u

LEMMA ItemsPush ==
    ASSUME NEW w, NEW n, NEW V \in Store, NEW W \in Store, Path(w, n),
           NEW k \in StoreKeys, ~ On(w, n, k),
           \A i \in 1 .. n : W[w[i]] = V[w[i]]
    PROVE  <<[key |-> k, value |-> W[k]]>> \o Items(w, n, V) = Items(Push(w, n, k), n + 1, W)
<1> DEFINE l == Items(w, n, V)
           u == Push(w, n, k)
           m == Items(u, n + 1, W)
           e == [key |-> k, value |-> W[k]]
           t == <<e>> \o l
<1>1. /\ l \in Seq(Cell) /\ Len(l) = n /\ n \in Nat
      /\ \A i \in 1 .. n : l[i] = [key |-> w[i], value |-> V[w[i]]]
  BY ItemsAre
<1>2. Path(u, n + 1)
  BY PushIs
<1>3. u[1] = k /\ \A i \in 2 .. n + 1 : u[i] = w[i - 1]
  BY <1>1 DEF Push
<1>4. e \in Cell
  BY DEF Cell, Store
<1> HIDE DEF l, u
<1>5. /\ m \in Seq(Cell) /\ Len(m) = n + 1
      /\ \A i \in 1 .. n + 1 : m[i] = [key |-> u[i], value |-> W[u[i]]]
  BY <1>2, ItemsAre
<1>6. /\ t \in Seq(Cell) /\ Len(t) = n + 1 /\ t[1] = e
      /\ \A i \in 2 .. n + 1 : t[i] = l[i - 1]
  <2> HIDE DEF e
  <2> QED BY <1>1, <1>4
<1> HIDE DEF m, t
<1>7. ASSUME NEW i \in 1 .. n + 1 PROVE t[i] = m[i]
  <2>1. CASE i = 1
    BY <1>3, <1>5, <1>6, <2>1
  <2>2. CASE i # 1
    <3>1. i \in 2 .. n + 1 /\ i - 1 \in 1 .. n
      BY <1>1, <2>2
    <3>2. t[i] = [key |-> w[i - 1], value |-> V[w[i - 1]]]
      BY <1>1, <1>6, <3>1
    <3>3. m[i] = [key |-> w[i - 1], value |-> W[w[i - 1]]]
      BY <1>3, <1>5, <3>1
    <3> QED BY <3>1, <3>2, <3>3
  <2> QED BY <2>1, <2>2
<1>8. t = m
  BY <1>5, <1>6, <1>7, SameSeq
<1> QED BY <1>8 DEF t, m, l, u

-----------------------------------------------------------------------------
(* The nodes of the path are the nodes of the map. *)
Fits(w, n, V) == n <= StoreCapacity /\ \A k \in StoreKeys : V[k] # Absent <=> On(w, n, k)

IsPath(w, n, V, p, x) == Path(w, n) /\ Linked(w, n, p, x) /\ Fits(w, n, V)

LruOk(V, p, x, z) ==
    /\ V \in Store /\ LinksTyped(p, x)
    /\ \E w : IsPath(w, z, V, p, x)

LEMMA MovedToHead ==
    ASSUME NEW w, NEW n, NEW p, NEW x, Path(w, n), Linked(w, n, p, x), LinksTyped(p, x),
           NEW a \in 1 .. n
    PROVE  LET l == CA!move_to_head([prev |-> p, next |-> x], w[a])
               u == Push(Skip(w, n, a), n - 1, w[a])
           IN /\ Path(u, n) /\ Linked(u, n, l.prev, l.next) /\ LinksTyped(l.prev, l.next)
              /\ \A k : On(u, n, k) <=> On(w, n, k)
<1> DEFINE k == w[a]
           l == CA!move_to_head([prev |-> p, next |-> x], k)
           r == CA!remove_node([prev |-> p, next |-> x], k)
           y == Skip(w, n, a)
           u == Push(y, n - 1, k)
<1>1. n \in Nat /\ k \in StoreKeys /\ (n - 1) + 1 = n /\ On(w, n, k)
  BY DEF Path, On
<1>2. Path(y, n - 1) /\ \A j : On(y, n - 1, j) <=> On(w, n, j) /\ j # k
  BY SkipIs
<1>3. Linked(y, n - 1, r.prev, r.next) /\ LinksTyped(r.prev, r.next)
  BY Unlinked
<1>4. r = [prev |-> r.prev, next |-> r.next]
  BY DEF CA!remove_node
<1>5. l = CA!add_to_head([prev |-> r.prev, next |-> r.next], k)
  BY <1>4 DEF CA!move_to_head
<1> HIDE DEF r, y, k, l
<1>6. Linked(u, (n - 1) + 1, l.prev, l.next) /\ LinksTyped(l.prev, l.next)
  BY <1>1, <1>2, <1>3, <1>5, Headed
<1>7. Path(u, (n - 1) + 1) /\ \A j : On(u, (n - 1) + 1, j) <=> On(y, n - 1, j) \/ j = k
  BY <1>1, <1>2, PushIs
<1> HIDE DEF u
<1>8. \A j : On(u, n, j) <=> On(w, n, j)
  BY <1>1, <1>2, <1>7
<1> QED BY <1>1, <1>6, <1>7, <1>8 DEF u, y, k, l

LEMMA Dropped ==
    ASSUME NEW w, NEW n, NEW p, NEW x, Path(w, n), Linked(w, n, p, x), LinksTyped(p, x),
           NEW a \in 1 .. n
    PROVE  LET l == CA!freed(CA!remove_node([prev |-> p, next |-> x], w[a]), w[a])
               y == Skip(w, n, a)
           IN /\ Linked(y, n - 1, l.prev, l.next) /\ LinksTyped(l.prev, l.next)
              /\ l = [prev |-> l.prev, next |-> l.next]
<1> DEFINE k == w[a]
           r == CA!remove_node([prev |-> p, next |-> x], k)
           l == CA!freed(r, k)
           y == Skip(w, n, a)
<1>1. k \in StoreKeys
  BY DEF Path
<1>2. Path(y, n - 1) /\ ~ On(y, n - 1, k)
  BY SkipIs
<1>3. Linked(y, n - 1, r.prev, r.next) /\ LinksTyped(r.prev, r.next)
  BY Unlinked
<1>4. r = [prev |-> r.prev, next |-> r.next]
  BY DEF CA!remove_node
<1>5. l = [prev |-> l.prev, next |-> l.next]
  BY DEF CA!freed
<1> HIDE DEF r, y, k
<1>6. l = CA!freed([prev |-> r.prev, next |-> r.next], k)
  BY <1>4
<1> HIDE DEF l
<1>7. Linked(y, n - 1, l.prev, l.next) /\ LinksTyped(l.prev, l.next)
  BY <1>1, <1>2, <1>3, <1>6, Freed
<1> QED BY <1>5, <1>7 DEF l, r, y, k

(* The list of a path, before and after a step. *)
LEMMA PathLists ==
    ASSUME NEW w, NEW n
    PROVE  /\ IsPath(w, n, s1, s2, s3) => CA!cache_list = Items(w, n, s1)
           /\ IsPath(w, n, s1', s2', s3') => CA!cache_list' = Items(w, n, s1')
<1>1. IsPath(w, n, s1, s2, s3) => ListOf(s3, s1) = Items(w, n, s1)
  BY ListIsPath DEF IsPath
<1>2. ASSUME NEW V, NEW p, NEW x
      PROVE  IsPath(w, n, V, p, x) => ListOf(x, V) = Items(w, n, V)
  BY ListIsPath DEF IsPath
<1>3. IsPath(w, n, s1', s2', s3') => ListOf(s3', s1') = Items(w, n, s1')
  BY <1>2
<1> QED BY <1>1, <1>3, ListIsList

(* The entry of a key that is used comes in front. *)
LEMMA ItemsUsed ==
    ASSUME NEW w, NEW n, NEW V \in Store, NEW W \in Store, Path(w, n), NEW a \in 1 .. n,
           NEW k \in StoreKeys, w[a] = k, SameBut(V, W, k)
    PROVE  <<[key |-> k, value |-> W[k]]>> \o Items(Skip(w, n, a), n - 1, V)
               = Items(Push(Skip(w, n, a), n - 1, k), n, W)
<1> DEFINE y == Skip(w, n, a)
<1>1. n \in Nat /\ (n - 1) + 1 = n
  BY DEF Path
<1>2. Path(y, n - 1) /\ \A j : On(y, n - 1, j) <=> On(w, n, j) /\ j # w[a]
  BY SkipIs
<1>3. ~ On(y, n - 1, k)
  BY <1>2
<1> HIDE DEF y
<1>4. \A i \in 1 .. n - 1 : W[y[i]] = V[y[i]]
  BY <1>2, <1>3 DEF Path, On, SameBut
<1>5. <<[key |-> k, value |-> W[k]]>> \o Items(y, n - 1, V) = Items(Push(y, n - 1, k), (n - 1) + 1, W)
  BY <1>2, <1>3, <1>4, ItemsPush
<1> QED BY <1>1, <1>5 DEF y

LEMMA LruGet ==
    ASSUME LruOk(s1, s2, s3, s4), NEW k \in StoreKeys, CA!LinkedLRUCache_get(k)
    PROVE  LruOk(s1', s2', s3', s4') /\ CA!LRU!get(k)
<1>1. PICK w : IsPath(w, s4, s1, s2, s3)
  BY DEF LruOk
<1>2. PICK n : n = s4
  OBVIOUS
<1>3. /\ s1 \in Store /\ LinksTyped(s2, s3)
      /\ Path(w, n) /\ Linked(w, n, s2, s3) /\ Fits(w, n, s1)
  BY <1>1, <1>2 DEF LruOk, IsPath
<1>4. CA!cache_list = Items(w, n, s1)
  BY <1>1, <1>2, PathLists
<1>5. CASE k \in CA!Mapped
  <2>1. /\ s2' = CA!move_to_head(CA!Links, k).prev /\ s3' = CA!move_to_head(CA!Links, k).next
        /\ CA!Answered("get", k, s1[k]) /\ s1' = s1 /\ s4' = s4
    BY <1>5 DEF CA!LinkedLRUCache_get, CA!SetLinks
  <2>2. PICK a \in 1 .. n : w[a] = k
    BY <1>3, <1>5 DEF Fits, On, CA!Mapped
  <2> DEFINE y == Skip(w, n, a)
             u == Push(y, n - 1, k)
  <2>3. /\ Path(u, n) /\ Linked(u, n, s2', s3') /\ LinksTyped(s2', s3')
        /\ \A j : On(u, n, j) <=> On(w, n, j)
    <3>1. CA!Links = [prev |-> s2, next |-> s3]
      BY DEF CA!Links
    <3> QED BY <1>3, <2>1, <2>2, <3>1, MovedToHead
  <2>4. Fits(u, n, s1')
    BY <1>3, <2>1, <2>3 DEF Fits
  <2>5. IsPath(u, n, s1', s2', s3')
    BY <2>3, <2>4 DEF IsPath
  <2>6. LruOk(s1', s2', s3', s4')
    BY <1>2, <1>3, <2>1, <2>3, <2>5 DEF LruOk
  <2>7. CA!cache_list' = Items(u, n, s1)
    BY <2>1, <2>5, PathLists
  <2>8. k \in CA!LRU!Held(CA!cache_list) /\ CA!LRU!At(CA!cache_list, k) = a
    BY <1>3, <1>4, <2>2, HeldIs DEF On
  <2>9. CA!cache_list[a] = [key |-> k, value |-> s1[k]]
    BY <1>3, <1>4, <2>2, ItemsAre
  <2>10. CA!LRU!Without(CA!cache_list, k) = Items(y, n - 1, s1)
    BY <1>3, <1>4, <2>8, ItemsSkip DEF CA!LRU!Without
  <2>11. <<[key |-> k, value |-> s1[k]]>> \o Items(y, n - 1, s1) = Items(u, n, s1)
    <3>1. SameBut(s1, s1, k)
      BY DEF SameBut
    <3> QED BY <1>3, <2>2, <3>1, ItemsUsed
  <2>12. CA!LRU!Answered("get", k, s1[k])
    BY <2>1 DEF CA!Answered, CA!LRU!Answered
  <2>13. CA!LRU!get(k)
    <3> HIDE DEF y, u
    <3> QED BY <2>7, <2>8, <2>9, <2>10, <2>11, <2>12 DEF CA!LRU!get
  <2> QED BY <2>6, <2>13
<1>6. CASE k \notin CA!Mapped
  <2>1. /\ CA!Answered("get", k, Absent) /\ s1' = s1 /\ s2' = s2 /\ s3' = s3 /\ s4' = s4
    BY <1>6 DEF CA!LinkedLRUCache_get
  <2>2. k \notin CA!LRU!Held(CA!cache_list)
    <3>1. ~ On(w, n, k)
      BY <1>3, <1>6 DEF Fits, CA!Mapped
    <3> QED BY <1>3, <1>4, <3>1, HeldIs
  <2>3. CA!cache_list' = CA!cache_list
    BY <2>1, ListIsList
  <2> QED BY <2>1, <2>2, <2>3 DEF CA!LRU!get, CA!Answered, CA!LRU!Answered
<1> QED BY <1>5, <1>6

LEMMA LruPutOver ==
    ASSUME LruOk(s1, s2, s3, s4), NEW k \in StoreKeys, NEW v \in Values, CA!put(k, v),
           k \in CA!Mapped, Absent \notin Values
    PROVE  LruOk(s1', s2', s3', s4') /\ CA!LRU!put(k, v)
<1>1. PICK w : IsPath(w, s4, s1, s2, s3)
  BY DEF LruOk
<1>2. PICK n : n = s4
  OBVIOUS
<1>3. /\ s1 \in Store /\ LinksTyped(s2, s3)
      /\ Path(w, n) /\ Linked(w, n, s2, s3) /\ Fits(w, n, s1)
  BY <1>1, <1>2 DEF LruOk, IsPath
<1>4. CA!cache_list = Items(w, n, s1)
  BY <1>1, <1>2, PathLists
<1>5. /\ s2' = CA!move_to_head(CA!Links, k).prev /\ s3' = CA!move_to_head(CA!Links, k).next
      /\ CA!Answered("put", k, v) /\ s1' = [s1 EXCEPT ![k] = v] /\ s4' = s4
  BY DEF CA!put, CA!SetLinks
<1>6. PICK a \in 1 .. n : w[a] = k
  BY <1>3 DEF Fits, On, CA!Mapped
<1> DEFINE y == Skip(w, n, a)
           u == Push(y, n - 1, k)
<1>7. /\ Path(u, n) /\ Linked(u, n, s2', s3') /\ LinksTyped(s2', s3')
      /\ \A j : On(u, n, j) <=> On(w, n, j)
  <2>1. CA!Links = [prev |-> s2, next |-> s3]
    BY DEF CA!Links
  <2> QED BY <1>3, <1>5, <1>6, <2>1, MovedToHead
<1>8. s1' \in Store /\ s1'[k] = v /\ SameBut(s1, s1', k)
  BY <1>3, <1>5 DEF Store, SameBut
<1>9. Fits(u, n, s1')
  <2>1. \A j \in StoreKeys : s1'[j] # Absent <=> s1[j] # Absent
    BY <1>8 DEF SameBut, CA!Mapped
  <2> HIDE DEF u
  <2> QED BY <1>3, <1>7, <2>1 DEF Fits
<1>10. IsPath(u, n, s1', s2', s3')
  BY <1>7, <1>9 DEF IsPath
<1>11. LruOk(s1', s2', s3', s4')
  BY <1>2, <1>5, <1>7, <1>8, <1>10 DEF LruOk
<1>12. CA!cache_list' = Items(u, n, s1')
  BY <1>10, PathLists
<1>13. k \in CA!LRU!Held(CA!cache_list) /\ CA!LRU!At(CA!cache_list, k) = a
  BY <1>3, <1>4, <1>6, HeldIs DEF On
<1>14. CA!LRU!Without(CA!cache_list, k) = Items(y, n - 1, s1)
  BY <1>3, <1>4, <1>13, ItemsSkip DEF CA!LRU!Without
<1>15. <<[key |-> k, value |-> s1'[k]]>> \o Items(y, n - 1, s1) = Items(u, n, s1')
  BY <1>3, <1>6, <1>8, ItemsUsed
<1>16. CA!LRU!Answered("put", k, v)
  BY <1>5 DEF CA!Answered, CA!LRU!Answered
<1>17. CA!LRU!put(k, v)
  <2> HIDE DEF y, u
  <2> QED BY <1>8, <1>12, <1>13, <1>14, <1>15, <1>16 DEF CA!LRU!put
<1> QED BY <1>11, <1>17

(* The node before tail_. *)
LEMMA LastNode ==
    ASSUME NEW w, NEW n, NEW p, NEW x, Path(w, n), Linked(w, n, p, x)
    PROVE  p[Back] = w[n] /\ (p[Back] # Front <=> n # 0)
<1>1. n \in Nat /\ n \in 0 .. n /\ w[n + 1] = Back /\ w[0] = Front
  BY DEF Path
<1>2. p[Back] = w[n]
  BY <1>1 DEF Linked
<1>3. ASSUME n # 0 PROVE w[n] # Front
  <2>1. n \in 1 .. n
    BY <1>1, <1>3
  <2> QED BY <2>1, StoreAssumption DEF Path
<1> QED BY <1>1, <1>2, <1>3

LEMMA LruPutNew ==
    ASSUME LruOk(s1, s2, s3, s4), NEW k \in StoreKeys, NEW v \in Values, CA!put(k, v),
           k \notin CA!Mapped, Absent \notin Values
    PROVE  LruOk(s1', s2', s3', s4') /\ CA!LRU!put(k, v)
<1>1. PICK w : IsPath(w, s4, s1, s2, s3)
  BY DEF LruOk
<1>2. PICK n : n = s4
  OBVIOUS
<1>3. /\ s1 \in Store /\ LinksTyped(s2, s3) /\ n \in Nat /\ StoreCapacity \in Nat \ {0}
      /\ Path(w, n) /\ Linked(w, n, s2, s3) /\ Fits(w, n, s1)
  BY <1>1, <1>2, StoreAssumption DEF LruOk, IsPath, Path
<1>4. CA!cache_list = Items(w, n, s1) /\ Len(CA!cache_list) = n
  BY <1>1, <1>2, <1>3, PathLists, ItemsAre
<1>5. ~ On(w, n, k)
  BY <1>3 DEF Fits, CA!Mapped
<1>6. k \notin CA!LRU!Held(CA!cache_list)
  BY <1>3, <1>4, <1>5, HeldIs
<1>7. s2[Back] = w[n] /\ (s2[Back] # Front <=> n # 0)
  BY <1>3, LastNode
<1>8. CA!Links = [prev |-> s2, next |-> s3]
  BY DEF CA!Links
<1>9. CA!Answered("put", k, v) /\ CA!LRU!Answered("put", k, v)
  BY DEF CA!put, CA!Answered, CA!LRU!Answered
<1>10. CASE n < StoreCapacity
  <2>1. ~ (s4 >= StoreCapacity)
    BY <1>2, <1>3, <1>10
  <2>2. /\ s1' = [s1 EXCEPT ![k] = v] /\ s4' = s4 + 1
        /\ s2' = CA!add_to_head(CA!Links, k).prev /\ s3' = CA!add_to_head(CA!Links, k).next
    BY <2>1 DEF CA!put, CA!SetLinks
  <2> DEFINE u == Push(w, n, k)
  <2>3. Linked(u, n + 1, s2', s3') /\ LinksTyped(s2', s3')
    BY <1>3, <1>5, <1>8, <2>2, Headed
  <2>4. Path(u, n + 1) /\ \A j : On(u, n + 1, j) <=> On(w, n, j) \/ j = k
    BY <1>3, <1>5, PushIs
  <2>5. s1' \in Store /\ s1'[k] = v /\ SameBut(s1, s1', k)
    BY <1>3, <2>2 DEF Store, SameBut
  <2> HIDE DEF u
  <2>6. Fits(u, n + 1, s1')
    <3>1. \A j \in StoreKeys : s1'[j] # Absent <=> On(u, n + 1, j)
      BY <1>3, <2>4, <2>5 DEF Fits, SameBut
    <3> QED BY <1>3, <1>10, <3>1 DEF Fits
  <2>7. IsPath(u, n + 1, s1', s2', s3')
    BY <2>3, <2>4, <2>6 DEF IsPath
  <2>8. LruOk(s1', s2', s3', s4')
    BY <1>2, <2>2, <2>3, <2>5, <2>7 DEF LruOk
  <2>9. CA!cache_list' = Items(u, n + 1, s1')
    BY <2>7, PathLists
  <2>10. <<[key |-> k, value |-> s1'[k]]>> \o Items(w, n, s1) = Items(u, n + 1, s1')
    <3>1. \A i \in 1 .. n : s1'[w[i]] = s1[w[i]]
      BY <1>3, <1>5, <2>5 DEF SameBut, On, Path
    <3> QED BY <1>3, <1>5, <2>5, <3>1, ItemsPush DEF u
  <2>11. CA!LRU!Without(CA!cache_list, k) = CA!cache_list
    BY <1>6 DEF CA!LRU!Without
  <2>12. ~ (Len(CA!cache_list) >= StoreCapacity)
    BY <1>3, <1>4, <1>10
  <2>13. CA!LRU!put(k, v)
    BY <1>4, <1>9, <2>5, <2>9, <2>10, <2>11, <2>12 DEF CA!LRU!put
  <2> QED BY <2>8, <2>13
<1>11. CASE ~ (n < StoreCapacity)
  <2>1. n = StoreCapacity /\ n # 0 /\ n \in 1 .. n /\ s4 >= StoreCapacity /\ s2[Back] # Front
    BY <1>2, <1>3, <1>7, <1>11 DEF Fits
  <2> DEFINE d == w[n]
             r == CA!freed(CA!remove_node(CA!Links, d), d)
             y == Skip(w, n, n)
             u == Push(y, n - 1, k)
  <2>2. /\ s1' = [s1 EXCEPT ![d] = Absent, ![k] = v] /\ s4' = s4
        /\ s2' = CA!add_to_head(r, k).prev /\ s3' = CA!add_to_head(r, k).next
    BY <1>7, <2>1 DEF CA!put, CA!SetLinks
  <2>3. /\ Linked(y, n - 1, r.prev, r.next) /\ LinksTyped(r.prev, r.next)
        /\ r = [prev |-> r.prev, next |-> r.next]
    BY <1>3, <1>8, <2>1, Dropped
  <2>4. Path(y, n - 1) /\ \A j : On(y, n - 1, j) <=> On(w, n, j) /\ j # d
    BY <1>3, <2>1, SkipIs
  <2>5. d \in StoreKeys /\ d # k /\ On(w, n, d) /\ (n - 1) + 1 = n
    BY <1>3, <1>5, <2>1 DEF Path, On
  <2> HIDE DEF d, r, y
  <2>6. Linked(u, n, s2', s3') /\ LinksTyped(s2', s3')
    <3>1. ~ On(y, n - 1, k)
      BY <1>5, <2>4
    <3>2. PICK l : l = CA!add_to_head([prev |-> r.prev, next |-> r.next], k)
      OBVIOUS
    <3>3. Linked(u, (n - 1) + 1, l.prev, l.next) /\ LinksTyped(l.prev, l.next)
      BY <2>3, <2>4, <3>1, <3>2, Headed
    <3>4. s2' = l.prev /\ s3' = l.next
      BY <2>2, <2>3, <3>2
    <3> HIDE DEF u
    <3> QED BY <2>5, <3>3, <3>4
  <2>7. Path(u, n) /\ \A j : On(u, n, j) <=> On(y, n - 1, j) \/ j = k
    <3>1. ~ On(y, n - 1, k)
      BY <1>5, <2>4
    <3>2. Path(u, (n - 1) + 1) /\ \A j : On(u, (n - 1) + 1, j) <=> On(y, n - 1, j) \/ j = k
      BY <2>4, <3>1, PushIs
    <3> HIDE DEF u
    <3> QED BY <2>5, <3>2
  <2>8. /\ s1' \in Store /\ s1'[k] = v /\ s1'[d] = Absent
        /\ \A j \in StoreKeys \ {k, d} : s1'[j] = s1[j]
    BY <1>3, <2>2, <2>5 DEF Store
  <2>9. Fits(u, n, s1')
    <3> HIDE DEF u
    <3>1. \A j \in StoreKeys : s1'[j] # Absent <=> On(u, n, j)
      BY <1>3, <2>4, <2>5, <2>7, <2>8 DEF Fits
    <3> QED BY <1>3, <3>1 DEF Fits
  <2>10. IsPath(u, n, s1', s2', s3')
    BY <2>6, <2>7, <2>9 DEF IsPath
  <2>11. LruOk(s1', s2', s3', s4')
    BY <1>2, <2>2, <2>6, <2>8, <2>10 DEF LruOk
  <2>12. CA!cache_list' = Items(u, n, s1')
    BY <2>10, PathLists
  <2>13. CA!LRU!Front(CA!cache_list) = Items(y, n - 1, s1)
    <3>1. CA!LRU!Front(Items(w, n, s1)) = CA!LRU!RemoveAt(Items(w, n, s1), n)
      BY <1>3, <1>4, <2>1, ItemsAre, FrontIs
    <3> QED BY <1>3, <1>4, <2>1, <3>1, ItemsSkip DEF y
  <2>14. <<[key |-> k, value |-> s1'[k]]>> \o Items(y, n - 1, s1) = Items(u, n, s1')
    <3>1. ~ On(y, n - 1, k) /\ ~ On(y, n - 1, d)
      BY <1>5, <2>4
    <3>2. \A i \in 1 .. n - 1 : s1'[y[i]] = s1[y[i]]
      BY <2>4, <2>8, <3>1 DEF On, Path
    <3>3. <<[key |-> k, value |-> s1'[k]]>> \o Items(y, n - 1, s1) = Items(u, (n - 1) + 1, s1')
      BY <1>3, <2>4, <2>8, <3>1, <3>2, ItemsPush
    <3> QED BY <2>5, <3>3
  <2>15. Len(CA!cache_list) >= StoreCapacity
    BY <1>3, <1>4, <2>1
  <2>16. CA!LRU!put(k, v)
    <3> HIDE DEF u
    <3> QED BY <1>6, <1>9, <2>8, <2>12, <2>13, <2>14, <2>15 DEF CA!LRU!put
  <2> QED BY <2>11, <2>16
<1> QED BY <1>10, <1>11

LEMMA LruRemove ==
    ASSUME LruOk(s1, s2, s3, s4), NEW k \in StoreKeys, CA!LinkedLRUCache_remove(k)
    PROVE  LruOk(s1', s2', s3', s4') /\ CA!LRU!remove(k)
<1>1. PICK w : IsPath(w, s4, s1, s2, s3)
  BY DEF LruOk
<1>2. PICK n : n = s4
  OBVIOUS
<1>3. /\ s1 \in Store /\ LinksTyped(s2, s3) /\ n \in Nat /\ StoreCapacity \in Nat
      /\ Path(w, n) /\ Linked(w, n, s2, s3) /\ Fits(w, n, s1)
  BY <1>1, <1>2, StoreAssumption DEF LruOk, IsPath, Path
<1>4. CA!cache_list = Items(w, n, s1)
  BY <1>1, <1>2, PathLists
<1>5. CASE k \in CA!Mapped
  <2> DEFINE r == CA!freed(CA!remove_node(CA!Links, k), k)
  <2>1. /\ s2' = r.prev /\ s3' = r.next /\ s1' = [s1 EXCEPT ![k] = Absent] /\ s4' = s4 - 1
        /\ CA!Answered("remove", k, TRUE)
    BY <1>5 DEF CA!LinkedLRUCache_remove, CA!SetLinks
  <2>2. PICK a \in 1 .. n : w[a] = k
    BY <1>3, <1>5 DEF Fits, On, CA!Mapped
  <2> DEFINE y == Skip(w, n, a)
  <2>3. Linked(y, n - 1, s2', s3') /\ LinksTyped(s2', s3')
    <3>1. CA!Links = [prev |-> s2, next |-> s3]
      BY DEF CA!Links
    <3> QED BY <1>3, <2>1, <2>2, <3>1, Dropped
  <2>4. Path(y, n - 1) /\ \A j : On(y, n - 1, j) <=> On(w, n, j) /\ j # w[a]
    BY <1>3, SkipIs
  <2>5. s1' \in Store /\ s1'[k] = Absent /\ SameBut(s1, s1', k)
    BY <1>3, <2>1 DEF Store, SameBut
  <2>6. k \in CA!LRU!Held(CA!cache_list) /\ CA!LRU!At(CA!cache_list, k) = a
    BY <1>3, <1>4, <2>2, HeldIs DEF On
  <2>7. CA!LRU!Without(CA!cache_list, k) = Items(y, n - 1, s1)
    BY <1>3, <1>4, <2>6, ItemsSkip DEF CA!LRU!Without
  <2> HIDE DEF y, r
  <2>8. Fits(y, n - 1, s1')
    <3>1. \A j \in StoreKeys : s1'[j] # Absent <=> On(y, n - 1, j)
      BY <1>3, <2>2, <2>4, <2>5 DEF Fits, SameBut
    <3> QED BY <1>3, <3>1 DEF Fits
  <2>9. IsPath(y, n - 1, s1', s2', s3')
    BY <2>3, <2>4, <2>8 DEF IsPath
  <2>10. LruOk(s1', s2', s3', s4')
    BY <1>2, <2>1, <2>3, <2>5, <2>9 DEF LruOk
  <2>11. CA!cache_list' = Items(y, n - 1, s1')
    BY <2>9, PathLists
  <2>12. Items(y, n - 1, s1') = Items(y, n - 1, s1)
    <3>1. \A i \in 1 .. n - 1 : s1'[y[i]] = s1[y[i]]
      BY <2>2, <2>4, <2>5 DEF On, Path, SameBut
    <3> QED BY <3>1 DEF Items
  <2>13. CA!LRU!Answered("remove", k, k \in CA!LRU!Held(CA!cache_list))
    <3>1. (k \in CA!LRU!Held(CA!cache_list)) = TRUE
      BY <2>6
    <3> QED BY <2>1, <3>1 DEF CA!Answered, CA!LRU!Answered
  <2>14. CA!LRU!remove(k)
    BY <2>7, <2>11, <2>12, <2>13 DEF CA!LRU!remove
  <2> QED BY <2>10, <2>14
<1>6. CASE k \notin CA!Mapped
  <2>1. /\ CA!Answered("remove", k, FALSE)
        /\ s1' = s1 /\ s2' = s2 /\ s3' = s3 /\ s4' = s4
    BY <1>6 DEF CA!LinkedLRUCache_remove
  <2>2. k \notin CA!LRU!Held(CA!cache_list)
    <3>1. ~ On(w, n, k)
      BY <1>3, <1>6 DEF Fits, CA!Mapped
    <3> QED BY <1>3, <1>4, <3>1, HeldIs
  <2>3. CA!cache_list' = CA!cache_list
    BY <2>1, ListIsList
  <2>4. CA!LRU!Answered("remove", k, k \in CA!LRU!Held(CA!cache_list))
    <3>1. (k \in CA!LRU!Held(CA!cache_list)) = FALSE
      BY <2>2
    <3> QED BY <2>1, <3>1 DEF CA!Answered, CA!LRU!Answered
  <2>5. CA!LRU!remove(k)
    BY <2>2, <2>3, <2>4 DEF CA!LRU!remove, CA!LRU!Without
  <2> QED BY <2>1, <2>5
<1> QED BY <1>5, <1>6

LEMMA EmptyPath ==
    ASSUME NEW V, NEW p, NEW x, V = [k \in StoreKeys |-> Absent],
           p = CA!EmptyLinks.prev, x = CA!EmptyLinks.next
    PROVE  LruOk(V, p, x, 0) /\ ListOf(x, V) = <<>>
<1> DEFINE w == [i \in 0 .. 1 |-> IF i = 0 THEN Front ELSE Back]
<1>1. /\ x = [m \in CA!Linkable |-> IF m = Front THEN Back ELSE Absent]
      /\ p = [m \in CA!Linkable |-> IF m = Back THEN Front ELSE Absent]
  BY DEF CA!EmptyLinks
<1>2. w[0] = Front /\ w[0 + 1] = Back /\ 1 .. 0 = {} /\ 0 .. 0 = {0}
  OBVIOUS
<1> HIDE DEF w
<1>3. Path(w, 0)
  BY <1>2 DEF Path
<1>4. Linked(w, 0, p, x) /\ LinksTyped(p, x)
  BY <1>1, <1>2 DEF Linked, LinksTyped, CA!Linkable
<1>5. Fits(w, 0, V)
  BY <1>2, StoreAssumption DEF Fits, On
<1>6. LruOk(V, p, x, 0)
  BY <1>3, <1>4, <1>5 DEF LruOk, IsPath, Store
<1>7. ListOf(x, V) = Items(w, 0, V)
  BY <1>3, <1>4, ListIsPath
<1>8. V \in Store
  BY DEF Store
<1>9. Items(w, 0, V) \in Seq(Cell) /\ Len(Items(w, 0, V)) = 0
  BY <1>3, <1>8, ItemsAre
<1> QED BY <1>6, <1>7, <1>9, EmptySeq

LEMMA LruNext ==
    ASSUME LruOk(s1, s2, s3, s4), CA!LinkedLRUCache_Next
    PROVE  LruOk(s1', s2', s3', s4') /\ CA!LRU!Next
<1>1. Absent \notin Values
  BY StoreAssumption
<1>2. ASSUME NEW k \in StoreKeys, CA!LinkedLRUCache_get(k) \/ CA!LinkedLRUCache_remove(k)
      PROVE  LruOk(s1', s2', s3', s4') /\ CA!LRU!Next
  BY <1>2, LruGet, LruRemove DEF CA!LRU!Next
<1>3. ASSUME NEW k \in StoreKeys, NEW v \in Values, CA!put(k, v)
      PROVE  LruOk(s1', s2', s3', s4') /\ CA!LRU!Next
  BY <1>1, <1>3, LruPutOver, LruPutNew DEF CA!LRU!Next
<1>4. CASE CA!LinkedLRUCache_clear
  <2>1. /\ s1' = [k \in StoreKeys |-> Absent] /\ s4' = 0
        /\ s2' = CA!EmptyLinks.prev /\ s3' = CA!EmptyLinks.next
        /\ CA!Answered("clear", Absent, Absent)
    BY <1>4 DEF CA!LinkedLRUCache_clear, CA!SetLinks
  <2>2. LruOk(s1', s2', s3', s4') /\ CA!cache_list' = <<>>
    BY <2>1, EmptyPath, ListIsList
  <2>3. CA!LRU!clear
    BY <2>1, <2>2 DEF CA!LRU!clear, CA!Answered, CA!LRU!Answered
  <2> QED BY <2>2, <2>3 DEF CA!LRU!Next
<1> QED BY <1>2, <1>3, <1>4 DEF CA!LinkedLRUCache_Next

LEMMA LruInit ==
    ASSUME CA!LinkedLRUCache_Init
    PROVE  LruOk(s1, s2, s3, s4) /\ CA!LRU!Init
<1>1. /\ s1 = [k \in StoreKeys |-> Absent] /\ s4 = 0
      /\ s2 = CA!EmptyLinks.prev /\ s3 = CA!EmptyLinks.next
      /\ s5 = [op |-> "clear", key |-> Absent, answer |-> Absent]
  BY DEF CA!LinkedLRUCache_Init
<1>2. LruOk(s1, s2, s3, s4) /\ CA!cache_list = <<>>
  BY <1>1, EmptyPath, ListIsList
<1> QED BY <1>1, <1>2 DEF CA!LRU!Init

LEMMA LruHolds ==
    ASSUME LruOk(s1, s2, s3, s4)
    PROVE  CA!LinkedLRUCache_TypeOK /\ CA!LinksMatchTheMap
<1>1. PICK w : IsPath(w, s4, s1, s2, s3)
  BY DEF LruOk
<1>2. PICK n : n = s4
  OBVIOUS
<1>3. /\ s1 \in Store /\ LinksTyped(s2, s3) /\ n \in Nat
      /\ Path(w, n) /\ Linked(w, n, s2, s3) /\ Fits(w, n, s1)
  BY <1>1, <1>2 DEF LruOk, IsPath, Path
<1>4. CA!LinkedLRUCache_TypeOK
  BY <1>2, <1>3 DEF CA!LinkedLRUCache_TypeOK, Store, LinksTyped
<1>5. CA!cache_list = Items(w, n, s1) /\ CA!Length = n
  BY <1>1, <1>2, <1>3, PathLists, ListIsList, ListIsPath
<1>6. {CA!cache_list[i].key : i \in 1 .. CA!Length} = CA!Mapped
  <2>1. \A i \in 1 .. n : CA!cache_list[i].key = w[i]
    BY <1>5 DEF Items
  <2>2. {CA!cache_list[i].key : i \in 1 .. n} = {w[i] : i \in 1 .. n}
    BY <2>1
  <2>3. {w[i] : i \in 1 .. n} = CA!Mapped
    BY <1>3 DEF CA!Mapped, Fits, On, Path
  <2> QED BY <1>5, <2>2, <2>3
<1>7. ASSUME NEW m \in CA!Mapped \cup {Front}
      PROVE  s3[m] # Absent /\ s2[s3[m]] = m
  <2>1. PICK i \in 0 .. n : w[i] = m
    <3>1. CASE m = Front
      BY <1>3, <3>1 DEF Path
    <3>2. CASE m # Front
      <4>1. PICK i \in 1 .. n : w[i] = m
        BY <1>3, <3>2 DEF CA!Mapped, Fits, On
      <4> QED BY <1>3, <4>1
    <3> QED BY <3>1, <3>2
  <2>2. s3[m] = w[i + 1] /\ s2[w[i + 1]] = m
    BY <1>3, <2>1 DEF Linked
  <2>3. i + 1 \in 0 .. n + 1
    BY <1>3
  <2>4. w[i + 1] \in CA!Linkable
    BY <1>3, <2>3, PathIsSimple
  <2>5. Absent \notin CA!Linkable
    BY StoreAssumption DEF CA!Linkable
  <2> QED BY <2>2, <2>4, <2>5
<1>8. CA!Walk[CA!Length + 1] = Back
  <2>1. n + 1 \in 0 .. Last /\ ~ (n + 1 <= n)
    BY <1>3, PathEnds
  <2>2. WalkOf(s3)[n + 1] = Stop(w, n, n + 1)
    BY <1>3, <2>1, WalkFollows
  <2> QED BY <1>5, <2>1, <2>2, WalkIsWalk DEF Stop
<1>9. s4 = CA!Cardinality(CA!Mapped)
  <2> DEFINE f == [i \in 1 .. n |-> w[i]]
  <2>1. /\ f \in [1 .. n -> CA!Mapped] /\ (\A i, j \in 1 .. n : f[i] = f[j] => i = j)
        /\ \A m \in CA!Mapped : \E i \in 1 .. n : f[i] = m
    BY <1>3 DEF CA!Mapped, Fits, On, Path
  <2>2. f \in Bijection(1 .. n, CA!Mapped)
    BY <2>1 DEF Bijection, Injection, Surjection, IsInjective
  <2>3. ExistsBijection(1 .. n, CA!Mapped)
    BY <2>2 DEF ExistsBijection
  <2>4. IsFiniteSet(1 .. n) /\ Cardinality(1 .. n) = n
    BY <1>3, CountUp
  <2>5. Cardinality(CA!Mapped) = Cardinality(1 .. n)
    BY <2>3, <2>4, FS_Bijection
  <2> QED BY <1>2, <2>4, <2>5, SameCountInTheCache
<1> QED BY <1>4, <1>6, <1>7, <1>8, <1>9 DEF CA!LinksMatchTheMap

-----------------------------------------------------------------------------
CacheIInv ==
    /\ service = "lru" => LruOk(s1, s2, s3, s4)
    /\ service = "lfu" => LfuOk(s1, s2, s3, s4, s5, s6)

LEMMA StoreInit == Init => CacheIInv /\ (service = "lru" => CA!LRU!Init)
<1>1. CA!LFUCache_Init => LfuOk(s1, s2, s3, s4, s5, s6)
  BY LfuEmpty DEF CA!LFUCache_Init
<1> QED BY <1>1, LruInit DEF Init, CacheIInv

CachesStep ==
    /\ service = "lru" => CA!IsLeastRecentlyUsed
    /\ service = "lfu" => CA!EvictsLeastFrequentlyUsed

LEMMA CacheStep == CacheIInv /\ [Next]_vars => CacheIInv' /\ [CachesStep]_vars
<1> SUFFICES ASSUME CacheIInv, [Next]_vars PROVE CacheIInv' /\ [CachesStep]_vars
  OBVIOUS
<1>1. CASE vars' = vars
  <2>1. /\ service' = service /\ s1' = s1 /\ s2' = s2 /\ s3' = s3 /\ s4' = s4
        /\ s5' = s5 /\ s6' = s6
    BY <1>1 DEF vars, From5, From6
  <2> QED BY <1>1, <2>1 DEF CacheIInv
<1>2. CASE Lru
  BY <1>2, LruNext DEF Lru, CacheIInv, CachesStep, CA!IsLeastRecentlyUsed
<1>3. CASE Lfu
  BY <1>3, LfuNext, ProviderAssumption DEF Lfu, CacheIInv, CachesStep
<1>4. CASE service \notin {"lru", "lfu"} /\ service' = service
  BY <1>4 DEF CacheIInv, CachesStep
<1>5. Next => Lru \/ Lfu \/ (service \notin {"lru", "lfu"} /\ service' = service)
  BY DEF Next, Scheduler, Delayed, Periodic, HashMap, Cache, HashRing, Provider, EventBus,
         Middleware, Snowflake, Connectivity, Watcher, Session
<1> QED BY <1>1, <1>2, <1>3, <1>4, <1>5

(* For any keys, values, capacity and frequency bound: the linked list of   *)
(* hash::LRUCache, both ways, holds exactly the nodes of its map and        *)
(* answers, reorders and evicts as the abstract list of cache::LRUCache     *)
(* does; lists, places and min_freq_ of LFUCache agree, put always finds a  *)
(* victim, and the victim is the key used least often and, among those,     *)
(* longest ago.                                                             *)
THEOREM CachesEvictTheRightKey == Spec => CachesEvict
<1>1. CacheIInv => CachesAgree
  BY LruHolds, LfuHolds, ProviderAssumption DEF CacheIInv, CachesAgree
<1>2. [CachesStep]_vars <=>
          [/\ service = "lru" => CA!IsLeastRecentlyUsed
           /\ service = "lfu" => CA!EvictsLeastFrequentlyUsed]_vars
  BY DEF CachesStep
<1> QED BY <1>1, <1>2, StoreInit, CacheStep, PTL DEF Spec, CachesEvict
=============================================================================
