-------------------------- MODULE TreiberStackProofs --------------------------
(***************************************************************************)
(* Proofs about TreiberStack.  Each list is the sequence of its nodes, and *)
(* the inductive invariant says that both are linked as they should be,    *)
(* that every node is in one place, and what a thread that has read a head *)
(* may still rely on: all of it as long as the tag has not changed.        *)
(***************************************************************************)
EXTENDS MCLockFree, FiniteSetTheorems, WellFoundedInduction, TLAPS

At(l, i) == IF i \in 1 .. Len(l) THEN l[i] ELSE Null
Elems(l) == {l[i] : i \in 1 .. Len(l)}

Linked(first, link, l) ==
    /\ l \in Seq(Nodes)
    /\ \A i, j \in 1 .. Len(l) : l[i] = l[j] => i = j
    /\ first = At(l, 1)
    /\ \A i \in 1 .. Len(l) : link[l[i]] = At(l, i + 1)

(* The nodes of the stack and of the pool, in their order. *)
stack == List(top.ptr, next)
pool == List(free_head.ptr, next)

Owners == {t \in Threads : Owns(t)}

(* Every node is in one place: H, the nodes A and B of the two lists, or   *)
(* with the thread that owns it.                                           *)
InOnePlace(H, A, B, owners, nd) ==
    /\ H \cap A = {} /\ H \cap B = {} /\ A \cap B = {}
    /\ \A t \in owners : nd[t] \in Nodes \ (H \cup A \cup B)
    /\ \A t, u \in owners : nd[t] = nd[u] => t = u
    /\ \A n \in Nodes : n \in H \cup A \cup B \/ \E t \in owners : nd[t] = n

(* A head read some time ago: it has changed since, or it is still there. *)
Read(o, head_now) == o.tag <= head_now.tag /\ (o.tag = head_now.tag => o = head_now)

(* Where a thread is pushing, and where it has read the top. *)
Making == {"pf_load", "pf_next", "pf_cas", "pf_reset", "emplace", "construct"}
Linking == {"push_load", "push_link", "push_cas"}
Looking == {"pop_check", "pop_copy", "pop_cas"}
PoolRead == {"pf_next", "pf_cas", "free_link", "free_cas"}
TopRead == Looking \cup {"push_link", "push_cas", "pop_next"}

(* What a thread may rely on: its own node is as it left it; what it has   *)
(* read of a list is true as long as the tag is the same.                  *)
Relies(t) ==
    /\ pc[t] \in {"idle", "pop_load", "pop_next", "pop_check", "pop_copy"} => val[t] = None
    /\ pc[t] \in Making \cup Linking => val[t] \in Values
    /\ pc[t] \in Linking => value[node[t]] = val[t]
    /\ pc[t] \in {"push_cas", "free_cas"} => next[node[t]] = old[t].ptr
    /\ pc[t] = "pop_take" => value[node[t]] \in Values /\ ret[t] = "pop_count"
    /\ pc[t] \in Freeing => \/ ret[t] = "idle" /\ val[t] = None
                            \/ ret[t] = "pop_count" /\ val[t] \in Values
    /\ pc[t] = "pop_count" => val[t] \in Values
    /\ pc[t] \in PoolRead => Read(old[t], free_head)
    /\ pc[t] \in TopRead => Read(old[t], top)
    /\ pc[t] \in {"pf_cas"} \cup Looking => old[t].ptr # Null
    /\ pc[t] = "pf_cas" /\ old[t].tag = free_head.tag => nxt[t] = next[old[t].ptr]
    /\ pc[t] \in Looking /\ old[t].tag = top.tag => nxt[t] = next[old[t].ptr]
    /\ pc[t] = "pop_cas" /\ copyable /\ old[t].tag = top.tag => val[t] = value[old[t].ptr]

IInv ==
    /\ TypeOK
    /\ Linked(top.ptr, next, stack) /\ Linked(free_head.ptr, next, pool)
    /\ InOnePlace(heap, Elems(stack), Elems(pool), Owners, node)
    /\ \A n \in Elems(stack) : value[n] \in Values
    /\ \A t \in Threads : Relies(t)

(* No thread stalls between its load of a head and its compare-and-swap    *)
(* until the tag comes back to the same bits: 65536 successful swaps in    *)
(* the code.  The tags protect against no more than that.                  *)
TagsAreFresh ==
    \A t \in Threads :
        /\ pc[t] \in {"pf_cas", "free_cas"} => free_head.tag - old[t].tag < TagMod
        /\ pc[t] \in {"push_cas", "pop_cas"} => top.tag - old[t].tag < TagMod

LEMMA LeastNatural ==
    ASSUME NEW S, S \subseteq Nat, S # {}
    PROVE  \E m \in S : \A n \in S : m <= n
<1>1. PICK x \in S : TRUE
  OBVIOUS
<1>2. PICK m \in S : \A y \in S : ~ (<<y, m>> \in OpToRel(<, Nat))
  BY <1>1, WFMin, NatLessThanWellFounded
<1>3. \A y \in S : ~ (y < m)
  <2> SUFFICES ASSUME NEW y \in S, y < m PROVE FALSE
    OBVIOUS
  <2>1. <<y, m>> \in OpToRel(<, Nat)
    BY Zenon DEF OpToRel
  <2> QED BY <2>1, <1>2
<1> QED BY <1>3

(* A list without repetition has at most as many nodes as there are. *)
LEMMA ListIsShort ==
    ASSUME NEW l \in Seq(Nodes), \A i, j \in 1 .. Len(l) : l[i] = l[j] => i = j
    PROVE  Cardinality(Nodes) \in Nat /\ Len(l) <= Cardinality(Nodes)
<1>1. IsFiniteSet(Nodes)
  BY TreiberStackAssumption
<1>2. l \in [1 .. Len(l) -> Nodes] /\ Len(l) \in Nat
  OBVIOUS
<1>3. l \in Injection(1 .. Len(l), Nodes)
  BY <1>2 DEF Injection, IsInjective
<1>4. Cardinality(1 .. Len(l)) <= Cardinality(Nodes)
  BY <1>1, <1>3, FS_Injection
<1>5. Cardinality(1 .. Len(l)) = Len(l)
  <2>1. Cardinality(1 .. Len(l)) = IF 1 > Len(l) THEN 0 ELSE Len(l) - 1 + 1
    BY <1>2, FS_Interval
  <2> QED BY <2>1, <1>2
<1> QED BY <1>1, <1>4, <1>5, FS_CardinalityType

LEMMA WalkMeetsTheList ==
    ASSUME NEW first, NEW link, NEW l, Linked(first, link, l)
    PROVE  \A n \in 0 .. Cardinality(Nodes) : Nth(first, link)[n] = At(l, n + 1)
<1> DEFINE K == Cardinality(Nodes)
           Walked(f) == [n \in 0 .. K |-> IF n = 0 THEN first
                          ELSE IF f[n - 1] = Null THEN Null ELSE link[f[n - 1]]]
           g == [n \in 0 .. K |-> At(l, n + 1)]
           f == Nth(first, link)
<1>0. K \in Nat /\ Len(l) \in Nat /\ l \in Seq(Nodes) /\ Null \notin Nodes
  BY ListIsShort, TreiberStackAssumption DEF Linked
<1>1. g = Walked(g)
  <2> SUFFICES ASSUME NEW n \in 0 .. K
               PROVE  g[n] = Walked(g)[n]
    BY DEF g, Walked
  <2>1. CASE n = 0
    BY <2>1 DEF Linked, At
  <2>2. CASE n # 0 /\ n \in 1 .. Len(l)
    <3>1. n - 1 \in 0 .. K /\ g[n - 1] = l[n] /\ l[n] \in Nodes
      BY <2>2, <1>0 DEF At
    <3>2. link[l[n]] = At(l, n + 1)
      BY <2>2 DEF Linked
    <3> QED BY <3>1, <3>2, <2>2, <1>0
  <2>3. CASE n # 0 /\ n \notin 1 .. Len(l)
    <3>1. n - 1 \in 0 .. K /\ g[n - 1] = Null /\ g[n] = Null
      BY <2>3, <1>0 DEF At
    <3> QED BY <3>1, <2>3
  <2> QED BY <2>1, <2>2, <2>3
<1>2. f = CHOOSE h1 : h1 = Walked(h1)
  BY DEF Nth
<1>3. f = Walked(f)
  BY <1>1, <1>2
<1> HIDE DEF f
<1>4. /\ \A n \in 0 .. K : f[n] = Walked(f)[n]
      /\ \A n \in 0 .. K : g[n] = Walked(g)[n]
  BY <1>1, <1>3
<1>5. /\ \A n \in 0 .. K : f[n] = IF n = 0 THEN first
                          ELSE IF f[n - 1] = Null THEN Null ELSE link[f[n - 1]]
      /\ \A n \in 0 .. K : g[n] = IF n = 0 THEN first
                          ELSE IF g[n - 1] = Null THEN Null ELSE link[g[n - 1]]
  BY <1>4
<1>6. \A n \in 0 .. K : g[n] = At(l, n + 1)
  OBVIOUS
<1> HIDE DEF g
<1> DEFINE D == {n \in 0 .. K : f[n] # g[n]}
<1>7. D = {}
  <2> SUFFICES ASSUME D # {} PROVE FALSE
    OBVIOUS
  <2>0. D \subseteq Nat
    BY <1>0
  <2>1. PICK m \in D : \A n \in D : m <= n
    <3> HIDE DEF D
    <3> QED BY <2>0, LeastNatural
  <2>2. m \in 0 .. K /\ f[m] # g[m] /\ K \in Nat
    BY <1>0
  <2>3. m # 0
    BY <2>2, <1>5
  <2>4. m - 1 \in 0 .. K /\ m - 1 \notin D
    BY <2>1, <2>2, <2>3
  <2>5. f[m - 1] = g[m - 1]
    BY <2>4
  <2> QED BY <2>2, <2>3, <2>5, <1>5
<1> QED BY <1>6, <1>7 DEF f

(* A linked list is what a walk finds. *)
LEMMA ListIs ==
    ASSUME NEW first, NEW link, NEW l, Linked(first, link, l)
    PROVE  /\ Ends(first, link)
           /\ Length(first, link) = Len(l)
           /\ List(first, link) = l
           /\ ListNodes(first, link) = Elems(l)
<1> DEFINE K == Cardinality(Nodes)
           f == Nth(first, link)
<1>1. \A n \in 0 .. K : f[n] = At(l, n + 1)
  BY WalkMeetsTheList
<1>2. K \in Nat /\ Len(l) \in 0 .. K /\ l \in Seq(Nodes) /\ Null \notin Nodes
  BY ListIsShort, TreiberStackAssumption DEF Linked
<1> HIDE DEF f, K
<1>3. f[Len(l)] = Null /\ \A m \in 0 .. K : m < Len(l) => f[m] = l[m + 1] /\ f[m] # Null
  BY <1>1, <1>2 DEF At
<1>4. \A m \in 0 .. K : m >= Len(l) => f[m] = Null
  BY <1>1, <1>2 DEF At
<1>5. Ends(first, link)
  BY <1>2, <1>3 DEF Ends, f, K
<1>6. Length(first, link) = Len(l)
  <2> DEFINE P(n) == f[n] = Null /\ \A m \in 0 .. (n - 1) : f[m] # Null
  <2>1. P(Len(l))
    BY <1>2, <1>3
  <2>2. ASSUME NEW n \in 0 .. K, P(n)
        PROVE  n = Len(l)
    <3>1. n >= Len(l)
      BY <2>2, <1>2, <1>3
    <3>2. n > Len(l) => Len(l) \in 0 .. (n - 1)
      BY <2>2, <1>2
    <3> QED BY <3>1, <3>2, <2>2, <1>2, <1>3
  <2> HIDE DEF P
  <2>3. Len(l) = CHOOSE n \in 0 .. K : P(n)
    BY <2>1, <2>2, <1>2
  <2> QED BY <2>3 DEF P, Length, f, K
<1>7. List(first, link) = l
  <2>1. \A i \in 1 .. Len(l) : i - 1 \in 0 .. K /\ f[i - 1] = l[i]
    BY <1>2, <1>3
  <2>2. List(first, link) = [i \in 1 .. Len(l) |-> f[i - 1]]
    BY <1>6 DEF List, f
  <2>3. l = [i \in 1 .. Len(l) |-> l[i]]
    BY <1>2
  <2> QED BY <2>1, <2>2, <2>3
<1>8. ListNodes(first, link) = Elems(l)
  <2>1. ListNodes(first, link) = {f[n] : n \in 0 .. K} \ {Null}
    BY DEF ListNodes, f, K
  <2>2. ASSUME NEW x \in Elems(l) PROVE x \in {f[n] : n \in 0 .. K} \ {Null}
    <3>1. PICK i \in 1 .. Len(l) : x = l[i]
      BY DEF Elems
    <3>2. i - 1 \in 0 .. K /\ f[i - 1] = l[i] /\ l[i] # Null
      BY <1>2, <1>3
    <3> QED BY <3>1, <3>2
  <2>3. ASSUME NEW n \in 0 .. K, f[n] # Null PROVE f[n] \in Elems(l)
    <3>1. n < Len(l)
      BY <2>3, <1>2, <1>4
    <3>2. n + 1 \in 1 .. Len(l) /\ f[n] = l[n + 1]
      BY <3>1, <1>2, <1>3
    <3> QED BY <3>2 DEF Elems
  <2> QED BY <2>1, <2>2, <2>3
<1> QED BY <1>5, <1>6, <1>7, <1>8

(* A list goes on as it is while the links of its nodes do. *)
LEMMA LinkedFrame ==
    ASSUME NEW first, NEW link, NEW l, Linked(first, link, l),
           NEW link2, \A n \in Elems(l) : link2[n] = link[n]
    PROVE  Linked(first, link2, l)
BY DEF Linked, Elems

(* A node whose link is the head becomes the head. *)
LEMMA LinkedPush ==
    ASSUME NEW first, NEW link, NEW l, Linked(first, link, l),
           NEW n \in Nodes, n \notin Elems(l), link[n] = first
    PROVE  /\ Linked(n, link, <<n>> \o l)
           /\ Elems(<<n>> \o l) = Elems(l) \cup {n}
           /\ Len(<<n>> \o l) = Len(l) + 1
<1> DEFINE m == <<n>> \o l
<1>1. l \in Seq(Nodes) /\ Len(l) \in Nat
  BY DEF Linked
<1>2. /\ m \in Seq(Nodes) /\ Len(m) = Len(l) + 1 /\ m[1] = n
      /\ \A i \in 1 .. Len(l) : m[i + 1] = l[i]
  BY <1>1
<1>3. \A i \in 1 .. Len(m) : i = 1 \/ (i - 1 \in 1 .. Len(l) /\ m[i] = l[i - 1])
  BY <1>1, <1>2
<1> HIDE DEF m
<1>4. Elems(m) = Elems(l) \cup {n}
  <2>1. \A x \in Elems(m) : x \in Elems(l) \cup {n}
    BY <1>2, <1>3 DEF Elems
  <2>2. \A x \in Elems(l) : x \in Elems(m)
    <3> SUFFICES ASSUME NEW i \in 1 .. Len(l) PROVE l[i] \in Elems(m)
      BY DEF Elems
    <3>1. i + 1 \in 1 .. Len(m) /\ m[i + 1] = l[i]
      BY <1>1, <1>2
    <3> QED BY <3>1 DEF Elems
  <2>3. n \in Elems(m)
    <3>1. 1 \in 1 .. Len(m) /\ m[1] = n
      BY <1>1, <1>2
    <3> QED BY <3>1 DEF Elems
  <2> QED BY <2>1, <2>2, <2>3
<1>5. ASSUME NEW i \in 1 .. Len(m), NEW j \in 1 .. Len(m), m[i] = m[j] PROVE i = j
  <2>1. \A k \in 1 .. Len(l) : l[k] # n
    BY DEF Elems
  <2>2. \A k, p \in 1 .. Len(l) : l[k] = l[p] => k = p
    BY DEF Linked
  <2>3. CASE i = 1 \/ j = 1
    BY <1>2, <1>3, <1>5, <2>1, <2>3
  <2>4. CASE i # 1 /\ j # 1
    <3>1. i - 1 \in 1 .. Len(l) /\ j - 1 \in 1 .. Len(l) /\ l[i - 1] = l[j - 1]
      BY <1>3, <1>5, <2>4
    <3>2. i - 1 = j - 1
      BY <3>1, <2>2
    <3> QED BY <3>2, <1>2, <1>1
  <2> QED BY <2>3, <2>4
<1>6. n = At(m, 1)
  BY <1>1, <1>2 DEF At
<1>7. ASSUME NEW i \in 1 .. Len(m) PROVE link[m[i]] = At(m, i + 1)
  <2>1. CASE i = 1
    <3>1. first = At(l, 1)
      BY DEF Linked
    <3>2. At(m, 2) = At(l, 1)
      BY <1>1, <1>2 DEF At
    <3> QED BY <3>1, <3>2, <2>1, <1>2
  <2>2. CASE i # 1
    <3>1. i - 1 \in 1 .. Len(l) /\ m[i] = l[i - 1]
      BY <2>2, <1>3
    <3>2. link[l[i - 1]] = At(l, i - 1 + 1)
      BY <3>1 DEF Linked
    <3>3. i - 1 + 1 = i /\ At(m, i + 1) = At(l, i)
      BY <1>1, <1>2, <3>1 DEF At
    <3> QED BY <3>1, <3>2, <3>3
  <2> QED BY <2>1, <2>2
<1>8. Linked(n, link, m)
  BY <1>2, <1>5, <1>6, <1>7 DEF Linked
<1> QED BY <1>2, <1>4, <1>8 DEF m

(* The head of a list that is not empty, and the rest. *)
LEMMA LinkedPop ==
    ASSUME NEW first, NEW link, NEW l, Linked(first, link, l), first # Null
    PROVE  /\ l # <<>> /\ first = l[1] /\ first \in Nodes
           /\ Linked(link[first], link, Tail(l))
           /\ first \notin Elems(Tail(l))
           /\ Elems(l) = Elems(Tail(l)) \cup {first}
           /\ Len(Tail(l)) = Len(l) - 1
<1>1. l \in Seq(Nodes) /\ Len(l) \in Nat /\ first = At(l, 1)
  BY DEF Linked
<1>2. Len(l) >= 1 /\ first = l[1] /\ l # <<>> /\ l[1] \in Nodes
  BY <1>1 DEF At
<1> DEFINE m == Tail(l)
<1>3. m \in Seq(Nodes) /\ Len(m) = Len(l) - 1 /\ \A i \in 1 .. Len(m) : m[i] = l[i + 1]
  BY <1>1, <1>2
<1> HIDE DEF m
<1>4. \A i, j \in 1 .. Len(l) : l[i] = l[j] => i = j
  BY DEF Linked
<1>5. ASSUME NEW i \in 1 .. Len(m), NEW j \in 1 .. Len(m), m[i] = m[j] PROVE i = j
  <2>1. i + 1 \in 1 .. Len(l) /\ j + 1 \in 1 .. Len(l) /\ l[i + 1] = l[j + 1]
    BY <1>1, <1>3, <1>5
  <2> QED BY <2>1, <1>4, <1>3
<1>6. \A i \in 0 .. Len(l) : At(m, i) = IF i = 0 THEN Null ELSE At(l, i + 1)
  BY <1>1, <1>3 DEF At
<1>7. link[first] = At(m, 1)
  <2>1. link[l[1]] = At(l, 1 + 1)
    BY <1>1, <1>2 DEF Linked
  <2> QED BY <2>1, <1>2, <1>6, <1>1
<1>8. ASSUME NEW i \in 1 .. Len(m) PROVE link[m[i]] = At(m, i + 1)
  <2>1. i + 1 \in 1 .. Len(l) /\ m[i] = l[i + 1]
    BY <1>1, <1>3
  <2>2. link[l[i + 1]] = At(l, i + 1 + 1)
    BY <2>1 DEF Linked
  <2> QED BY <2>1, <2>2, <1>6, <1>1
<1>9. Linked(link[first], link, m)
  BY <1>3, <1>5, <1>7, <1>8 DEF Linked
<1>10. first \notin Elems(m)
  <2> SUFFICES ASSUME NEW i \in 1 .. Len(m), m[i] = first PROVE FALSE
    BY DEF Elems
  <2>1. i + 1 \in 1 .. Len(l) /\ 1 \in 1 .. Len(l) /\ l[i + 1] = l[1]
    BY <1>1, <1>2, <1>3
  <2>2. i + 1 = 1
    BY <2>1, <1>4
  <2> QED BY <2>2
<1>11. Elems(l) = Elems(m) \cup {first}
  <2>1. ASSUME NEW i \in 1 .. Len(l) PROVE l[i] \in Elems(m) \cup {first}
    <3>1. CASE i = 1
      BY <3>1, <1>2
    <3>2. CASE i # 1
      <4>1. i - 1 \in 1 .. Len(m) /\ m[i - 1] = l[i - 1 + 1] /\ i - 1 + 1 = i
        BY <3>2, <1>1, <1>3
      <4> QED BY <4>1 DEF Elems
    <3> QED BY <3>1, <3>2
  <2>2. ASSUME NEW i \in 1 .. Len(m) PROVE m[i] \in Elems(l)
    <3>1. i + 1 \in 1 .. Len(l) /\ m[i] = l[i + 1]
      BY <1>1, <1>3
    <3> QED BY <3>1 DEF Elems
  <2>3. first \in Elems(l)
    <3>1. 1 \in 1 .. Len(l)
      BY <1>1, <1>2
    <3> QED BY <3>1, <1>2 DEF Elems
  <2> QED BY <2>1, <2>2, <2>3 DEF Elems
<1> QED BY <1>2, <1>3, <1>9, <1>10, <1>11 DEF m


-----------------------------------------------------------------------------
(* Tags *)

(* A thread that is not too slow compares whole tags. *)
LEMMA FreshTagsAgree ==
    ASSUME NEW now \in Tagged, NEW o \in Tagged, Read(o, now),
           now.tag - o.tag < TagMod, SameWord(now, o)
    PROVE  now = o
<1> DEFINE d == now.tag - o.tag
<1>1. d \in Nat /\ d < TagMod /\ TagMod \in Nat \ {0} /\ now.tag \in Nat /\ o.tag \in Nat
  BY TreiberStackAssumption DEF Tagged, Read
<1>2. d % TagMod = 0
  BY DEF SameWord
<1> HIDE DEF d
<1>3. d = 0
  BY <1>1, <1>2
<1>4. now.tag = o.tag
  BY <1>1, <1>3 DEF d
<1> QED BY <1>4 DEF Read

-----------------------------------------------------------------------------
(* Places *)

(* A thread takes a node from the heap or from one of the lists. *)
Takes(owners, nd, nd2, t, n) ==
    t \notin owners /\ n \in Nodes /\ nd2[t] = n /\ \A u \in owners : nd2[u] = nd[u]

LEMMA NodeTaken ==
    ASSUME NEW H, NEW A, NEW B, NEW owners, NEW nd, NEW nd2, NEW t, NEW n,
           Takes(owners, nd, nd2, t, n)
    PROVE  /\ InOnePlace(H, A, B, owners, nd) /\ n \in H =>
                InOnePlace(H \ {n}, A, B, owners \cup {t}, nd2)
           /\ InOnePlace(H, A \cup {n}, B, owners, nd) /\ n \notin A =>
                InOnePlace(H, A, B, owners \cup {t}, nd2)
           /\ InOnePlace(H, A, B \cup {n}, owners, nd) /\ n \notin B =>
                InOnePlace(H, A, B, owners \cup {t}, nd2)
<1>1. InOnePlace(H, A, B, owners, nd) /\ n \in H =>
                InOnePlace(H \ {n}, A, B, owners \cup {t}, nd2)
  BY DEF InOnePlace, Takes
<1>2. InOnePlace(H, A \cup {n}, B, owners, nd) /\ n \notin A =>
                InOnePlace(H, A, B, owners \cup {t}, nd2)
  BY DEF InOnePlace, Takes
<1>3. InOnePlace(H, A, B \cup {n}, owners, nd) /\ n \notin B =>
                InOnePlace(H, A, B, owners \cup {t}, nd2)
  BY DEF InOnePlace, Takes
<1> QED BY <1>1, <1>2, <1>3

(* A thread gives its node to one of the lists. *)
LEMMA NodeGiven ==
    ASSUME NEW H, NEW A, NEW B, NEW owners, NEW nd, InOnePlace(H, A, B, owners, nd),
           NEW A2, NEW B2, NEW t \in owners,
           \/ A2 = A \cup {nd[t]} /\ B2 = B
           \/ A2 = A /\ B2 = B \cup {nd[t]}
    PROVE  InOnePlace(H, A2, B2, owners \ {t}, nd)
BY DEF InOnePlace

-----------------------------------------------------------------------------
(* What the other threads rely on *)

OthersStay(t) ==
    /\ copyable' = copyable
    /\ \A u \in Threads \ {t} :
         /\ pc'[u] = pc[u] /\ old'[u] = old[u] /\ nxt'[u] = nxt[u]
         /\ node'[u] = node[u] /\ val'[u] = val[u] /\ ret'[u] = ret[u]

(* A head changes only together with its tag. *)
HeadsMove ==
    /\ top' = top \/ top'.tag = top.tag + 1
    /\ free_head' = free_head \/ free_head'.tag = free_head.tag + 1

(* A thread writes only to its own node, or to one that it has allocated. *)
WritesOwn(t) ==
    \A n \in Nodes :
        \/ next'[n] = next[n] /\ value'[n] = value[n]
        \/ n \in heap
        \/ Owns(t) /\ n = node[t]

LEMMA HeadsAreListed ==
    ASSUME IInv
    PROVE  /\ top.ptr # Null => top.ptr \in Elems(stack) /\ top.ptr \in Nodes
           /\ free_head.ptr # Null => free_head.ptr \in Elems(pool) /\ free_head.ptr \in Nodes
<1>1. Linked(top.ptr, next, stack) /\ Linked(free_head.ptr, next, pool)
  BY DEF IInv
<1>2. top.ptr # Null => Elems(stack) = Elems(Tail(stack)) \cup {top.ptr} /\ top.ptr \in Nodes
  BY <1>1, LinkedPop
<1>3. free_head.ptr # Null =>
        Elems(pool) = Elems(Tail(pool)) \cup {free_head.ptr} /\ free_head.ptr \in Nodes
  BY <1>1, LinkedPop
<1> QED BY <1>2, <1>3

LEMMA OneRelies ==
    ASSUME NEW u \in Threads, Relies(u), TypeOK, copyable' = copyable,
           pc'[u] = pc[u], old'[u] = old[u], nxt'[u] = nxt[u],
           node'[u] = node[u], val'[u] = val[u], ret'[u] = ret[u],
           HeadsMove,
           Owns(u) => next'[node[u]] = next[node[u]] /\ value'[node[u]] = value[node[u]],
           top.ptr # Null => next'[top.ptr] = next[top.ptr] /\ value'[top.ptr] = value[top.ptr],
           free_head.ptr # Null => next'[free_head.ptr] = next[free_head.ptr]
    PROVE  Relies(u)'
<1>0. old[u] \in Tagged /\ top \in Tagged /\ free_head \in Tagged
  BY DEF TypeOK
<1>1. /\ pc[u] \in PoolRead => Read(old[u], free_head)'
      /\ pc[u] \in TopRead => Read(old[u], top)'
  BY <1>0 DEF Relies, HeadsMove, Read, Tagged
<1>2. /\ pc[u] \in PoolRead /\ old'[u].tag = free_head'.tag => free_head' = free_head /\ old[u] = free_head
      /\ pc[u] \in TopRead /\ old'[u].tag = top'.tag => top' = top /\ old[u] = top
  BY <1>0 DEF Relies, HeadsMove, Read, Tagged
<1>3. /\ pc[u] \in Linking => value'[node[u]] = val[u]
      /\ pc[u] \in {"push_cas", "free_cas"} => next'[node[u]] = old[u].ptr
      /\ pc[u] = "pop_take" => value'[node[u]] \in Values /\ ret[u] = "pop_count"
  BY DEF Relies, Owns, Linking, Freeing
<1>4. pc[u] = "pf_cas" /\ old'[u].tag = free_head'.tag => nxt[u] = next'[old[u].ptr]
  BY <1>2 DEF Relies, PoolRead
<1>5. pc[u] \in Looking /\ old'[u].tag = top'.tag => nxt[u] = next'[old[u].ptr]
  BY <1>2 DEF Relies, TopRead, Looking
<1>6. pc[u] = "pop_cas" /\ copyable /\ old'[u].tag = top'.tag => val[u] = value'[old[u].ptr]
  BY <1>2 DEF Relies, TopRead, Looking
<1> QED BY <1>1, <1>3, <1>4, <1>5, <1>6 DEF Relies

LEMMA OthersRely ==
    ASSUME IInv, NEW t \in Threads, OthersStay(t), HeadsMove, WritesOwn(t)
    PROVE  \A u \in Threads \ {t} : Relies(u)'
<1> SUFFICES ASSUME NEW u \in Threads, u # t PROVE Relies(u)'
  OBVIOUS
<1>1. TypeOK /\ Relies(u) /\ InOnePlace(heap, Elems(stack), Elems(pool), Owners, node)
  BY DEF IInv
<1>2. Owns(u) => next'[node[u]] = next[node[u]] /\ value'[node[u]] = value[node[u]]
  BY <1>1 DEF WritesOwn, InOnePlace, Owners
<1>3. \A n \in Nodes : n \in Elems(stack) \cup Elems(pool) => next'[n] = next[n] /\ value'[n] = value[n]
  BY <1>1 DEF WritesOwn, InOnePlace, Owners
<1>4. /\ top.ptr # Null => next'[top.ptr] = next[top.ptr] /\ value'[top.ptr] = value[top.ptr]
      /\ free_head.ptr # Null => next'[free_head.ptr] = next[free_head.ptr]
  BY <1>3, HeadsAreListed
<1>5. /\ copyable' = copyable /\ pc'[u] = pc[u] /\ old'[u] = old[u] /\ nxt'[u] = nxt[u]
      /\ node'[u] = node[u] /\ val'[u] = val[u] /\ ret'[u] = ret[u]
  BY DEF OthersStay
<1> QED BY <1>1, <1>2, <1>4, <1>5, OneRelies

-----------------------------------------------------------------------------
(* The steps *)

(* What a step that leaves both lists alone guarantees. *)
ListsStay ==
    /\ stack' = stack /\ pool' = pool
    /\ \A n \in Elems(stack) : value'[n] = value[n]

LEMMA WritesAreAside ==
    ASSUME IInv, NEW t \in Threads, WritesOwn(t)
    PROVE  /\ \A n \in Elems(stack) : next'[n] = next[n] /\ value'[n] = value[n]
           /\ \A n \in Elems(pool) : next'[n] = next[n] /\ value'[n] = value[n]
<1>1. Linked(top.ptr, next, stack) /\ Linked(free_head.ptr, next, pool)
  BY DEF IInv
<1>2. stack \in Seq(Nodes) /\ pool \in Seq(Nodes)
  BY <1>1 DEF Linked
<1> HIDE DEF stack, pool
<1>3. Elems(stack) \subseteq Nodes /\ Elems(pool) \subseteq Nodes
  BY <1>2 DEF Elems
<1>4. InOnePlace(heap, Elems(stack), Elems(pool), Owners, node)
  BY DEF IInv
<1> QED BY <1>3, <1>4 DEF WritesOwn, InOnePlace, Owners

(* A step at which no node changes its place. *)
Aside(t) ==
    /\ OthersStay(t) /\ WritesOwn(t)
    /\ top' = top /\ free_head' = free_head /\ heap' = heap
    /\ Owns(t)' <=> Owns(t)
    /\ Owns(t) => node'[t] = node[t]

LEMMA PlacesKept ==
    ASSUME IInv, NEW t \in Threads, Aside(t), TypeOK', Relies(t)'
    PROVE  IInv' /\ ListsStay
<1>0. /\ OthersStay(t) /\ WritesOwn(t)
      /\ top' = top /\ free_head' = free_head /\ heap' = heap
      /\ Owns(t)' <=> Owns(t)
      /\ Owns(t) => node'[t] = node[t]
  BY DEF Aside
<1>1. Linked(top.ptr, next, stack) /\ Linked(free_head.ptr, next, pool)
  BY DEF IInv
<1>2. /\ \A n \in Elems(stack) : next'[n] = next[n] /\ value'[n] = value[n]
      /\ \A n \in Elems(pool) : next'[n] = next[n] /\ value'[n] = value[n]
  BY <1>0, WritesAreAside
<1>3. Linked(top.ptr, next', stack) /\ Linked(free_head.ptr, next', pool)
  BY <1>1, <1>2, LinkedFrame
<1>4. List(top.ptr, next') = stack /\ List(free_head.ptr, next') = pool
  BY <1>3, ListIs
<1>5. stack' = stack /\ pool' = pool
  BY <1>0, <1>4 DEF stack, pool
<1> HIDE DEF stack, pool
<1>6. Linked(top.ptr, next, stack)' /\ Linked(free_head.ptr, next, pool)'
  BY <1>0, <1>3, <1>5
<1>7. Owners' = Owners /\ \A u \in Owners : node'[u] = node[u]
  BY <1>0 DEF Owners, OthersStay, Owns
<1>8. InOnePlace(heap, Elems(stack), Elems(pool), Owners, node)'
  <2>1. InOnePlace(heap, Elems(stack), Elems(pool), Owners, node)
    BY DEF IInv
  <2>2. InOnePlace(heap, Elems(stack), Elems(pool), Owners, node')
    BY <2>1, <1>7 DEF InOnePlace
  <2> QED BY <2>2, <1>0, <1>5, <1>7
<1>9. \A n \in Elems(stack)' : value'[n] \in Values
  BY <1>2, <1>5 DEF IInv
<1>10. \A u \in Threads : Relies(u)'
  BY <1>0, OthersRely DEF HeadsMove
<1> QED BY <1>2, <1>5, <1>6, <1>8, <1>9, <1>10 DEF IInv, ListsStay

(* One that takes the first node of the stack. *)
LEMMA TopTaken ==
    ASSUME IInv, NEW t \in Threads, OthersStay(t), TypeOK', Relies(t)',
           top.ptr # Null, top' = [ptr |-> next[top.ptr], tag |-> top.tag + 1],
           free_head' = free_head, heap' = heap, next' = next, value' = value,
           ~ Owns(t), Owns(t)', node'[t] = top.ptr
    PROVE  /\ IInv'
           /\ stack # <<>> /\ top.ptr = Head(stack) /\ stack' = Tail(stack)
<1>1. Linked(top.ptr, next, stack) /\ Linked(free_head.ptr, next, pool)
  BY DEF IInv
<1>2. /\ stack # <<>> /\ top.ptr = stack[1] /\ top.ptr \in Nodes
      /\ Linked(next[top.ptr], next, Tail(stack))
      /\ top.ptr \notin Elems(Tail(stack))
      /\ Elems(stack) = Elems(Tail(stack)) \cup {top.ptr}
  BY <1>1, LinkedPop
<1>3. List(next[top.ptr], next) = Tail(stack)
  BY <1>2, ListIs
<1>4. top'.ptr = next[top.ptr] /\ top'.tag = top.tag + 1
  OBVIOUS
<1>5. stack' = Tail(stack) /\ pool' = pool
  BY <1>3, <1>4 DEF stack, pool
<1>6. Linked(top.ptr, next, stack)' /\ Linked(free_head.ptr, next, pool)'
  BY <1>1, <1>2, <1>4, <1>5
<1>7. Owners' = Owners \cup {t} /\ t \notin Owners /\ \A u \in Owners : node'[u] = node[u]
  BY DEF Owners, OthersStay, Owns
<1>8. InOnePlace(heap, Elems(stack), Elems(pool), Owners, node)'
  <2> DEFINE A == Elems(Tail(stack))  B == Elems(pool)
  <2>1. InOnePlace(heap, A \cup {top.ptr}, B, Owners, node) /\ top.ptr \notin A
    BY <1>2 DEF IInv
  <2>2. Takes(Owners, node, node', t, top.ptr)
    BY <1>2, <1>7 DEF Takes
  <2>3. InOnePlace(heap, A, B, Owners \cup {t}, node')
    BY ONLY <2>1, <2>2, NodeTaken
  <2> QED BY <2>3, <1>5, <1>7
<1>9. \A n \in Elems(stack)' : value'[n] \in Values
  BY <1>2, <1>5 DEF IInv
<1>10. \A u \in Threads : Relies(u)'
  BY <1>4, OthersRely DEF HeadsMove, WritesOwn
<1>11. top.ptr = Head(stack)
  BY <1>2
<1> QED BY <1>2, <1>5, <1>6, <1>8, <1>9, <1>10, <1>11 DEF IInv

(* One that takes the first node of the pool. *)
LEMMA PoolTaken ==
    ASSUME IInv, NEW t \in Threads, OthersStay(t), TypeOK', Relies(t)',
           free_head.ptr # Null,
           free_head' = [ptr |-> next[free_head.ptr], tag |-> free_head.tag + 1],
           top' = top, heap' = heap, next' = next, value' = value,
           ~ Owns(t), Owns(t)', node'[t] = free_head.ptr
    PROVE  IInv' /\ stack' = stack
<1>1. Linked(top.ptr, next, stack) /\ Linked(free_head.ptr, next, pool)
  BY DEF IInv
<1>2. /\ free_head.ptr \in Nodes
      /\ Linked(next[free_head.ptr], next, Tail(pool))
      /\ free_head.ptr \notin Elems(Tail(pool))
      /\ Elems(pool) = Elems(Tail(pool)) \cup {free_head.ptr}
  BY <1>1, LinkedPop
<1>3. List(next[free_head.ptr], next) = Tail(pool)
  BY <1>2, ListIs
<1>4. free_head'.ptr = next[free_head.ptr] /\ free_head'.tag = free_head.tag + 1
  OBVIOUS
<1>5. pool' = Tail(pool) /\ stack' = stack
  BY <1>3, <1>4 DEF stack, pool
<1>6. Linked(top.ptr, next, stack)' /\ Linked(free_head.ptr, next, pool)'
  BY <1>1, <1>2, <1>4, <1>5
<1>7. Owners' = Owners \cup {t} /\ t \notin Owners /\ \A u \in Owners : node'[u] = node[u]
  BY DEF Owners, OthersStay, Owns
<1>8. InOnePlace(heap, Elems(stack), Elems(pool), Owners, node)'
  <2> DEFINE A == Elems(stack)  B == Elems(Tail(pool))
  <2>1. InOnePlace(heap, A, B \cup {free_head.ptr}, Owners, node) /\ free_head.ptr \notin B
    BY <1>2 DEF IInv
  <2>2. Takes(Owners, node, node', t, free_head.ptr)
    BY <1>2, <1>7 DEF Takes
  <2>3. InOnePlace(heap, A, B, Owners \cup {t}, node')
    BY ONLY <2>1, <2>2, NodeTaken
  <2> QED BY <2>3, <1>5, <1>7
<1>9. \A n \in Elems(stack)' : value'[n] \in Values
  BY <1>5 DEF IInv
<1>10. \A u \in Threads : Relies(u)'
  BY <1>4, OthersRely DEF HeadsMove, WritesOwn
<1> QED BY <1>5, <1>6, <1>8, <1>9, <1>10 DEF IInv

(* One that takes a new node from the heap. *)
LEMMA HeapTaken ==
    ASSUME IInv, NEW t \in Threads, OthersStay(t), TypeOK', Relies(t)',
           NEW n \in heap, heap' = heap \ {n}, node'[t] = n,
           top' = top, free_head' = free_head,
           \A m \in Nodes \ {n} : next'[m] = next[m] /\ value'[m] = value[m],
           ~ Owns(t), Owns(t)'
    PROVE  IInv' /\ ListsStay
<1>0. WritesOwn(t) /\ n \in Nodes
  BY DEF WritesOwn, IInv, TypeOK
<1>1. Linked(top.ptr, next, stack) /\ Linked(free_head.ptr, next, pool)
  BY DEF IInv
<1>2. /\ \A m \in Elems(stack) : next'[m] = next[m] /\ value'[m] = value[m]
      /\ \A m \in Elems(pool) : next'[m] = next[m] /\ value'[m] = value[m]
  BY <1>0, WritesAreAside
<1>3. Linked(top.ptr, next', stack) /\ Linked(free_head.ptr, next', pool)
  BY <1>1, <1>2, LinkedFrame
<1>4. List(top.ptr, next') = stack /\ List(free_head.ptr, next') = pool
  BY <1>3, ListIs
<1>5. stack' = stack /\ pool' = pool
  BY <1>4 DEF stack, pool
<1> HIDE DEF stack, pool
<1>6. Linked(top.ptr, next, stack)' /\ Linked(free_head.ptr, next, pool)'
  BY <1>3, <1>5
<1>7. Owners' = Owners \cup {t} /\ t \notin Owners /\ \A u \in Owners : node'[u] = node[u]
  BY DEF Owners, OthersStay, Owns
<1>8. InOnePlace(heap, Elems(stack), Elems(pool), Owners, node)'
  <2>1. InOnePlace(heap, Elems(stack), Elems(pool), Owners, node)
    BY DEF IInv
  <2>2. Takes(Owners, node, node', t, n)
    BY <1>0, <1>7 DEF Takes
  <2>3. InOnePlace(heap \ {n}, Elems(stack), Elems(pool), Owners \cup {t}, node')
    BY <2>1, <2>2, NodeTaken
  <2> QED BY <2>3, <1>5, <1>7
<1>9. \A m \in Elems(stack)' : value'[m] \in Values
  BY <1>2, <1>5 DEF IInv
<1>10. \A u \in Threads : Relies(u)'
  BY <1>0, OthersRely DEF HeadsMove
<1> QED BY <1>2, <1>5, <1>6, <1>8, <1>9, <1>10 DEF IInv, ListsStay

(* One that puts the thread's node on the stack. *)
LEMMA NodePushed ==
    ASSUME IInv, NEW t \in Threads, OthersStay(t), TypeOK', Relies(t)',
           next[node[t]] = top.ptr, value[node[t]] \in Values,
           top' = [ptr |-> node[t], tag |-> top.tag + 1],
           free_head' = free_head, heap' = heap, next' = next, value' = value,
           node' = node, Owns(t), ~ Owns(t)'
    PROVE  IInv' /\ stack' = <<node[t]>> \o stack
<1>1. Linked(top.ptr, next, stack) /\ Linked(free_head.ptr, next, pool)
  BY DEF IInv
<1>2. InOnePlace(heap, Elems(stack), Elems(pool), Owners, node) /\ t \in Owners
  BY DEF IInv, Owners
<1>3. node[t] \in Nodes /\ node[t] \notin Elems(stack)
  BY <1>2 DEF InOnePlace
<1>4. /\ Linked(node[t], next, <<node[t]>> \o stack)
      /\ Elems(<<node[t]>> \o stack) = Elems(stack) \cup {node[t]}
  BY <1>1, <1>3, LinkedPush
<1>5. List(node[t], next) = <<node[t]>> \o stack
  BY <1>4, ListIs
<1>6. top'.ptr = node[t] /\ top'.tag = top.tag + 1
  OBVIOUS
<1>7. stack' = <<node[t]>> \o stack /\ pool' = pool
  BY <1>5, <1>6 DEF stack, pool
<1>8. Linked(top.ptr, next, stack)' /\ Linked(free_head.ptr, next, pool)'
  BY <1>1, <1>4, <1>6, <1>7
<1>9. Owners' = Owners \ {t}
  BY DEF Owners, OthersStay, Owns
<1>10. InOnePlace(heap, Elems(stack), Elems(pool), Owners, node)'
  <2> DEFINE A == Elems(stack)  B == Elems(pool)  A2 == Elems(<<node[t]>> \o stack)
  <2>1. InOnePlace(heap, A, B, Owners, node) /\ A2 = A \cup {node[t]}
    BY <1>2, <1>4
  <2> HIDE DEF A, B, A2
  <2>2. InOnePlace(heap, A2, B, Owners \ {t}, node)
    BY <1>2, <2>1, NodeGiven
  <2> QED BY <2>2, <1>7, <1>9 DEF A2, B
<1>11. \A n \in Elems(stack)' : value'[n] \in Values
  BY <1>4, <1>7 DEF IInv
<1>12. \A u \in Threads : Relies(u)'
  BY <1>6, OthersRely DEF HeadsMove, WritesOwn
<1> QED BY <1>7, <1>8, <1>10, <1>11, <1>12 DEF IInv

(* One that gives it back to the pool. *)
LEMMA NodeFreed ==
    ASSUME IInv, NEW t \in Threads, OthersStay(t), TypeOK', Relies(t)',
           next[node[t]] = free_head.ptr,
           free_head' = [ptr |-> node[t], tag |-> free_head.tag + 1],
           top' = top, heap' = heap, next' = next, value' = value,
           node' = node, Owns(t), ~ Owns(t)'
    PROVE  IInv' /\ stack' = stack
<1>1. Linked(top.ptr, next, stack) /\ Linked(free_head.ptr, next, pool)
  BY DEF IInv
<1>2. InOnePlace(heap, Elems(stack), Elems(pool), Owners, node) /\ t \in Owners
  BY DEF IInv, Owners
<1>3. node[t] \in Nodes /\ node[t] \notin Elems(pool)
  BY <1>2 DEF InOnePlace
<1>4. /\ Linked(node[t], next, <<node[t]>> \o pool)
      /\ Elems(<<node[t]>> \o pool) = Elems(pool) \cup {node[t]}
  BY <1>1, <1>3, LinkedPush
<1>5. List(node[t], next) = <<node[t]>> \o pool
  BY <1>4, ListIs
<1>6. free_head'.ptr = node[t] /\ free_head'.tag = free_head.tag + 1
  OBVIOUS
<1>7. pool' = <<node[t]>> \o pool /\ stack' = stack
  BY <1>5, <1>6 DEF stack, pool
<1>8. Linked(top.ptr, next, stack)' /\ Linked(free_head.ptr, next, pool)'
  BY <1>1, <1>4, <1>6, <1>7
<1>9. Owners' = Owners \ {t}
  BY DEF Owners, OthersStay, Owns
<1>10. InOnePlace(heap, Elems(stack), Elems(pool), Owners, node)'
  <2> DEFINE A == Elems(stack)  B == Elems(pool)  B2 == Elems(<<node[t]>> \o pool)
  <2>1. InOnePlace(heap, A, B, Owners, node) /\ B2 = B \cup {node[t]}
    BY <1>2, <1>4
  <2> HIDE DEF A, B, B2
  <2>2. InOnePlace(heap, A, B2, Owners \ {t}, node)
    BY <1>2, <2>1, NodeGiven
  <2> QED BY <2>2, <1>7, <1>9 DEF A, B2
<1>11. \A n \in Elems(stack)' : value'[n] \in Values
  BY <1>7 DEF IInv
<1>12. \A u \in Threads : Relies(u)'
  BY <1>6, OthersRely DEF HeadsMove, WritesOwn
<1> QED BY <1>7, <1>8, <1>10, <1>11, <1>12 DEF IInv

(* A thread owns a node where it works on one. *)
LEMMA OwnNode ==
    ASSUME IInv, NEW t \in Threads
    PROVE  TypeOK /\ Relies(t) /\ (Owns(t) => node[t] \in Nodes)
<1>1. TypeOK /\ Relies(t) /\ InOnePlace(heap, Elems(stack), Elems(pool), Owners, node)
  BY DEF IInv
<1> QED BY <1>1 DEF InOnePlace, Owners

(* A head that has not changed since it was read holds an element. *)
LEMMA TopIsFull ==
    ASSUME IInv, top.ptr # Null
    PROVE  value[top.ptr] \in Values
BY HeadsAreListed DEF IInv

(* The steps that move no node. *)
Asides(t) ==
    \/ \E v \in Values : push(t, v)
    \/ try_pop(t)
    \/ PopFreeLoad(t) \/ PopFreeNext(t) \/ PopFreeReset(t)
    \/ EmplaceDestroys(t) \/ EmplaceConstructs(t) \/ EmplaceThrows(t)
    \/ PushLoad(t) \/ PushLink(t) \/ PushCount(t)
    \/ PopLoad(t) \/ PopEmpty(t) \/ PopNext(t) \/ PopCheck(t) \/ PopCopy(t)
    \/ PopTake(t) \/ PopCount(t)
    \/ FreeLoad(t) \/ FreeLink(t)
    \/ CasFails(t)

(* What a thread writes is its own, and what it relies on next follows     *)
(* from what it relied on.                                                 *)
LEMMA StepsAside ==
    ASSUME IInv, NEW t \in Threads, Asides(t)
    PROVE  TypeOK' /\ Aside(t) /\ Relies(t)'
<1>0. TypeOK /\ Relies(t) /\ (Owns(t) => node[t] \in Nodes)
  BY OwnNode
<1> USE DEF TypeOK, Owns, Freeing, GoTo, Load, shared
<1>1. ASSUME NEW v \in Values, push(t, v) PROVE TypeOK' /\ Aside(t) /\ Relies(t)'
  <2>1. TypeOK'
    BY <1>0, <1>1 DEF push, PC
  <2>2. Aside(t)
    BY <1>0, <1>1 DEF push, Aside, OthersStay, WritesOwn
  <2>3. Relies(t)'
    BY <1>0, <1>1 DEF push, Relies, Making, Linking, Looking, PoolRead, TopRead, Read, Tagged
  <2> QED BY <2>1, <2>2, <2>3
<1>2. CASE try_pop(t)
  <2>1. TypeOK'
    BY <1>0, <1>2 DEF try_pop, PC
  <2>2. Aside(t)
    BY <1>0, <1>2 DEF try_pop, Aside, OthersStay, WritesOwn
  <2>3. Relies(t)'
    BY <1>0, <1>2 DEF try_pop, Relies, Making, Linking, Looking, PoolRead, TopRead, Read, Tagged
  <2> QED BY <2>1, <2>2, <2>3
<1>3. CASE PopFreeLoad(t)
  <2>1. TypeOK'
    BY <1>0, <1>3 DEF PopFreeLoad, PC
  <2>2. Aside(t)
    BY <1>0, <1>3 DEF PopFreeLoad, Aside, OthersStay, WritesOwn
  <2>3. Relies(t)'
    BY <1>0, <1>3 DEF PopFreeLoad, Relies, Making, Linking, Looking, PoolRead, TopRead, Read, Tagged
  <2> QED BY <2>1, <2>2, <2>3
<1>4. CASE PopFreeNext(t)
  <2>1. TypeOK'
    BY <1>0, <1>4 DEF PopFreeNext, PC, Pointers, Tagged
  <2>2. Aside(t)
    BY <1>0, <1>4 DEF PopFreeNext, Aside, OthersStay, WritesOwn
  <2>3. Relies(t)'
    BY <1>0, <1>4 DEF PopFreeNext, Relies, Making, Linking, Looking, PoolRead, TopRead, Read, Tagged
  <2> QED BY <2>1, <2>2, <2>3
<1>5. CASE PopFreeReset(t)
  <2>1. TypeOK'
    BY <1>0, <1>5 DEF PopFreeReset, PC, Pointers
  <2>2. Aside(t)
    BY <1>0, <1>5 DEF PopFreeReset, Aside, OthersStay, WritesOwn
  <2>3. Relies(t)'
    BY <1>0, <1>5 DEF PopFreeReset, Relies, Making, Linking, Looking, PoolRead, TopRead, Read, Tagged
  <2> QED BY <2>1, <2>2, <2>3
<1>6. CASE EmplaceDestroys(t)
  <2>1. TypeOK'
    BY <1>0, <1>6 DEF EmplaceDestroys, PC
  <2>2. Aside(t)
    BY <1>0, <1>6 DEF EmplaceDestroys, Aside, OthersStay, WritesOwn
  <2>3. Relies(t)'
    BY <1>0, <1>6 DEF EmplaceDestroys, Relies, Making, Linking, Looking, PoolRead, TopRead, Read, Tagged
  <2> QED BY <2>1, <2>2, <2>3
<1>7. CASE EmplaceConstructs(t)
  <2>1. TypeOK'
    BY <1>0, <1>7 DEF EmplaceConstructs, PC, Relies, Making
  <2>2. Aside(t)
    BY <1>0, <1>7 DEF EmplaceConstructs, Aside, OthersStay, WritesOwn
  <2>3. Relies(t)'
    BY <1>0, <1>7 DEF EmplaceConstructs, Relies, Making, Linking, Looking, PoolRead, TopRead, Read, Tagged
  <2> QED BY <2>1, <2>2, <2>3
<1>8. CASE EmplaceThrows(t)
  <2>1. TypeOK'
    BY <1>0, <1>8 DEF EmplaceThrows, PC
  <2>2. Aside(t)
    BY <1>0, <1>8 DEF EmplaceThrows, Aside, OthersStay, WritesOwn
  <2>3. Relies(t)'
    BY <1>0, <1>8 DEF EmplaceThrows, Relies, Making, Linking, Looking, PoolRead, TopRead, Read, Tagged
  <2> QED BY <2>1, <2>2, <2>3
<1>9. CASE PushLoad(t)
  <2>1. TypeOK'
    BY <1>0, <1>9 DEF PushLoad, PC
  <2>2. Aside(t)
    BY <1>0, <1>9 DEF PushLoad, Aside, OthersStay, WritesOwn
  <2>3. Relies(t)'
    BY <1>0, <1>9 DEF PushLoad, Relies, Making, Linking, Looking, PoolRead, TopRead, Read, Tagged
  <2> QED BY <2>1, <2>2, <2>3
<1>10. CASE PushLink(t)
  <2>1. TypeOK'
    BY <1>0, <1>10 DEF PushLink, PC, Pointers, Tagged
  <2>2. Aside(t)
    BY <1>0, <1>10 DEF PushLink, Aside, OthersStay, WritesOwn
  <2>3. Relies(t)'
    BY <1>0, <1>10 DEF PushLink, Relies, Making, Linking, Looking, PoolRead, TopRead, Read, Tagged
  <2> QED BY <2>1, <2>2, <2>3
<1>11. CASE PushCount(t)
  <2>1. TypeOK'
    BY <1>0, <1>11 DEF PushCount, PC
  <2>2. Aside(t)
    BY <1>0, <1>11 DEF PushCount, Aside, OthersStay, WritesOwn
  <2>3. Relies(t)'
    BY <1>0, <1>11 DEF PushCount, Relies, Making, Linking, Looking, PoolRead, TopRead, Read, Tagged
  <2> QED BY <2>1, <2>2, <2>3
<1>12. CASE PopLoad(t)
  <2>1. TypeOK'
    BY <1>0, <1>12 DEF PopLoad, PC
  <2>2. Aside(t)
    BY <1>0, <1>12 DEF PopLoad, Aside, OthersStay, WritesOwn
  <2>3. Relies(t)'
    BY <1>0, <1>12 DEF PopLoad, Relies, Making, Linking, Looking, PoolRead, TopRead, Read, Tagged
  <2> QED BY <2>1, <2>2, <2>3
<1>13. CASE PopEmpty(t)
  <2>1. TypeOK'
    BY <1>0, <1>13 DEF PopEmpty, PC
  <2>2. Aside(t)
    BY <1>0, <1>13 DEF PopEmpty, Aside, OthersStay, WritesOwn
  <2>3. Relies(t)'
    BY <1>0, <1>13 DEF PopEmpty, Relies, Making, Linking, Looking, PoolRead, TopRead, Read, Tagged
  <2> QED BY <2>1, <2>2, <2>3
<1>14. CASE PopNext(t)
  <2>1. TypeOK'
    BY <1>0, <1>14 DEF PopNext, PC, Pointers, Tagged
  <2>2. Aside(t)
    BY <1>0, <1>14 DEF PopNext, Aside, OthersStay, WritesOwn
  <2>3. Relies(t)'
    BY <1>0, <1>14 DEF PopNext, Relies, Making, Linking, Looking, PoolRead, TopRead, Read, Tagged
  <2> QED BY <2>1, <2>2, <2>3
<1>15. CASE PopCheck(t)
  <2>1. TypeOK'
    BY <1>0, <1>15 DEF PopCheck, PC
  <2>2. Aside(t)
    BY <1>0, <1>15 DEF PopCheck, Aside, OthersStay, WritesOwn
  <2>3. Relies(t)'
    BY <1>0, <1>15 DEF PopCheck, Relies, Making, Linking, Looking, PoolRead, TopRead, Read, Tagged
  <2> QED BY <2>1, <2>2, <2>3
<1>16. CASE PopCopy(t)
  <2>1. TypeOK'
    BY <1>0, <1>16 DEF PopCopy, PC, Relies, Looking, Tagged, Pointers
  <2>2. Aside(t)
    BY <1>0, <1>16 DEF PopCopy, Aside, OthersStay, WritesOwn
  <2>3. pc[t] = "pop_copy" /\ pc'[t] = "pop_cas" /\ old[t].ptr # Null
    BY <1>0, <1>16 DEF PopCopy, Relies, Looking
  <2>4. old[t].tag = top.tag => value[old[t].ptr] \in Values
    BY <1>0, <2>3, TopIsFull DEF Relies, TopRead, Looking, Read
  <2>5. Relies(t)'
    BY <1>0, <2>3, <2>4, TreiberStackAssumption, <1>16 DEF PopCopy, Relies, Making, Linking, Looking, PoolRead, TopRead, Read, Tagged
  <2> QED BY <2>1, <2>2, <2>5
<1>17. CASE PopTake(t)
  <2>1. TypeOK'
    BY <1>0, <1>17 DEF PopTake, PC
  <2>2. Aside(t)
    BY <1>0, <1>17 DEF PopTake, Aside, OthersStay, WritesOwn
  <2>3. Relies(t)'
    BY <1>0, <1>17, TreiberStackAssumption DEF PopTake, Relies, Making, Linking, Looking, PoolRead, TopRead, Read, Tagged
  <2> QED BY <2>1, <2>2, <2>3
<1>18. CASE PopCount(t)
  <2>1. TypeOK'
    BY <1>0, <1>18 DEF PopCount, PC
  <2>2. Aside(t)
    BY <1>0, <1>18 DEF PopCount, Aside, OthersStay, WritesOwn
  <2>3. Relies(t)'
    BY <1>0, <1>18 DEF PopCount, Relies, Making, Linking, Looking, PoolRead, TopRead, Read, Tagged
  <2> QED BY <2>1, <2>2, <2>3
<1>19. CASE FreeLoad(t)
  <2>1. TypeOK'
    BY <1>0, <1>19 DEF FreeLoad, PC
  <2>2. Aside(t)
    BY <1>0, <1>19 DEF FreeLoad, Aside, OthersStay, WritesOwn
  <2>3. Relies(t)'
    BY <1>0, <1>19 DEF FreeLoad, Relies, Making, Linking, Looking, PoolRead, TopRead, Read, Tagged
  <2> QED BY <2>1, <2>2, <2>3
<1>20. CASE FreeLink(t)
  <2>1. TypeOK'
    BY <1>0, <1>20 DEF FreeLink, PC, Pointers, Tagged
  <2>2. Aside(t)
    BY <1>0, <1>20 DEF FreeLink, Aside, OthersStay, WritesOwn
  <2>3. Relies(t)'
    BY <1>0, <1>20 DEF FreeLink, Relies, Making, Linking, Looking, PoolRead, TopRead, Read, Tagged
  <2> QED BY <2>1, <2>2, <2>3
<1>21. CASE CasFails(t)
  <2>1. /\ pc[t] \in {"pf_cas", "push_cas", "pop_cas", "free_cas"}
        /\ pc' = [pc EXCEPT ![t] = CASE pc[t] = "pf_cas" -> "pf_next"
                                      [] pc[t] = "push_cas" -> "push_link"
                                      [] pc[t] = "pop_cas" -> "pop_next"
                                      [] pc[t] = "free_cas" -> "free_link"]
        /\ old' = [old EXCEPT ![t] = IF pc[t] \in {"pf_cas", "free_cas"} THEN free_head ELSE top]
        /\ val' = IF pc[t] = "pop_cas" THEN [val EXCEPT ![t] = None] ELSE val
        /\ UNCHANGED <<shared, nxt, node, ret>>
    BY <1>21 DEF CasFails
  <2>2. TypeOK'
    BY <1>0, <2>1 DEF PC
  <2>3. Aside(t)
    BY <1>0, <2>1 DEF Aside, OthersStay, WritesOwn
  <2>4. Relies(t)'
    BY <1>0, <2>1 DEF Relies, Making, Linking, Looking, PoolRead, TopRead, Read, Tagged
  <2> QED BY <2>2, <2>3, <2>4
<1> QED BY <1>1, <1>2, <1>3, <1>4, <1>5, <1>6, <1>7, <1>8, <1>9, <1>10, <1>11, <1>12, <1>13, <1>14, <1>15, <1>16, <1>17, <1>18, <1>19, <1>20, <1>21 DEF Asides

(* The steps that move a node. *)
LEMMA AllocateKeeps ==
    ASSUME IInv, NEW t \in Threads, Allocate(t)
    PROVE  IInv' /\ ListsStay
<1>0. TypeOK /\ Relies(t)
  BY OwnNode
<1>1. PICK n \in heap :
        /\ heap' = heap \ {n}
        /\ node' = [node EXCEPT ![t] = n]
        /\ next' = [next EXCEPT ![n] = Null]
        /\ value' = [value EXCEPT ![n] = Nothing]
  BY DEF Allocate
<1>2. n \in Nodes
  BY <1>0 DEF TypeOK
<1>3. TypeOK'
  BY <1>0, <1>1, <1>2 DEF TypeOK, Allocate, GoTo, PC, Pointers
<1>4. OthersStay(t) /\ node'[t] = n
  BY <1>0, <1>1 DEF TypeOK, Allocate, GoTo, OthersStay
<1>5. Relies(t)'
  BY <1>0 DEF TypeOK, Allocate, GoTo, Relies, Making, Linking, Looking, PoolRead, TopRead, Freeing
<1>6. ~ Owns(t) /\ Owns(t)'
  BY <1>0 DEF TypeOK, Allocate, GoTo, Owns, Freeing
<1>7. \A m \in Nodes \ {n} : next'[m] = next[m] /\ value'[m] = value[m]
  BY <1>0, <1>1 DEF TypeOK
<1>8. top' = top /\ free_head' = free_head
  BY DEF Allocate
<1> QED BY <1>1, <1>3, <1>4, <1>5, <1>6, <1>7, <1>8, HeapTaken

(* A thread that is not too slow swaps the head that it has read. *)
LEMMA SwapsWhatItRead ==
    ASSUME IInv, TagsAreFresh, NEW t \in Threads
    PROVE  /\ PopFreeCas(t) \/ FreeCas(t) => free_head = old[t]
           /\ PushCas(t) \/ PopCas(t) => top = old[t]
<1>0. TypeOK /\ Relies(t)
  BY OwnNode
<1>1. old[t] \in Tagged /\ top \in Tagged /\ free_head \in Tagged
  BY <1>0 DEF TypeOK
<1>2. ASSUME PopFreeCas(t) \/ FreeCas(t) PROVE free_head = old[t]
  <2>1. /\ SameWord(free_head, old[t]) /\ Read(old[t], free_head)
        /\ free_head.tag - old[t].tag < TagMod
    BY <1>0, <1>2 DEF PopFreeCas, FreeCas, Relies, PoolRead, TagsAreFresh
  <2> QED BY <1>1, <2>1, FreshTagsAgree
<1>3. ASSUME PushCas(t) \/ PopCas(t) PROVE top = old[t]
  <2>1. /\ SameWord(top, old[t]) /\ Read(old[t], top)
        /\ top.tag - old[t].tag < TagMod
    BY <1>0, <1>3 DEF PushCas, PopCas, Relies, TopRead, Looking, TagsAreFresh
  <2> QED BY <1>1, <2>1, FreshTagsAgree
<1> QED BY <1>2, <1>3

LEMMA PopFreeCasKeeps ==
    ASSUME IInv, TagsAreFresh, NEW t \in Threads, PopFreeCas(t)
    PROVE  IInv' /\ stack' = stack
<1>0. TypeOK /\ Relies(t) /\ old[t] = free_head
  BY OwnNode, SwapsWhatItRead
<1>1. free_head.ptr # Null /\ nxt[t] = next[free_head.ptr]
  BY <1>0 DEF PopFreeCas, Relies
<1>2. /\ free_head' = [ptr |-> next[free_head.ptr], tag |-> free_head.tag + 1]
      /\ top' = top /\ heap' = heap /\ next' = next /\ value' = value
      /\ node'[t] = free_head.ptr
  BY <1>0, <1>1 DEF PopFreeCas, pack_ptr, TypeOK
<1>3. TypeOK'
  BY <1>0 DEF TypeOK, PopFreeCas, pack_ptr, GoTo, PC, Tagged
<1>4. OthersStay(t)
  BY <1>0 DEF TypeOK, PopFreeCas, GoTo, OthersStay
<1>5. Relies(t)'
  BY <1>0 DEF TypeOK, PopFreeCas, GoTo, Relies, Making, Linking, Looking, PoolRead, TopRead, Freeing
<1>6. ~ Owns(t) /\ Owns(t)'
  BY <1>0 DEF TypeOK, PopFreeCas, GoTo, Owns, Freeing
<1> QED BY <1>1, <1>2, <1>3, <1>4, <1>5, <1>6, PoolTaken

LEMMA PushCasKeeps ==
    ASSUME IInv, TagsAreFresh, NEW t \in Threads, PushCas(t)
    PROVE  /\ IInv'
           /\ stack' = <<node[t]>> \o stack /\ node[t] \in Nodes
           /\ value' = value /\ value[node[t]] = val[t] /\ val[t] \in Values
<1>0. TypeOK /\ Relies(t) /\ old[t] = top /\ (Owns(t) => node[t] \in Nodes)
  BY OwnNode, SwapsWhatItRead
<1>1. next[node[t]] = top.ptr /\ value[node[t]] = val[t] /\ val[t] \in Values
  BY <1>0 DEF PushCas, Relies, Linking
<1>2. /\ top' = [ptr |-> node[t], tag |-> top.tag + 1]
      /\ free_head' = free_head /\ heap' = heap /\ next' = next /\ value' = value
      /\ node' = node
  BY <1>0, <1>1 DEF PushCas, pack_ptr, TypeOK
<1>3. TypeOK'
  BY <1>0 DEF TypeOK, PushCas, pack_ptr, GoTo, PC, Tagged
<1>4. OthersStay(t)
  BY <1>0 DEF TypeOK, PushCas, GoTo, OthersStay
<1>5. Relies(t)'
  BY <1>0 DEF TypeOK, PushCas, GoTo, Relies, Making, Linking, Looking, PoolRead, TopRead, Freeing
<1>6. Owns(t) /\ ~ Owns(t)'
  BY <1>0 DEF TypeOK, PushCas, GoTo, Owns, Freeing
<1>7. IInv' /\ stack' = <<node[t]>> \o stack
  BY <1>1, <1>2, <1>3, <1>4, <1>5, <1>6, NodePushed
<1> QED BY <1>0, <1>1, <1>2, <1>6, <1>7

LEMMA PopCasKeeps ==
    ASSUME IInv, TagsAreFresh, NEW t \in Threads, PopCas(t)
    PROVE  /\ IInv'
           /\ stack # <<>> /\ old[t].ptr = Head(stack) /\ stack' = Tail(stack)
           /\ value' = value /\ value[old[t].ptr] \in Values
           /\ copyable => val[t] = value[old[t].ptr]
<1>0. TypeOK /\ Relies(t) /\ old[t] = top
  BY OwnNode, SwapsWhatItRead
<1>1. /\ top.ptr # Null /\ nxt[t] = next[top.ptr]
      /\ copyable => val[t] = value[top.ptr]
  BY <1>0 DEF PopCas, Relies, Looking
<1>2. /\ top' = [ptr |-> next[top.ptr], tag |-> top.tag + 1]
      /\ free_head' = free_head /\ heap' = heap /\ next' = next /\ value' = value
      /\ node'[t] = top.ptr
  BY <1>0, <1>1 DEF PopCas, pack_ptr, TypeOK
<1>3. value[top.ptr] \in Values
  BY <1>1, TopIsFull
<1>4. CASE copyable
  <2>1. pc' = [pc EXCEPT ![t] = "free_load"]
    BY <1>4 DEF PopCas, GoTo
  <2>2. TypeOK'
    BY <1>0, <2>1 DEF TypeOK, PopCas, pack_ptr, PC, Tagged
  <2>3. OthersStay(t)
    BY <1>0, <2>1 DEF TypeOK, PopCas, OthersStay
  <2>4. Relies(t)'
    BY <1>0, <1>1, <1>3, <1>4, <2>1
       DEF TypeOK, PopCas, Relies, Making, Linking, Looking, PoolRead, TopRead, Freeing
  <2>5. ~ Owns(t) /\ Owns(t)'
    BY <1>0, <2>1 DEF TypeOK, PopCas, Owns, Freeing
  <2>6. IInv' /\ stack # <<>> /\ top.ptr = Head(stack) /\ stack' = Tail(stack)
    BY <1>1, <1>2, <2>2, <2>3, <2>4, <2>5, TopTaken
  <2> QED BY <1>0, <1>1, <1>2, <1>3, <2>6
<1>5. CASE ~ copyable
  <2>1. pc' = [pc EXCEPT ![t] = "pop_take"]
    BY <1>5 DEF PopCas, GoTo
  <2>2. TypeOK'
    BY <1>0, <2>1 DEF TypeOK, PopCas, pack_ptr, PC, Tagged
  <2>3. OthersStay(t)
    BY <1>0, <2>1 DEF TypeOK, PopCas, OthersStay
  <2>4. Relies(t)'
    BY <1>0, <1>2, <1>3, <2>1
       DEF TypeOK, PopCas, Relies, Making, Linking, Looking, PoolRead, TopRead, Freeing
  <2>5. ~ Owns(t) /\ Owns(t)'
    BY <1>0, <2>1 DEF TypeOK, PopCas, Owns, Freeing
  <2>6. IInv' /\ stack # <<>> /\ top.ptr = Head(stack) /\ stack' = Tail(stack)
    BY <1>1, <1>2, <2>2, <2>3, <2>4, <2>5, TopTaken
  <2> QED BY <1>0, <1>1, <1>2, <1>3, <2>6
<1> QED BY <1>4, <1>5

LEMMA FreeCasKeeps ==
    ASSUME IInv, TagsAreFresh, NEW t \in Threads, FreeCas(t)
    PROVE  IInv' /\ stack' = stack
<1>0. TypeOK /\ Relies(t) /\ old[t] = free_head /\ (Owns(t) => node[t] \in Nodes)
  BY OwnNode, SwapsWhatItRead
<1>1. next[node[t]] = free_head.ptr
  BY <1>0 DEF FreeCas, Relies
<1>2. /\ free_head' = [ptr |-> node[t], tag |-> free_head.tag + 1]
      /\ top' = top /\ heap' = heap /\ next' = next /\ value' = value
      /\ node' = node
  BY <1>0, <1>1 DEF FreeCas, pack_ptr, TypeOK
<1>3. /\ pc' = [pc EXCEPT ![t] = ret[t]]
      /\ \/ ret[t] = "idle" /\ val[t] = None
         \/ ret[t] = "pop_count" /\ val[t] \in Values
  BY <1>0 DEF FreeCas, GoTo, Relies, Freeing
<1>4. TypeOK'
  BY <1>0, <1>3 DEF TypeOK, FreeCas, pack_ptr, PC, Tagged
<1>5. OthersStay(t)
  BY <1>0, <1>3 DEF TypeOK, FreeCas, OthersStay
<1>6. Relies(t)'
  BY <1>0, <1>3 DEF TypeOK, FreeCas, Relies, Making, Linking, Looking, PoolRead, TopRead, Freeing
<1>7. Owns(t) /\ ~ Owns(t)'
  BY <1>0, <1>3 DEF TypeOK, FreeCas, Owns, Freeing
<1> QED BY <1>1, <1>2, <1>4, <1>5, <1>6, <1>7, NodeFreed

(* Both lists are empty: all nodes are in the heap, all threads idle. *)
Unused ==
    /\ TypeOK /\ top.ptr = Null /\ free_head.ptr = Null /\ heap = Nodes
    /\ \A t \in Threads : pc[t] = "idle" /\ val[t] = None

LEMMA AllInHeap == Unused => IInv /\ stack = <<>>
<1> SUFFICES ASSUME Unused PROVE IInv /\ stack = <<>>
  OBVIOUS
<1> USE DEF Unused
<1>1. Linked(Null, next, <<>>) /\ Elems(<<>>) = {}
  BY DEF Linked, At, Elems
<1>2. stack = <<>> /\ pool = <<>>
  BY <1>1, ListIs DEF stack, pool
<1>3. Owners = {}
  BY DEF Owners, Owns, Freeing
<1>4. InOnePlace(heap, {}, {}, {}, node)
  BY DEF InOnePlace
<1>5. \A t \in Threads : Relies(t)
  BY DEF Relies, Making, Linking, Looking, PoolRead, TopRead, Freeing
<1> HIDE DEF stack, pool
<1> QED BY <1>1, <1>2, <1>3, <1>4, <1>5 DEF IInv

LEMMA InitIInv == Init => IInv /\ stack = <<>>
<1> SUFFICES ASSUME Init PROVE IInv /\ stack = <<>>
  OBVIOUS
<1>1. TypeOK
  BY TreiberStackAssumption DEF Init, TypeOK, Null0, Tagged, Pointers, PC
<1> QED BY <1>1, AllInHeap DEF Init, Null0, Unused

LEMMA AssignEmptyKeeps ==
    ASSUME IInv, AssignEmpty
    PROVE  IInv' /\ stack' = <<>>
<1>1. TypeOK /\ \A t \in Threads : pc[t] = "idle" /\ val[t] = None
  BY DEF IInv, AssignEmpty, Relies
<1>2. heap' = heap \cup Elems(stack) \cup Elems(pool)
  <2>1. Linked(top.ptr, next, stack) /\ Linked(free_head.ptr, next, pool)
    BY DEF IInv
  <2>2. /\ ListNodes(top.ptr, next) = Elems(stack)
        /\ ListNodes(free_head.ptr, next) = Elems(pool)
    BY <2>1, ListIs
  <2> QED BY <2>2 DEF AssignEmpty
<1>3. heap' = Nodes
  <2>1. Owners = {}
    BY <1>1 DEF Owners, Owns, Freeing
  <2>2. Nodes \subseteq heap'
    BY <1>2, <2>1 DEF IInv, InOnePlace
  <2>3. Elems(stack) \subseteq Nodes /\ Elems(pool) \subseteq Nodes
    <3>1. stack \in Seq(Nodes) /\ pool \in Seq(Nodes)
      BY DEF IInv, Linked
    <3> HIDE DEF stack, pool
    <3> QED BY <3>1 DEF Elems
  <2> QED BY <1>1, <1>2, <2>2, <2>3 DEF TypeOK
<1>4. TypeOK'
  BY <1>1, <1>3 DEF TypeOK, AssignEmpty, local, Null0, Tagged, Pointers
<1>5. /\ top'.ptr = Null /\ free_head'.ptr = Null
      /\ \A t \in Threads : pc'[t] = "idle" /\ val'[t] = None
  BY <1>1 DEF AssignEmpty, local, Null0
<1>6. Unused'
  BY <1>3, <1>4, <1>5 DEF Unused
<1>7. Unused' => (IInv /\ stack = <<>>)'
  BY AllInHeap, PTL
<1> QED BY <1>6, <1>7

-----------------------------------------------------------------------------
(* The inductive invariant *)

LEMMA NextCases ==
    ASSUME Next
    PROVE  \/ AssignEmpty
           \/ \E t \in Threads :
                 Asides(t) \/ Allocate(t) \/ PopFreeCas(t) \/ PushCas(t) \/ PopCas(t) \/ FreeCas(t)
BY DEF Next, Step, Asides

LEMMA AsidesKeep ==
    ASSUME IInv, NEW t \in Threads, Asides(t)
    PROVE  IInv' /\ ListsStay /\ Aside(t)
<1>1. TypeOK' /\ Aside(t) /\ Relies(t)'
  BY StepsAside
<1> QED BY <1>1, PlacesKept

LEMMA StutterKeeps ==
    ASSUME IInv, UNCHANGED vars
    PROVE  IInv' /\ stack' = stack
<1>1. stack' = stack /\ pool' = pool
  BY DEF vars, shared, stack, pool
<1>2. Owners' = Owners /\ \A t \in Threads : Relies(t)' <=> Relies(t)
  BY DEF vars, shared, local, Owners, Owns, Relies, Read
<1>3. TypeOK'
  BY DEF IInv, TypeOK, vars, shared, local
<1> HIDE DEF stack, pool
<1> QED BY <1>1, <1>2, <1>3 DEF vars, shared, local, IInv

LEMMA NextIInv ==
    ASSUME IInv, TagsAreFresh, [Next]_vars
    PROVE  IInv'
<1>1. CASE UNCHANGED vars
  BY <1>1, StutterKeeps
<1>2. CASE AssignEmpty
  BY <1>2, AssignEmptyKeeps
<1>3. ASSUME NEW t \in Threads, Asides(t) PROVE IInv'
  BY <1>3, AsidesKeep
<1>4. ASSUME NEW t \in Threads, Allocate(t) PROVE IInv'
  BY <1>4, AllocateKeeps
<1>5. ASSUME NEW t \in Threads, PopFreeCas(t) PROVE IInv'
  BY <1>5, PopFreeCasKeeps
<1>6. ASSUME NEW t \in Threads, PushCas(t) PROVE IInv'
  BY <1>6, PushCasKeeps
<1>7. ASSUME NEW t \in Threads, PopCas(t) PROVE IInv'
  BY <1>7, PopCasKeeps
<1>8. ASSUME NEW t \in Threads, FreeCas(t) PROVE IInv'
  BY <1>8, FreeCasKeeps
<1> QED BY <1>1, <1>2, <1>3, <1>4, <1>5, <1>6, <1>7, <1>8, NextCases

LEMMA PartitionFollows == IInv => NodesArePartitioned /\ TakesAnElement
<1> SUFFICES ASSUME IInv PROVE NodesArePartitioned /\ TakesAnElement
  OBVIOUS
<1>1. Linked(top.ptr, next, stack) /\ Linked(free_head.ptr, next, pool)
  BY DEF IInv
<1>2. /\ Ends(top.ptr, next) /\ Ends(free_head.ptr, next)
      /\ ListNodes(top.ptr, next) = Elems(stack)
      /\ ListNodes(free_head.ptr, next) = Elems(pool)
  BY <1>1, ListIs
<1> DEFINE owned == {node[t] : t \in {u \in Threads : Owns(u)}}
           A == Elems(stack)
           B == Elems(pool)
           places == <<heap, ListNodes(top.ptr, next), ListNodes(free_head.ptr, next), owned>>
<1>3. InOnePlace(heap, A, B, Owners, node)
  BY DEF IInv
<1>4. owned = {node[t] : t \in Owners}
  BY DEF Owners
<1>5. A \subseteq Nodes /\ B \subseteq Nodes /\ heap \subseteq Nodes
  <2>1. stack \in Seq(Nodes) /\ pool \in Seq(Nodes)
    BY <1>1 DEF Linked
  <2> HIDE DEF stack, pool
  <2> QED BY <2>1 DEF Elems, IInv, TypeOK
<1>6. places = <<heap, A, B, owned>>
  BY <1>2
<1> HIDE DEF A, B, owned, places
<1>7. /\ heap \cap A = {} /\ heap \cap B = {} /\ A \cap B = {}
      /\ heap \cap owned = {} /\ A \cap owned = {} /\ B \cap owned = {}
  BY <1>3, <1>4 DEF InOnePlace
<1>8. heap \cup A \cup B \cup owned = Nodes
  BY <1>3, <1>4, <1>5 DEF InOnePlace
<1>9. \A i, j \in 1..4 : i # j => places[i] \cap places[j] = {}
  BY <1>6, <1>7
<1>10. UNION {places[i] : i \in 1..4} = Nodes
  <2>1. places[1] = heap /\ places[2] = A /\ places[3] = B /\ places[4] = owned
    BY <1>6
  <2>2. {places[i] : i \in 1..4} = {heap, A, B, owned}
    BY <2>1
  <2> QED BY <2>2, <1>8
<1>11. \A t, u \in Threads : Owns(t) /\ Owns(u) /\ node[t] = node[u] => t = u
  BY <1>3 DEF InOnePlace, Owners
<1>12. NodesArePartitioned
  BY <1>2, <1>9, <1>10, <1>11 DEF NodesArePartitioned, places, owned
<1>13. TakesAnElement
  BY DEF IInv, Relies, TakesAnElement
<1> QED BY <1>12, <1>13

-----------------------------------------------------------------------------
(* The size *)

Pushers == {t \in Threads : pc[t] = "push_count"}
Poppers == {t \in Threads : Popped(t)}

LEMMA Counted ==
    ASSUME NEW S, S \subseteq Threads
    PROVE  IsFiniteSet(S) /\ Cardinality(S) \in Nat
BY TreiberStackAssumption, FS_Subset, FS_CardinalityType

LEMMA OneMore ==
    ASSUME NEW S, S \subseteq Threads, NEW x, x \notin S
    PROVE  Cardinality(S \cup {x}) = Cardinality(S) + 1
BY Counted, FS_AddElement

LEMMA OneLess ==
    ASSUME NEW S, S \subseteq Threads, NEW x \in S
    PROVE  Cardinality(S \ {x}) = Cardinality(S) - 1
BY Counted, FS_RemoveElement

LEMMA SizeIs ==
    IInv => /\ SizeIsAccounted <=> size = Len(stack) - Cardinality(Pushers) + Cardinality(Poppers)
            /\ Len(stack) \in Nat /\ size \in Int
            /\ Cardinality(Pushers) \in Nat /\ Cardinality(Poppers) \in Nat
<1> SUFFICES ASSUME IInv
             PROVE  /\ SizeIsAccounted <=> size = Len(stack) - Cardinality(Pushers) + Cardinality(Poppers)
                    /\ Len(stack) \in Nat /\ size \in Int
                    /\ Cardinality(Pushers) \in Nat /\ Cardinality(Poppers) \in Nat
  OBVIOUS
<1>1. Linked(top.ptr, next, stack)
  BY DEF IInv
<1>2. Length(top.ptr, next) = Len(stack)
  BY <1>1, ListIs
<1>3. stack \in Seq(Nodes)
  BY <1>1 DEF Linked
<1>4. Len(stack) \in Nat
  <2> HIDE DEF stack
  <2> QED BY <1>3
<1>5. Cardinality(Pushers) \in Nat /\ Cardinality(Poppers) \in Nat
  <2>1. Pushers \subseteq Threads /\ Poppers \subseteq Threads
    BY DEF Pushers, Poppers
  <2> QED BY <2>1, Counted
<1>6. size \in Int
  BY DEF IInv, TypeOK
<1> QED BY <1>2, <1>4, <1>5, <1>6 DEF SizeIsAccounted, Pushers, Poppers

(* The groups of the threads that have yet to count change by one thread. *)
LEMMA GroupsMove ==
    ASSUME NEW t \in Threads, OthersStay(t)
    PROVE  /\ Pushers' = IF pc'[t] = "push_count" THEN Pushers \cup {t} ELSE Pushers \ {t}
           /\ Poppers' = IF Popped(t)' THEN Poppers \cup {t} ELSE Poppers \ {t}
           /\ t \in Pushers <=> pc[t] = "push_count"
           /\ t \in Poppers <=> Popped(t)
           /\ Pushers \subseteq Threads /\ Poppers \subseteq Threads
<1>1. Pushers' = {u \in Threads : pc'[u] = "push_count"}
  BY DEF Pushers
<1>2. Poppers' = {u \in Threads : Popped(u)'}
  BY DEF Poppers
<1>3. \A u \in Threads \ {t} : pc'[u] = pc[u] /\ (Popped(u)' <=> Popped(u))
  BY DEF OthersStay, Popped
<1>4. Pushers' = IF pc'[t] = "push_count" THEN Pushers \cup {t} ELSE Pushers \ {t}
  BY <1>1, <1>3 DEF Pushers
<1>5. Poppers' = IF Popped(t)' THEN Poppers \cup {t} ELSE Poppers \ {t}
  BY <1>2, <1>3 DEF Poppers
<1> QED BY <1>4, <1>5 DEF Pushers, Poppers

(* How one thread's step changes the three numbers. *)
Balances(t) ==
    \/ /\ size' = size /\ Len(stack') = Len(stack)
       /\ pc'[t] = "push_count" <=> pc[t] = "push_count"
       /\ Popped(t)' <=> Popped(t)
    \/ /\ size' = size /\ Len(stack') = Len(stack) + 1
       /\ pc[t] # "push_count" /\ pc'[t] = "push_count" /\ ~ Popped(t) /\ ~ Popped(t)'
    \/ /\ size' = size + 1 /\ Len(stack') = Len(stack)
       /\ pc[t] = "push_count" /\ pc'[t] # "push_count" /\ ~ Popped(t) /\ ~ Popped(t)'
    \/ /\ size' = size /\ Len(stack') = Len(stack) - 1
       /\ pc[t] # "push_count" /\ pc'[t] # "push_count" /\ ~ Popped(t) /\ Popped(t)'
    \/ /\ size' = size - 1 /\ Len(stack') = Len(stack)
       /\ pc[t] # "push_count" /\ pc'[t] # "push_count" /\ Popped(t) /\ ~ Popped(t)'

LEMMA SizeStep ==
    ASSUME IInv, IInv', SizeIsAccounted, NEW t \in Threads, OthersStay(t),
           Balances(t)
    PROVE  SizeIsAccounted'
<1> DEFINE n == Len(stack)
           a == Cardinality(Pushers)
           b == Cardinality(Poppers)
<1>1. size = n - a + b /\ n \in Nat /\ a \in Nat /\ b \in Nat /\ size \in Int
  BY SizeIs
<1>2. SizeIsAccounted' <=> size' = n' - a' + b'
  <2>1. (SizeIsAccounted <=> size = Len(stack) - Cardinality(Pushers) + Cardinality(Poppers))'
    BY SizeIs, PTL
  <2> QED BY <2>1
<1>3. a' = IF pc'[t] = "push_count" /\ pc[t] # "push_count" THEN a + 1
           ELSE IF pc'[t] # "push_count" /\ pc[t] = "push_count" THEN a - 1 ELSE a
  <2>1. CASE pc'[t] = "push_count" /\ pc[t] # "push_count"
    BY <2>1, GroupsMove, OneMore
  <2>2. CASE pc'[t] # "push_count" /\ pc[t] = "push_count"
    BY <2>2, GroupsMove, OneLess
  <2>3. CASE pc'[t] = "push_count" <=> pc[t] = "push_count"
    <3>1. Pushers' = Pushers
      BY <2>3, GroupsMove
    <3> QED BY <3>1, <2>3
  <2> QED BY <2>1, <2>2, <2>3
<1>4. b' = IF Popped(t)' /\ ~ Popped(t) THEN b + 1
           ELSE IF ~ Popped(t)' /\ Popped(t) THEN b - 1 ELSE b
  <2>1. CASE Popped(t)' /\ ~ Popped(t)
    BY <2>1, GroupsMove, OneMore
  <2>2. CASE ~ Popped(t)' /\ Popped(t)
    BY <2>2, GroupsMove, OneLess
  <2>3. CASE Popped(t)' <=> Popped(t)
    <3>1. Poppers' = Poppers
      BY <2>3, GroupsMove
    <3> QED BY <3>1, <2>3
  <2> QED BY <2>1, <2>2, <2>3
<1>5. n' = Len(stack') /\ n = Len(stack)
  OBVIOUS
<1> HIDE DEF n, a, b
<1>6. \/ size' = size /\ n' = n /\ a' = a /\ b' = b
      \/ size' = size /\ n' = n + 1 /\ a' = a + 1 /\ b' = b
      \/ size' = size + 1 /\ n' = n /\ a' = a - 1 /\ b' = b
      \/ size' = size /\ n' = n - 1 /\ a' = a /\ b' = b + 1
      \/ size' = size - 1 /\ n' = n /\ a' = a /\ b' = b - 1
  BY <1>3, <1>4, <1>5, Zenon DEF Balances
<1>7. size' = n' - a' + b'
  BY <1>1, <1>6
<1> QED BY <1>2, <1>7

(* What each step does to the three numbers. *)
LEMMA AsidesBalance ==
    ASSUME IInv, NEW t \in Threads, Asides(t), stack' = stack
    PROVE  Balances(t)
<1>0. TypeOK /\ Relies(t) /\ Nothing \notin Values
  BY OwnNode, TreiberStackAssumption
<1> USE DEF TypeOK, GoTo, Load, shared, Popped, Freeing
<1>1. CASE PushCount(t)
  BY <1>0, <1>1 DEF Balances, PushCount
<1>2. CASE PopCount(t)
  BY <1>0, <1>2 DEF Balances, PopCount
<1> DEFINE Same == /\ size' = size
                   /\ pc'[t] = "push_count" <=> pc[t] = "push_count"
                   /\ Popped(t)' <=> Popped(t)
<1>3. CASE \/ \E v \in Values : push(t, v)
           \/ try_pop(t)
           \/ PopFreeLoad(t) \/ PopFreeNext(t) \/ PopFreeReset(t)
           \/ EmplaceDestroys(t) \/ EmplaceConstructs(t) \/ EmplaceThrows(t)
  <2>1. Same
    BY <1>0, <1>3 DEF push, try_pop, PopFreeLoad, PopFreeNext, PopFreeReset,
                      EmplaceDestroys, EmplaceConstructs, EmplaceThrows
  <2> QED BY <2>1, Zenon DEF Balances
<1>4. CASE PushLoad(t) \/ PushLink(t) \/ PopLoad(t) \/ PopEmpty(t) \/ PopCopy(t)
  <2>1. Same
    BY <1>0, <1>4 DEF PushLoad, PushLink, PopLoad, PopEmpty, PopCopy
  <2> QED BY <2>1, Zenon DEF Balances
<1>5. CASE PopNext(t) \/ PopCheck(t)
  <2>1. /\ size' = size /\ pc[t] \in {"pop_next", "pop_check"}
        /\ pc'[t] \in {"pop_check", "pop_cas", "pop_load", "pop_copy"}
    BY <1>0, <1>5 DEF PopNext, PopCheck
  <2>2. Same
    BY <2>1
  <2> QED BY <2>2, Zenon DEF Balances
<1>6. CASE PopTake(t)
  <2>1. /\ size' = size /\ ret' = ret /\ ret[t] = "pop_count"
        /\ pc[t] = "pop_take" /\ pc'[t] = "free_load"
    BY <1>0, <1>6 DEF PopTake, Relies
  <2>2. Same
    BY <2>1
  <2> QED BY <2>2, Zenon DEF Balances
<1>7. CASE FreeLoad(t) \/ FreeLink(t) \/ CasFails(t)
  <2>1. /\ size' = size /\ ret' = ret
        /\ pc[t] \in Freeing <=> pc'[t] \in Freeing
        /\ {pc[t], pc'[t]} \cap {"push_count", "pop_count", "pop_take"} = {}
    BY <1>0, <1>7 DEF FreeLoad, FreeLink, CasFails
  <2>2. Same
    BY <2>1
  <2> QED BY <2>2, Zenon DEF Balances
<1> QED BY <1>1, <1>2, <1>3, <1>4, <1>5, <1>6, <1>7 DEF Asides

LEMMA OthersStayAtMoves ==
    ASSUME TypeOK, NEW t \in Threads,
           Allocate(t) \/ PopFreeCas(t) \/ PushCas(t) \/ PopCas(t) \/ FreeCas(t)
    PROVE  OthersStay(t)
BY DEF TypeOK, OthersStay, GoTo, Allocate, PopFreeCas, PushCas, PopCas, FreeCas

LEMMA NextSize ==
    ASSUME IInv, IInv', TagsAreFresh, SizeIsAccounted, [Next]_vars
    PROVE  SizeIsAccounted'
<1>0. TypeOK
  BY DEF IInv
<1> USE DEF Popped, Freeing, GoTo
<1>1. CASE UNCHANGED vars
  BY <1>1 DEF vars, shared, local, SizeIsAccounted
<1>2. CASE AssignEmpty
  <2>1. stack' = <<>> /\ size' = 0
    BY <1>2, AssignEmptyKeeps DEF AssignEmpty
  <2>2. Pushers' = {} /\ Poppers' = {}
    BY <1>2 DEF AssignEmpty, local, Pushers, Poppers
  <2>3. Cardinality({}) = 0 /\ Len(<<>>) = 0
    BY FS_EmptySet
  <2>4. (SizeIsAccounted <=> size = Len(stack) - Cardinality(Pushers) + Cardinality(Poppers))'
    BY SizeIs, PTL
  <2> QED BY <2>1, <2>2, <2>3, <2>4
<1>3. ASSUME NEW t \in Threads, Asides(t) PROVE SizeIsAccounted'
  <2>1. OthersStay(t) /\ stack' = stack
    BY <1>3, AsidesKeep DEF Aside, ListsStay
  <2> QED BY <1>3, <2>1, AsidesBalance, SizeStep
<1>4. ASSUME NEW t \in Threads, Allocate(t) \/ PopFreeCas(t) \/ FreeCas(t) PROVE SizeIsAccounted'
  <2>1. OthersStay(t) /\ stack' = stack
    BY <1>0, <1>4, OthersStayAtMoves, AllocateKeeps, PopFreeCasKeeps, FreeCasKeeps DEF ListsStay
  <2>2. /\ size' = size
        /\ pc'[t] = "push_count" <=> pc[t] = "push_count"
        /\ Popped(t)' <=> Popped(t)
    <3>1. CASE Allocate(t) \/ PopFreeCas(t)
      BY <1>0, <3>1 DEF Allocate, PopFreeCas, TypeOK
    <3>2. CASE FreeCas(t)
      <4>1. /\ size' = size /\ pc[t] = "free_cas" /\ pc'[t] = ret[t]
            /\ ret[t] \in {"idle", "pop_count"} /\ ret' = ret
        BY <1>0, <3>2 DEF FreeCas, TypeOK, IInv, Relies
      <4> QED BY <4>1
    <3> QED BY <1>4, <3>1, <3>2
  <2>3. Balances(t)
    BY <2>1, <2>2, Zenon DEF Balances
  <2> QED BY <2>1, <2>3, SizeStep
<1>5. ASSUME NEW t \in Threads, PushCas(t) PROVE SizeIsAccounted'
  <2>1. OthersStay(t) /\ stack' = <<node[t]>> \o stack /\ node[t] \in Nodes
    BY <1>0, <1>5, OthersStayAtMoves, PushCasKeeps
  <2>2. stack \in Seq(Nodes)
    BY DEF IInv, Linked
  <2>3. Len(stack') = Len(stack) + 1
    <3> HIDE DEF stack
    <3> QED BY <2>1, <2>2
  <2>4. Balances(t)
    BY <1>0, <1>5, <2>3 DEF Balances, PushCas, TypeOK
  <2> QED BY <2>1, <2>4, SizeStep
<1>6. ASSUME NEW t \in Threads, PopCas(t) PROVE SizeIsAccounted'
  <2>1. OthersStay(t) /\ stack' = Tail(stack) /\ stack # <<>>
    BY <1>0, <1>6, OthersStayAtMoves, PopCasKeeps
  <2>2. stack \in Seq(Nodes)
    BY DEF IInv, Linked
  <2>3. Len(stack') = Len(stack) - 1
    <3> HIDE DEF stack
    <3> QED BY <2>1, <2>2
  <2>4. Balances(t)
    BY <1>0, <1>6, <2>3 DEF Balances, PopCas, TypeOK
  <2> QED BY <2>1, <2>4, SizeStep
<1> QED BY <1>1, <1>2, <1>3, <1>4, <1>5, <1>6, NextCases

-----------------------------------------------------------------------------
(* The refinement *)

(* What the other threads are doing looks as before. *)
LEMMA OthersLook ==
    ASSUME IInv, NEW t \in Threads, OthersStay(t), WritesOwn(t)
    PROVE  /\ pushing' = [pushing EXCEPT ![t] = pushing'[t]]
           /\ result' = [result EXCEPT ![t] = result'[t]]
<1>1. ASSUME NEW u \in Threads, u # t PROVE pushing'[u] = pushing[u] /\ result'[u] = result[u]
  <2>1. pc'[u] = pc[u] /\ old'[u] = old[u] /\ node'[u] = node[u] /\ val'[u] = val[u] /\ ret'[u] = ret[u]
    BY <1>1 DEF OthersStay
  <2>2. Owns(u) => value'[node[u]] = value[node[u]]
    BY <1>1 DEF IInv, WritesOwn, InOnePlace, Owners
  <2>3. pushing'[u] = pushing[u]
    BY <2>1 DEF pushing
  <2>4. Popped(u)' <=> Popped(u)
    BY <2>1 DEF Popped
  <2>5. result'[u] = result[u]
    BY <2>1, <2>2, <2>4 DEF result, Owns
  <2> QED BY <2>3, <2>5
<1>2. DOMAIN pushing = Threads /\ DOMAIN pushing' = Threads /\ DOMAIN result = Threads /\ DOMAIN result' = Threads
  BY DEF pushing, result
<1>3. /\ pushing = [u \in Threads |-> pushing[u]] /\ pushing' = [u \in Threads |-> pushing'[u]]
      /\ result = [u \in Threads |-> result[u]] /\ result' = [u \in Threads |-> result'[u]]
  BY DEF pushing, result
<1> QED BY <1>1, <1>2, <1>3

LEMMA ContentsAre ==
    contents = [i \in 1..Len(stack) |-> value[stack[i]]]
BY DEF contents, stack

LEMMA ContentsStay ==
    ASSUME IInv, stack' = stack, \A n \in Elems(stack) : value'[n] = value[n]
    PROVE  contents' = contents
<1>1. contents' = [i \in 1..Len(stack') |-> value'[stack'[i]]]
  BY DEF contents, stack
<1> HIDE DEF stack
<1>2. \A i \in 1..Len(stack) : value'[stack[i]] = value[stack[i]]
  BY DEF Elems
<1> QED BY <1>1, <1>2, ContentsAre

LEMMA SeesEmpty ==
    ASSUME IInv, top.ptr = Null
    PROVE  contents = <<>>
<1>1. Linked(Null, next, stack)
  BY DEF IInv
<1>2. stack \in Seq(Nodes) /\ Null = At(stack, 1) /\ Null \notin Nodes
  BY <1>1, TreiberStackAssumption DEF Linked
<1> HIDE DEF stack
<1>3. Len(stack) = 0
  BY <1>2 DEF At
<1> QED BY <1>3, ContentsAre

(* A step that changes nothing that the sequence shows. *)
Stutters(t) == pushing'[t] = pushing[t] /\ result'[t] = result[t]

LEMMA StutterImplements ==
    ASSUME NEW t \in Threads, Stutters(t), contents' = contents,
           pushing' = [pushing EXCEPT ![t] = pushing'[t]],
           result' = [result EXCEPT ![t] = result'[t]]
    PROVE  UNCHANGED Stack!vars
<1>1. /\ pushing = [u \in Threads |-> pushing[u]]
      /\ result = [u \in Threads |-> result[u]]
  BY DEF pushing, result
<1>2. pushing' = pushing /\ result' = result
  BY <1>1 DEF Stutters
<1> QED BY <1>2 DEF Stack!vars

(* The steps that leave the lists alone. *)
LEMMA AsidesImplement ==
    ASSUME IInv, NEW t \in Threads, Asides(t)
    PROVE  [Stack!Next]_(Stack!vars)
<1>0. TypeOK /\ Relies(t) /\ (Owns(t) => node[t] \in Nodes) /\ Nothing \notin Values /\ None \notin Values /\ None # Nothing
  BY OwnNode, TreiberStackAssumption
<1>1. Aside(t) /\ ListsStay
  BY AsidesKeep
<1>2. contents' = contents
  BY <1>1, ContentsStay DEF ListsStay
<1>3. /\ pushing' = [pushing EXCEPT ![t] = pushing'[t]]
      /\ result' = [result EXCEPT ![t] = result'[t]]
  BY <1>1, OthersLook DEF Aside
<1>4. top.ptr = Null => contents = <<>>
  BY SeesEmpty
<1>5. /\ pushing = [u \in Threads |-> pushing[u]]
      /\ result = [u \in Threads |-> result[u]]
  BY DEF pushing, result
<1>6. ASSUME Stutters(t) PROVE [Stack!Next]_(Stack!vars)
  BY <1>2, <1>3, <1>6, StutterImplements
<1>7. ASSUME pushing'[t] = pushing[t], result[t] = None, result'[t] \in {None, Nothing},
             result'[t] = Nothing => top.ptr = Null
      PROVE  [Stack!Next]_(Stack!vars)
  <2>1. CASE result'[t] = None
    BY <1>6, <1>7, <2>1 DEF Stutters
  <2>2. CASE result'[t] = Nothing
    <3>1. pushing' = pushing
      BY <1>3, <1>5, <1>7
    <3>2. Stack!SeesNothing(t)
      BY <1>2, <1>3, <1>4, <1>7, <2>2, <3>1 DEF Stack!SeesNothing
    <3> QED BY <3>2 DEF Stack!Next
  <2> QED BY <1>7, <2>1, <2>2
<1>8. ASSUME pushing'[t] = pushing[t], result[t] # None, result'[t] = None
      PROVE  [Stack!Next]_(Stack!vars)
  <2>1. pushing' = pushing
    BY <1>3, <1>5, <1>8
  <2>2. Stack!ReturnsOrRetries(t)
    BY <1>2, <1>3, <1>8, <2>1 DEF Stack!ReturnsOrRetries
  <2> QED BY <2>2 DEF Stack!Next
<1> USE DEF TypeOK, GoTo, Load, shared, Popped, Freeing, pushing, result
<1>9. ASSUME NEW v \in Values, push(t, v) PROVE [Stack!Next]_(Stack!vars)
  <2>1. pushing[t] = None /\ pushing'[t] = v /\ result[t] = None /\ result'[t] = None
    BY <1>0, <1>9 DEF push
  <2>2. Stack!CallAdd(t, v)
    <3> HIDE DEF pushing, result
    <3>1. result' = result
      BY <1>3, <1>5, <2>1
    <3> QED BY <1>2, <1>3, <2>1, <3>1 DEF Stack!CallAdd
  <2> QED BY <2>2 DEF Stack!Next
<1>10. CASE EmplaceThrows(t)
  <2>1. pushing[t] # None /\ pushing'[t] = None /\ result[t] = None /\ result'[t] = None
    BY <1>0, <1>10 DEF EmplaceThrows, Relies, Making
  <2>2. Stack!AddThrows(t)
    <3> HIDE DEF pushing, result
    <3>1. result' = result
      BY <1>3, <1>5, <2>1
    <3> QED BY <1>2, <1>3, <2>1, <3>1 DEF Stack!AddThrows
  <2> QED BY <2>2 DEF Stack!Next
<1>11. CASE \/ try_pop(t)
            \/ PopFreeLoad(t) \/ PopFreeNext(t) \/ PopFreeReset(t)
            \/ EmplaceDestroys(t) \/ EmplaceConstructs(t)
  <2>1. Stutters(t)
    BY <1>0, <1>11 DEF Stutters, try_pop, PopFreeLoad, PopFreeNext, PopFreeReset,
                      EmplaceDestroys, EmplaceConstructs
  <2> QED BY <1>6, <2>1
<1>12. CASE PushLoad(t) \/ PushLink(t) \/ PushCount(t) \/ PopCopy(t)
  <2>1. Stutters(t)
    BY <1>0, <1>12 DEF Stutters, PushLoad, PushLink, PushCount, PopCopy
  <2> QED BY <1>6, <2>1
<1>13. CASE PopNext(t) \/ PopCheck(t)
  <2>1. /\ (pc[t] = "pop_next" /\ old[t].ptr # Null) \/ pc[t] = "pop_check"
        /\ pc'[t] \in {"pop_check", "pop_cas", "pop_load", "pop_copy"}
    BY <1>0, <1>13 DEF PopNext, PopCheck
  <2>2. Stutters(t)
    BY <2>1 DEF Stutters
  <2> QED BY <1>6, <2>2
<1>14. CASE PopTake(t)
  <2>1. /\ pc[t] = "pop_take" /\ pc'[t] = "free_load" /\ ret'[t] = "pop_count"
        /\ val'[t] = value[node[t]]
    BY <1>0, <1>14 DEF PopTake, Relies
  <2>2. Stutters(t)
    BY <2>1 DEF Stutters
  <2> QED BY <1>6, <2>2
<1>15. CASE FreeLoad(t) \/ FreeLink(t)
  <2>1. Stutters(t)
    BY <1>0, <1>15 DEF Stutters, FreeLoad, FreeLink
  <2> QED BY <1>6, <2>1
<1>16. CASE PopLoad(t)
  <2>1. /\ pushing'[t] = pushing[t] /\ result[t] = None
        /\ result'[t] = IF top.ptr = Null THEN Nothing ELSE None
    BY <1>0, <1>16 DEF PopLoad
  <2> HIDE DEF pushing, result
  <2> QED BY <1>0, <1>7, <2>1
<1>17. CASE CasFails(t)
  <2>1. CASE pc[t] = "pop_cas"
    <3>1. /\ pushing'[t] = pushing[t] /\ result[t] = None
          /\ result'[t] = IF top.ptr = Null THEN Nothing ELSE None
      BY <1>0, <1>17, <2>1 DEF CasFails
    <3> HIDE DEF pushing, result
    <3> QED BY <1>0, <1>7, <3>1
  <2>2. CASE pc[t] # "pop_cas"
    <3>1. Stutters(t)
      BY <1>0, <1>17, <2>2 DEF Stutters, CasFails
    <3> QED BY <1>6, <3>1
  <2> QED BY <2>1, <2>2
<1>18. CASE PopEmpty(t)
  <2>1. pushing'[t] = pushing[t] /\ result[t] # None /\ result'[t] = None
    BY <1>0, <1>18 DEF PopEmpty
  <2> QED BY <1>8, <2>1
<1>19. CASE PopCount(t)
  <2>1. pushing'[t] = pushing[t] /\ result[t] # None /\ result'[t] = None
    BY <1>0, <1>19 DEF PopCount, Relies
  <2> QED BY <1>8, <2>1
<1> QED BY <1>9, <1>10, <1>11, <1>12, <1>13, <1>14, <1>15, <1>16, <1>17, <1>18, <1>19 DEF Asides

(* The steps that move a node, and the others *)
LEMMA MovesLook ==
    ASSUME IInv, NEW t \in Threads,
           Allocate(t) \/ PopFreeCas(t) \/ PushCas(t) \/ PopCas(t) \/ FreeCas(t)
    PROVE  /\ pushing' = [pushing EXCEPT ![t] = pushing'[t]]
           /\ result' = [result EXCEPT ![t] = result'[t]]
<1>1. TypeOK
  BY DEF IInv
<1>2. OthersStay(t)
  BY <1>1, OthersStayAtMoves
<1>3. WritesOwn(t)
  <2>1. CASE Allocate(t)
    BY <1>1, <2>1 DEF Allocate, WritesOwn, TypeOK
  <2>2. CASE PopFreeCas(t) \/ PushCas(t) \/ PopCas(t) \/ FreeCas(t)
    BY <2>2 DEF PopFreeCas, PushCas, PopCas, FreeCas, WritesOwn
  <2> QED BY <2>1, <2>2
<1> QED BY <1>2, <1>3, OthersLook

LEMMA NextImplements ==
    ASSUME IInv, TagsAreFresh, [Next]_vars
    PROVE  [Stack!Next]_(Stack!vars)
<1>0. TypeOK /\ None \notin Values
  BY TreiberStackAssumption DEF IInv
<1>a. /\ pushing = [u \in Threads |-> pushing[u]]
      /\ result = [u \in Threads |-> result[u]]
  BY DEF pushing, result
<1>b. stack \in Seq(Nodes)
  BY DEF IInv, Linked
<1>1. CASE UNCHANGED vars
  BY <1>1 DEF vars, shared, local, Stack!vars, contents, pushing, result, Popped
<1>2. CASE AssignEmpty
  <2>1. stack' = <<>>
    BY <1>2, AssignEmptyKeeps
  <2>2. contents' = [i \in 1..Len(stack') |-> value'[stack'[i]]]
    BY DEF contents, stack
  <2>3. contents' = <<>>
    BY <2>1, <2>2
  <2>4. \A t \in Threads : pushing[t] = None /\ result[t] = None
    BY <1>2 DEF AssignEmpty, pushing, result, Popped, Freeing
  <2>5. pushing' = [t \in Threads |-> None] /\ result' = [t \in Threads |-> None]
    BY <1>2 DEF AssignEmpty, local, pushing, result, Popped, Freeing
  <2>6. pushing' = pushing /\ result' = result
    BY <1>a, <2>4, <2>5
  <2>7. Stack!Replace
    BY <2>3, <2>4, <2>6 DEF Stack!Replace
  <2> QED BY <2>7 DEF Stack!Next
<1>3. ASSUME NEW t \in Threads, Asides(t) PROVE [Stack!Next]_(Stack!vars)
  BY <1>3, AsidesImplement
<1>4. ASSUME NEW t \in Threads, Allocate(t) \/ PopFreeCas(t) \/ FreeCas(t)
      PROVE  [Stack!Next]_(Stack!vars)
  <2>1. contents' = contents
    <3>1. CASE Allocate(t)
      BY <3>1, AllocateKeeps, ContentsStay DEF ListsStay
    <3>2. CASE PopFreeCas(t)
      BY <3>2, PopFreeCasKeeps, ContentsStay DEF PopFreeCas
    <3>3. CASE FreeCas(t)
      BY <3>3, FreeCasKeeps, ContentsStay DEF FreeCas
    <3> QED BY <1>4, <3>1, <3>2, <3>3
  <2>2. Stutters(t)
    <3>1. CASE Allocate(t) \/ PopFreeCas(t)
      BY <1>0, <3>1 DEF Allocate, PopFreeCas, TypeOK, GoTo, Stutters, pushing, result, Popped, Freeing
    <3>2. CASE FreeCas(t)
      <4>1. /\ pc[t] = "free_cas" /\ pc'[t] = ret[t] /\ val' = val
            /\ ret[t] \in {"idle", "pop_count"} /\ ret' = ret
        BY <1>0, <3>2 DEF FreeCas, GoTo, TypeOK, IInv, Relies, Freeing
      <4> QED BY <4>1 DEF Stutters, pushing, result, Popped, Freeing
    <3> QED BY <1>4, <3>1, <3>2
  <2> QED BY <1>4, <2>1, <2>2, MovesLook, StutterImplements
<1>5. ASSUME NEW t \in Threads, PushCas(t) PROVE [Stack!Next]_(Stack!vars)
  <2>1. /\ stack' = <<node[t]>> \o stack /\ node[t] \in Nodes
        /\ value' = value /\ value[node[t]] = val[t] /\ val[t] \in Values
    BY <1>5, PushCasKeeps
  <2>2. contents' = <<val[t]>> \o contents
    <3>1. contents' = [i \in 1..Len(stack') |-> value'[stack'[i]]]
      BY DEF contents, stack
    <3> HIDE DEF stack
    <3>2. /\ Len(contents) = Len(stack) /\ Len(stack) \in Nat
          /\ \A i \in 1..Len(stack) : contents[i] = value[stack[i]]
      BY <1>b, ContentsAre
    <3>3. /\ Len(stack') = Len(stack) + 1 /\ stack'[1] = node[t]
          /\ \A i \in 2..Len(stack) + 1 : stack'[i] = stack[i - 1]
      BY <1>b, <2>1
    <3>4. contents \in Seq(Values)
      <4>1. \A i \in 1..Len(stack) : value[stack[i]] \in Values
        BY DEF IInv, Elems
      <4> QED BY <3>2, <4>1, ContentsAre
    <3>5. <<val[t]>> \o contents = [i \in 1..Len(stack) + 1 |->
                IF i = 1 THEN val[t] ELSE contents[i - 1]]
      BY <2>1, <3>2, <3>4
    <3> QED BY <2>1, <3>1, <3>2, <3>3, <3>5
  <2>3. pushing[t] = val[t] /\ pushing'[t] = None /\ result[t] = None /\ result'[t] = None
    BY <1>0, <1>5 DEF PushCas, GoTo, TypeOK, pushing, result, Popped, Freeing
  <2>4. result' = result /\ pushing' = [pushing EXCEPT ![t] = None]
    BY <1>5, <1>a, <2>3, MovesLook
  <2>5. Stack!Add(t)
    BY <1>0, <2>1, <2>2, <2>3, <2>4 DEF Stack!Add
  <2> QED BY <2>5 DEF Stack!Next
<1>6. ASSUME NEW t \in Threads, PopCas(t) PROVE [Stack!Next]_(Stack!vars)
  <2>1. /\ stack # <<>> /\ old[t].ptr = Head(stack) /\ stack' = Tail(stack)
        /\ value' = value /\ value[old[t].ptr] \in Values
        /\ copyable => val[t] = value[old[t].ptr]
    BY <1>6, PopCasKeeps
  <2>2. /\ contents # <<>> /\ Head(contents) = value[old[t].ptr]
        /\ contents' = Tail(contents)
    <3>1. contents' = [i \in 1..Len(stack') |-> value'[stack'[i]]]
      BY DEF contents, stack
    <3> HIDE DEF stack
    <3>2. /\ Len(stack) \in Nat /\ Len(stack) >= 1 /\ old[t].ptr = stack[1]
          /\ Len(stack') = Len(stack) - 1
          /\ \A i \in 1..Len(stack') : stack'[i] = stack[i + 1]
      BY <1>b, <2>1
    <3>3. contents \in Seq(Values)
      <4>1. \A i \in 1..Len(stack) : value[stack[i]] \in Values
        BY DEF IInv, Elems
      <4> QED BY <3>2, <4>1, ContentsAre
    <3>4. /\ Len(contents) = Len(stack)
          /\ \A i \in 1..Len(stack) : contents[i] = value[stack[i]]
      BY <1>b, ContentsAre
    <3>5. contents # <<>> /\ Head(contents) = contents[1]
      BY <3>2, <3>3, <3>4
    <3>6. Tail(contents) = [i \in 1..Len(stack') |-> contents[i + 1]]
      <4>1. PICK s : s = Tail(contents)
        OBVIOUS
      <4>2. s \in Seq(Values) /\ Len(s) = Len(stack')
        BY <3>2, <3>3, <3>4, <3>5, <4>1
      <4>3. \A i \in 1..Len(stack') : s[i] = contents[i + 1]
        BY <3>2, <3>3, <3>4, <3>5, <4>1
      <4>4. s = [i \in 1..Len(s) |-> s[i]]
        BY <4>2
      <4> QED BY <4>1, <4>2, <4>3, <4>4
    <3>7. \A i \in 1..Len(stack') : contents[i + 1] = value'[stack'[i]]
      BY <2>1, <3>2, <3>4
    <3> QED BY <3>1, <3>2, <3>4, <3>5, <3>6, <3>7
  <2>3. /\ pushing'[t] = pushing[t] /\ result[t] = None
        /\ result'[t] = value[old[t].ptr]
    <3>1. /\ pc[t] = "pop_cas" /\ ret'[t] = "pop_count"
          /\ node'[t] = old[t].ptr /\ val'[t] = val[t] /\ value' = value
      BY <1>0, <1>6 DEF PopCas, TypeOK
    <3>2. CASE copyable
      <4>1. pc'[t] = "free_load"
        BY <1>0, <1>6, <3>2 DEF PopCas, GoTo, TypeOK
      <4> QED BY <2>1, <3>1, <3>2, <4>1 DEF pushing, result, Popped, Freeing
    <3>3. CASE ~ copyable
      <4>1. pc'[t] = "pop_take"
        BY <1>0, <1>6, <3>3 DEF PopCas, GoTo, TypeOK
      <4> QED BY <2>1, <3>1, <4>1 DEF pushing, result, Popped, Freeing
    <3> QED BY <3>2, <3>3
  <2>4. pushing' = pushing /\ result' = [result EXCEPT ![t] = value[old[t].ptr]]
    BY <1>6, <1>a, <2>3, MovesLook
  <2>5. Stack!Remove(t)
    BY <2>2, <2>3, <2>4 DEF Stack!Remove
  <2> QED BY <2>5 DEF Stack!Next
<1> QED BY <1>1, <1>2, <1>3, <1>4, <1>5, <1>6, NextCases

LEMMA InitImplements == Init => Stack!Init /\ SizeIsAccounted
<1> SUFFICES ASSUME Init PROVE Stack!Init /\ SizeIsAccounted
  OBVIOUS
<1>1. IInv /\ stack = <<>>
  BY InitIInv
<1>2. contents = <<>>
  BY <1>1, ContentsAre
<1>3. pushing = [t \in Threads |-> None] /\ result = [t \in Threads |-> None]
  BY DEF Init, pushing, result, Popped, Freeing
<1>4. Pushers = {} /\ Poppers = {}
  BY DEF Init, Pushers, Poppers, Popped, Freeing
<1>5. size = 0 /\ Cardinality({}) = 0 /\ Len(<<>>) = 0
  BY FS_EmptySet DEF Init
<1>6. SizeIsAccounted
  BY <1>1, <1>4, <1>5, SizeIs
<1> QED BY <1>2, <1>3, <1>6 DEF Stack!Init

-----------------------------------------------------------------------------
(* The theorems *)

StackIsFresh == structure = "stack" => TagsAreFresh
StackInv == structure = "stack" => IInv /\ SizeIsAccounted

LEMMA StackInductive == LockFreeSpec /\ []StackIsFresh => []StackInv
<1>1. LockFreeInit => StackInv
  BY InitIInv, InitImplements DEF LockFreeInit, StackInv
<1>2. StackInv /\ StackIsFresh /\ [LockFreeNext]_allVars => StackInv'
  <2> SUFFICES ASSUME StackInv, StackIsFresh, [LockFreeNext]_allVars, structure' = "stack"
               PROVE  IInv' /\ SizeIsAccounted'
    BY DEF StackInv
  <2>1. structure = "stack" /\ [Next]_vars
    BY DEF LockFreeNext, StackNext, QueueNext, allVars
  <2>2. IInv /\ TagsAreFresh /\ SizeIsAccounted
    BY <2>1 DEF StackInv, StackIsFresh
  <2> QED BY <2>1, <2>2, NextIInv, NextSize
<1> QED BY <1>1, <1>2, PTL DEF LockFreeSpec

(* For any threads, nodes and values and runs of any length: as long as no *)
(* thread stalls between its load of a head and its compare-and-swap for   *)
(* as many swaps as the tag has values, the variables of TreiberStack have *)
(* their types, every node is in exactly one place, size_ is accounted for *)
(* and a popped node holds an element.                                     *)
THEOREM StackSound == LockFreeSpec /\ []StackIsFresh => []StackIsSound
<1>1. StackInv => StackIsSound
  BY PartitionFollows DEF StackInv, StackIsSound, IInv
<1> QED BY <1>1, StackInductive, PTL

(* Under the same condition push and try_pop of TreiberStack are           *)
(* linearizable: the stack implements ConcurrentSequence as a last-in      *)
(* first-out sequence.                                                     *)
THEOREM StackLinearizable == LockFreeSpec /\ []StackIsFresh => StackIsLinearizable
<1>1. LockFreeInit => (structure = "stack" => Stack!Init)
  BY InitImplements DEF LockFreeInit
<1>2. StackInv /\ StackIsFresh /\ [LockFreeNext]_allVars =>
        [structure = "stack" => [Stack!Next]_(Stack!vars)]_allVars
  <2> SUFFICES ASSUME StackInv, StackIsFresh, [LockFreeNext]_allVars, structure = "stack"
               PROVE  [Stack!Next]_(Stack!vars)
    OBVIOUS
  <2>1. [Next]_vars
    BY DEF LockFreeNext, StackNext, QueueNext, allVars
  <2>2. IInv /\ TagsAreFresh
    BY DEF StackInv, StackIsFresh
  <2> QED BY <2>1, <2>2, NextImplements
<1> QED BY <1>1, <1>2, StackInductive, PTL DEF LockFreeSpec, StackIsLinearizable
=============================================================================
