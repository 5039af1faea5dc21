------------------------------- MODULE Probabilistic ------------------------
(***************************************************************************)
(* filter::BloomFilter and filter::CuckooFilter, sets that may err on one  *)
(* side, and the estimators of data_structure::probabilistic.              *)
(***************************************************************************)
EXTENDS Integers, Sequences, SequencesExt, FiniteSets, FiniteSetsExt, Bags, BagsExt, Bitwise

CONSTANTS
    Keys,
    hash_ap,             \* hash_ap[key][salt]
    Salts,
    table_size,
    MaxInserted,         \* bound on the count of insertions
    fingerprint,
    bucket1,
    hash_fingerprint,    \* of a key, of a key, of a fingerprint
    num_buckets,         \* a power of two
    ENTRIES_PER_BUCKET,
    MAX_KICKS,
    TRAIL_CAPACITY,
    AnyInsert,           \* FALSE: no insert that fails and is not undone
    AnyDifference,       \* FALSE: no difference that clears bits of a key only one has
    Items,
    Column,         \* Column[x][i]: of x in row i of the count-min sketch
    Width,
    Depth,
    CounterBits,
    HashBits,       \* of HyperLogLog
    Precision,
    Hash,           \* Hash[x]: of x in HyperLogLog
    MinHashes,      \* MinHashes[x][i]: of x at place i of the signature
    SignatureSize,
    MaxHash,
    Counts,         \* how many may be added at once
    MaxCount,       \* bound on what is added of an item
    Values,
    Weights,        \* how often a value may be added at once
    Compression,
    AnyRead,        \* FALSE: no quantile is read before the first compress
    MaxWeight       \* bound on the weight of both digests before a merge

VARIABLES
    bit_table,               \* of filter 1 and of filter 2
    inserted_element_count,
    inserted,                \* history: the keys each filter must find
    buckets,                 \* the entries in use of each bucket
    displacements,           \* displacement_counter_ of each bucket
    element_count,
    contents,                \* history: how often each key is in
    counters,
    registers,
    signature,
    count,        \* history: how often each item was added
    centroids,
    buffer,
    totalWeight,  \* of two digests
    seen          \* history: how often each value was added

-----------------------------------------------------------------------------
(* filter::BloomFilter: two filters of the same parameters, keys put into  *)
(* them, and the operators that combine one with the other.  The hash of a *)
(* key under a salt is a constant; the table is the set of bits that are 1.*)

BloomFilter_vars == <<bit_table, inserted_element_count, inserted>>

Filters == {1, 2}

compute_indices(key) == {hash_ap[key][s] % table_size : s \in Salts}
BloomFilter_containsKey(f, key) == compute_indices(key) \subseteq bit_table[f]

BloomFilter_Init ==
    /\ bit_table = [f \in Filters |-> {}]
    /\ inserted_element_count = [f \in Filters |-> 0]
    /\ inserted = [f \in Filters |-> {}]

BloomFilter_insert(f, key) ==
    /\ inserted_element_count[f] < MaxInserted
    /\ bit_table' = [bit_table EXCEPT ![f] = @ \cup compute_indices(key)]
    /\ inserted_element_count' = [inserted_element_count EXCEPT ![f] = @ + 1]
    /\ inserted' = [inserted EXCEPT ![f] = @ \cup {key}]

BloomFilter_clear(f) ==
    /\ bit_table' = [bit_table EXCEPT ![f] = {}]
    /\ inserted_element_count' = [inserted_element_count EXCEPT ![f] = 0]
    /\ inserted' = [inserted EXCEPT ![f] = {}]

(* The operators change the bits alone, the count of insertions stays. *)
Combine(f, bits, keys) ==
    /\ bit_table' = [bit_table EXCEPT ![f] = bits]
    /\ inserted' = [inserted EXCEPT ![f] = keys]
    /\ UNCHANGED inserted_element_count

Intersect(f, g) == Combine(f, bit_table[f] \cap bit_table[g], inserted[f] \cap inserted[g])
Unite(f, g) == Combine(f, bit_table[f] \cup bit_table[g], inserted[f] \cup inserted[g])

SymmetricDifference(S, T) == (S \ T) \cup (T \ S)

(* operator^=: the keys that one of them had and the other had not.  A bit *)
(* of both is cleared, also where such a key needs it.                     *)
Difference(f, g) ==
    LET keys == SymmetricDifference(inserted[f], inserted[g])
    IN /\ \/ AnyDifference
          \/ \A k \in keys : compute_indices(k) \cap bit_table[f] \cap bit_table[g] = {}
       /\ Combine(f, SymmetricDifference(bit_table[f], bit_table[g]), keys)

BloomFilter_Next ==
    \/ \E f \in Filters, key \in Keys : BloomFilter_insert(f, key)
    \/ \E f \in Filters : BloomFilter_clear(f)
    \/ \E f \in Filters : Intersect(f, 3 - f) \/ Unite(f, 3 - f) \/ Difference(f, 3 - f)

-----------------------------------------------------------------------------
(* A key that a filter took in, or that it should have after filters were  *)
(* combined, is found.                                                     *)
BloomFilter_NeverMisses == \A f \in Filters : \A key \in inserted[f] : BloomFilter_containsKey(f, key)

-----------------------------------------------------------------------------
(* filter::CuckooFilter: fingerprints in two candidate buckets each, which *)
(* displace each other when both are full.  A fingerprint's other bucket   *)
(* is the exclusive or of the one it is in with a hash of the fingerprint. *)

CuckooFilter_vars == <<buckets, displacements, element_count, contents>>

Buckets == 0 .. num_buckets - 1

has_slot(b, i) == Len(b[i]) < ENTRIES_PER_BUCKET
add(b, i, fp) == [b EXCEPT ![i] = Append(@, fp)]
compute_bucket2(i, fp) == i ^^ (hash_fingerprint[fp] % num_buckets)

(* The loop of displacements.  The counter of a bucket picks the victim;   *)
(* it counts on, and only matters modulo the size of a full bucket.        *)
LosesTheVictim(b, picks, at, fp, trail) ==
    [ok |-> TRUE, buckets |-> [b EXCEPT ![at][1] = fp], counters |-> picks, trail |-> trail]
RECURSIVE Kick(_, _, _, _, _)
Kick(b, picks, at, fp, trail) ==
    LET victim == (picks[at] + 1) % ENTRIES_PER_BUCKET
        evicted == b[at][victim + 1]
        moved == [b EXCEPT ![at][victim + 1] = fp]
        counted == [picks EXCEPT ![at] = victim]
        alt == compute_bucket2(at, evicted)
        left == Append(trail, <<at, victim + 1, evicted>>)
    IN IF Len(trail) = MAX_KICKS THEN [ok |-> FALSE, buckets |-> b, counters |-> picks, trail |-> trail]
       ELSE IF has_slot(moved, alt)
       THEN [ok |-> TRUE, buckets |-> add(moved, alt, evicted), counters |-> counted, trail |-> left]
       ELSE Kick(moved, counted, alt, evicted, left)

(* What the trail has room for is put back, the last first. *)
Rollback(b, trail) ==
    FoldRight(LAMBDA t, acc : [acc EXCEPT ![t[1]][t[2]] = t[3]],
              SubSeq(trail, 1, IF Len(trail) < TRAIL_CAPACITY THEN Len(trail) ELSE TRAIL_CAPACITY), b)

Holds(b, i, fp) == Contains(b[i], fp)
CuckooFilter_containsKey(b, key) ==
    LET fp == fingerprint[key]
    IN Holds(b, bucket1[key], fp) \/ Holds(b, compute_bucket2(bucket1[key], fp), fp)

-----------------------------------------------------------------------------
CuckooFilter_Init ==
    /\ buckets = [i \in Buckets |-> <<>>]
    /\ displacements = [i \in Buckets |-> 0]
    /\ element_count = 0
    /\ contents = EmptyBag

Added(key, b) ==
    /\ buckets' = b
    /\ element_count' = element_count + 1
    /\ contents' = BagAdd(contents, key)

CuckooFilter_insert(key) ==
    LET fp == fingerprint[key]
        i1 == bucket1[key]
        i2 == compute_bucket2(i1, fp)
        k == Kick(buckets, displacements, i1, fp, <<>>)
    IN \/ has_slot(buckets, i1) /\ Added(key, add(buckets, i1, fp)) /\ UNCHANGED displacements
       \/ /\ ~has_slot(buckets, i1) /\ has_slot(buckets, i2)
          /\ Added(key, add(buckets, i2, fp)) /\ UNCHANGED displacements
       \/ /\ ~has_slot(buckets, i1) /\ ~has_slot(buckets, i2)
          /\ displacements' = k.counters
          /\ \/ k.ok /\ Added(key, k.buckets)
             \/ /\ ~k.ok /\ (AnyInsert \/ Rollback(k.buckets, k.trail) = buckets)
                /\ buckets' = Rollback(k.buckets, k.trail)
                /\ UNCHANGED <<element_count, contents>>

(* Of a key that is in; the last entry of the bucket takes the place. *)
remove(key) ==
    LET fp == fingerprint[key]
        i1 == bucket1[key]
        at == IF Holds(buckets, i1, fp) THEN i1 ELSE compute_bucket2(i1, fp)
        place == SelectInSeq(buckets[at], LAMBDA e : e = fp)
    IN /\ BagIn(key, contents) /\ Holds(buckets, at, fp)
       /\ buckets' = [buckets EXCEPT ![at] = Front(ReplaceAt(@, place, Last(@)))]
       /\ element_count' = element_count - 1
       /\ contents' = BagRemove(contents, key)
       /\ UNCHANGED displacements

CuckooFilter_clear ==
    /\ buckets' = [i \in Buckets |-> <<>>]
    /\ element_count' = 0
    /\ contents' = EmptyBag
    /\ UNCHANGED displacements

CuckooFilter_Next == CuckooFilter_clear \/ \E key \in Keys : CuckooFilter_insert(key) \/ remove(key)

-----------------------------------------------------------------------------
(* A key that is in is found, however the fingerprints moved and whichever *)
(* of two keys with one fingerprint was removed.                           *)
CuckooFilter_NeverMisses ==
    /\ element_count = BagCardinality(contents)
    /\ \A key \in BagToSet(contents) : CuckooFilter_containsKey(buckets, key)

-----------------------------------------------------------------------------
(* CountMinSketch, HyperLogLog and MinHash: two of each, which are fed     *)
(* with the same items, merged and cleared.  An item is its hash values.   *)

Sketches_vars == <<counters, registers, signature, count>>

Which == {1, 2}
Other(w) == 3 - w
Lesser(a, b) == IF a < b THEN a ELSE b
Greater(a, b) == IF a > b THEN a ELSE b

Rows == 0 .. Depth - 1
Places == 0 .. SignatureSize - 1
REGISTER_COUNT == 2 ^ Precision

NoCounters == [r \in Rows |-> [c \in 0 .. Width - 1 |-> 0]]
NoRegisters == [i \in 0 .. REGISTER_COUNT - 1 |-> 0]
NoSignature == [i \in Places |-> MaxHash]

Sketches_Init ==
    /\ counters = [w \in Which |-> NoCounters]
    /\ registers = [w \in Which |-> NoRegisters]
    /\ signature = [w \in Which |-> NoSignature]
    /\ count = [w \in Which |-> [x \in Items |-> 0]]

(* A counter wraps around at its width. *)
Plus(a, b) == (a + b) % 2 ^ CounterBits

AddTo(cs, x, k) ==
    [r \in Rows |-> [cs[r] EXCEPT ![Column[x][r]] = Plus(@, k)]]
estimate(cs, x) == Min({cs[r][Column[x][r]] : r \in Rows})
totalCount(cs) ==
    MapThenSumSet(LAMBDA cell : cs[cell[1]][cell[2]], Rows \X (0 .. Width - 1)) \div Depth

(* The first bits of a hash are the register, the rest counts its zeros. *)
index(x) == Hash[x] \div 2 ^ (HashBits - Precision)
Shifted(x) == (Hash[x] * REGISTER_COUNT) % 2 ^ HashBits
countl_zero(h) == Cardinality({i \in 1 .. HashBits : h < 2 ^ (HashBits - i)})
rho(x) == countl_zero(Shifted(x)) + 1
InsertRegister(rs, x) == [rs EXCEPT ![index(x)] = Greater(@, rho(x))]

InsertSignature(s, x) == [i \in Places |-> Lesser(s[i], MinHashes[x][i])]

Sketches_add(w, x, k) ==
    /\ count[w][x] + k <= MaxCount
    /\ counters' = [counters EXCEPT ![w] = AddTo(@, x, k)]
    /\ registers' = [registers EXCEPT ![w] = InsertRegister(@, x)]
    /\ signature' = [signature EXCEPT ![w] = InsertSignature(@, x)]
    /\ count' = [count EXCEPT ![w][x] = @ + k]

LaterRegisters(a, b) == b
MergeRegisters(a, b) == [i \in DOMAIN a |-> Greater(a[i], b[i])]
MergeCounters(a, b) == [r \in Rows |-> [c \in DOMAIN a[r] |-> Plus(a[r][c], b[r][c])]]
MergeSignatures(a, b) == [i \in Places |-> Lesser(a[i], b[i])]

Sketches_merge(w) ==
    /\ \A x \in Items : count[1][x] + count[2][x] <= MaxCount
    /\ counters' = [counters EXCEPT ![w] = MergeCounters(@, counters[Other(w)])]
    /\ registers' = [registers EXCEPT ![w] = MergeRegisters(@, registers[Other(w)])]
    /\ signature' = [signature EXCEPT ![w] = MergeSignatures(@, signature[Other(w)])]
    /\ count' = [count EXCEPT ![w] = [x \in Items |-> count[1][x] + count[2][x]]]

Sketches_clear(w) ==
    /\ counters' = [counters EXCEPT ![w] = NoCounters]
    /\ registers' = [registers EXCEPT ![w] = NoRegisters]
    /\ signature' = [signature EXCEPT ![w] = NoSignature]
    /\ count' = [count EXCEPT ![w] = [x \in Items |-> 0]]

Sketches_Next ==
    \E w \in Which : Sketches_merge(w) \/ Sketches_clear(w) \/ \E x \in Items, k \in Counts : Sketches_add(w, x, k)

(* The places where the signatures agree; none when both are empty. *)
Equal == {i \in Places : signature[1][i] = signature[2][i]}
jaccard == IF Equal = Places /\ signature[1][0] = MaxHash THEN 0 ELSE Cardinality(Equal)

-----------------------------------------------------------------------------
(* An estimate is never below the count.  Merged registers and signatures  *)
(* are those of the union: of the largest and the smallest over the items  *)
(* added.  Two that were given the same items are wholly alike.            *)
SketchesCover ==
    \A w \in Which : LET items == {x \in Items : count[w][x] > 0} IN
      /\ \A x \in Items : estimate(counters[w], x) >= count[w][x]
      /\ totalCount(counters[w]) = MapThenSumSet(LAMBDA x : count[w][x], Items)
      /\ \A i \in DOMAIN NoRegisters :
            registers[w][i] = Max({0} \cup {rho(x) : x \in {y \in items : index(y) = i}})
      /\ \A i \in Places : signature[w][i] = Min({MaxHash} \cup {MinHashes[x][i] : x \in items})
      /\ (items # {} /\ items = {x \in Items : count[Other(w)][x] > 0}) => jaccard = SignatureSize

-----------------------------------------------------------------------------
(* probabilistic::TDigest.  A centroid is the sum and the number of what   *)
(* it stands for, so that its mean is exact.                               *)

TDigest_vars == <<centroids, buffer, totalWeight, seen>>


(* Fractions with a positive denominator. *)
Leq(a, b) == a[1] * b[2] <= b[1] * a[2]
mean(c) == <<c.sum, c.count>>

TDigest_Init ==
    /\ centroids = [w \in Which |-> <<>>]
    /\ buffer = [w \in Which |-> <<>>]
    /\ totalWeight = [w \in Which |-> 0]
    /\ seen = [w \in Which |-> [v \in Values |-> 0]]

Merged(a, b) == [sum |-> a.sum + b.sum, count |-> a.count + b.count]

(* The pass over the sorted centroids joins one to the last where `joined' *)
(* says so.  In the code a scale function of the quantiles decides; what   *)
(* is shown does not depend on its choices.                                *)
Pass(sorted, joined) ==
    FoldLeft(LAMBDA merged, i :
                IF i \in joined
                THEN Append(Front(merged), Merged(Last(merged), sorted[i]))
                ELSE Append(merged, sorted[i]),
             <<>>, [i \in DOMAIN sorted |-> i])
Sorted(cs) == SortSeq(cs, LAMBDA a, b : ~Leq(mean(b), mean(a)))
Unsorted(cs, joined) == Pass(cs, joined)
Compressed(cs, joined) == Pass(Sorted(cs), joined)

(* All of the buffer goes into the centroids. *)
compress(w, cs, waiting) ==
    \E joined \in SUBSET (2 .. Len(cs \o waiting)) :
       /\ centroids' = [centroids EXCEPT ![w] = Compressed(cs \o waiting, joined)]
       /\ buffer' = [buffer EXCEPT ![w] = <<>>]

Buffered(w, waiting) ==
    IF Len(waiting) > Compression * 2 THEN compress(w, centroids[w], waiting)
    ELSE buffer' = [buffer EXCEPT ![w] = waiting] /\ UNCHANGED centroids

TDigest_add(w, value, weight) ==
    /\ totalWeight[1] + totalWeight[2] + weight <= MaxWeight
    /\ totalWeight' = [totalWeight EXCEPT ![w] = @ + weight]
    /\ Buffered(w, Append(buffer[w], [sum |-> value * weight, count |-> weight]))
    /\ seen' = [seen EXCEPT ![w][value] = @ + weight]

TDigest_merge(w) ==
    /\ totalWeight[1] + totalWeight[2] <= MaxWeight
    /\ totalWeight' = [totalWeight EXCEPT ![w] = totalWeight[1] + totalWeight[2]]
    /\ Buffered(w, buffer[w] \o centroids[Other(w)] \o buffer[Other(w)])
    /\ seen' = [seen EXCEPT ![w] = [v \in Values |-> seen[1][v] + seen[2][v]]]

TDigest_clear(w) ==
    /\ centroids' = [centroids EXCEPT ![w] = <<>>]
    /\ buffer' = [buffer EXCEPT ![w] = <<>>]
    /\ totalWeight' = [totalWeight EXCEPT ![w] = 0]
    /\ seen' = [seen EXCEPT ![w] = [v \in Values |-> 0]]

(* serialize compresses first; what it writes, deserialize reads.          *)
serialize(w) ==
    /\ buffer[w] # <<>> /\ compress(w, centroids[w], buffer[w])
    /\ UNCHANGED <<totalWeight, seen>>

TDigest_Next ==
    \E w \in Which :
       \/ TDigest_merge(w) \/ TDigest_clear(w) \/ serialize(w)
       \/ \E v \in Values, k \in Weights : TDigest_add(w, v, k)

-----------------------------------------------------------------------------
(* The value at quantile a/4: between the means of the centroid that holds *)
(* the target and of the one before it.                                    *)
RECURSIVE Locate(_, _, _, _)
Locate(cs, i, before, target) ==
    IF i > Len(cs) THEN mean(Last(cs))
    ELSE IF 4 * (before + cs[i].count) < target THEN Locate(cs, i + 1, before + cs[i].count, target)
    ELSE IF i = 1 THEN mean(cs[1])
    ELSE LET f == <<target - 4 * before, 4 * cs[i].count>>
             low == cs[i - 1] high == cs[i]
         IN <<low.sum * high.count * f[2] + f[1] * (high.sum * low.count - low.sum * high.count),
              low.count * high.count * f[2]>>
quantile(w, a) ==
    IF centroids[w] = <<>> THEN <<0, 1>>
    ELSE IF Len(centroids[w]) = 1 THEN mean(centroids[w][1])
    ELSE Locate(centroids[w], 1, 0, a * totalWeight[w])

Total(cs) == FoldLeft(Merged, [sum |-> 0, count |-> 0], cs)
Seen(w) == {v \in Values : seen[w][v] > 0}
SeenTotal(w) == FoldLeft(Merged, [sum |-> 0, count |-> 0],
                         SetToSeq({[sum |-> v * seen[w][v], count |-> seen[w][v]] : v \in Values}))

(* Whatever is joined, buffered, merged and written out: nothing of the    *)
(* weight and of the sum of what was added is lost, the centroids are in   *)
(* order, and quantiles rise and stay within what was seen; while all of   *)
(* it is still in the buffer, which quantile does not look at, with        *)
(* AnyRead only.                                                           *)
DigestsSummarize ==
    \A w \in Which : LET cs == centroids[w] IN
      /\ Total(cs \o buffer[w]) = SeenTotal(w) /\ totalWeight[w] = SeenTotal(w).count
      /\ \A i \in 1 .. Len(cs) - 1 : Leq(mean(cs[i]), mean(cs[i + 1]))
      /\ cs # <<>> \/ (AnyRead /\ Seen(w) # {}) => \A a \in 0 .. 4 :
            /\ \E low, high \in Seen(w) :
                  Leq(<<low, 1>>, quantile(w, a)) /\ Leq(quantile(w, a), <<high, 1>>)
            /\ a < 4 => Leq(quantile(w, a), quantile(w, a + 1))
=============================================================================
