------------------------------- MODULE StringIndexes ------------------------
(***************************************************************************)
(* The indexes of strings.                                                 *)
(***************************************************************************)
EXTENDS Integers, Sequences, FiniteSets, TLC, SequencesExt, Bags, BagsExt

CONSTANTS
    Keys,         \* sequences of letters, the empty one too
    Values,
    Null,
    Alphabet,     \* 1 .. ALPHABET_SIZE
    Patterns,     \* non-empty sequences of letters
    MaxPatterns,
    TextLength    \* the texts that are matched are this long

VARIABLES
    root,
    size,
    map,
    goto,      \* by state, then by letter; states count from 0
    output,    \* the patterns that end in a state
    patterns,
    fail,
    trans,     \* what build computes
    built

-----------------------------------------------------------------------------
(* tree::multiway::Trie: keys as paths of letters.  A node has the letters *)
(* of its children, a value, and whether a key ends there; it keeps the    *)
(* value of a key that was erased.                                         *)

Trie_vars == <<root, size, map>>

Node == [children |-> <<>>, value |-> Null, isEnd |-> FALSE]

Child(node, c) == IF c \in DOMAIN node.children THEN node.children[c] ELSE Node

RECURSIVE insertAt(_, _, _)
insertAt(node, key, value) ==
    IF key = <<>> THEN [node EXCEPT !.isEnd = TRUE, !.value = value]
    ELSE [node EXCEPT !.children = key[1] :> insertAt(Child(node, key[1]), Tail(key), value) @@ @]

(* The node of a key, or Null. *)
RECURSIVE At(_, _)
At(node, key) ==
    IF key = <<>> THEN node
    ELSE IF key[1] \in DOMAIN node.children THEN At(node.children[key[1]], Tail(key))
    ELSE Null

find(key) ==
    LET node == At(root, key)
    IN IF node # Null /\ node.isEnd THEN node.value ELSE Null

(* The node without the key, and whether its parent should drop it. *)
PrunesTooMuch(node, key) == [node |-> [node EXCEPT !.isEnd = FALSE], prune |-> TRUE]
RECURSIVE eraseHelper(_, _)
eraseHelper(node, key) ==
    IF key = <<>> THEN [node |-> [node EXCEPT !.isEnd = FALSE], prune |-> node.children = <<>>]
    ELSE LET c == key[1]
             e == eraseHelper(node.children[c], Tail(key))
             others == [d \in DOMAIN node.children \ {c} |-> node.children[d]]
         IN IF e.prune
            THEN [node |-> [node EXCEPT !.children = others],
                  prune |-> ~node.isEnd /\ DOMAIN others = {}]
            ELSE [node |-> [node EXCEPT !.children[c] = e.node], prune |-> FALSE]

(* The order of the children is that of a hash map, so keys come as a set. *)
RECURSIVE collectKeys(_, _)
collectKeys(node, prefix) ==
    (IF node.isEnd THEN {prefix} ELSE {})
    \cup UNION {collectKeys(node.children[c], Append(prefix, c)) : c \in DOMAIN node.children}

startsWith(prefix) ==
    LET node == At(root, prefix) IN IF node = Null THEN {} ELSE collectKeys(node, prefix)

-----------------------------------------------------------------------------
Trie_Init == root = Node /\ size = 0 /\ map = <<>>

Trie_insert(key, value) ==
    /\ root' = insertAt(root, key, value)
    /\ size' = IF find(key) = Null THEN size + 1 ELSE size
    /\ map' = key :> value @@ map

erase(key) ==
    /\ find(key) # Null
    /\ root' = eraseHelper(root, key).node
    /\ size' = size - 1
    /\ map' = [k \in DOMAIN map \ {key} |-> map[k]]

clear == root' = Node /\ size' = 0 /\ map' = <<>>

Trie_Next == clear \/ \E key \in Keys : erase(key) \/ \E value \in Values : Trie_insert(key, value)

-----------------------------------------------------------------------------
(* No node but the root is left without a key at or below it. *)
RECURSIVE IsPruned(_)
IsPruned(node) ==
    \A c \in DOMAIN node.children :
        /\ node.children[c].isEnd \/ node.children[c].children # <<>>
        /\ IsPruned(node.children[c])

(* Erasing a key keeps the keys that are its prefixes or go on from it, and *)
(* leaves no dead branch behind.                                            *)
KeysAreFound ==
    /\ size = Cardinality(DOMAIN map)
    /\ IsPruned(root)
    /\ \A key \in Keys :
          /\ find(key) = IF key \in DOMAIN map THEN map[key] ELSE Null
          /\ startsWith(key) = {k \in DOMAIN map : Len(k) >= Len(key) /\ SubSeq(k, 1, Len(key)) = key}

-----------------------------------------------------------------------------
(* string::AhoCorasick: a trie of patterns, turned by build into a table   *)
(* of transitions that matches all the patterns in one pass over a text.   *)

AhoCorasick_vars == <<goto, output, patterns, fail, trans, built>>

NO_STATE == -1

(* The trie with the rest of a pattern below a state, and where it ends. *)
RECURSIVE Extend(_, _, _)
Extend(trie, state, rest) ==
    IF rest = <<>> THEN [trie |-> trie, at |-> state]
    ELSE LET c == rest[1]
             new == Cardinality(DOMAIN trie)
         IN IF trie[state][c] # NO_STATE THEN Extend(trie, trie[state][c], Tail(rest))
            ELSE Extend([s \in 0 .. new |->
                            IF s = new THEN [d \in Alphabet |-> NO_STATE]
                            ELSE IF s = state THEN [trie[s] EXCEPT ![c] = new]
                            ELSE trie[s]], new, Tail(rest))

(* The longest proper suffix that has a transition on c. *)
RECURSIVE FailOn(_, _, _, _)
FailOn(g, f, state, c) ==
    IF state # 0 /\ g[state][c] = NO_STATE THEN FailOn(g, f, f[state], c) ELSE g[state][c]

mergeOutput(dst, src) ==
    dst \o SelectSeq(src, LAMBDA p : ~Contains(dst, p))

Children(g, state) == SelectSeq([i \in 1 .. Cardinality(Alphabet) |-> g[state][i]],
                                LAMBDA s : s \notin {NO_STATE, 0})

(* The search in breadth, with the fail links, outputs and order so far. *)
RECURSIVE Breadth(_, _, _, _, _)
Breadth(g, queue, f, out, order) ==
    IF queue = <<>> THEN [fail |-> f, output |-> out, order |-> order]
    ELSE LET u == Head(queue)
             kids == {c \in Alphabet : g[u][c] # NO_STATE}
             to == [v \in {g[u][c] : c \in kids} |->
                       FailOn(g, f, f[u], CHOOSE c \in kids : g[u][c] = v)]
         IN Breadth(g, Tail(queue) \o Children(g, u), to @@ f,
                    [v \in DOMAIN to |-> mergeOutput(out[v], out[to[v]])] @@ out,
                    Append(order, u))

(* The rows completed in the order of the search. *)
Completed(g, f, order) ==
    FoldLeft(LAMBDA t, s : [t EXCEPT ![s] = [c \in Alphabet |->
                               IF g[s][c] # NO_STATE THEN g[s][c] ELSE t[f[s]][c]]],
             g, order)

-----------------------------------------------------------------------------
AhoCorasick_Init ==
    /\ goto = 0 :> [c \in Alphabet |-> NO_STATE]
    /\ output = 0 :> <<>>
    /\ patterns = <<>> /\ fail = 0 :> 0 /\ trans = <<>> /\ built = FALSE

AhoCorasick_insert(pattern) ==
    LET e == Extend(goto, 0, pattern)
        old == [s \in DOMAIN e.trie |-> IF s \in DOMAIN output THEN output[s] ELSE <<>>]
    IN /\ ~built /\ Len(patterns) < MaxPatterns
       /\ goto' = e.trie
       /\ output' = [old EXCEPT ![e.at] = Append(@, Len(patterns) + 1)]
       /\ patterns' = Append(patterns, pattern)
       /\ UNCHANGED <<fail, trans, built>>

build ==
    LET g == [goto EXCEPT ![0] = [c \in Alphabet |-> IF @[c] = NO_STATE THEN 0 ELSE @[c]]]
        first == Children(g, 0)
        b == Breadth(g, first, [s \in DOMAIN g |-> 0], output, <<>>)
    IN /\ ~built
       /\ fail' = b.fail
       /\ output' = b.output
       /\ trans' = Completed(g, b.fail, b.order)
       /\ built' = TRUE
       /\ goto' = <<>>
       /\ UNCHANGED patterns

(* A second build returns at once. *)
buildAgain == built /\ UNCHANGED AhoCorasick_vars

AhoCorasick_Next == build \/ buildAgain \/ \E p \in Patterns : AhoCorasick_insert(p)

-----------------------------------------------------------------------------
(* The states after each letter of the text. *)
RECURSIVE Run(_, _)
Run(text, i) == IF i = 0 THEN 0 ELSE trans[Run(text, i - 1)][text[i]]

(* Where each match starts, and of which pattern. *)
match(text) ==
    FlattenSeq([i \in 1 .. Len(text) |->
        LET found == output[Run(text, i)]
        IN [j \in DOMAIN found |-> <<i - Len(patterns[found[j]]) + 1, found[j]>>]])

(* One pass reports every occurrence of every pattern once: overlapping    *)
(* ones, patterns that are parts of others, and equal patterns.            *)
MatchesAll ==
    built => \A text \in [1 .. TextLength -> Alphabet] :
        LET found == match(text)
            all == {<<i, p>> \in (1 .. Len(text)) \X DOMAIN patterns :
                      i + Len(patterns[p]) - 1 <= Len(text) /\ SubSeq(text, i, i + Len(patterns[p]) - 1) = patterns[p]}
        IN ToSet(found) = all /\ Len(found) = Cardinality(all)
=============================================================================
