--------------------------------- MODULE UnionFind --------------------------
(***************************************************************************)
(* union_find::UnionSet and UnionSetWithRollback.                          *)
(***************************************************************************)
EXTENDS Integers, FiniteSets, Sequences

CONSTANTS
    Elements,
    Absent,
    n,             \* elements
    Unchanged      \* std::nullopt in a record

VARIABLES
    parent,     \* parent_: element -> parent, or Absent
    rank,       \* rank_
    classes,    \* history: the sets the calls so far should have made
    history,    \* history_
    set_count,  \* set_count_
    seen        \* history: for every length of history_, the sets there should be when
                \* it is rolled back to, and whether all its unions are whole

-----------------------------------------------------------------------------
(* cppforge::data_structure::UnionSet: disjoint sets of elements that are  *)
(* registered when they are first named, with union by rank and path       *)
(* compression, which find does although it is const.                      *)

UnionSet_vars == <<parent, rank, classes>>

UnionSet_TypeOK ==
    /\ parent \in [Elements -> Elements \cup {Absent}]
    /\ rank \in [Elements -> Nat]
    /\ classes \subseteq SUBSET Elements

Registered == {x \in Elements : parent[x] # Absent}
ensureRegistered(p, x) == IF p[x] = Absent THEN [p EXCEPT ![x] = x] ELSE p

RECURSIVE root(_, _)
root(p, x) == IF p[x] = x THEN x ELSE root(p, p[x])

RECURSIVE Path(_, _)
Path(p, x) == IF p[x] = x THEN {x} ELSE {x} \cup Path(p, p[x])

(* find makes the root the parent of everything on the way to it. *)
compressed_one_late(p, x) ==
    [y \in Elements |-> IF y \in Path(p, x) THEN p[x] ELSE p[y]]

compressed(p, x) ==
    [y \in Elements |-> IF y \in Path(p, x) THEN root(p, x) ELSE p[y]]
after_find(p, x) == compressed(ensureRegistered(p, x), x)

UnionSet_ClassOf(C, x) == IF \E c \in C : x \in c THEN CHOOSE c \in C : x \in c ELSE {x}
Named(C, x) == C \cup {UnionSet_ClassOf(C, x)}

UnionSet_find(x) ==
    /\ parent' = after_find(parent, x)
    /\ classes' = Named(classes, x)
    /\ UNCHANGED rank

connected(x, y) ==
    /\ parent' = after_find(after_find(parent, x), y)
    /\ classes' = Named(Named(classes, x), y)
    /\ UNCHANGED rank

UnionSet_unionSets(x, y) ==
    LET p == after_find(after_find(parent, x), y)
        rx == root(p, x)
        ry == root(p, y)
        C == Named(Named(classes, x), y)
    IN \/ /\ rx = ry
          /\ connected(x, y)
       \/ /\ rx # ry
          /\ parent' = IF rank[rx] < rank[ry] THEN [p EXCEPT ![rx] = ry]
                       ELSE [p EXCEPT ![ry] = rx]
          /\ rank' = IF rank[rx] = rank[ry] THEN [rank EXCEPT ![rx] = @ + 1]
                     ELSE rank
          /\ classes' = (C \ {UnionSet_ClassOf(C, x), UnionSet_ClassOf(C, y)})
                            \cup {UnionSet_ClassOf(C, x) \cup UnionSet_ClassOf(C, y)}

UnionSet_Init ==
    /\ parent = [x \in Elements |-> Absent]
    /\ rank = [x \in Elements |-> 0]
    /\ classes = {}

UnionSet_Next ==
    \/ \E x \in Elements : UnionSet_find(x)
    \/ \E x, y \in Elements : connected(x, y) \/ UnionSet_unionSets(x, y)


-----------------------------------------------------------------------------
(* Two elements have the same root exactly when unions joined them, whatever *)
(* finds compressed the paths in between.                                    *)
RootsAreThePartition ==
    \A x, y \in Registered :
        root(parent, x) = root(parent, y) <=> \E c \in classes : {x, y} \subseteq c

(* A set of rank r has at least 2^r elements and no path longer than r: the *)
(* promised bound on find, which path compression must not spoil.           *)
UnionSet_PathsAreLogarithmic ==
    \A x \in Registered :
        LET r == root(parent, x)
        IN /\ 2 ^ rank[r] <= Cardinality(UnionSet_ClassOf(classes, x))
           /\ Cardinality(Path(parent, x)) - 1 <= rank[r]

-----------------------------------------------------------------------------
(* cppforge::data_structure::union_find::UnionSetWithRollback: disjoint    *)
(* sets with union by rank, without path compression, and a history of     *)
(* changes that rollback undoes in reverse.  A union of equal ranks writes *)
(* two records, and only the one without a rank counts as a union.         *)
(*                                                                         *)
(* snapshot returns the length of the history, and rollback takes any      *)
(* length up to it: one that snapshot returned, also before other          *)
(* rollbacks, or one between the two records of a union.                   *)

UnionSetWithRollback_vars == <<parent, rank, history, set_count, seen>>

Indices == 0 .. n - 1
Record == [node : Indices, old_parent : Indices, old_rank : Nat \cup {Unchanged}]

UnionSetWithRollback_TypeOK ==
    /\ parent \in [Indices -> Indices]
    /\ rank \in [Indices -> Nat]
    /\ history \in Seq(Record)
    /\ set_count \in Nat
    /\ seen \in Seq([classes : SUBSET SUBSET Indices, whole : BOOLEAN])
    /\ Len(seen) = Len(history) + 1

RECURSIVE UnionSetWithRollback_find(_, _)
UnionSetWithRollback_find(p, x) == IF p[x] = x THEN x ELSE UnionSetWithRollback_find(p, p[x])

Sets == seen[Len(seen)].classes
Whole == seen[Len(seen)].whole
UnionSetWithRollback_ClassOf(x) == CHOOSE c \in Sets : x \in c
Joined(x, y) ==
    LET cx == UnionSetWithRollback_ClassOf(x)
        cy == UnionSetWithRollback_ClassOf(y)
    IN (Sets \ {cx, cy}) \cup {cx \cup cy}
At(sets, whole) == [classes |-> sets, whole |-> whole]
ParentRecord(x) == [node |-> x, old_parent |-> parent[x], old_rank |-> Unchanged]
RankRecord(x) == [node |-> x, old_parent |-> parent[x], old_rank |-> rank[x]]

-----------------------------------------------------------------------------
Attach(child, top) ==
    /\ parent' = [parent EXCEPT ![child] = top]
    /\ set_count' = set_count - 1

UnionSetWithRollback_unionSets(x, y) ==
    LET rx == UnionSetWithRollback_find(parent, x)
        ry == UnionSetWithRollback_find(parent, y)
        after == At(Joined(x, y), Whole)
    IN /\ rx # ry
       /\ \/ /\ rank[rx] < rank[ry]
             /\ history' = Append(history, ParentRecord(rx))
             /\ seen' = Append(seen, after)
             /\ Attach(rx, ry)
             /\ UNCHANGED rank
          \/ /\ rank[rx] > rank[ry]
             /\ history' = Append(history, ParentRecord(ry))
             /\ seen' = Append(seen, after)
             /\ Attach(ry, rx)
             /\ UNCHANGED rank
          \/ /\ rank[rx] = rank[ry]
             /\ history' = history \o <<ParentRecord(ry), RankRecord(rx)>>
             /\ seen' = seen \o <<At(Joined(x, y), FALSE), after>>
             /\ Attach(ry, rx)
             /\ rank' = [rank EXCEPT ![rx] = @ + 1]

(* The last record is undone, and then the one before it, down to id. *)
CountsEvery(rec) == TRUE
CountsUnion(rec) == rec.old_rank = Unchanged

RECURSIVE Undone(_, _)
Undone(s, id) ==
    LET rec == s.history[Len(s.history)]
    IN IF Len(s.history) <= id THEN s
       ELSE Undone([parent |-> [s.parent EXCEPT ![rec.node] = rec.old_parent],
                    rank |-> IF rec.old_rank = Unchanged THEN s.rank
                             ELSE [s.rank EXCEPT ![rec.node] = rec.old_rank],
                    history |-> SubSeq(s.history, 1, Len(s.history) - 1),
                    count |-> IF CountsUnion(rec) THEN s.count + 1 ELSE s.count], id)

rollback(id) ==
    LET s == Undone([parent |-> parent, rank |-> rank, history |-> history,
                     count |-> set_count], id)
    IN /\ parent' = s.parent
       /\ rank' = s.rank
       /\ history' = s.history
       /\ set_count' = s.count
       /\ seen' = SubSeq(seen, 1, id + 1)

commit ==
    /\ history' = <<>>
    /\ seen' = <<At(Sets, Whole)>>
    /\ UNCHANGED <<parent, rank, set_count>>

Singletons == {{x} : x \in Indices}

clear ==
    /\ parent' = [x \in Indices |-> x]
    /\ rank' = [x \in Indices |-> 0]
    /\ set_count' = n
    /\ history' = <<>>
    /\ seen' = <<At(Singletons, TRUE)>>

UnionSetWithRollback_Init ==
    /\ parent = [x \in Indices |-> x]
    /\ rank = [x \in Indices |-> 0]
    /\ set_count = n
    /\ history = <<>>
    /\ seen = <<At(Singletons, TRUE)>>

UnionSetWithRollback_Next ==
    \/ \E x, y \in Indices : UnionSetWithRollback_unionSets(x, y)
    \/ commit \/ clear
    \/ \E id \in 0 .. Len(history) : rollback(id)


-----------------------------------------------------------------------------
(* connected and setCount describe the sets made by the unions that were    *)
(* not rolled back: a rollback restores the sets there were when the        *)
(* history was that long, wherever it stops.                                *)
RollbackRestoresTheSets ==
    /\ \A x, y \in Indices :
          UnionSetWithRollback_find(parent, x) = UnionSetWithRollback_find(parent, y)
              <=> \E c \in Sets : {x, y} \subseteq c
    /\ set_count = Cardinality(Sets)

RECURSIVE Depth(_)
Depth(x) == IF parent[x] = x THEN 0 ELSE 1 + Depth(parent[x])

(* "upper bound on tree height at root i" (UnionSetWithRollback.hpp).       *)
RanksBoundHeights ==
    \A x \in Indices : Depth(x) <= rank[UnionSetWithRollback_find(parent, x)]

(* A set of rank r has at least 2^r elements and no path longer than r,     *)
(* also after rollbacks: without compression this is all that keeps find    *)
(* logarithmic.  A rollback to between the two records of a union takes the *)
(* rank back and not the path: the bound on paths holds without such a one. *)
UnionSetWithRollback_PathsAreLogarithmic ==
    /\ \A x \in Indices : 2 ^ rank[UnionSetWithRollback_find(parent, x)]
                            <= Cardinality(UnionSetWithRollback_ClassOf(x))
    /\ Whole => RanksBoundHeights
=============================================================================
