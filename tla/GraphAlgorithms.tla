------------------------------ MODULE GraphAlgorithms -----------------------
(***************************************************************************)
(* graph::Graph and graph::algorithm.                                      *)
(***************************************************************************)
EXTENDS Integers, Sequences, SequencesExt, FiniteSets

CONSTANTS
    n,          \* the number of nodes
    Edges,      \* the edges that may be added: <<from, to, weight>>
    MaxEdges,   \* bound on the edges added
    INT32_MAX   \* larger than any distance

VARIABLES
    adj_list,
    edge_count

-----------------------------------------------------------------------------
(* graph::Graph: one list of edges per node, and what paths, reachability  *)
(* and connection mean in it.                                              *)

vars == <<adj_list, edge_count>>

Nodes == 0 .. n - 1

Empty == [u \in Nodes |-> <<>>]
Init == adj_list = Empty /\ edge_count = 0
NewGraph == adj_list' = Empty /\ edge_count' = 0

HasEdge(u, v) == \E i \in DOMAIN adj_list[u] : adj_list[u][i].to = v

addEdge(from, to, weight) ==
    /\ edge_count < MaxEdges
    /\ adj_list' = [adj_list EXCEPT ![from] = Append(@, [to |-> to, weight |-> weight])]
    /\ edge_count' = edge_count + 1

addUndirectedEdge(u, v, weight) ==
    /\ edge_count < MaxEdges
    /\ adj_list' = [adj_list EXCEPT ![u] = Append(@, [to |-> v, weight |-> weight]),
                                    ![v] = Append(@, [to |-> u, weight |-> weight])]
    /\ edge_count' = edge_count + 2

(* The edges there are, as triples. *)
EdgeSet == UNION {{<<u, adj_list[u][i].to, adj_list[u][i].weight>> :
                       i \in DOMAIN adj_list[u]} : u \in Nodes}

(* Callers that add no edge twice. *)
NewEdges == {e \in Edges : ~HasEdge(e[1], e[2])}

(* What a path along a set of edges can reach: the smallest set that has   *)
(* the start and that no edge leaves.                                      *)
ReachAlong(es, s) ==
    {v \in Nodes : \A S \in SUBSET Nodes :
        (s \in S /\ \A e \in es : e[1] \in S => e[2] \in S) => v \in S}

Reaches == [s \in Nodes |-> ReachAlong(EdgeSet, s)]

(* Paths and their weights. *)
Steps(path) == {<<path[i], path[i + 1]>> : i \in 1 .. Len(path) - 1}
IsPath(path) == \A step \in Steps(path) : HasEdge(step[1], step[2])
Weight(u, v) == (CHOOSE e \in EdgeSet : e[1] = u /\ e[2] = v)[3]
RECURSIVE PathWeight(_)
PathWeight(path) ==
    IF Len(path) < 2 THEN 0 ELSE Weight(path[1], path[2]) + PathWeight(Tail(path))

(* The closed walks that visit no node twice. *)
Circuits == {p \in UNION {[1 .. k -> Nodes] : k \in 1 .. n} :
                /\ \A i, j \in DOMAIN p : p[i] = p[j] => i = j
                /\ IsPath(Append(p, p[1]))}

-----------------------------------------------------------------------------
(* graph::algorithm on directed graphs: traversals, topological orders,    *)
(* cycles, strong components and shortest paths.                           *)

GraphPaths_Next == NewGraph \/ \E e \in NewEdges : addEdge(e[1], e[2], e[3])

Lesser(a, b) == IF a < b THEN a ELSE b
Over(Op(_, _), base, u) == FoldLeft(Op, base, adj_list[u])
Everywhere(x) == CHOOSE f \in [Nodes -> {x}] : TRUE
AscendingNodes == [i \in 1 .. n |-> i - 1]

-----------------------------------------------------------------------------
(* BFS and DFS: a node is marked when it is put in line, at the end.  The  *)
(* one takes the first in line, the other the last.                        *)
Discover(r, u) ==
    Over(LAMBDA t, e :
            IF t.distance[e.to] # INT32_MAX THEN t
            ELSE [t EXCEPT !.distance[e.to] = t.distance[u] + 1, !.parent[e.to] = u,
                           !.line = Append(@, e.to)],
         [r EXCEPT !.order = Append(@, u)], u)

RECURSIVE Breadth(_), dfsIterative(_)
Breadth(r) ==
    IF r.line = <<>> THEN r
    ELSE Breadth(Discover([r EXCEPT !.line = Tail(@)], Head(r.line)))
dfsIterative(r) ==
    IF r.line = <<>> THEN r
    ELSE dfsIterative(Discover([r EXCEPT !.line = Front(@)], Last(r.line)))

Unvisited ==
    [distance |-> Everywhere(INT32_MAX), parent |-> Everywhere(-1), line |-> <<>>, order |-> <<>>]
From(r, start) == [r EXCEPT !.distance[start] = 0, !.line = <<start>>]

bfs(start) == Breadth(From(Unvisited, start))
dfs(start) == dfsIterative(From(Unvisited, start))
traverseAll ==
    FoldLeft(LAMBDA r, u : IF r.distance[u] = INT32_MAX THEN dfsIterative(From(r, u)) ELSE r,
             Unvisited, AscendingNodes)

RECURSIVE Ancestors(_, _)
Ancestors(parent, v) == IF v = -1 THEN <<>> ELSE Append(Ancestors(parent, parent[v]), v)
reconstructPath(distance, parent, to) ==
    IF distance[to] = INT32_MAX THEN <<>> ELSE Ancestors(parent, to)

-----------------------------------------------------------------------------
(* TopologicalSort::sort and CycleDetection::detectDirected go down the    *)
(* same way: state 1 is a node on the way, and an edge to one is a cycle.  *)
RECURSIVE dfsTopo(_, _), Climb(_, _, _)
Climb(parent, x, v) == IF x = v THEN <<v>> ELSE Append(Climb(parent, parent[x], v), x)
dfsTopo(u, s) ==
    LET Edge(t, e) ==
            IF t.cycle # <<>> \/ t.state[e.to] = 2 THEN t
            ELSE IF t.state[e.to] = 1
                 THEN [t EXCEPT !.cycle = Append(Climb(t.parent, u, e.to), e.to), !.order = <<>>]
            ELSE dfsTopo(e.to, [t EXCEPT !.parent[e.to] = u])
        Finish(t) == IF t.cycle # <<>> THEN t
                     ELSE [t EXCEPT !.state[u] = 2, !.order = <<u>> \o @]
    IN Finish(Over(Edge, [s EXCEPT !.state[u] = 1], u))

sort ==
    FoldLeft(LAMBDA t, u : IF t.cycle = <<>> /\ t.state[u] = 0 THEN dfsTopo(u, t) ELSE t,
             [state |-> Everywhere(0), parent |-> Everywhere(-1), cycle |-> <<>>, order |-> <<>>],
             AscendingNodes)

RECURSIVE Kahn(_)
Kahn(t) ==
    IF t.queue = <<>> THEN IF Len(t.order) = n THEN t.order ELSE <<>>
    ELSE Kahn(Over(LAMBDA s, e :
                      [s EXCEPT !.in_degree[e.to] = @ - 1,
                                !.queue = IF s.in_degree[e.to] = 1 THEN Append(@, e.to) ELSE @],
                   [t EXCEPT !.queue = Tail(@), !.order = Append(@, Head(t.queue))],
                   Head(t.queue)))
in_degree == [v \in Nodes |->
    Cardinality({x \in Nodes \X (1 .. edge_count) :
                    x[2] \in DOMAIN adj_list[x[1]] /\ adj_list[x[1]][x[2]].to = v})]
sortKahn ==
    Kahn([in_degree |-> in_degree, order |-> <<>>,
          queue |-> SelectSeq(AscendingNodes, LAMBDA v : in_degree[v] = 0)])

-----------------------------------------------------------------------------
(* TarjanSCC *)
GraphPaths_Lower(t, u, to) == [t EXCEPT !.lowlink[u] = Lesser(@, to)]

RECURSIVE tarjanDFS(_, _)
(* The nodes above u on the stack, and u, become a component. *)
PopComponent(t, u) ==
    LET members == {w \in Nodes : \E i \in DOMAIN t.stack :
                        t.stack[i] = w /\ \A j \in 1 .. i - 1 : t.stack[j] # u}
    IN IF t.lowlink[u] # t.index[u] THEN t
       ELSE [t EXCEPT !.stack = SelectSeq(@, LAMBDA w : w \notin members),
                      !.component_id = [w \in Nodes |-> IF w \in members THEN t.count ELSE @[w]],
                      !.count = @ + 1]
AnyBackEdge(t, u, v) == GraphPaths_Lower(t, u, t.index[v])
BackEdge(t, u, v) == IF Contains(t.stack, v) THEN GraphPaths_Lower(t, u, t.index[v]) ELSE t
TreeEdge(t, u, v) == GraphPaths_Lower(t, u, t.lowlink[v])
tarjanDFS(u, s) ==
    PopComponent(
        Over(LAMBDA t, e : IF t.index[e.to] = -1 THEN TreeEdge(tarjanDFS(e.to, t), u, e.to)
                           ELSE BackEdge(t, u, e.to),
             [s EXCEPT !.index[u] = s.current, !.lowlink[u] = s.current, !.current = @ + 1,
                       !.stack = <<u>> \o @],
             u),
        u)

tarjan ==
    FoldLeft(LAMBDA t, u : IF t.index[u] = -1 THEN tarjanDFS(u, t) ELSE t,
             [index |-> Everywhere(-1), lowlink |-> Everywhere(-1), current |-> 0,
              stack |-> <<>>, component_id |-> Everywhere(-1), count |-> 0],
             AscendingNodes).component_id

-----------------------------------------------------------------------------
(* Shortest paths.  BellmanFord goes over all edges, at most n - 1 times   *)
(* and no longer than something changes.                                   *)
Relax(t, u) ==
    IF t.distance[u] = INT32_MAX THEN t
    ELSE Over(LAMBDA s, e :
                 IF s.distance[u] + e.weight < s.distance[e.to]
                 THEN [s EXCEPT !.distance[e.to] = s.distance[u] + e.weight, !.previous[e.to] = u]
                 ELSE s,
              t, u)
Round(t) == FoldLeft(Relax, t, AscendingNodes)

RECURSIVE Rounds(_, _, _)
Rounds(t, next, k) == IF k = 0 \/ next = t THEN t ELSE Rounds(next, Round(next), k - 1)
Relaxed(t, k) == Rounds(t, Round(t), k)

Start(start) ==
    [distance |-> [Everywhere(INT32_MAX) EXCEPT ![start] = 0], previous |-> Everywhere(-1)]
OneRoundLess(start) == Relaxed(Start(start), n - 2)
bellmanFord(start) == Relaxed(Start(start), n - 1)
hasNegativeCycle ==
    LET t == Relaxed([distance |-> Everywhere(0), previous |-> Everywhere(-1)], n - 1)
    IN Round(t).distance # t.distance

(* Dijkstra takes the nearest entry of the queue; one that is out of date  *)
(* is passed over.  Which of the equally near ones is the heap's affair.   *)
RECURSIVE Nearest(_)
Settle(t, entry) ==
    IF entry[2] # t.distance[entry[1]] THEN t
    ELSE Over(LAMBDA s, e :
                 IF entry[2] + e.weight >= 0 /\ entry[2] + e.weight < s.distance[e.to]
                 THEN [s EXCEPT !.distance[e.to] = entry[2] + e.weight,
                                !.previous[e.to] = entry[1],
                                !.pq = @ \cup {<<e.to, entry[2] + e.weight>>}]
                 ELSE s,
              t, entry[1])
Nearest(t) ==
    IF t.pq = {} THEN t
    ELSE LET top == CHOOSE x \in t.pq : \A y \in t.pq : x[2] <= y[2]
         IN Nearest(Settle([t EXCEPT !.pq = @ \ {top}], top))
dijkstra(start) ==
    Nearest([distance |-> Start(start).distance, previous |-> Everywhere(-1),
             pq |-> {<<start, 0>>}])

(* FloydWarshall keeps the first step of every path. *)
LastEdge(u, v) == SelectLastInSeq(adj_list[u], LAMBDA e : e.to = v)
Direct ==
    [distances |-> [p \in Nodes \X Nodes |->
        IF HasEdge(p[1], p[2]) THEN adj_list[p[1]][LastEdge(p[1], p[2])].weight
        ELSE IF p[1] = p[2] THEN 0 ELSE INT32_MAX \div 2],
     next |-> [p \in Nodes \X Nodes |-> IF p[1] = p[2] \/ HasEdge(p[1], p[2]) THEN p[2] ELSE -1]]
RECURSIVE AllPairs(_, _)
AllPairs(m, triples) ==
    IF triples = <<>> THEN m
    ELSE LET ik == <<Head(triples)[2], Head(triples)[1]>>
             kj == <<Head(triples)[1], Head(triples)[3]>>
             ij == <<Head(triples)[2], Head(triples)[3]>>
         IN IF m.distances[ik] + m.distances[kj] < m.distances[ij]
            THEN AllPairs([m EXCEPT !.distances[ij] = m.distances[ik] + m.distances[kj],
                                    !.next[ij] = m.next[ik]], Tail(triples))
            ELSE AllPairs(m, Tail(triples))
floydWarshall ==
    AllPairs(Direct, [c \in 1 .. n * n * n |->
                         <<(c - 1) \div (n * n), ((c - 1) \div n) % n, (c - 1) % n>>])

RECURSIVE FollowNext(_, _, _, _)
FollowNext(next, from, current, to) ==
    LET step == next[<<current, to>>]
    IN IF current = to THEN <<to>>
       ELSE IF step = -1 \/ step = from THEN <<-1>>
       ELSE <<current>> \o FollowNext(next, from, step, to)
reconstructAllPairs(next, from, to) ==
    LET path == FollowNext(next, from, from, to)
    IN IF path[Len(path)] = -1 THEN <<>> ELSE path

-----------------------------------------------------------------------------
(* Both traversals reach what can be reached, each node once, along edges; *)
(* a breadth-first distance is the least number of edges.                  *)
TraversalsReach ==
    /\ \A s \in Nodes : LET b == bfs(s) d == dfs(s) reach == Reaches[s] IN
          \A r \in {b, d} :
             /\ ToSet(r.order) = reach /\ Len(r.order) = Cardinality(reach)
             /\ \A v \in reach : LET path == reconstructPath(r.distance, r.parent, v)
                                 IN IsPath(path) /\ path[1] = s /\ Len(path) = r.distance[v] + 1
             /\ \A v \in Nodes \ reach : reconstructPath(r.distance, r.parent, v) = <<>>
             /\ r = b => \A e \in EdgeSet : e[1] \in reach => b.distance[e[2]] <= b.distance[e[1]] + 1
    /\ Len(traverseAll.order) = n /\ ToSet(traverseAll.order) = Nodes

(* Either sort orders all nodes along every edge, or there is a circuit;   *)
(* a cycle that is reported is one.                                        *)
OrdersFollowEdges ==
    LET s == sort kahn == sortKahn circuit == Circuits # {}
        Follows(order) == \A e \in EdgeSet : \E i, j \in 1 .. n :
                              i < j /\ order[i] = e[1] /\ order[j] = e[2]
    IN /\ (s.cycle # <<>>) = circuit /\ (kahn = <<>>) = circuit
       /\ ~circuit => Len(s.order) = n /\ Follows(s.order) /\ Follows(kahn)
       /\ circuit => IsPath(s.cycle) /\ Len(s.cycle) > 1 /\ s.cycle[1] = s.cycle[Len(s.cycle)]

(* Two nodes are in one component when each can reach the other. *)
ComponentsAreStrong ==
    LET id == tarjan reach == Reaches
    IN \A u, v \in Nodes : id[u] # -1 /\ ((id[u] = id[v]) = (v \in reach[u] /\ u \in reach[v]))

(* A distance is that of a path, and no edge offers a shorter one.         *)
Shortest(s, distance, Path(_)) ==
    LET reach == Reaches[s] IN
    /\ \A v \in reach : LET path == Path(v) IN
          path # <<>> /\ IsPath(path) /\ path[1] = s /\ path[Len(path)] = v /\ PathWeight(path) = distance[v]
    /\ \A v \in Nodes \ reach : Path(v) = <<>>
    /\ \A e \in EdgeSet : e[1] \in reach => distance[e[2]] <= distance[e[1]] + e[3]

NegativeCircuit == \E c \in Circuits : PathWeight(Append(c, c[1])) < 0

PathsAreShortest ==
    LET all == floydWarshall negative == NegativeCircuit IN
    /\ hasNegativeCycle = negative
    /\ (\E i \in Nodes : all.distances[<<i, i>>] < 0) = negative
    /\ ~negative => \A s \in Nodes :
          /\ LET b == bellmanFord(s)
             IN Shortest(s, b.distance, LAMBDA v : reconstructPath(b.distance, b.previous, v))
          /\ Shortest(s, [v \in Nodes |-> all.distances[<<s, v>>]],
                      LAMBDA v : reconstructAllPairs(all.next, s, v))
          /\ (\A e \in EdgeSet : e[3] >= 0) =>
                LET d == dijkstra(s)
                IN Shortest(s, d.distance, LAMBDA v : reconstructPath(d.distance, d.previous, v))

-----------------------------------------------------------------------------
(* graph::algorithm on undirected graphs: spanning trees, bridges and      *)
(* articulation points, two-colourings and cycles.                         *)

GraphNetworks_Next == NewGraph \/ \E e \in NewEdges : addUndirectedEdge(e[1], e[2], e[3])


-----------------------------------------------------------------------------
(* KruskalMST and its UnionFind: find makes every node on the way point to *)
(* the root, unite hangs the lower tree below the higher.                  *)
RECURSIVE WayUp(_, _)
WayUp(parent, x) == IF parent[x] = x THEN <<x>> ELSE <<x>> \o WayUp(parent, parent[x])
Root(parent, x) == Last(WayUp(parent, x))
find(parent, x) ==
    [y \in Nodes |-> IF Contains(WayUp(parent, x), y) THEN Root(parent, x) ELSE parent[y]]

Hang(uf, ra, rb) ==
    IF ra = rb THEN uf
    ELSE IF uf.rank[ra] < uf.rank[rb] THEN [uf EXCEPT !.parent[ra] = rb]
    ELSE IF uf.rank[ra] > uf.rank[rb] THEN [uf EXCEPT !.parent[rb] = ra]
    ELSE [uf EXCEPT !.parent[rb] = ra, !.rank[ra] = @ + 1]
unite(uf, a, b) ==
    Hang([uf EXCEPT !.parent = find(find(@, a), b)], Root(uf.parent, a), Root(uf.parent, b))

(* Every edge once, the light ones first. *)
AllEdges == SetToSortSeq({e \in EdgeSet : e[1] <= e[2]}, LAMBDA a, b : a[3] < b[3])
kruskal ==
    FoldLeft(LAMBDA t, e :
                IF Root(t.uf.parent, e[1]) = Root(t.uf.parent, e[2]) THEN t
                ELSE [uf |-> unite(t.uf, e[1], e[2]), edges |-> t.edges \cup {e}],
             [uf |-> [parent |-> [u \in Nodes |-> u], rank |-> Everywhere(0)], edges |-> {}],
             AllEdges).edges

(* PrimMST grows a tree from node 0; entries of nodes it has are skipped.  *)
RECURSIVE Grow(_)
Join(t, u) ==
    IF u \in t.in_mst THEN t
    ELSE Over(LAMBDA s, e :
                 IF e.to \in s.in_mst \/ e.weight >= s.key[e.to] THEN s
                 ELSE [s EXCEPT !.key[e.to] = e.weight, !.parent[e.to] = u,
                                !.pq = @ \cup {<<e.to, e.weight>>}],
              [t EXCEPT !.in_mst = @ \cup {u},
                        !.edges = IF t.parent[u] = -1 THEN @
                                  ELSE @ \cup {<<t.parent[u], u, t.key[u]>>}],
              u)
Grow(t) ==
    IF t.pq = {} THEN t.edges
    ELSE LET top == CHOOSE x \in t.pq : \A y \in t.pq : x[2] <= y[2]
         IN Grow(Join([t EXCEPT !.pq = @ \ {top}], top[1]))
prim ==
    Grow([key |-> [Everywhere(INT32_MAX) EXCEPT ![0] = 0], parent |-> Everywhere(-1),
          in_mst |-> {}, edges |-> {}, pq |-> {<<0, 0>>}])

-----------------------------------------------------------------------------
(* BridgesArticulation *)
GraphNetworks_Lower(t, u, to) == [t EXCEPT !.low[u] = Lesser(@, to)]
StrictlyBelow(t, u, v, parent_node) ==
    [t EXCEPT !.bridges = IF t.low[v] > t.tin[u] THEN @ \cup {<<u, v>>} ELSE @,
              !.points = IF parent_node # -1 /\ t.low[v] > t.tin[u] THEN @ \cup {u} ELSE @,
              !.children[u] = @ + 1]
Judge(t, u, v, parent_node) ==
    [t EXCEPT !.bridges = IF t.low[v] > t.tin[u] THEN @ \cup {<<u, v>>} ELSE @,
              !.points = IF parent_node # -1 /\ t.low[v] >= t.tin[u] THEN @ \cup {u} ELSE @,
              !.children[u] = @ + 1]
Returned(t, u, v, parent_node) == Judge(GraphNetworks_Lower(t, u, t.low[v]), u, v, parent_node)
JudgeRoot(t, u, parent_node) ==
    IF parent_node = -1 /\ t.children[u] > 1 THEN [t EXCEPT !.points = @ \cup {u}] ELSE t

RECURSIVE dfsBridges(_, _, _)
dfsBridges(t, u, parent_node) ==
    JudgeRoot(
        Over(LAMBDA s, e :
                IF e.to = parent_node THEN s
                ELSE IF s.tin[e.to] # -1 THEN GraphNetworks_Lower(s, u, s.tin[e.to])
                ELSE Returned(dfsBridges(s, e.to, u), u, e.to, parent_node),
             [t EXCEPT !.tin[u] = t.timer, !.low[u] = t.timer, !.timer = @ + 1], u),
        u, parent_node)
bridgesArticulation ==
    FoldLeft(LAMBDA t, u : IF t.tin[u] = -1 THEN dfsBridges(t, u, -1) ELSE t,
             [tin |-> Everywhere(-1), low |-> Everywhere(-1), timer |-> 0,
              children |-> Everywhere(0), bridges |-> {}, points |-> {}],
             AscendingNodes)

-----------------------------------------------------------------------------
(* BipartiteCheck: the queue is left at the first conflict. *)
RECURSIVE ColorFrom(_)
ColorFrom(t) ==
    IF t.queue = <<>> \/ ~t.is_bipartite THEN t
    ELSE LET u == Head(t.queue)
         IN ColorFrom(Over(LAMBDA s, e :
                IF ~s.is_bipartite THEN s
                ELSE IF s.color[e.to] = -1
                     THEN [s EXCEPT !.color[e.to] = 1 - s.color[u], !.queue = Append(@, e.to)]
                ELSE [s EXCEPT !.is_bipartite = s.color[e.to] = 1 - s.color[u]],
                [t EXCEPT !.queue = Tail(@)], u))
bipartite ==
    FoldLeft(LAMBDA t, u : IF t.color[u] # -1 \/ ~t.is_bipartite THEN t
                           ELSE ColorFrom([t EXCEPT !.color[u] = 0, !.queue = <<u>>]),
             [color |-> Everywhere(-1), is_bipartite |-> TRUE, queue |-> <<>>],
             AscendingNodes)

(* CycleDetection::detectUndirected: any visited node but the parent. *)
RECURSIVE dfsDetectUndirected(_, _, _)
dfsDetectUndirected(t, u, parent_node) ==
    Over(LAMBDA s, e :
            IF e.to = parent_node \/ s.cycle # <<>> THEN s
            ELSE IF e.to \in s.visited
                 THEN [s EXCEPT !.cycle = Append(Climb(s.parent, u, e.to), e.to)]
            ELSE dfsDetectUndirected([s EXCEPT !.parent[e.to] = u], e.to, u),
         [t EXCEPT !.visited = @ \cup {u}], u)
detectUndirected ==
    FoldLeft(LAMBDA t, u : IF t.cycle # <<>> \/ u \in t.visited THEN t
                           ELSE dfsDetectUndirected(t, u, -1),
             [visited |-> {}, parent |-> Everywhere(-1), cycle |-> <<>>],
             AscendingNodes).cycle

-----------------------------------------------------------------------------
Both(es) == es \cup {<<e[2], e[1], e[3]>> : e \in es}
Cutting(u, v) == {e \in EdgeSet : {e[1], e[2]} # {u, v}}
Without(x) == {e \in EdgeSet : x \notin {e[1], e[2]}}

(* A spanning tree joins what the graph joins, with edges of the graph and *)
(* no circuit, and no edge of the graph offers a lighter way: its ends are *)
(* joined by tree edges that are no heavier.  Prim's is that of node 0.    *)
SpanningTreesAreMinimal ==
    LET Minimal(tree, starts, reach) ==
            /\ tree \subseteq EdgeSet
            /\ \A s \in starts : ReachAlong(Both(tree), s) = reach[s]
            /\ Cardinality(tree) = n - Cardinality({ReachAlong(Both(tree), s) : s \in Nodes})
            /\ \A e \in EdgeSet : e[1] \in starts =>
                   e[2] \in ReachAlong(Both({f \in tree : f[3] <= e[3]}), e[1])
    IN Minimal(kruskal, Nodes, Reaches) /\ Minimal(prim, Reaches[0], Reaches)

(* The bridges are the edges, and the articulation points the nodes, that  *)
(* hold together what would fall apart without them.                       *)
CutsAreCritical ==
    LET b == bridgesArticulation reach == Reaches
    IN /\ {{e[1], e[2]} : e \in b.bridges}
            = {{e[1], e[2]} : e \in {e \in EdgeSet : e[2] \notin ReachAlong(Cutting(e[1], e[2]), e[1])}}
       /\ b.points = {x \in Nodes : \E u \in Nodes \ {x} :
                         ReachAlong(Without(x), u) # reach[u] \ {x}}

(* Two colours are found when there are two that keep all neighbours apart. *)
ColorsDiffer ==
    LET b == bipartite
    IN /\ b.is_bipartite = \E S \in SUBSET Nodes : \A e \in EdgeSet : (e[1] \in S) # (e[2] \in S)
       /\ b.is_bipartite => /\ \A u \in Nodes : b.color[u] \in {0, 1}
                            /\ \A e \in EdgeSet : b.color[e[1]] # b.color[e[2]]

(* A cycle is found when some edge is no bridge, and is one. *)
CyclesAreFound ==
    LET c == detectUndirected
    IN /\ (c # <<>>) = \E e \in EdgeSet : e[2] \in ReachAlong(Cutting(e[1], e[2]), e[1])
       /\ c # <<>> => /\ IsPath(c) /\ Len(c) >= 4 /\ c[1] = c[Len(c)]
                      /\ Cardinality(ToSet(c)) = Len(c) - 1
=============================================================================
