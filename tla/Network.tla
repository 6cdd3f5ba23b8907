------------------------------ MODULE Network ------------------------------
(***************************************************************************)
(* The transport network behind the shortest path and the generalized      *)
(* journey time models: a graph in compressed rows over all nodes, virtual *)
(* nodes that open for the source of a calculation only, a cache of        *)
(* predecessors per source, and the calculations that walk them.           *)
(***************************************************************************)
EXTENDS Integers, Sequences, FiniteSets, SequencesExt

CONSTANTS
  Networks,  \* records: nodes and virtual (sequences of ids), links (records with from, to,
             \* layout, value), virtualLinks (records with from and to)
  Costs,     \* the cost factors a link may have
  Plans,     \* records: calculations (records with type and source), noUpdate
  None,
  NaN

VARIABLES
  net, plan,
  cost,      \* the cost factor attribute, per transport link
  routed,    \* history: the costs the network has been updated with
  graph,     \* Graph: the edges in compressed rows, with their cost_factor
  source,    \* source_node_idx
  cache,     \* _cache: predecessors and distances per source
  todo,      \* the calculations of this update that are to come: <<calculator, source id>>
  result     \* the rows that have been calculated: the answer per virtual node

vars == <<net, plan, cost, routed, graph, source, cache, todo, result>>

Unit == 1000    \* a cost factor of one
Minimal == 1    \* MIN_COST_FACTOR
Blocked == 10 ^ 8   \* MAX_COST_FACTOR, infinity

Least(S) == CHOOSE x \in S : \A y \in S : x <= y

----------------------------------------------------------------------------
\* Index: blocks of contiguous ids, found by their last id.
Blocks(ids) ==
  LET starts == {i \in DOMAIN ids : i = 1 \/ ids[i] # ids[i - 1] + 1}
      Stop(i) == Least({j \in i .. Len(ids) : j = Len(ids) \/ j + 1 \in starts})
  IN {[from |-> ids[i], to |-> ids[Stop(i)], offset |-> i] : i \in starts}
Query(ids, id) ==
  LET above == {block \in Blocks(ids) : block.to >= id}
      block == CHOOSE c \in above : \A d \in above : c.to <= d.to
  IN IF above = {} \/ block.from > id THEN -1 ELSE id - block.from + block.offset

AllNodes(n) == n.nodes \o n.virtual
Idx(n, id) == Query(AllNodes(n), id)

\* process_transport_links: the forward edges, then the reverse ones; tl_mapping is .link.
Forward(n) == SelectSeq([i \in DOMAIN n.links |-> i],
                        LAMBDA i : n.links[i].layout \in {None, "forward", "both", "unknown"})
Backward(n) == SelectSeq([i \in DOMAIN n.links |-> i],
                         LAMBDA i : n.links[i].layout \in {"reverse", "both", "unknown"})
TransportEdges(n) ==
  [k \in DOMAIN Forward(n) |-> LET i == Forward(n)[k]
     IN [from |-> n.links[i].from, to |-> n.links[i].to, link |-> i]]
  \o [k \in DOMAIN Backward(n) |-> LET i == Backward(n)[k]
     IN [from |-> n.links[i].to, to |-> n.links[i].from, link |-> i]]

\* The virtual links, directed towards the network; a link to a virtual node is turned.
IsVirtual(n, id) == Query(n.virtual, id) # -1
Inward(n) ==
  LET Turned(l) == IsVirtual(n, l.to)
      ok == SelectSeq(n.virtualLinks, LAMBDA l : ~ Turned(l))
      turned == SelectSeq(n.virtualLinks, Turned)
  IN [k \in DOMAIN ok |-> [from |-> ok[k].from, to |-> ok[k].to, link |-> 0]]
     \o [k \in DOMAIN turned |-> [from |-> turned[k].to, to |-> turned[k].from, link |-> 0]]
Outward(n) == [k \in DOMAIN Inward(n) |-> [from |-> Inward(n)[k].to, to |-> Inward(n)[k].from,
                                          link |-> -1]]

\* _build_graph: per node the edges that leave it, by the id of their target.  The edge at a
\* position of the rows has its transport link, 0 for inward and -1 for outward edges.
EdgesOf(n) == TransportEdges(n) \o Inward(n) \o Outward(n)
Row(n, i) == SortSeq(SelectSeq(EdgesOf(n), LAMBDA e : e.from = AllNodes(n)[i]),
                     LAMBDA a, b : a.to < b.to)
BuildGraph(n) ==
  LET Edge(e) == [row |-> Idx(n, e.from), column |-> Idx(n, e.to), link |-> e.link, cost |-> 0]
      rows == FoldLeft(LAMBDA acc, i : acc \o Row(n, i), <<>>, [i \in DOMAIN AllNodes(n) |-> i])
  IN [k \in DOMAIN rows |-> Edge(rows[k])]

\* update_cost_factor of the network
Spread(g, c) ==
  [k \in DOMAIN g |-> [g[k] EXCEPT !.cost = CASE g[k].link = 0 -> Blocked
                                             [] g[k].link = -1 -> Minimal
                                             [] OTHER -> Unit * c[g[k].link]]]

\* set_source_node: the edges of the node that was the source are closed again.
Opened_Kept(g, s) ==
  [k \in DOMAIN g |-> IF g[k].row = s THEN [g[k] EXCEPT !.cost = Minimal] ELSE g[k]]
Opened(g, s) ==
  [k \in DOMAIN g |-> CASE g[k].row = s -> [g[k] EXCEPT !.cost = Minimal]
                        [] g[k].row = source /\ source # s -> [g[k] EXCEPT !.cost = Blocked]
                        [] OTHER -> g[k]]

\* scipy's shortest_path: distances, and a predecessor on a cheapest way for every node.
Distances(g, s, size) ==
  LET Shorter(d, v) == Least({d[v]} \cup {d[g[k].row] + g[k].cost :
                                k \in {j \in DOMAIN g : g[j].column = v}})
      nodes == [v \in 1 .. size |-> v]
      Relaxed(d) == FoldLeft(LAMBDA acc, v : Append(acc, Shorter(d, v)), <<>>, nodes)
      start == FoldLeft(LAMBDA acc, v : Append(acc, IF v = s THEN 0 ELSE Blocked), <<>>, nodes)
  IN FoldLeft(LAMBDA d, h : Relaxed(d), start, nodes)

\* The infinite edges are in the matrix: a node that only they reach is scanned too, after
\* the others and in any order, and has the first node that reaches it for a predecessor.
Reached(g, s, size) ==
  FoldLeft(LAMBDA S, h : S \cup {g[k].column : k \in {j \in DOMAIN g : g[j].row \in S}},
           {s}, [v \in 1 .. size |-> v])
Trees(g, s, size) ==
  LET dist == Distances(g, s, size)
      From(v) == {g[k].row : k \in {j \in DOMAIN g : g[j].column = v}} \cap Reached(g, s, size)
      Nearest(v) == {u \in From(v) : \A w \in From(v) : dist[u] <= dist[w]}
      Tight(v) == {g[k].row : k \in {j \in DOMAIN g :
                     g[j].column = v /\ dist[g[j].row] + g[j].cost = dist[v]}}
      Previous(v) == CASE v = s \/ From(v) = {} -> {-1}
                       [] v # s /\ dist[v] < Blocked -> Tight(v)
                       [] OTHER -> Nearest(v)
      Chosen(ps, v) == {Append(p, u) : p \in ps, u \in Previous(v)}
      Up(p, v) == FoldLeft(LAMBDA u, h : IF p[u] = -1 THEN u ELSE p[u], v, p)
  IN {[dist |-> dist, prev |-> p] :
        p \in {q \in FoldLeft(Chosen, {<<>>}, [v \in 1 .. size |-> v]) :
                \A v \in 1 .. size : q[Up(q, v)] = -1}}

\* searchsorted on the columns of a row, which are sorted by id.
RECURSIVE Bisect(_, _, _, _)
Bisect(g, low, high, column) ==
  LET mid == (low + high) \div 2
  IN IF low >= high THEN low
     ELSE IF g[mid].column < column THEN Bisect(g, mid + 1, high, column)
          ELSE Bisect(g, low, mid, column)

\* shortest_link_index: the first of the cheapest edges between two nodes, or -1.
LinkIndex(g, from, to) ==
  LET row == {k \in DOMAIN g : g[k].row = from}
      begin == Bisect(g, Least(row), Least(row) + Cardinality(row), to)
      found == {k \in row : k >= begin /\ \A j \in begin .. k : g[j].column = to}
  IN IF row = {} \/ found = {} THEN -1
     ELSE CHOOSE k \in found : \A j \in found : g[k].cost < g[j].cost
                                              \/ (g[k].cost = g[j].cost /\ k <= j)

\* The edges from the source to the target, or None when there is no way.
RECURSIVE Walk(_, _, _, _)
Walk(g, prev, s, v) ==
  IF v = s THEN <<>>
  ELSE IF prev[v] = -1 THEN None
  ELSE LET k == LinkIndex(g, prev[v], v)
           rest == Walk(g, prev, s, prev[v])
       IN IF k = -1 \/ rest = None THEN None ELSE Append(rest, k)

Total(f, path) == FoldLeft(LAMBDA acc, k : acc + f[k], 0, path)

\* _shortest_path_sum and _shortest_path_weighted_average: a sum, and an average as the pair
\* of the weighted sum and the weight; an infinite weight gives no number.
ValueOf(g, k) == IF g[k].link > 0 THEN net.links[g[k].link].value ELSE 0
SumOver(g, path) ==
  LET value == [k \in DOMAIN g |-> ValueOf(g, k)]
  IN IF path = None THEN -1 ELSE Total(value, path)
AverageOver(g, path, weight) ==
  LET product == [k \in DOMAIN g |-> weight[k] * ValueOf(g, k)]
  IN IF path = None \/ path = <<>> THEN <<-1, 1>>
     ELSE IF \E k \in Range(path) : weight[k] >= Blocked THEN <<NaN, 1>>
     ELSE IF Total(weight, path) = 0 THEN <<-1, 1>>
     ELSE <<Total(product, path), Total(weight, path)>>

----------------------------------------------------------------------------
\* The models: initialize builds the network; an update sets the costs, unless the paths are
\* to stay, and runs the calculations for their source or for all virtual nodes.

Init ==
  /\ net \in Networks /\ plan \in Plans
  /\ cost \in [DOMAIN net.links -> Costs]
  /\ routed = cost /\ graph = Spread(BuildGraph(net), cost)
  /\ source = None /\ cache = <<>> /\ todo = <<>> /\ result = <<>>

Sources(c) == IF c.source = None THEN net.virtual ELSE <<c.source>>
Update(c) ==
  /\ todo = <<>>
  /\ cost' = c
  /\ IF plan.noUpdate THEN UNCHANGED <<routed, graph, cache>>
     ELSE routed' = c /\ graph' = Spread(graph, c) /\ cache' = <<>>
  /\ todo' = FlattenSeq([i \in DOMAIN plan.calculations |->
               LET s == Sources(plan.calculations[i]) IN [k \in DOMAIN s |-> <<i, s[k]>>]])
  /\ result' = <<>> /\ UNCHANGED <<net, plan, source>>

Weights(g) ==
  [k \in DOMAIN g |-> CASE ~ plan.noUpdate -> g[k].cost
                        [] g[k].link > 0 /\ plan.noUpdate -> Unit * cost[g[k].link]
                        [] OTHER -> 0]
Answer(type, tree, g, s, v) ==
  LET path == Walk(g, tree.prev, s, v)
  IN CASE type = "sum" -> SumOver(g, path)
       [] type = "distance" -> tree.dist[v]
       [] OTHER -> AverageOver(g, path, Weights(g))

\* One source of one calculation; get_shortest_path answers from the cache if it can.
Calculate ==
  /\ todo # <<>>
  /\ LET id == todo[1][2]
         s == Idx(net, id)
         cached == id \in DOMAIN cache
         g == IF cached THEN graph ELSE Opened(graph, s)
         type == plan.calculations[todo[1][1]].type
     IN \E tree \in IF cached THEN {cache[id]} ELSE Trees(g, s, Len(AllNodes(net))) :
          /\ graph' = g
          /\ source' = IF cached THEN source ELSE s
          /\ cache' = [x \in DOMAIN cache \cup {id} |-> IF x = id THEN tree ELSE cache[x]]
          /\ result' = [x \in DOMAIN result \cup {todo[1]} |->
               IF x # todo[1] THEN result[x]
               ELSE [to \in Range(net.virtual) |-> Answer(type, tree, g, s, Idx(net, to))]]
  /\ todo' = Tail(todo)
  /\ UNCHANGED <<net, plan, cost, routed>>

Next == (\E c \in [DOMAIN net.links -> Costs] : Update(c)) \/ Calculate
Spec == Init /\ [][Next]_vars

----------------------------------------------------------------------------
\* The ways through the network by its ids: links in a direction they have, and no virtual
\* node in between.
Hops == Range(EdgesOf(net))
RECURSIVE Ways(_, _, _, _)
Ways(hops, from, to, seen) ==
  IF from = to THEN {<<>>}
  ELSE UNION {{<<e>> \o w : w \in Ways(hops, e.to, to, seen \cup {e.to})} :
                e \in {h \in hops : /\ h.from = from /\ h.to \notin seen
                                    /\ h.link # -1 \/ h.to = to}}
LengthOf(w) == FoldLeft(LAMBDA acc, e : acc + (IF e.link > 0 THEN Unit * routed[e.link] ELSE Minimal),
                        0, w)
Cheapest(ways) == {w \in ways : \A x \in ways : LengthOf(w) <= LengthOf(x)}

SumOn(f, w) == FoldLeft(LAMBDA acc, e : acc + (IF e.link > 0 THEN f[e.link] ELSE 0), 0, w)
Matches(type, answer, w) ==
  LET value == [l \in DOMAIN net.links |-> net.links[l].value]
      product == [l \in DOMAIN net.links |-> Unit * cost[l] * value[l]]
      weight == [l \in DOMAIN net.links |-> Unit * cost[l]]
  IN CASE type = "sum" -> answer = SumOn(value, w)
       [] type = "distance" -> answer = LengthOf(w)
       [] OTHER -> /\ answer[1] = IF w = <<>> \/ (plan.noUpdate /\ SumOn(weight, w) = 0) THEN -1 ELSE SumOn(product, w)
                   /\ answer[2] - SumOn(weight, w) \in 0 .. 2

IsAnswer(type, answer, from, to, hops) ==
  LET ways == Ways(hops, from, to, {from}) IN
  IF ways = {}
  THEN answer = CASE type = "sum" -> -1 [] type = "distance" -> Blocked [] OTHER -> <<-1, 1>>
  ELSE \E w \in Cheapest(ways) : Matches(type, answer, w)

\* Nodes are found in a row by bisection over their indices: the index follows the ids.
IndexFollowsIds ==
  \A i, j \in DOMAIN AllNodes(net) : i < j => AllNodes(net)[i] < AllNodes(net)[j]
TypeOf(x) == plan.calculations[x[1]].type
Connected(from, to) == Ways(Hops, from, to, {from}) # {}

\* An average that weighs the links by the costs of the network, with the predecessors of an
\* earlier calculation: the network is then open for another source.
AverageFromCache(x) ==
  /\ TypeOf(x) = "average" /\ ~ plan.noUpdate
  /\ \E i \in 1 .. (x[1] - 1) : x[2] \in Range(Sources(plan.calculations[i]))

\* Every answer about virtual nodes that are connected is that of one cheapest way under the
\* costs the paths were made with: what is summed, averaged or measured belongs to it, it
\* does not lead through a virtual node, the parallel link is the cheaper one, and a source
\* that was open before is closed again (common/network.py: set_source_node, _cache,
\* _build_graph).  The other answers: see EveryAnswerIsAPath.
AnswersArePaths ==
  IndexFollowsIds =>
    \A x \in DOMAIN result : \A to \in Range(net.virtual) :
      Connected(x[2], to) /\ ~ AverageFromCache(x)
        => IsAnswer(TypeOf(x), result[x][to], x[2], to, Hops)

\* All of them: "Calculate the weighted average of a quantity that is defined for every link
\* on the shortest path ... weighted by the cost factor of every link", also when the paths
\* come from the cache, and "no_path_found: A fill value for when no valid shortest path can
\* be found" (common/network.py: shortest_path_weighted_average, all_shortest_paths_sum),
\* where a way through another virtual node is no valid one ("To prevent flow through (non
\* source/non target) virtual nodes").  It does not hold: see AnswersArePaths.
EveryAnswerIsAPath ==
  IndexFollowsIds =>
    \A x \in DOMAIN result : \A to \in Range(net.virtual) :
      IsAnswer(TypeOf(x), result[x][to], x[2], to, Hops)
=============================================================================
