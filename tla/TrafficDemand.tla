---------------------------- MODULE TrafficDemand ----------------------------
(***************************************************************************)
(* The traffic demand calculation model: an origin-destination matrix that *)
(* is multiplied, update after update, by the relative change of scenario  *)
(* parameters (rows of a csv tape), of local attributes near the demand    *)
(* nodes, of the cost of routes between them, and by investments.          *)
(*                                                                         *)
(* Quantities are powers of two and are held as their exponents, so that   *)
(* multiplying is adding and a power is a product; Zero is the number 0.   *)
(* What the network answers for a pair of nodes is an input here: its      *)
(* search is module Network.                                               *)
(***************************************************************************)
EXTENDS Integers, Sequences, FiniteSets, FiniteSetsExt, SequencesExt

CONSTANTS
  Nodes, Targets,   \* entities with a demand; entities they are mapped to (integers)
  Nearest,          \* LocalMapper.get_nearest: the target closest to each node
  Levels,           \* exponents a parameter may take
  Zero, None,
  Elasticity, RouteElasticity, GlobalElasticity,
  Tapes,            \* tapes: rows [time, parameter, multiplier], the first one at 0
  Plans,            \* investments in the order of time: [seconds, node, multiplier]
  Scale, End, MaxIterations

VARIABLES
  tape, pos, lastPos,     \* CsvTape: the current row and the one before proceed_to
  curr,                   \* GlobalElasticityParameter.curr
  values, costs,          \* the local attribute, and the cost of every route
  changed,                \* the contributors whose attribute has changes
  old, oldCosts,          \* old_value of the two contributors
  investments,            \* InvestmentContributor.investments: the next one is the last
  demand, now, count,     \* the matrix, the moment, update_count
  wake,                   \* the moment the last update asked for
  plan, first, zeroed,    \* the configuration, the values of the first update, the
                          \* targets that ever were zero
  answered,               \* "no", or what the call of update did about all that arrived
  seen, skipped           \* history: the rows the tape was at in an update, and whether an
                          \* update has been skipped

vars == <<tape, pos, lastPos, curr, values, costs, changed, old, oldCosts,
          investments, demand, now, count, wake, plan, first, zeroed, answered,
          seen, skipped>>

Pairs == Nodes \X Nodes
Routes == Targets \X Targets

Times(a, b) == IF a = Zero \/ b = Zero THEN Zero ELSE a + b
Product(S, f(_)) == FoldSet(LAMBDA x, acc : Times(f(x), acc), 0, S)

\* BaseTapefile._get_current_pos: searchsorted(..., side = "right") - 1, from one here.
PositionAt(rows, t) == Cardinality({i \in DOMAIN rows : rows[i].time <= t})
HasUpdate(p, q) == p # q
NextTimestamp(rows, p) == IF p < Len(rows) THEN rows[p + 1].time ELSE None

\* GlobalElasticityParameter.get_factor and ScalarParameter.update_factor
ElasticityFactor(new, previous) ==
  IF new = Zero \/ previous = Zero THEN 0 ELSE 2 * GlobalElasticity * (new - previous)

\* calculate_localized_contribution_1d: a zero counts as no change.
RatioForNode(n, new, previous) ==
  LET t == Nearest[n] IN IF new[t] = Zero \/ previous[t] = Zero THEN 0 ELSE new[t] - previous[t]
LocalizedContribution(new, previous) ==
  [p \in Pairs |-> Elasticity * (RatioForNode(p[1], new, previous) + RatioForNode(p[2], new, previous))]

\* calculate_contribution for a matrix: a division by zero counts as no change, a
\* ratio of zero stays zero.
Contribution(new, previous) ==
  [p \in Pairs |-> IF previous[p] = Zero THEN 0
                   ELSE IF new[p] = Zero THEN Zero
                   ELSE RouteElasticity * (new[p] - previous[p])]

\* deduplicate_nodes around _get_local_route_cost: the routes are asked for once for
\* every distinct target and spread over the nodes again.
RouteCosts(c) ==
  LET unique == SetToSortSeq({Nearest[n] : n \in Nodes}, <)
      dists == [k \in (1..Len(unique)) \X (1..Len(unique)) |-> c[<<unique[k[1]], unique[k[2]]>>]]
      at(n) == CHOOSE k \in 1..Len(unique) : unique[k] = Nearest[n]
  IN [p \in Pairs |-> dists[<<at(p[1]), at(p[2])>>]]

\* InvestmentContributor.update_demand: every investment that is due multiplies the row
\* and the column of its node, the entry in both of them once.
Due(todo, seconds) == SelectSeq(todo, LAMBDA i : i.seconds <= seconds)
Affected(i) == {p \in Pairs : i.node \in {p[1], p[2]}}
Invest(matrix, due) ==
  FoldLeft(LAMBDA m, i : [p \in Pairs |-> IF p \in Affected(i) THEN Times(m[p], i.multiplier) ELSE m[p]],
           matrix, due)

Init ==
  /\ tape \in Tapes /\ plan \in Plans /\ investments = plan
  /\ pos = PositionAt(tape, 0) /\ lastPos = 0      \* get_global_parameters_tape
  /\ curr = tape[pos].parameter
  /\ values \in [Targets -> Levels]
  /\ costs = [r \in Routes |-> IF r[1] = r[2] THEN Zero ELSE 1]
  /\ changed = {"nearest", "route"} /\ old = None /\ oldCosts = None
  /\ demand = [p \in Pairs |-> 0]
  /\ now = 0 /\ count = 0 /\ first = None /\ zeroed = {} /\ wake = None
  /\ answered = "no" /\ seen = {pos} /\ skipped = FALSE

\* Another model's update of a local attribute arrives; at most one of each attribute is
\* waiting, as several that no update has seen are one change to the model.
ReceiveValue ==
  /\ "nearest" \notin changed
  /\ \E t \in Targets, v \in Levels \cup {Zero} :
       v # values[t] /\ values' = [values EXCEPT ![t] = v]
  /\ zeroed' = zeroed \cup {t \in Targets : values'[t] = Zero}
  /\ changed' = changed \cup {"nearest"} /\ answered' = "no"
  /\ UNCHANGED <<tape, pos, lastPos, curr, costs, old, oldCosts, investments, demand, now,
                 count, wake, plan, first, seen, skipped>>

ReceiveCost ==
  /\ "route" \notin changed
  /\ \E r \in Routes, v \in Levels :
       r[1] # r[2] /\ v # costs[r] /\ costs' = [costs EXCEPT ![r] = v]
  /\ changed' = changed \cup {"route"} /\ answered' = "no"
  /\ UNCHANGED <<tape, pos, lastPos, curr, values, old, oldCosts, investments, demand, now,
                 count, wake, plan, first, zeroed, seen, skipped>>

\* new_time, at the latest at the moment that was asked for; nothing of an earlier
\* moment is left to answer.
NewTime ==
  /\ answered # "no" /\ now < End
  /\ now' \in (now + 1)..(IF wake = None THEN End ELSE wake)
  /\ count' = 0 /\ answered' = "no"
  /\ UNCHANGED <<tape, pos, lastPos, curr, values, costs, changed, old, oldCosts,
                 investments, demand, wake, plan, first, zeroed, seen, skipped>>

\* LocalEffectsContributor.update_demand: the first call only remembers the values.
LocalApplies(contributor, previous) == previous # None /\ (contributor \in changed \/ count = 0)
Remembered_First(contributor, previous, new) == IF previous = None THEN new ELSE previous
Remembered(contributor, previous, new) ==
  IF previous = None \/ LocalApplies(contributor, previous) THEN new ELSE previous

\* DemandEstimation.update: the global factor, the local contributors in order (the
\* investments last), and their product.
GlobalFactor(p) ==
  IF HasUpdate(pos, p)
  THEN Times(ElasticityFactor(tape[p].parameter, curr), tape[p].multiplier)
  ELSE 0
Estimated(p, due) ==
  LET local == IF LocalApplies("nearest", old) THEN LocalizedContribution(values, old) ELSE [x \in Pairs |-> 0]
      route == IF LocalApplies("route", oldCosts) THEN Contribution(RouteCosts(costs), oldCosts) ELSE [x \in Pairs |-> 0]
      matrix == [x \in Pairs |-> Times(Times(demand[x], local[x]), route[x])]
      invested == Invest(matrix, due)
  IN [x \in Pairs |-> Times(invested[x], GlobalFactor(p))]

\* TrafficDemandCalculation.update, followed by state.reset_tracked_changes(SUBSCRIBE)
Update ==
  /\ answered = "no" /\ count < MaxIterations
  /\ LET p == PositionAt(tape, now)
         due == Due(investments, now * Scale)
     IN /\ pos' = p /\ lastPos' = pos
        /\ curr' = IF HasUpdate(pos, p) THEN tape[p].parameter ELSE curr
        /\ investments' = SubSeq(investments, Len(due) + 1, Len(investments))
        /\ demand' = Estimated(p, due)
        /\ wake' = NextTimestamp(tape, p) /\ seen' = seen \cup {p}
  /\ old' = Remembered("nearest", old, values)
  /\ oldCosts' = Remembered("route", oldCosts, RouteCosts(costs))
  /\ first' = IF first = None THEN [values |-> values, costs |-> costs] ELSE first
  /\ changed' = {} /\ count' = count + 1 /\ answered' = "updated"
  /\ UNCHANGED <<tape, values, costs, now, plan, zeroed, skipped>>

\* At max_iterations nothing is done until a new time, and no moment is asked for, which
\* takes back what was asked for before; the changes wait, tracked.
Skip ==
  /\ answered = "no" /\ count >= MaxIterations
  /\ answered' = "skipped" /\ wake' = None /\ skipped' = TRUE
  /\ UNCHANGED <<tape, pos, lastPos, curr, values, costs, changed, old, oldCosts,
                 investments, demand, now, count, plan, first, zeroed, seen>>

Next == ReceiveValue \/ ReceiveCost \/ NewTime \/ Update \/ Skip
Spec == Init /\ [][Next]_vars

-----------------------------------------------------------------------------
Ratio(n) == values[Nearest[n]] - first.values[Nearest[n]]
Expected(p, rows) ==
  LET route(c) == c[<<Nearest[p[1]], Nearest[p[2]]>>]
      cost == IF route(costs) = Zero THEN 0 ELSE route(costs) - route(first.costs)
      due == {k \in DOMAIN plan : plan[k].seconds <= now * Scale /\ p \in Affected(plan[k])}
  IN   Elasticity * (Ratio(p[1]) + Ratio(p[2])) + RouteElasticity * cost
     + 2 * GlobalElasticity * (tape[PositionAt(tape, now)].parameter - tape[1].parameter)
     + Product(rows \ {1}, LAMBDA k : tape[k].multiplier)
     + Product(due, LAMBDA k : plan[k].multiplier)

DemandIsThatOf(rows) ==
  \A p \in Pairs :
    {Nearest[p[1]], Nearest[p[2]]} \cap zeroed = {} => demand[p] = Expected(p, rows)

\* However many updates a moment takes and whichever changes arrive together: the demand
\* between nodes whose nearest targets never were zero is the initial demand times the
\* change of every parameter since the first update, each due investment once, and the
\* multiplier of each row the tape was at in an update once, also after updates that
\* max_iterations skipped; and these are all rows, unless an update has been skipped.
\* (For rows at timestamps of their own.)
DemandFollowsParameters ==
  answered = "updated" =>
    DemandIsThatOf(seen) /\ (~ skipped => seen = 1..PositionAt(tape, now))
=============================================================================
