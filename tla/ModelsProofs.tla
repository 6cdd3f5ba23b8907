------------------------------ MODULE ModelsProofs ------------------------------
(***************************************************************************)
(* Proofs about five of the models.  The traffic KPI model: what it shows  *)
(* is the sum for the present rows of its tapes, at every moment and for   *)
(* all tapes and flows.  The others are instances with variables of their  *)
(* own.  The urban drainage models of a process: one of them owns the      *)
(* engine, and the engine follows its model.  The drinking water model: a  *)
(* change that is passed on acts from its moment.  The players: they show  *)
(* what their files hold for the moment.  The time window status model: a  *)
(* target is on while one of its windows is open.                          *)
(***************************************************************************)
EXTENDS TrafficKpi, FiniteSetTheorems, TLAPS

CONSTANTS Wrappers, Values, Report, TimeScale, EngineEnd, LastMoment
VARIABLES active, stage, engine, offset, snapshot, pending, array, ran, began, last, nextTime, clock

Sewer == INSTANCE Drainage WITH now <- clock, wake <- nextTime, End <- LastMoment

CONSTANTS Links, Hydraulic, ReportStep, Horizon
VARIABLES driven, inputs, elements, simulated, used, missed, known, published, calculated, moment, nextMoment

Water == INSTANCE DrinkingWater WITH
  array <- inputs, engine <- elements, at <- simulated, last <- calculated, now <- moment,
  wake <- nextMoment, Report <- ReportStep, End <- Horizon

CONSTANTS Kinds, Keys, Contents, Seconds, Scale, PlayEnd, MaxLength
VARIABLES player, file, timeline, playerRow, shown, playerTime, playerWake, playerFailed

Players == INSTANCE Tapes WITH
  position <- playerRow, state <- shown, now <- playerTime, wake <- playerWake,
  failed <- playerFailed, Players <- Kinds, Values <- Contents, End <- PlayEnd

CONSTANTS Sources, Targets, Times, WindowEnd
VARIABLES windows, links, connections, schedule, count, status, windowTime, windowWake

Windows == INSTANCE TimeWindows WITH
  now <- windowTime, wake <- windowWake, End <- WindowEnd

(***************************************************************************)
(* Places                                                                  *)
(***************************************************************************)
\* The first n numbers are n.
LEMMA FirstNumbers == \A n \in Nat : IsFiniteSet(1..n) /\ Cardinality(1..n) = n
<1> SUFFICES ASSUME NEW n \in Nat PROVE IsFiniteSet(1..n) /\ Cardinality(1..n) = n
  OBVIOUS
<1>1. IsFiniteSet(1..n) /\ Cardinality(1..n) = IF 1 > n THEN 0 ELSE n - 1 + 1
  BY FS_Interval
<1> QED BY <1>1

\* A set of places that has every place before one that it has is the first ones.
LEMMA FirstPlaces ==
  ASSUME NEW n \in Nat, NEW S \in SUBSET (1..n), \A i \in S : \A j \in 1..n : j <= i => j \in S
  PROVE  Cardinality(S) \in 0..n /\ S = 1..Cardinality(S)
<1> DEFINE p == Cardinality(S)
<1>1. IsFiniteSet(1..n) /\ Cardinality(1..n) = n
  BY FirstNumbers
<1>2. IsFiniteSet(S) /\ p \in Nat /\ p <= n
  BY <1>1, FS_Subset, FS_CardinalityType
<1>3. ASSUME NEW i \in S PROVE i \in 1..p
  <2>1. i \in Nat /\ 1 <= i /\ i <= n
    OBVIOUS
  <2>2. 1..i \subseteq S
    BY <2>1
  <2>3. Cardinality(1..i) = i
    BY <2>1, FirstNumbers
  <2>4. i <= p
    BY <1>2, <2>2, <2>3, FS_Subset
  <2> QED BY <1>2, <2>1, <2>4
<1>4. S \subseteq 1..p
  BY <1>3
<1> HIDE DEF p
<1>5. IsFiniteSet(1..p) /\ Cardinality(1..p) = p
  BY <1>2, FirstNumbers
<1>6. S = 1..p
  BY <1>4, <1>5, FS_Subset DEF p
<1>7. p \in 0..n
  BY <1>2
<1> QED BY <1>6, <1>7 DEF p

(***************************************************************************)
(* The traffic KPI model                                                   *)
(***************************************************************************)
\* The rows that are not after t are the first ones: there are as many as the position says.
LEMMA PositionIs ==
  ASSUME NEW rows, Tape(rows), NEW t \in Int
  PROVE  /\ Len(rows) \in Nat /\ DOMAIN rows = 1..Len(rows)
         /\ PositionAt(rows, t) \in 0..Len(rows)
         /\ \A i \in DOMAIN rows : rows[i].time <= t <=> i <= PositionAt(rows, t)
<1> DEFINE n == Len(rows)
           S == {i \in DOMAIN rows : rows[i].time <= t}
<1>1. /\ n \in Nat /\ DOMAIN rows = 1..n
      /\ \A i \in 1..n : rows[i].time \in Int
      /\ \A i, j \in 1..n : i < j => rows[i].time <= rows[j].time
  BY DEF Tape
<1>2. PositionAt(rows, t) = Cardinality(S) /\ \A i \in DOMAIN rows : i \in S <=> rows[i].time <= t
  BY DEF PositionAt
<1>3. S \in SUBSET (1..n)
  BY <1>1
<1> HIDE DEF n, S
<1>4. ASSUME NEW i \in S, NEW j \in 1..n, j <= i PROVE j \in S
  <2>1. i \in 1..n /\ (j = i \/ j < i) /\ rows[i].time <= t
    BY <1>1, <1>2, <1>3, <1>4
  <2>2. rows[j].time <= rows[i].time /\ rows[j].time \in Int /\ rows[i].time \in Int
    BY <1>1, <2>1
  <2> QED BY <1>1, <1>2, <2>1, <2>2
<1>5. Cardinality(S) \in 0..n /\ S = 1..Cardinality(S)
  BY <1>1, <1>3, <1>4, FirstPlaces
<1>6. \A i \in DOMAIN rows : i \in S <=> i <= Cardinality(S)
  BY <1>1, <1>5
<1> QED BY <1>1, <1>2, <1>5, <1>6 DEF n

\* Nothing begins before the time of the row that comes next.
LEMMA PositionStays ==
  ASSUME NEW rows, Tape(rows), NEW t \in Int, NEW u \in Int, t <= u,
         PositionAt(rows, t) < Len(rows) => u < rows[PositionAt(rows, t) + 1].time
  PROVE  PositionAt(rows, u) = PositionAt(rows, t)
<1> DEFINE p == PositionAt(rows, t)
<1>1. /\ Len(rows) \in Nat /\ DOMAIN rows = 1..Len(rows) /\ p \in 0..Len(rows)
      /\ \A i \in DOMAIN rows : rows[i].time <= t <=> i <= p
  BY PositionIs
<1>2. \A i, j \in DOMAIN rows : rows[i].time \in Int /\ (i < j => rows[i].time <= rows[j].time)
  BY DEF Tape
<1>3. p < Len(rows) => u < rows[p + 1].time
  OBVIOUS
<1> HIDE DEF p
<1>4. ASSUME NEW i \in DOMAIN rows PROVE rows[i].time <= u <=> rows[i].time <= t
  <2>1. CASE i <= p
    BY <1>1, <1>2, <2>1
  <2>2. CASE ~ (i <= p)
    <3>1. p < Len(rows) /\ p + 1 \in DOMAIN rows /\ (p + 1 = i \/ p + 1 < i)
      BY <1>1, <2>2
    <3>2. rows[p + 1].time <= rows[i].time
      BY <1>2, <3>1
    <3> QED BY <1>1, <1>2, <1>3, <2>2, <3>1, <3>2
  <2> QED BY <2>1, <2>2
<1>5. {i \in DOMAIN rows : rows[i].time <= u} = {i \in DOMAIN rows : rows[i].time <= t}
  BY <1>4
<1> QED BY <1>5 DEF PositionAt

-----------------------------------------------------------------------------
\* What the model calculates depends on nothing but its configuration and the flows.
LEMMA CalculationStays ==
  ASSUME UNCHANGED <<modality, coefficients, scenario, parameters, flow>>, NEW values, NEW flows, NEW at
  PROVE  WithContributions(values, flows, at)' = WithContributions(values, flows, at)
<1>1. CurrentCoefficients(at)' = CurrentCoefficients(at)
  BY DEF CurrentCoefficients
<1>2. Vehicles' = Vehicles
  BY DEF Vehicles
<1>3. \A c : ScenarioMultiplier(c, at)' = ScenarioMultiplier(c, at)
  BY DEF ScenarioMultiplier
<1>4. \A row, c, k, v : BaseCoefficient(row, c, k, v)' = BaseCoefficient(row, c, k, v)
  BY DEF BaseCoefficient
<1>5. \A c, k : Contribution(c, k, at)' = Contribution(c, k, at)
  BY <1>1, <1>2, <1>3, <1>4 DEF Contribution
<1> QED BY <1>5 DEF WithContributions

-----------------------------------------------------------------------------
\* The flows that have a value, and the sums of nothing.
FlowsNow == {c \in Categories : flow[c] # Undefined}
Zero == [k \in Kpis |-> 0]

\* The tapes are tapes, and the model was at their rows of some time.
Configured ==
  /\ Tape(coefficients) /\ (scenario # None => Tape(scenario))
  /\ now \in Int /\ wake \in Int \cup {None}
  /\ pos \in [Tapes -> Nat] /\ seen \subseteq FlowsNow
  /\ flow \in [Categories -> Flows \cup {Undefined}]

\* What has been calculated is for these rows and the present flows, unless one has changed.
Calculated ==
  changed = {} /\ scenario # None /\ (\A tape \in Tapes : pos[tape] > 0) =>
    output = WithContributions(Zero, FlowsNow, pos)

\* A model that has been called is at the rows of now, and has asked for the next row of each
\* tape, or for an earlier one.
AtTheirRows ==
  answered =>
    /\ changed = {}
    /\ \A tape \in Tapes : HasTape(tape) =>
         /\ pos[tape] = PositionAt(Rows(tape), now)
         /\ (pos[tape] < Len(Rows(tape)) => wake \in Int /\ wake <= Rows(tape)[pos[tape] + 1].time)

KpiInv == Configured /\ Calculated /\ AtTheirRows

\* Before it is called the model is before the first row of its coefficients.
LEMMA InitKpi ==
  ASSUME Init, ConstantsAssumption
  PROVE  KpiInv
<1>1. Tape(coefficients) /\ (scenario # None => Tape(scenario))
  BY DEF Init, ConstantsAssumption
<1>2. pos \in [Tapes -> Nat] /\ pos["coefficients"] = 0
  <2>1. scenario # None => PositionAt(scenario, 0) \in Nat
    BY <1>1, PositionIs
  <2> QED BY <2>1 DEF Init, Tapes
<1>3. Calculated
  BY <1>2 DEF Calculated, Tapes
<1> QED BY <1>1, <1>2, <1>3 DEF Init, KpiInv, Configured, AtTheirRows

\* The flows that are initialized are those that have a value.
LEMMA InitializedAreDefined ==
  ASSUME Configured
  PROVE  InitializedFlows = FlowsNow
BY DEF Configured, InitializedFlows, FlowsNow

\* Of two times one is not later than the other.
LEMMA EarliestOfTwo ==
  ASSUME NEW a \in Int, NEW b \in Int, NEW S, S = {a, b}
  PROVE  \E x \in S : \A y \in S : x <= y
<1>1. a <= b \/ b <= a
  OBVIOUS
<1> QED BY <1>1

\* The earliest of the times to come is one of them, and none is earlier.
LEMMA NextTimeIsEarliest ==
  ASSUME Configured, NEW at \in [Tapes -> Nat]
  PROVE  /\ NextTime(at) \in Int \cup {None}
         /\ \A tape \in Tapes : HasTape(tape) /\ at[tape] < Len(Rows(tape)) =>
              NextTime(at) \in Int /\ NextTime(at) <= Rows(tape)[at[tape] + 1].time
<1> DEFINE coming == {tape \in Tapes : HasTape(tape) /\ at[tape] < Len(Rows(tape))}
           time(tape) == Rows(tape)[at[tape] + 1].time
           times == {time(tape) : tape \in coming}
<1>1. NextTime(at) = IF coming = {} THEN None ELSE Min(times)
  BY DEF NextTime
<1>2. ASSUME NEW tape \in coming PROVE time(tape) \in Int
  <2>1. Tape(Rows(tape)) /\ at[tape] \in Nat /\ at[tape] < Len(Rows(tape))
    BY DEF Configured, HasTape, Rows, Tapes
  <2>2. at[tape] + 1 \in DOMAIN Rows(tape)
    BY <2>1 DEF Tape
  <2> QED BY <2>1, <2>2 DEF Tape
<1> HIDE DEF time
<1>3. ASSUME coming # {}
      PROVE  \E x \in times : \A y \in times : x <= y
  <2>1. PICK one \in coming, other \in coming : coming = {one, other}
    BY <1>3 DEF Tapes
  <2>2. times = {time(one), time(other)} /\ time(one) \in Int /\ time(other) \in Int
    BY <1>2, <2>1
  <2> HIDE DEF times
  <2> QED BY <2>2, EarliestOfTwo
<1>4. coming # {} => Min(times) \in times /\ \A y \in times : Min(times) <= y
  BY <1>3 DEF Min
<1>5. \A tape \in Tapes : HasTape(tape) /\ at[tape] < Len(Rows(tape)) => tape \in coming
  OBVIOUS
<1> HIDE DEF coming
<1>6. coming # {} => Min(times) \in Int
  BY <1>2, <1>4
<1> QED BY <1>1, <1>4, <1>5, <1>6 DEF time

\* A call moves both tapes to the rows of the moment, and calculates if a row or a flow has
\* changed.
LEMMA UpdateKeeps ==
  ASSUME KpiInv, Update
  PROVE  KpiInv'
<1> DEFINE at == ProceedTapes(pos, now)
           calculates == AnyChange(pos, at)
<1>1. /\ ~answered /\ pos' = at
      /\ failed' = (scenario = None \/ (calculates /\ MissingParameters(at)))
      /\ IF failed' THEN UNCHANGED <<seen, changed, output, wake, answered>>
         ELSE /\ output' = IF calculates
                           THEN WithContributions(ResetValues, InitializedFlows, at) ELSE output
              /\ seen' = IF calculates THEN InitializedFlows ELSE seen
              /\ wake' = NextTime(at) /\ changed' = {} /\ answered' = TRUE
      /\ UNCHANGED <<modality, coefficients, scenario, parameters, flow, ready, now>>
  BY DEF Update
<1>2. /\ Tape(coefficients) /\ (scenario # None => Tape(scenario)) /\ now \in Int
      /\ \A tape \in Tapes : HasTape(tape) => Tape(Rows(tape))
  BY DEF KpiInv, Configured, HasTape, Rows
<1>3. \A tape \in Tapes : HasTape(tape) => PositionAt(Rows(tape), now) \in Nat
  BY <1>2, PositionIs
<1>4. at \in [Tapes -> Nat] /\ \A tape \in Tapes : HasTape(tape) => at[tape] = PositionAt(Rows(tape), now)
  BY <1>3 DEF ProceedTapes, KpiInv, Configured
<1>5. InitializedFlows = FlowsNow /\ FlowsNow' = FlowsNow
  BY <1>1, InitializedAreDefined DEF KpiInv, FlowsNow
<1>6. /\ NextTime(at) \in Int \cup {None}
      /\ \A tape \in Tapes : HasTape(tape) /\ at[tape] < Len(Rows(tape)) =>
           NextTime(at) \in Int /\ NextTime(at) <= Rows(tape)[at[tape] + 1].time
  BY <1>4, NextTimeIsEarliest DEF KpiInv
<1>7. ~calculates => at = pos /\ changed = {}
  BY <1>4 DEF AnyChange, HasUpdate, KpiInv, Configured, Tapes
<1>8. calculates /\ MissingParameters(at) => at["scenario"] = 0
  BY DEF MissingParameters
<1> HIDE DEF at, calculates
<1>9. Configured'
  BY <1>1, <1>2, <1>4, <1>5, <1>6 DEF KpiInv, Configured
<1>10. WithContributions(Zero, FlowsNow, pos)' = WithContributions(Zero, FlowsNow, at)
  <2>1. \A values, flows, a : WithContributions(values, flows, a)' = WithContributions(values, flows, a)
    BY <1>1, CalculationStays
  <2>2. Zero' = Zero
    BY DEF Zero
  <2> QED BY <1>1, <1>5, <2>1, <2>2
<1>11. Calculated'
  <2>1. CASE scenario = None
    BY <1>1, <2>1 DEF Calculated
  <2>2. CASE scenario # None /\ calculates /\ failed'
    <3>1. pos'["scenario"] = 0
      BY <1>1, <1>8, <2>2
    <3> QED BY <3>1 DEF Calculated, Tapes
  <2>3. CASE scenario # None /\ calculates /\ ~failed'
    BY <1>1, <1>5, <1>10, <2>3 DEF Calculated, ResetValues, Zero
  <2>4. CASE scenario # None /\ ~calculates
    BY <1>1, <1>7, <1>10, <2>4 DEF KpiInv, Calculated
  <2> QED BY <2>1, <2>2, <2>3, <2>4
<1>12. AtTheirRows'
  <2>1. CASE failed'
    BY <1>1, <2>1 DEF AtTheirRows
  <2>2. CASE ~failed'
    <3> SUFFICES ASSUME NEW tape \in Tapes, HasTape(tape)'
                 PROVE  /\ pos'[tape] = PositionAt(Rows(tape), now)'
                        /\ (pos'[tape] < Len(Rows(tape)') =>
                              wake' \in Int /\ wake' <= Rows(tape)'[pos'[tape] + 1].time)
      BY <1>1, <2>2 DEF AtTheirRows
    <3>1. HasTape(tape) /\ Rows(tape)' = Rows(tape) /\ now' = now
      BY <1>1 DEF HasTape, Rows
    <3> QED BY <1>1, <1>4, <1>6, <2>2, <3>1
  <2> QED BY <2>1, <2>2
<1> QED BY <1>9, <1>11, <1>12 DEF KpiInv

\* Time does not pass a row that comes next unless the model is called at it.
LEMMA NewTimeKeeps ==
  ASSUME KpiInv, NewTime, ConstantsAssumption
  PROVE  KpiInv'
<1>1. /\ changed = {} /\ now' \in Int /\ now < now' /\ answered' = (answered /\ wake # now')
      /\ wake \in Int => now' <= wake
      /\ UNCHANGED <<modality, coefficients, scenario, parameters, pos, flow, seen, changed,
                     output, ready, wake, failed>>
  <2>1. now \in Int /\ wake \in Int \cup {None} /\ None \notin Int /\ End \in Int
    BY DEF KpiInv, Configured, ConstantsAssumption
  <2>2. now' \in (now + 1)..(IF wake = None \/ wake > End THEN End ELSE wake)
    BY DEF NewTime
  <2>3. wake \in Int => now' <= wake
    BY <2>1, <2>2
  <2> QED BY <2>1, <2>2, <2>3 DEF NewTime
<1>2. WithContributions(Zero, FlowsNow, pos)' = WithContributions(Zero, FlowsNow, pos)
  <2>1. \A values, flows, a : WithContributions(values, flows, a)' = WithContributions(values, flows, a)
    BY <1>1, CalculationStays
  <2>2. Zero' = Zero /\ FlowsNow' = FlowsNow
    BY <1>1 DEF Zero, FlowsNow
  <2> QED BY <1>1, <2>1, <2>2
<1>3. Configured' /\ Calculated'
  BY <1>1, <1>2 DEF KpiInv, Configured, Calculated, FlowsNow
<1>4. AtTheirRows'
  <2> SUFFICES ASSUME answered, wake # now', NEW tape \in Tapes, HasTape(tape)'
               PROVE  /\ pos'[tape] = PositionAt(Rows(tape), now)'
                      /\ (pos'[tape] < Len(Rows(tape)') =>
                            wake' \in Int /\ wake' <= Rows(tape)'[pos'[tape] + 1].time)
    BY <1>1 DEF AtTheirRows
  <2>1. HasTape(tape) /\ Rows(tape)' = Rows(tape) /\ pos' = pos /\ wake' = wake
    BY <1>1 DEF HasTape, Rows
  <2>2. /\ pos[tape] = PositionAt(Rows(tape), now)
        /\ pos[tape] < Len(Rows(tape)) => wake \in Int /\ wake <= Rows(tape)[pos[tape] + 1].time
    BY <2>1 DEF KpiInv, AtTheirRows
  <2>3. Tape(Rows(tape)) /\ now \in Int /\ pos[tape] \in Nat
    BY <2>1 DEF KpiInv, Configured, HasTape, Rows
  <2>4. pos[tape] < Len(Rows(tape)) => now' < Rows(tape)[pos[tape] + 1].time
    <3> SUFFICES ASSUME pos[tape] < Len(Rows(tape)) PROVE now' < Rows(tape)[pos[tape] + 1].time
      OBVIOUS
    <3>1. wake \in Int /\ wake <= Rows(tape)[pos[tape] + 1].time /\ now' < wake
      BY <1>1, <2>2
    <3>2. Rows(tape)[pos[tape] + 1].time \in Int
      BY <2>3 DEF Tape
    <3> QED BY <1>1, <3>1, <3>2
  <2>5. PositionAt(Rows(tape), now') = PositionAt(Rows(tape), now)
    <3> DEFINE rows == Rows(tape)
    <3>1. Tape(rows) /\ now \in Int /\ now' \in Int /\ now <= now'
      BY <1>1, <2>3
    <3>2. PositionAt(rows, now) < Len(rows) => now' < rows[PositionAt(rows, now) + 1].time
      BY <2>2, <2>4
    <3> HIDE DEF rows
    <3>3. PositionAt(rows, now') = PositionAt(rows, now)
      BY <3>1, <3>2, PositionStays
    <3> QED BY <3>3 DEF rows
  <2> QED BY <2>1, <2>2, <2>5
<1> QED BY <1>3, <1>4 DEF KpiInv

\* Every step of the model keeps the invariant.
LEMMA KpiNext ==
  ASSUME KpiInv, [Next]_vars, ConstantsAssumption
  PROVE  KpiInv'
<1>1. CASE UNCHANGED vars \/ Initialize
  <2>1. /\ UNCHANGED <<modality, coefficients, scenario, parameters, pos, flow, changed, output, now, wake, answered>>
        /\ seen' = seen \/ seen' = InitializedFlows
    BY <1>1 DEF vars, Initialize
  <2>2. WithContributions(Zero, FlowsNow, pos)' = WithContributions(Zero, FlowsNow, pos)
    <3>1. \A values, flows, a : WithContributions(values, flows, a)' = WithContributions(values, flows, a)
      BY <2>1, CalculationStays
    <3>2. Zero' = Zero /\ FlowsNow' = FlowsNow
      BY <2>1 DEF Zero, FlowsNow
    <3> QED BY <2>1, <3>1, <3>2
  <2>3. InitializedFlows = FlowsNow
    BY InitializedAreDefined DEF KpiInv
  <2>4. Configured' /\ Calculated'
    BY <2>1, <2>2, <2>3 DEF KpiInv, Configured, Calculated, FlowsNow
  <2>5. \A tape \in Tapes : HasTape(tape)' = HasTape(tape) /\ Rows(tape)' = Rows(tape)
    BY <2>1 DEF HasTape, Rows
  <2>6. AtTheirRows'
    BY <2>1, <2>5 DEF KpiInv, AtTheirRows
  <2> QED BY <2>4, <2>6 DEF KpiInv
<1>2. CASE Receive
  <2>1. PICK c \in Categories, v \in Flows : flow' = [flow EXCEPT ![c] = v] /\ changed' = changed \cup {c}
    BY <1>2 DEF Receive
  <2>2. /\ ~answered' /\ changed' # {}
        /\ UNCHANGED <<modality, coefficients, scenario, parameters, pos, seen, now, wake>>
    BY <1>2, <2>1 DEF Receive
  <2>3. Configured'
    BY <2>1, <2>2 DEF KpiInv, Configured, ConstantsAssumption, FlowsNow
  <2> QED BY <2>2, <2>3 DEF KpiInv, Calculated, AtTheirRows
<1> QED BY <1>1, <1>2, UpdateKeeps, NewTimeKeeps DEF Next

\* Whenever the traffic KPI model has been called with all that it received, what it shows is
\* the sum for the rows of both tapes at this moment and for the present flows, as soon as
\* both tapes have begun: no row is slept through between two calls (TrafficKpi: Update,
\* ProceedTapes, NextTime, WithContributions).
THEOREM KpisStayCurrent == ConstantsAssumption /\ Spec => []KpisAreCurrent
<1> SUFFICES ASSUME ConstantsAssumption PROVE Spec => []KpisAreCurrent
  OBVIOUS
<1>1. Init => KpiInv
  BY InitKpi
<1>2. KpiInv /\ [Next]_vars => KpiInv'
  BY KpiNext
<1>3. KpiInv => KpisAreCurrent
  <2> SUFFICES ASSUME KpiInv, answered, scenario # None, \A tape \in Tapes : Present[tape] > 0
               PROVE  output = WithContributions([k \in Kpis |-> 0], {c \in Categories : flow[c] # Undefined}, Present)
    BY DEF KpisAreCurrent
  <2>1. \A tape \in Tapes : HasTape(tape)
    BY DEF HasTape, Tapes
  <2>2. pos = Present /\ changed = {}
    BY <2>1 DEF KpiInv, Configured, AtTheirRows, Present
  <2> QED BY <2>2 DEF KpiInv, Calculated, Zero, FlowsNow
<1> QED BY <1>1, <1>2, <1>3, PTL DEF Spec

(***************************************************************************)
(* The urban drainage models and their engine                              *)
(***************************************************************************)
Stages == {"new", "reopening", "starting", "open", "failed", "closing", "releasing", "closed"}
Engines == [raw : Int, of : Int, input : Values \cup {None}]
Snapshots == [of : Int, seconds : Int]

\* A wrapper owns the engine from before it opens one until it has closed it; none is open
\* before, while a wrapper reopens it, and after.
Owning(w) ==
  /\ engine[w] # None => active = w
  /\ stage[w] \in {"reopening", "starting", "open"} => active = w
  /\ stage[w] \in {"new", "closed"} => active # w
  /\ stage[w] \in {"new", "reopening", "releasing", "closed"} => engine[w] = None

\* The time of an engine's state is the time that is counted for it: from its start, which is
\* the one of the snapshot it is opened from, and so for the snapshots that are made of it.
Timing(w) ==
  /\ stage[w] = "starting" =>
       /\ engine[w] \in Engines /\ engine[w].raw = 0
       /\ engine[w].of = IF pending[w] = None THEN 0 ELSE pending[w].seconds
  /\ stage[w] = "open" => engine[w] \in Engines /\ offset[w] + engine[w].raw = engine[w].of
  /\ snapshot[w] # None => snapshot[w] \in Snapshots /\ snapshot[w].of = snapshot[w].seconds
  /\ pending[w] # None => pending[w] \in Snapshots /\ pending[w].of = pending[w].seconds

\* The last step of the engine had the input of the state, if that is defined.
Following(w) == ran[w] # None => ran[w].input = ran[w].state \/ ran[w].state = None

Types ==
  /\ active \in Wrappers \cup {None} /\ clock \in Int
  /\ stage \in [Wrappers -> Stages] /\ offset \in [Wrappers -> Int]
  /\ array \in [Wrappers -> Values \cup {None}]
  /\ DOMAIN engine = Wrappers /\ DOMAIN snapshot = Wrappers /\ DOMAIN pending = Wrappers
  /\ DOMAIN ran = Wrappers

EngineInv == Types /\ \A w \in Wrappers : Owning(w) /\ Timing(w) /\ Following(w)

-----------------------------------------------------------------------------
\* An engine that starts has the time of what it is opened from.
LEMMA FreshEngine ==
  ASSUME NEW from, from # None => from \in Snapshots
  PROVE  /\ Sewer!Fresh(from) \in Engines /\ Sewer!Fresh(from).raw = 0
         /\ Sewer!Fresh(from).of = IF from = None THEN 0 ELSE from.of
BY DEF Sewer!Fresh, Engines, Snapshots

\* Advancing an engine moves its own clock and the time of its state by the same step.
LEMMA AdvancedEngine ==
  ASSUME EngineInv, Sewer!ConstantsAssumption, NEW w \in Wrappers, stage[w] = "open", NEW seconds \in Int
  PROVE  /\ Sewer!AdvanceTo(w, seconds) \in Engines
         /\ offset[w] + Sewer!AdvanceTo(w, seconds).raw = Sewer!AdvanceTo(w, seconds).of
         /\ Sewer!AdvanceTo(w, seconds).input = array[w] \/ array[w] = None
<1>1. /\ engine[w] \in Engines /\ offset[w] \in Int /\ array[w] \in Values \cup {None}
      /\ offset[w] + engine[w].raw = engine[w].of
  BY DEF EngineInv, Timing, Types
<1>2. engine[w].raw \in Int /\ engine[w].of \in Int /\ engine[w].input \in Values \cup {None} /\ EngineEnd \in Int
  BY <1>1 DEF Engines, Sewer!ConstantsAssumption
<1>3. \E step \in Int : Sewer!AdvanceTo(w, seconds) = [raw |-> engine[w].raw + step, of |-> engine[w].of + step,
                                                 input |-> Sewer!ProcessChanges(w)]
  BY <1>1, <1>2 DEF Sewer!AdvanceTo, Sewer!Elapsed
<1>4. /\ Sewer!ProcessChanges(w) \in Values \cup {None}
      /\ Sewer!ProcessChanges(w) = array[w] \/ array[w] = None
  BY <1>1, <1>2 DEF Sewer!ProcessChanges
<1>5. PICK step \in Int : Sewer!AdvanceTo(w, seconds) = [raw |-> engine[w].raw + step, of |-> engine[w].of + step,
                                                   input |-> Sewer!ProcessChanges(w)]
  BY <1>3
<1>6. engine[w].raw + step \in Int /\ engine[w].of + step \in Int
      /\ offset[w] + (engine[w].raw + step) = engine[w].of + step
  BY <1>1, <1>2
<1> QED BY <1>4, <1>5, <1>6 DEF Engines

\* The wrappers that a step does not touch.
LEMMA OthersStay ==
  ASSUME EngineInv, NEW w \in Wrappers,
         active' = active \/ (active \in {None, w} /\ active' \in {None, w}),
         \A v \in Wrappers \ {w} :
           /\ stage'[v] = stage[v] /\ engine'[v] = engine[v] /\ offset'[v] = offset[v]
           /\ snapshot'[v] = snapshot[v] /\ pending'[v] = pending[v] /\ ran'[v] = ran[v],
         Sewer!ConstantsAssumption
  PROVE  \A v \in Wrappers \ {w} : Owning(v)' /\ Timing(v)' /\ Following(v)'
<1> SUFFICES ASSUME NEW v \in Wrappers \ {w} PROVE Owning(v)' /\ Timing(v)' /\ Following(v)'
  OBVIOUS
<1>1. Owning(v) /\ Timing(v) /\ Following(v) /\ v # None
  BY DEF EngineInv, Sewer!ConstantsAssumption
<1>2. Owning(v)'
  BY <1>1 DEF Owning
<1>3. Timing(v)' /\ Following(v)'
  BY <1>1 DEF Timing, Following
<1> QED BY <1>2, <1>3

\* A wrapper opens an engine, or closes it again.
LEMMA OpeningKeeps ==
  ASSUME EngineInv, Sewer!ConstantsAssumption, NEW w \in Wrappers, Sewer!Claim(w) \/ Sewer!Start(w)
  PROVE  EngineInv'
<1>1. Types /\ Owning(w) /\ Timing(w) /\ Following(w) /\ w # None
  BY DEF EngineInv, Sewer!ConstantsAssumption
<1>2. CASE Sewer!Claim(w)
  <2>1. Types'
    BY <1>1, <1>2 DEF Sewer!Claim, Types, Stages, Sewer!model
  <2>2. \A v \in Wrappers \ {w} : Owning(v)' /\ Timing(v)' /\ Following(v)'
    <3>1. active' = active \/ (active \in {None, w} /\ active' \in {None, w})
      BY <1>2 DEF Sewer!Claim
    <3>2. \A v \in Wrappers \ {w} :
           /\ stage'[v] = stage[v] /\ engine'[v] = engine[v] /\ offset'[v] = offset[v]
           /\ snapshot'[v] = snapshot[v] /\ pending'[v] = pending[v] /\ ran'[v] = ran[v]
      BY <1>1, <1>2 DEF Sewer!Claim, Types, Sewer!model
    <3> QED BY <3>1, <3>2, OthersStay
  <2>3. UNCHANGED <<pending, snapshot, ran, offset>>
    BY <1>2 DEF Sewer!Claim, Sewer!model
  <2>4. ASSUME stage'[w] = "starting", active' = w, engine'[w] = Sewer!Fresh(pending[w])
        PROVE  Owning(w)' /\ Timing(w)' /\ Following(w)'
    <3>1. Owning(w)' /\ Following(w)'
      BY <1>1, <2>3, <2>4 DEF Owning, Following
    <3>2. Timing(w)'
      BY <1>1, <2>3, <2>4, FreshEngine DEF Timing
    <3> QED BY <3>1, <3>2
  <2>5. ASSUME stage'[w] = "failed", UNCHANGED <<active, engine>>
        PROVE  Owning(w)' /\ Timing(w)' /\ Following(w)'
    BY <1>1, <2>3, <2>5 DEF Owning, Timing, Following
  <2>6. \/ stage'[w] = "failed" /\ UNCHANGED <<active, engine>>
        \/ stage'[w] = "starting" /\ active' = w /\ engine'[w] = Sewer!Fresh(pending[w])
    BY <1>1, <1>2 DEF Sewer!Claim, Types
  <2> QED BY <2>1, <2>2, <2>4, <2>5, <2>6 DEF EngineInv
<1>3. CASE Sewer!Start(w)
  <2>1. UNCHANGED <<active, engine, snapshot, pending, ran>> /\ stage[w] = "starting"
    BY <1>3 DEF Sewer!Start, Sewer!model
  <2>2. offset'[w] \in Int /\ \A v \in Wrappers \ {w} : offset'[v] = offset[v] /\ stage'[v] = stage[v]
    BY <1>1, <1>3 DEF Sewer!Start, Types, Timing, Snapshots
  <2>3. Types'
    BY <1>1, <1>3, <2>2 DEF Sewer!Start, Types, Stages, Sewer!model
  <2>4. \A v \in Wrappers \ {w} : Owning(v)' /\ Timing(v)' /\ Following(v)'
    BY <2>1, <2>2, OthersStay
  <2>5. \/ stage'[w] = "open" /\ offset'[w] = IF pending[w] = None THEN 0 ELSE pending[w].seconds
        \/ stage'[w] = "closing"
    BY <1>1, <1>3 DEF Sewer!Start, Types
  <2>6. Owning(w)' /\ Following(w)'
    BY <1>1, <2>1, <2>5 DEF Owning, Following
  <2>7. Timing(w)'
    <3>1. engine[w] \in Engines /\ engine[w].of \in Int
      BY <1>1, <2>1 DEF Timing, Engines
    <3> QED BY <1>1, <2>1, <2>2, <2>5, <3>1 DEF Timing
  <2> QED BY <2>3, <2>4, <2>6, <2>7 DEF EngineInv
<1> QED BY <1>2, <1>3

\* A wrapper is shut down: it gives up the ownership when its engine is closed.
LEMMA ClosingKeeps ==
  ASSUME EngineInv, Sewer!ConstantsAssumption, NEW w \in Wrappers, Sewer!Shutdown(w) \/ Sewer!CloseEngine(w) \/ Sewer!Release(w)
  PROVE  EngineInv'
<1>1. Types /\ Owning(w) /\ Timing(w) /\ Following(w) /\ w # None
  BY DEF EngineInv, Sewer!ConstantsAssumption
<1>2. /\ UNCHANGED <<offset, pending, ran, array, clock>>
      /\ \/ stage'[w] = "closing" /\ UNCHANGED <<active, engine, snapshot>>
         \/ stage'[w] = "releasing" /\ engine'[w] = None /\ UNCHANGED <<active, snapshot>>
         \/ /\ stage[w] = "releasing" /\ stage'[w] = "closed" /\ UNCHANGED engine
            /\ active' = IF active = w THEN None ELSE active
            /\ snapshot'[w] = None
      /\ \A v \in Wrappers \ {w} : stage'[v] = stage[v] /\ engine'[v] = engine[v] /\ snapshot'[v] = snapshot[v]
  BY <1>1 DEF Sewer!Shutdown, Sewer!CloseEngine, Sewer!Release, Sewer!model, Types
<1>3. Types'
  BY <1>1 DEF Sewer!Shutdown, Sewer!CloseEngine, Sewer!Release, Sewer!model, Types, Stages
<1>4. \A v \in Wrappers \ {w} : Owning(v)' /\ Timing(v)' /\ Following(v)'
  BY <1>2, OthersStay
<1>5. Owning(w)' /\ Timing(w)' /\ Following(w)'
  BY <1>1, <1>2 DEF Owning, Timing, Following
<1> QED BY <1>3, <1>4, <1>5 DEF EngineInv

\* A snapshot is made or gone back to: the ownership stays.
LEMMA SnapshotKeeps ==
  ASSUME EngineInv, Sewer!ConstantsAssumption, NEW w \in Wrappers, Sewer!Checkpoint(w) \/ Sewer!Rollback(w)
  PROVE  EngineInv'
<1>1. Types /\ Owning(w) /\ Timing(w) /\ Following(w) /\ w # None
  BY DEF EngineInv, Sewer!ConstantsAssumption
<1>2. /\ UNCHANGED <<active, offset, ran, array, clock>> /\ stage[w] = "open"
      /\ \/ /\ stage'[w] = "open" /\ UNCHANGED <<engine, pending>>
            /\ snapshot'[w] = [of |-> engine[w].of, seconds |-> offset[w] + engine[w].raw]
         \/ /\ stage'[w] = "reopening" /\ engine'[w] = None /\ snapshot' = snapshot
            /\ snapshot[w] # None /\ pending'[w] = snapshot[w]
      /\ \A v \in Wrappers \ {w} : /\ stage'[v] = stage[v] /\ engine'[v] = engine[v]
                                   /\ snapshot'[v] = snapshot[v] /\ pending'[v] = pending[v]
  BY <1>1 DEF Sewer!Checkpoint, Sewer!Rollback, Sewer!Elapsed, Sewer!model, Types
<1>3. Types'
  BY <1>1 DEF Sewer!Checkpoint, Sewer!Rollback, Sewer!model, Types, Stages
<1>4. \A v \in Wrappers \ {w} : Owning(v)' /\ Timing(v)' /\ Following(v)'
  BY <1>2, OthersStay
<1>5. Owning(w)' /\ Following(w)'
  BY <1>1, <1>2 DEF Owning, Following
<1>6. Timing(w)'
  <2>1. engine[w] \in Engines /\ engine[w].of \in Int /\ offset[w] + engine[w].raw = engine[w].of
    BY <1>1, <1>2 DEF Timing, Engines
  <2>2. [of |-> engine[w].of, seconds |-> offset[w] + engine[w].raw] \in Snapshots
    BY <2>1 DEF Snapshots
  <2> QED BY <1>1, <1>2, <2>1, <2>2 DEF Timing
<1> QED BY <1>3, <1>4, <1>5, <1>6 DEF EngineInv

\* An open engine is advanced, with what the model has received.
LEMMA RunningKeeps ==
  ASSUME EngineInv, Sewer!ConstantsAssumption, NEW w \in Wrappers, Sewer!Receive(w) \/ Sewer!Update(w)
  PROVE  EngineInv'
<1>1. Types /\ Owning(w) /\ Timing(w) /\ Following(w) /\ w # None
  BY DEF EngineInv, Sewer!ConstantsAssumption
<1>2. CASE Sewer!Receive(w)
  <2>1. UNCHANGED <<active, stage, engine, offset, snapshot, pending, ran, clock>>
    BY <1>2 DEF Sewer!Receive
  <2>2. array' \in [Wrappers -> Values \cup {None}]
    BY <1>1, <1>2 DEF Sewer!Receive, Types
  <2>3. Types'
    BY <1>1, <2>1, <2>2 DEF Types
  <2>4. \A v \in Wrappers : Owning(v)' /\ Timing(v)' /\ Following(v)'
    BY <2>1 DEF EngineInv, Owning, Timing, Following
  <2> QED BY <2>3, <2>4 DEF EngineInv
<1>3. CASE Sewer!Update(w)
  <2>1. /\ UNCHANGED <<active, stage, offset, snapshot, pending, array, clock>> /\ stage[w] = "open"
        /\ engine'[w] = Sewer!AdvanceTo(w, clock * TimeScale)
        /\ ran'[w] = [input |-> engine'[w].input, state |-> array[w], start |-> began[w],
                      moved |-> engine'[w].of # engine[w].of]
        /\ DOMAIN engine' = Wrappers /\ DOMAIN ran' = Wrappers
        /\ \A v \in Wrappers \ {w} : engine'[v] = engine[v] /\ ran'[v] = ran[v]
    BY <1>1, <1>3 DEF Sewer!Update, Types
  <2>2. clock * TimeScale \in Int
    BY <1>1 DEF Types, Sewer!ConstantsAssumption
  <2>3. /\ engine'[w] \in Engines /\ offset[w] + engine'[w].raw = engine'[w].of
        /\ engine'[w].input = array[w] \/ array[w] = None
    BY <2>1, <2>2, AdvancedEngine
  <2>4. Types'
    BY <1>1, <2>1 DEF Types
  <2>5. \A v \in Wrappers \ {w} : Owning(v)' /\ Timing(v)' /\ Following(v)'
    BY <2>1, OthersStay
  <2>6. Owning(w)' /\ Timing(w)' /\ Following(w)'
    BY <1>1, <2>1, <2>3 DEF Owning, Timing, Following
  <2> QED BY <2>4, <2>5, <2>6 DEF EngineInv
<1> QED BY <1>2, <1>3

\* EngineInv is an invariant of the models and their engines.
LEMMA EngineInvHolds == ASSUME Sewer!ConstantsAssumption PROVE Sewer!Spec => []EngineInv
<1>1. Sewer!Init => EngineInv
  <2> SUFFICES ASSUME Sewer!Init PROVE EngineInv
    OBVIOUS
  <2>1. Types
    BY DEF Sewer!Init, Types, Stages
  <2>2. \A w \in Wrappers : Owning(w) /\ Timing(w) /\ Following(w)
    BY DEF Sewer!Init, Owning, Timing, Following, Sewer!ConstantsAssumption
  <2> QED BY <2>1, <2>2 DEF EngineInv
<1>2. ASSUME EngineInv, [Sewer!Next]_(Sewer!vars) PROVE EngineInv'
  <2>1. CASE Sewer!NextMoment
    <3>1. UNCHANGED <<active, stage, engine, offset, snapshot, pending, array, ran>> /\ clock' \in Int
      BY <1>2, <2>1 DEF Sewer!NextMoment, EngineInv, Types, Sewer!ConstantsAssumption
    <3> QED BY <1>2, <3>1 DEF EngineInv, Types, Owning, Timing, Following
  <2>2. CASE UNCHANGED Sewer!vars
    BY <1>2, <2>2 DEF EngineInv, Types, Owning, Timing, Following, Sewer!vars
  <2>3. ASSUME NEW w \in Wrappers,
               \/ Sewer!Claim(w) \/ Sewer!Start(w) \/ Sewer!Shutdown(w) \/ Sewer!CloseEngine(w) \/ Sewer!Release(w)
               \/ Sewer!Checkpoint(w) \/ Sewer!Rollback(w) \/ Sewer!Receive(w) \/ Sewer!Update(w)
        PROVE  EngineInv'
    BY <1>2, <2>3, OpeningKeeps, ClosingKeeps, SnapshotKeeps, RunningKeeps
  <2> QED BY <1>2, <2>1, <2>2, <2>3 DEF Sewer!Next
<1> QED BY <1>1, <1>2, PTL DEF Sewer!Spec

\* The engine allows one open simulation in a process: whatever fails or is rolled back, a
\* wrapper has an engine while it owns it only, and leaves nothing behind for the next one.
THEOREM OneEngineAtATime == ASSUME Sewer!ConstantsAssumption PROVE Sewer!Spec => []Sewer!OneOwner
<1>1. EngineInv => Sewer!OneOwner
  BY DEF EngineInv, Sewer!OneOwner, Types, Owning
<1> QED BY <1>1, EngineInvHolds, PTL

\* An engine that is open is at the time that its model counts, also after a rollback, and each
\* of its steps had the input of the state.
THEOREM EnginesFollow == ASSUME Sewer!ConstantsAssumption PROVE Sewer!Spec => []Sewer!EngineFollowsModel
<1>1. EngineInv => Sewer!EngineFollowsModel
  BY DEF EngineInv, Sewer!EngineFollowsModel, Timing, Following, Sewer!Elapsed
<1> QED BY <1>1, EngineInvHolds, PTL

(***************************************************************************)
(* The drinking water model                                                *)
(***************************************************************************)
\* Of all elements but the lost ones, the settings are what the inputs ask for.
Told(settings, wanted, lost) ==
  \A e \in Water!Elements \ lost : settings[e] = Water!Settings(wanted)[e]

\* The simulation is at the moment of the last update, with the settings that the state asks
\* for, and of the time that it has not simulated yet it was known that these hold; except
\* for the elements of which the solver was not told the last change.
Fed ==
  simulated # Undefined =>
    /\ simulated = (IF calculated = -1 THEN 0 ELSE Water!AtLeastOne(calculated))
    /\ DOMAIN used = 1..simulated
    /\ Told(elements, inputs, missed)
    /\ \A u \in DOMAIN known \ DOMAIN used : u > 1 =>
         \A e \in Water!Elements \ known[u].missed : known[u].asked[e] = elements[e]

Moments ==
  /\ moment \in Nat /\ calculated \in Nat \cup {-1} /\ calculated <= moment
  /\ (calculated = -1 => moment = 0)
  /\ DOMAIN known = 1..moment /\ simulated \in Nat \cup {Undefined}

WaterInv ==
  /\ Moments /\ Fed /\ Water!PassedOnChangesActInTime
  /\ driven \in Water!Elements /\ inputs["power"] # Undefined
  /\ (calculated = -1 => missed = {})

\* The run of the simulation ends at the moment of the update, or fails.
LEMMA RunsToTheMoment ==
  ASSUME Water!ConstantsAssumption, NEW m \in Nat
  PROVE  /\ Water!RunSimulation(m) \in {Undefined, Water!AtLeastOne(m)}
         /\ (simulated = Undefined => Water!RunSimulation(m) = Undefined)
<1> DEFINE n == Water!AtLeastOne(m)
           s == Water!StepFor(m)
           p == (n \div s) * s
<1>1. n \in Nat \ {0} /\ s \in Nat \ {0}
  BY DEF Water!AtLeastOne, Water!StepFor, Water!ConstantsAssumption
<1> HIDE DEF n, s
<1>2. n \div s \in Nat /\ p \in Nat /\ p <= n
  BY <1>1
<1>3. Water!ProgressTo(m) = p
  BY DEF Water!ProgressTo, n, s
<1>4. (p \div s) * s <= p /\ p \div s \in Nat
  BY <1>1, <1>2
<1>5. Water!RunSim(simulated, p, s) \in {Undefined, (p \div s) * s}
  BY DEF Water!RunSim
<1>6. n \div n = 1 /\ (n \div n) * n = n
  <2>1. n \div n = 1
    BY <1>1
  <2> QED BY <1>1, <2>1
<1>7. \A from : Water!RunSim(from, n, n) \in {Undefined, n}
  BY <1>6 DEF Water!RunSim
<1>8. p = n => (p \div s) * s = p
  BY DEF p
<1> QED BY <1>2, <1>3, <1>5, <1>7, <1>8, <1>1 DEF Water!RunSimulation, Water!RunSim, n, s

\* What the settings of an element are depends on its own inputs only.
LEMMA SettingsOfInputs ==
  ASSUME NEW a, NEW b, NEW e \in Water!Elements, \A i \in Water!InputsOf[e] : a[i] = b[i]
  PROVE  Water!Settings(a)[e] = Water!Settings(b)[e]
<1>1. e \in {"junction", "reservoir", "pipe", "pump", "valve"}
  BY DEF Water!Elements, Water!InputsOf
<1>2. CASE e = "junction"
  BY <1>2 DEF Water!Settings, Water!InputsOf, Water!JunctionDemand
<1>3. CASE e = "reservoir"
  BY <1>3 DEF Water!Settings, Water!InputsOf, Water!ReservoirHead
<1>4. CASE e = "pipe"
  BY <1>4 DEF Water!Settings, Water!InputsOf, Water!PipeStatus
<1>5. CASE e = "pump"
  BY <1>5 DEF Water!Settings, Water!InputsOf, Water!PumpSetting
<1>6. CASE e = "valve"
  BY <1>6 DEF Water!Settings, Water!InputsOf, Water!ValveStatus
<1> QED BY <1>1, <1>2, <1>3, <1>4, <1>5, <1>6

\* The settings of a state are those of its inputs.
LEMMA SettingsNext == Water!Settings(inputs)' = Water!Settings(inputs')
BY DEF Water!Settings, Water!JunctionDemand, Water!ReservoirHead, Water!PipeStatus, Water!PumpSetting,
       Water!ValveStatus

\* A pump that has a power keeps having one, and an update without data changes nothing.
LEMMA PowerStays ==
  ASSUME Water!ConstantsAssumption, driven \in Water!Elements, NEW data \in Water!Data,
         inputs["power"] # Undefined
  PROVE  Water!Received(data)["power"] # Undefined
<1>1. "power" \in Water!Inputs /\ \A e \in Water!Elements : Water!InputsOf[e] \subseteq Water!Inputs
  BY DEF Water!Inputs, Water!Elements, Water!InputsOf
<1>2. ASSUME NEW i \in Water!Inputs, i \in DOMAIN data PROVE data[i] \in Int
  <2>1. data = <<>> \/ \E j \in Water!Inputs : data \in [{j} -> Water!ValuesOf(j)]
    BY <1>1 DEF Water!Data
  <2>2. \A j : Water!ValuesOf(j) \subseteq Int
    BY DEF Water!ValuesOf
  <2>3. data # <<>>
    BY <1>2
  <2> QED BY <1>2, <2>1, <2>2, <2>3
<1> QED BY <1>1, <1>2 DEF Water!Received, Water!ConstantsAssumption

\* A pump with a power is updated as it would be created, and so is every other element.
LEMMA UpdatedAsCreated ==
  ASSUME NEW a, a["power"] # Undefined, NEW e \in Water!Elements
  PROVE  Water!Updated(a)[e] = Water!Settings(a)[e]
BY DEF Water!Updated, Water!Settings, Water!PumpUpdate, Water!PumpSetting, Water!OptVal

\* An element of which an input changes looks at its inputs, and the others keep what they
\* ask for: the elements the solver has been told of stay so, and those that look are added.
LEMMA ChangesReachTheSolver ==
  ASSUME Water!ConstantsAssumption, driven \in Water!Elements, NEW data \in Water!Data,
         inputs["power"] # Undefined, NEW lost, Told(elements, inputs, lost)
  PROVE  LET wanted == Water!Received(data)
             touched == Water!Touched(Water!ChangedBy(data))
         IN /\ Told(Water!ProcessChanges(wanted, Water!ChangedBy(data)), wanted, lost \ touched)
            /\ Told(elements, wanted, lost \cup touched)
<1> DEFINE wanted == Water!Received(data)
           altered == Water!ChangedBy(data)
           touched == Water!Touched(altered)
<1>1. \A i \in Water!Inputs : wanted[i] = inputs[i] \/ i \in altered
  BY DEF Water!Received, Water!ChangedBy
<1>2. \A e \in Water!Elements : Water!InputsOf[e] \subseteq Water!Inputs
  BY DEF Water!Inputs, Water!Elements, Water!InputsOf
<1>3. wanted["power"] # Undefined
  BY PowerStays
<1> HIDE DEF wanted, altered
<1>4. ASSUME NEW e \in Water!Elements, e \notin touched
      PROVE  Water!Settings(wanted)[e] = Water!Settings(inputs)[e]
  <2>1. Water!InputsOf[e] \cap altered = {}
    BY <1>4 DEF Water!Touched
  <2>2. \A i \in Water!InputsOf[e] : wanted[i] = inputs[i]
    BY <1>1, <1>2, <2>1
  <2> QED BY <2>2, SettingsOfInputs
<1>5. \A e \in Water!Elements :
        Water!ProcessChanges(wanted, altered)[e] =
          IF e \in touched THEN Water!Updated(wanted)[e] ELSE elements[e]
  BY DEF Water!ProcessChanges
<1>6. \A e \in Water!Elements : Water!Updated(wanted)[e] = Water!Settings(wanted)[e]
  BY <1>3, UpdatedAsCreated
<1> HIDE DEF touched
<1>7. Told(Water!ProcessChanges(wanted, altered), wanted, lost \ touched)
  BY <1>4, <1>5, <1>6 DEF Told
<1>8. Told(elements, wanted, lost \cup touched)
  BY <1>4 DEF Told
<1> QED BY <1>7, <1>8 DEF wanted, altered, touched

\* The simulation begins at 0 with what the arrays ask for.
LEMMA InitWater ==
  ASSUME Water!Init, Water!ConstantsAssumption
  PROVE  WaterInv
<1>1. DOMAIN <<>> = {} /\ 1..0 = {}
  OBVIOUS
<1>2. inputs["power"] # Undefined
  BY DEF Water!Init, Water!Required, Water!ConstantsAssumption
<1>3. Moments
  BY <1>1 DEF Water!Init, Moments
<1>4. Told(elements, inputs, missed)
  BY DEF Water!Init, Told
<1>5. Fed
  BY <1>1, <1>4 DEF Water!Init, Fed
<1>6. Water!PassedOnChangesActInTime
  BY <1>1 DEF Water!Init, Water!PassedOnChangesActInTime
<1> QED BY <1>2, <1>3, <1>5, <1>6 DEF Water!Init, WaterInv

\* An update simulates the time up to its moment with the settings that were known for it, and
\* passes on what it has changed; the first update keeps its changes to itself.
LEMMA WaterUpdateKeeps ==
  ASSUME WaterInv, Water!ConstantsAssumption, NEW data \in Water!Data, Water!Update(data)
  PROVE  WaterInv'
<1> DEFINE wanted == Water!Received(data)
           result == Water!RunSimulation(moment)
           processed == Water!ProcessChanges(wanted, Water!ChangedBy(data))
           touched == Water!Touched(Water!ChangedBy(data))
<1>1. /\ moment > calculated
      /\ inputs' = wanted /\ simulated' = result
      /\ UNCHANGED <<driven, known, moment>>
      /\ IF result = Undefined
         THEN UNCHANGED <<elements, used, missed, published, calculated, nextMoment>>
         ELSE /\ used' = [u \in 1..result |-> IF u \in DOMAIN used THEN used[u] ELSE elements]
              /\ elements' = IF calculated = -1 THEN elements ELSE processed
              /\ missed' = IF calculated = -1 THEN touched ELSE missed \ touched
              /\ calculated' = moment
  BY DEF Water!Update
<1>2. /\ moment \in Nat /\ calculated \in Nat \cup {-1} /\ calculated <= moment
      /\ (calculated = -1 => moment = 0)
      /\ DOMAIN known = 1..moment /\ simulated \in Nat \cup {Undefined}
      /\ inputs["power"] # Undefined
      /\ driven \in Water!Elements /\ Undefined \notin Int
  BY DEF WaterInv, Moments, Water!ConstantsAssumption
<1>3. result \in {Undefined, Water!AtLeastOne(moment)} /\ (simulated = Undefined => result = Undefined)
      /\ Water!AtLeastOne(moment) \in Nat /\ Water!AtLeastOne(moment) >= moment
      /\ Water!AtLeastOne(moment) >= 1
  BY <1>2, RunsToTheMoment DEF Water!AtLeastOne
<1>4. simulated # Undefined =>
        /\ (calculated = -1 => simulated = 0)
        /\ (calculated # -1 => simulated = Water!AtLeastOne(calculated))
        /\ DOMAIN used = 1..simulated
        /\ Told(elements, inputs, missed)
        /\ \A u \in DOMAIN known \ DOMAIN used : u > 1 =>
             \A e \in Water!Elements \ known[u].missed : known[u].asked[e] = elements[e]
  BY DEF WaterInv, Fed
<1>5. inputs'["power"] # Undefined
  BY <1>1, <1>2, PowerStays
<1>6. simulated # Undefined =>
        /\ Told(processed, wanted, missed \ touched)
        /\ Told(elements, wanted, missed \cup touched)
  BY <1>2, <1>4, ChangesReachTheSolver
<1> HIDE DEF wanted, result, processed, touched
<1>7. CASE result = Undefined
  <2>1. UNCHANGED <<elements, used, calculated, moment, known>> /\ simulated' = Undefined
    BY <1>1, <1>7
  <2>2. Moments' /\ Fed' /\ Water!PassedOnChangesActInTime'
    BY <1>2, <2>1 DEF Moments, Fed, Water!PassedOnChangesActInTime, WaterInv
  <2> QED BY <1>1, <1>2, <1>5, <2>2 DEF WaterInv
<1>8. CASE result # Undefined
  <2>1. simulated # Undefined /\ result = Water!AtLeastOne(moment)
    BY <1>3, <1>8
  <2>2. Told(elements', wanted, missed')
    <3>1. CASE calculated = -1
      <4>1. Told(elements, wanted, missed \cup touched)
        BY <1>6, <2>1
      <4>2. missed = {}
        BY <3>1 DEF WaterInv
      <4> QED BY <1>1, <1>8, <3>1, <4>1, <4>2
    <3>2. CASE calculated # -1
      BY <1>1, <1>6, <1>8, <2>1, <3>2
    <3> QED BY <3>1, <3>2
  <2>3. Told(elements, inputs, missed)'
    BY <1>1, <2>2, SettingsNext DEF Told
  <2>4. Moments'
    BY <1>1, <1>2, <1>3, <1>8, <2>1 DEF Moments
  <2>5. DOMAIN used' = 1..result /\ DOMAIN known' \subseteq DOMAIN used'
    BY <1>1, <1>2, <1>3, <1>8, <2>1
  <2>6. Fed'
    BY <1>1, <1>2, <1>3, <1>8, <2>1, <2>3, <2>5 DEF Fed, Water!AtLeastOne
  <2>7. ASSUME NEW u \in DOMAIN used' \cap DOMAIN known', NEW e \in Water!Elements,
               u > 1, e \notin known'[u].missed
        PROVE  used'[u][e] = known'[u].asked[e]
    <3>1. u \in DOMAIN known /\ known'[u] = known[u]
      BY <1>1, <2>7
    <3>2. used'[u] = IF u \in DOMAIN used THEN used[u] ELSE elements
      BY <1>1, <1>8, <2>7
    <3> QED BY <1>4, <2>1, <2>7, <3>1, <3>2 DEF WaterInv, Water!PassedOnChangesActInTime
  <2>8. Water!PassedOnChangesActInTime'
    BY <2>7 DEF Water!PassedOnChangesActInTime
  <2>9. (calculated' = -1 => missed' = {})
    BY <1>1, <1>2, <1>8
  <2> QED BY <1>1, <1>2, <1>5, <2>4, <2>6, <2>8, <2>9 DEF WaterInv
<1> QED BY <1>7, <1>8

\* Later changes at the moment of the last update are passed on.
LEMMA WaterUpdateAgainKeeps ==
  ASSUME WaterInv, Water!ConstantsAssumption, NEW data \in Water!Data, Water!UpdateAgain(data)
  PROVE  WaterInv'
<1> DEFINE wanted == Water!Received(data)
           processed == Water!ProcessChanges(wanted, Water!ChangedBy(data))
           touched == Water!Touched(Water!ChangedBy(data))
<1>1. /\ calculated = moment /\ simulated # Undefined /\ inputs' = wanted
      /\ elements' = processed /\ missed' = missed \ touched
      /\ UNCHANGED <<driven, simulated, used, known, calculated, moment>>
  BY DEF Water!UpdateAgain
<1>2. /\ Told(elements, inputs, missed) /\ driven \in Water!Elements /\ inputs["power"] # Undefined
      /\ moment \in Nat
  BY <1>1 DEF WaterInv, Fed, Moments
<1>3. Told(processed, wanted, missed \ touched) /\ wanted["power"] # Undefined
  BY <1>2, ChangesReachTheSolver, PowerStays
<1> HIDE DEF wanted, processed, touched
<1>4. Told(elements, inputs, missed)'
  BY <1>1, <1>3, SettingsNext DEF Told
<1>5. DOMAIN known \subseteq DOMAIN used
  <2>1. moment \in Nat /\ DOMAIN known = 1..moment /\ DOMAIN used = 1..Water!AtLeastOne(moment)
    BY <1>1 DEF WaterInv, Moments, Fed
  <2> QED BY <2>1 DEF Water!AtLeastOne
<1>6. Moments'
  BY <1>1 DEF WaterInv, Moments
<1>7. Fed'
  BY <1>1, <1>4, <1>5 DEF WaterInv, Fed, Water!AtLeastOne
<1>8. Water!PassedOnChangesActInTime'
  BY <1>1 DEF WaterInv, Water!PassedOnChangesActInTime
<1> QED BY <1>1, <1>2, <1>3, <1>6, <1>7, <1>8 DEF WaterInv

\* The time that passes is known to have the settings of the state.
LEMMA WaterMomentKeeps ==
  ASSUME WaterInv, Water!ConstantsAssumption, Water!NextMoment
  PROVE  WaterInv'
<1>1. /\ calculated = moment /\ simulated # Undefined /\ moment' \in Int /\ moment' > moment
      /\ known' = [t \in 1..moment' |->
                     IF t \in DOMAIN known THEN known[t]
                     ELSE [asked |-> Water!Settings(inputs), missed |-> missed]]
      /\ UNCHANGED <<driven, inputs, elements, simulated, used, missed, calculated>>
  BY DEF Water!NextMoment, WaterInv, Moments
<1>2. /\ moment \in Nat /\ DOMAIN known = 1..moment /\ DOMAIN used = 1..Water!AtLeastOne(moment)
      /\ Told(elements, inputs, missed)
      /\ simulated = Water!AtLeastOne(calculated) /\ simulated \in Nat
  BY <1>1 DEF WaterInv, Moments, Fed, Water!AtLeastOne
<1>3. Told(elements, inputs, missed)'
  BY <1>1, <1>2, SettingsNext DEF Told
<1>4. Moments'
  BY <1>1, <1>2 DEF WaterInv, Moments
<1>5. ASSUME NEW u \in DOMAIN known' \ DOMAIN used, NEW e \in Water!Elements \ known'[u].missed
      PROVE  known'[u].asked[e] = elements[e]
  <2>1. u \notin DOMAIN known
    BY <1>2, <1>5 DEF Water!AtLeastOne
  <2>2. known'[u] = [asked |-> Water!Settings(inputs), missed |-> missed]
    BY <1>1, <1>5, <2>1
  <2> QED BY <1>2, <1>5, <2>2 DEF Told
<1>6. Fed'
  BY <1>1, <1>2, <1>3, <1>5 DEF WaterInv, Fed, Water!AtLeastOne
<1>7. ASSUME NEW u \in DOMAIN used' \cap DOMAIN known', u > 1
      PROVE  u \in DOMAIN used \cap DOMAIN known /\ used'[u] = used[u] /\ known'[u] = known[u]
  <2>1. u \in 1..moment
    BY <1>1, <1>2, <1>7 DEF Water!AtLeastOne
  <2> QED BY <1>1, <1>2, <1>7, <2>1
<1>8. Water!PassedOnChangesActInTime'
  BY <1>7 DEF WaterInv, Water!PassedOnChangesActInTime
<1> QED BY <1>1, <1>4, <1>6, <1>8 DEF WaterInv

\* The drinking water model: a change that is received at a moment takes effect from that
\* moment onward, whatever the time steps and however often others make the model run before
\* the moment it asked for; the exception is an element that changed with the first update
\* and not since (network_wrapper.py
\* run_simulation, process_changes; model.py:202-205).
THEOREM WaterActsInTime ==
  Water!ConstantsAssumption /\ Water!Spec => []Water!PassedOnChangesActInTime
<1> SUFFICES ASSUME Water!ConstantsAssumption
             PROVE  Water!Spec => []Water!PassedOnChangesActInTime
  OBVIOUS
<1>1. Water!Init => WaterInv
  BY InitWater
<1>2. ASSUME WaterInv, [Water!Next]_(Water!vars) PROVE WaterInv'
  <2>1. CASE UNCHANGED Water!vars
    <3>1. Water!Settings(inputs)' = Water!Settings(inputs)
      BY <2>1, SettingsNext DEF Water!vars
    <3> QED BY <1>2, <2>1, <3>1 DEF Water!vars, WaterInv, Moments, Fed, Told, Water!PassedOnChangesActInTime
  <2> QED BY <1>2, <2>1, WaterUpdateKeeps, WaterUpdateAgainKeeps, WaterMomentKeeps DEF Water!Next
<1>3. WaterInv => Water!PassedOnChangesActInTime
  BY DEF WaterInv
<1> QED BY <1>1, <1>2, <1>3, PTL DEF Water!Spec

(***************************************************************************)
(* Timelines                                                               *)
(***************************************************************************)
\* The numbers of members that the models speak of are those of their sets.
LEMMA SameCardinality ==
  /\ \A S : Players!Cardinality(S) = Cardinality(S) /\ Windows!Cardinality(S) = Cardinality(S)
  /\ \A S : Windows!IsFiniteSet(S) <=> IsFiniteSet(S)
<1>1. \A S : Players!Cardinality(S) = Cardinality(S)
  BY DEF Players!Cardinality, Cardinality
<1>2. \A S : Windows!Cardinality(S) = Cardinality(S)
  BY DEF Windows!Cardinality, Cardinality
<1>3. \A S : Windows!IsFiniteSet(S) <=> IsFiniteSet(S)
  BY DEF Windows!IsFiniteSet, IsFiniteSet
<1> QED BY <1>1, <1>2, <1>3

\* Of some places one is the last.
LEMMA LastPlace ==
  ASSUME NEW n \in Nat, NEW S \in SUBSET (1..n), S # {}
  PROVE  \E x \in S : \A y \in S : y <= x
<1> DEFINE D == {i \in 1..n : \E y \in S : i <= y}
           m == Cardinality(D)
<1>1. D \in SUBSET (1..n) /\ \A i \in D : \A j \in 1..n : j <= i => j \in D
  OBVIOUS
<1>2. S \subseteq D
  OBVIOUS
<1>3. m \in 0..n /\ D = 1..m
  <2> HIDE DEF D
  <2> QED BY <1>1, FirstPlaces
<1>4. \A i \in D : \E y \in S : i <= y
  OBVIOUS
<1> HIDE DEF D, m
<1>5. m \in D /\ \A y \in S : y \in Nat /\ y <= m
  <2>1. \A y \in S : y \in 1..m
    BY <1>2, <1>3
  <2>2. m \in 1..m
    <3>1. PICK y \in S : TRUE
      OBVIOUS
    <3> QED BY <1>3, <2>1, <3>1
  <2> QED BY <1>3, <2>1, <2>2
<1>6. PICK y \in S : m <= y
  BY <1>4, <1>5
<1>7. y = m
  BY <1>3, <1>5, <1>6
<1> QED BY <1>5, <1>7

\* A total order R of a set, and the place of its members: as many as come before, and itself.
InTotalOrder(S, R) ==
  /\ \A i \in S : <<i, i>> \in R
  /\ \A i, j \in S : <<i, j>> \in R \/ <<j, i>> \in R
  /\ \A i, j \in S : i # j /\ <<i, j>> \in R => <<j, i>> \notin R
  /\ \A h, i, j \in S : <<h, i>> \in R /\ <<i, j>> \in R => <<h, j>> \in R
PlacesIn(S, R) == [i \in S |-> Cardinality({j \in S : <<j, i>> \in R})]

\* The members of a finite set have a place each, and every place is taken.
LEMMA PlacesInOrder ==
  ASSUME NEW S, IsFiniteSet(S), NEW R, InTotalOrder(S, R)
  PROVE  /\ Cardinality(S) \in Nat /\ PlacesIn(S, R) \in [S -> 1..Cardinality(S)]
         /\ \A i, j \in S : i # j /\ <<i, j>> \in R => PlacesIn(S, R)[i] < PlacesIn(S, R)[j]
         /\ \A i, j \in S : i # j => PlacesIn(S, R)[i] # PlacesIn(S, R)[j]
         /\ \A k \in 1..Cardinality(S) : \E i \in S : PlacesIn(S, R)[i] = k
<1> DEFINE r == PlacesIn(S, R)
           n == Cardinality(S)
           Upto(i) == {j \in S : <<j, i>> \in R}
<1>1. n \in Nat
  BY FS_CardinalityType
<1>2. ASSUME NEW i \in S
      PROVE  IsFiniteSet(Upto(i)) /\ r[i] = Cardinality(Upto(i)) /\ r[i] \in 1..n
  <2>1. Upto(i) \subseteq S /\ i \in Upto(i) /\ r[i] = Cardinality(Upto(i))
    BY DEF InTotalOrder, PlacesIn
  <2> HIDE DEF Upto
  <2>2. IsFiniteSet(Upto(i)) /\ Cardinality(Upto(i)) \in Nat /\ Cardinality(Upto(i)) <= n
    BY <2>1, FS_Subset, FS_CardinalityType
  <2>3. Cardinality(Upto(i)) # 0
    BY <2>1, <2>2, FS_EmptySet
  <2> QED BY <1>1, <2>1, <2>2, <2>3
<1>3. ASSUME NEW i \in S, NEW j \in S, i # j, <<i, j>> \in R
      PROVE  r[i] < r[j]
  <2>1. Upto(i) \subseteq Upto(j) /\ j \in Upto(j) /\ j \notin Upto(i)
    BY <1>3 DEF InTotalOrder
  <2> HIDE DEF Upto
  <2>2. r[i] <= r[j] /\ r[i] # r[j]
    BY <1>2, <2>1, FS_Subset
  <2>3. r[i] \in Int /\ r[j] \in Int
    BY <1>1, <1>2
  <2> QED BY <2>2, <2>3
<1>4. r \in [S -> 1..n]
  BY <1>2 DEF PlacesIn
<1>5. ASSUME NEW i \in S, NEW j \in S, i # j PROVE r[i] # r[j]
  <2>1. r[i] < r[j] \/ r[j] < r[i]
    BY <1>3, <1>5 DEF InTotalOrder
  <2>2. r[i] \in Int /\ r[j] \in Int
    BY <1>1, <1>4
  <2> QED BY <2>1, <2>2
<1> HIDE DEF n, r, Upto
<1>6. r \in Injection(S, 1..n)
  <2>1. \A i, j \in S : r[i] = r[j] => i = j
    BY <1>5
  <2> QED BY <1>4, <2>1 DEF Injection, IsInjective
<1>7. IsFiniteSet(1..n) /\ Cardinality(1..n) = n
  BY <1>1, FirstNumbers
<1>8. r \in Surjection(S, 1..n)
  BY <1>6, <1>7, FS_Injection DEF n
<1>9. \A k \in 1..n : \E i \in S : r[i] = k
  BY <1>8 DEF Surjection
<1>10. n \in Nat /\ r \in [S -> 1..n] /\ \A k \in 1..n : \E i \in S : r[i] = k
  BY <1>1, <1>4, <1>9
<1>11. /\ \A i, j \in S : i # j /\ <<i, j>> \in R => r[i] < r[j]
       /\ \A i, j \in S : i # j => r[i] # r[j]
  BY <1>3, <1>5
<1> QED BY <1>10, <1>11 DEF n, r

-----------------------------------------------------------------------------
\* A list of items with times, and one that is in descending order.
Timed(items) ==
  /\ Len(items) \in Nat /\ DOMAIN items = 1..Len(items)
  /\ \A i \in DOMAIN items : items[i].time \in Int
Descending(items) == \A i, j \in DOMAIN items : i < j => items[i].time >= items[j].time

\* The sorted list has every item once, and descends.
LEMMA SortedIs ==
  ASSUME NEW items, Timed(items)
  PROVE  /\ DOMAIN Players!Sorted(items) = 1..Len(items) /\ Descending(Players!Sorted(items))
         /\ Players!Sorted(items) = [k \in 1..Len(items) |-> Players!Sorted(items)[k]]
         /\ \E f \in [1..Len(items) -> 1..Len(items)] :
               /\ \A i \in 1..Len(items) : \E k \in 1..Len(items) : f[k] = i
               /\ \A j, k \in 1..Len(items) : j # k => f[j] # f[k]
               /\ \A k \in 1..Len(items) : Players!Sorted(items)[k] = items[f[k]]
<1> DEFINE n == Len(items)
           r == [i \in 1..n |-> Players!Place(items, i)]
           R == {p \in (1..n) \X (1..n) : Players!NotAfter(items, p[1], p[2])}
<1>1. n \in Nat /\ DOMAIN items = 1..n /\ \A i \in 1..n : items[i].time \in Int
  BY DEF Timed
<1>2. IsFiniteSet(1..n) /\ Cardinality(1..n) = n
  BY <1>1, FirstNumbers
<1> HIDE DEF n
<1>3. \A i, j \in 1..n : <<i, j>> \in R <=> Players!NotAfter(items, i, j)
  OBVIOUS
<1>4. InTotalOrder(1..n, R)
  <2> HIDE DEF R
  <2>1. \A i \in 1..n : <<i, i>> \in R
    BY <1>1, <1>3 DEF Players!NotAfter
  <2>2. ASSUME NEW i \in 1..n, NEW j \in 1..n PROVE <<i, j>> \in R \/ <<j, i>> \in R
    <3>1. Players!NotAfter(items, i, j) \/ Players!NotAfter(items, j, i)
      BY <1>1 DEF Players!NotAfter
    <3> QED BY <1>3, <3>1
  <2>3. \A i, j \in 1..n : i # j /\ <<i, j>> \in R => <<j, i>> \notin R
    BY <1>1, <1>3 DEF Players!NotAfter
  <2>4. ASSUME NEW h \in 1..n, NEW i \in 1..n, NEW j \in 1..n, <<h, i>> \in R, <<i, j>> \in R
        PROVE  <<h, j>> \in R
    <3>1. Players!NotAfter(items, h, i) /\ Players!NotAfter(items, i, j)
      BY <1>3, <2>4
    <3>2. items[h].time \in Int /\ items[i].time \in Int /\ items[j].time \in Int
      BY <1>1
    <3>3. Players!NotAfter(items, h, j)
      BY <3>1, <3>2 DEF Players!NotAfter
    <3> QED BY <1>3, <3>3
  <2> QED BY <2>1, <2>2, <2>3, <2>4 DEF InTotalOrder
<1>5. r = PlacesIn(1..n, R)
  <2> SUFFICES ASSUME NEW i \in 1..n
               PROVE  Players!Place(items, i) = Cardinality({j \in 1..n : <<j, i>> \in R})
    BY DEF PlacesIn
  <2>1. {j \in DOMAIN items : Players!NotAfter(items, j, i)} = {j \in 1..n : <<j, i>> \in R}
    BY <1>1, <1>3
  <2> QED BY <2>1, SameCardinality DEF Players!Place
<1>6. \A i \in 1..n : r[i] = Players!Place(items, i)
  OBVIOUS
<1> HIDE DEF r, R
<1>7. /\ r \in [1..n -> 1..n]
      /\ \A i, j \in 1..n : i # j /\ <<i, j>> \in R => r[i] < r[j]
      /\ \A i, j \in 1..n : i # j => r[i] # r[j]
      /\ \A k \in 1..n : \E i \in 1..n : r[i] = k
  <2> DEFINE S == 1..n
  <2>1. IsFiniteSet(S) /\ Cardinality(S) = n /\ r = PlacesIn(S, R) /\ InTotalOrder(S, R)
    BY <1>2, <1>4, <1>5
  <2> HIDE DEF S
  <2>2. /\ r \in [S -> 1..n]
        /\ \A i, j \in S : i # j /\ <<i, j>> \in R => r[i] < r[j]
        /\ \A i, j \in S : i # j => r[i] # r[j]
        /\ \A k \in 1..n : \E i \in S : r[i] = k
    BY <2>1, PlacesInOrder
  <2> QED BY <2>2 DEF S
<1> DEFINE f == [k \in 1..n |-> CHOOSE i \in 1..n : Players!Place(items, i) = k]
<1>8. ASSUME NEW k \in 1..n PROVE f[k] \in 1..n /\ r[f[k]] = k
  <2>1. \E i \in 1..n : Players!Place(items, i) = k
    BY <1>6, <1>7
  <2> QED BY <1>6, <2>1
<1>9. f \in [1..n -> 1..n]
  BY <1>8
<1>10. DOMAIN Players!Sorted(items) = 1..n /\ \A k \in 1..n : Players!Sorted(items)[k] = items[f[k]]
  BY <1>1 DEF Players!Sorted
<1>0. Players!Sorted(items) = [k \in 1..n |-> Players!Sorted(items)[k]]
  BY <1>1 DEF Players!Sorted
<1> HIDE DEF f
<1>11. \A j, k \in 1..n : j # k => f[j] # f[k]
  BY <1>8
<1>12. \A i \in 1..n : \E k \in 1..n : f[k] = i
  <2> SUFFICES ASSUME NEW i \in 1..n PROVE f[r[i]] = i /\ r[i] \in 1..n
    OBVIOUS
  <2> QED BY <1>7, <1>8
<1>13. ASSUME NEW j \in 1..n, NEW k \in 1..n, j < k
       PROVE  Players!Sorted(items)[j].time >= Players!Sorted(items)[k].time
  <2>1. f[j] \in 1..n /\ f[k] \in 1..n /\ f[j] # f[k] /\ ~(r[f[k]] < r[f[j]])
    BY <1>1, <1>8, <1>11, <1>13
  <2>2. <<f[j], f[k]>> \in R \/ <<f[k], f[j]>> \in R
    BY <1>4, <2>1 DEF InTotalOrder
  <2>3. <<f[j], f[k]>> \in R
    BY <1>7, <2>1, <2>2
  <2>4. Players!NotAfter(items, f[j], f[k])
    BY <1>3, <2>1, <2>3
  <2> QED BY <1>1, <1>10, <2>1, <2>4 DEF Players!NotAfter
<1>14. Descending(Players!Sorted(items))
  BY <1>10, <1>13 DEF Descending
<1> QED BY <1>0, <1>9, <1>10, <1>11, <1>12, <1>14 DEF n

\* What is left of a list that descends are the first items, those that are after the time.
LEMMA LeftIs ==
  ASSUME NEW series, Timed(series), Descending(series), NEW t \in Int
  PROVE  /\ Players!Left(series, t) \in 0..Len(series)
         /\ \A k \in DOMAIN series : series[k].time > t <=> k <= Players!Left(series, t)
<1> DEFINE n == Len(series)
           S == {k \in 1..n : series[k].time > t}
<1>1. n \in Nat /\ DOMAIN series = 1..n /\ \A i \in 1..n : series[i].time \in Int
  BY DEF Timed
<1>2. ASSUME NEW i \in S, NEW j \in 1..n, j <= i PROVE j \in S
  <2>1. i \in 1..n /\ (j = i \/ j < i) /\ series[i].time > t
    BY <1>1, <1>2
  <2>2. series[j].time >= series[i].time
    BY <1>1, <2>1 DEF Descending
  <2> QED BY <1>1, <2>1, <2>2
<1>3. Players!Left(series, t) = Cardinality(S)
  BY <1>1, SameCardinality DEF Players!Left
<1>4. \A k \in 1..n : k \in S <=> series[k].time > t
  OBVIOUS
<1>5. S \subseteq 1..n
  OBVIOUS
<1> HIDE DEF n, S
<1>6. Cardinality(S) \in 0..n /\ S = 1..Cardinality(S)
  BY <1>1, <1>2, <1>5, FirstPlaces
<1>7. \A k \in 1..n : k \in S <=> k <= Cardinality(S)
  BY <1>1, <1>6
<1> QED BY <1>1, <1>3, <1>4, <1>6, <1>7 DEF n

(***************************************************************************)
(* The tape, csv and netcdf players                                        *)
(***************************************************************************)
\* Timestamps are in the order of the seconds.
LEMMA StampsInOrder ==
  ASSUME Players!ConstantsAssumption, NEW a \in Int, NEW b \in Int
  PROVE  Players!Stamp(a, Scale) \in Int /\ (a <= b => Players!Stamp(a, Scale) <= Players!Stamp(b, Scale))
<1>1. Scale \in Int /\ Scale > 0
  BY DEF Players!ConstantsAssumption
<1>2. \A c, d \in Int : c \div Scale \in Int /\ (c <= d => c \div Scale <= d \div Scale) /\ (c >= 0 => c \div Scale >= 0)
  BY <1>1
<1>3. -a \in Int /\ -b \in Int /\ (a <= b => -b <= -a)
  OBVIOUS
<1> QED BY <1>2, <1>3 DEF Players!Stamp

\* The rows that are not after t are the first ones.
LEMMA RowsUntil ==
  ASSUME NEW times, NEW n \in Nat, DOMAIN times = 1..n, \A k \in 1..n : times[k] \in Int,
         \A j, k \in 1..n : j < k => times[j] <= times[k], NEW t \in Int
  PROVE  /\ Players!PositionAt(times, t) \in 0..n
         /\ \A k \in 1..n : times[k] <= t <=> k <= Players!PositionAt(times, t)
<1> DEFINE S == {k \in 1..n : times[k] <= t}
<1>1. ASSUME NEW i \in S, NEW j \in 1..n, j <= i PROVE j \in S
  <2>1. i \in 1..n /\ (j = i \/ j < i) /\ times[i] <= t
    BY <1>1
  <2>2. times[j] <= times[i]
    BY <2>1
  <2> QED BY <2>1, <2>2
<1>2. Players!PositionAt(times, t) = Cardinality(S) /\ S \in SUBSET (1..n)
  BY SameCardinality DEF Players!PositionAt
<1>3. \A k \in 1..n : k \in S <=> times[k] <= t
  OBVIOUS
<1> HIDE DEF S
<1>4. Cardinality(S) \in 0..n /\ S = 1..Cardinality(S)
  BY <1>1, <1>2, FirstPlaces
<1>5. \A k \in 1..n : k \in S <=> k <= Cardinality(S)
  BY <1>4
<1> QED BY <1>2, <1>3, <1>4, <1>5

-----------------------------------------------------------------------------
\* A file has entries, or rows, with times.
IsFile ==
  /\ Len(file) \in Nat /\ DOMAIN file = 1..Len(file)
  /\ \A k \in DOMAIN file : file[k].seconds \in Int
  /\ playerTime \in Nat

\* A csv or netcdf player is at the row of the time, and shows it if it has been called.
AtItsRow ==
  /\ timeline = Players!RowTimeline(file) /\ Players!Ascending(file)
  /\ playerRow = Players!PositionAt(timeline, playerTime)
  /\ shown # Undefined /\ playerRow # 0 => shown = file[playerRow].data
  /\ ~playerFailed => playerWake = Players!NextRow(playerRow) \/ (playerWake = 0 /\ playerTime = 0)
  /\ playerFailed => playerRow = 0

\* The tape player has come to a place in its timeline, and shows of every key the value that
\* was popped last.
WholeTape == Players!TapeTimeline(file)
Popped(key) ==
  {i \in (Len(timeline) + 1)..Len(file) : key \in DOMAIN WholeTape[i].data}
IsShown(key) ==
  IF Popped(key) = {} THEN shown[key] = Undefined
  ELSE \E i \in Popped(key) : /\ \A j \in Popped(key) : i <= j
                              /\ shown[key] = WholeTape[i].data[key]
AtItsPlace ==
  /\ Len(timeline) \in 0..Len(file) /\ DOMAIN timeline = 1..Len(timeline)
  /\ \A i \in 1..Len(timeline) : timeline[i] = WholeTape[i]
  /\ \A key \in Keys : IsShown(key)
  /\ playerWake = 0 => playerTime = 0 /\ Len(timeline) = Len(file)
  /\ playerWake # 0 =>
       /\ \A i \in (Len(timeline) + 1)..Len(file) : WholeTape[i].time <= playerTime
       /\ Len(timeline) > 0 => playerWake \in Int /\ playerWake = WholeTape[Len(timeline)].time /\ playerTime < playerWake
  /\ ~playerFailed

PlayerInv == IsFile /\ IF player = "tape" THEN AtItsPlace ELSE AtItsRow

\* The timeline of a tape player has every entry of its file once, the latest first.
LEMMA WholeIs ==
  ASSUME Players!ConstantsAssumption, IsFile
  PROVE  /\ DOMAIN WholeTape = 1..Len(file) /\ Descending(WholeTape)
         /\ \A i \in 1..Len(file) : WholeTape[i].time \in Int
         /\ \E f \in [1..Len(file) -> 1..Len(file)] :
               /\ \A k \in 1..Len(file) : \E i \in 1..Len(file) : f[i] = k
               /\ \A i \in 1..Len(file) : WholeTape[i].time = Players!TimeOf(f[i]) /\ WholeTape[i].data = file[f[i]].data
<1> DEFINE items == [k \in DOMAIN file |-> [time |-> Players!Stamp(file[k].seconds, Scale), data |-> file[k].data]]
<1>1. Len(file) \in Nat /\ DOMAIN file = 1..Len(file)
  BY DEF IsFile
<1>2. \A k \in DOMAIN file : items[k].time = Players!TimeOf(k) /\ Players!TimeOf(k) \in Int /\ items[k].data = file[k].data
  BY StampsInOrder DEF IsFile, Players!TimeOf
<1>3. Len(items) = Len(file) /\ DOMAIN items = DOMAIN file
  BY <1>1
<1>4. WholeTape = Players!Sorted(items)
  BY DEF WholeTape, Players!TapeTimeline
<1> HIDE DEF items
<1>5. Timed(items)
  BY <1>1, <1>2, <1>3 DEF Timed
<1>6. /\ DOMAIN WholeTape = 1..Len(file) /\ Descending(WholeTape)
      /\ \E f \in [1..Len(file) -> 1..Len(file)] :
            /\ \A i \in 1..Len(file) : \E k \in 1..Len(file) : f[k] = i
            /\ \A j, k \in 1..Len(file) : j # k => f[j] # f[k]
            /\ \A k \in 1..Len(file) : WholeTape[k] = items[f[k]]
  <2> DEFINE Arranges(s, m) ==
               /\ DOMAIN s = 1..m /\ Descending(s)
               /\ \E f \in [1..m -> 1..m] :
                     /\ \A i \in 1..m : \E k \in 1..m : f[k] = i
                     /\ \A j, k \in 1..m : j # k => f[j] # f[k]
                     /\ \A k \in 1..m : s[k] = items[f[k]]
  <2>1. Arranges(Players!Sorted(items), Len(items))
    BY <1>5, SortedIs
  <2>2. Arranges(WholeTape, Len(file))
    <3> HIDE DEF Arranges
    <3> QED BY <1>3, <1>4, <2>1
  <2> QED BY <2>2
<1>7. PICK f \in [1..Len(file) -> 1..Len(file)] :
            /\ \A i \in 1..Len(file) : \E k \in 1..Len(file) : f[k] = i
            /\ \A k \in 1..Len(file) : WholeTape[k] = items[f[k]]
  BY <1>6
<1>8. \A i \in 1..Len(file) : /\ WholeTape[i].time = Players!TimeOf(f[i]) /\ WholeTape[i].data = file[f[i]].data
                              /\ WholeTape[i].time \in Int
  <2> SUFFICES ASSUME NEW i \in 1..Len(file)
               PROVE  /\ WholeTape[i].time = Players!TimeOf(f[i]) /\ WholeTape[i].data = file[f[i]].data
                      /\ WholeTape[i].time \in Int
    OBVIOUS
  <2>1. f[i] \in DOMAIN file /\ WholeTape[i] = items[f[i]]
    BY <1>1, <1>7
  <2> QED BY <1>2, <2>1
<1> QED BY <1>6, <1>7, <1>8

\* The timestamps of rows ascend.
LEMMA RowTimesAre ==
  ASSUME Players!ConstantsAssumption, IsFile, Players!Ascending(file)
  PROVE  /\ DOMAIN Players!RowTimeline(file) = 1..Len(file)
         /\ Len(Players!RowTimeline(file)) = Len(file)
         /\ \A k \in 1..Len(file) : Players!RowTimeline(file)[k] \in Int /\ Players!RowTimeline(file)[k] = Players!TimeOf(k)
         /\ \A j, k \in 1..Len(file) : j < k => Players!RowTimeline(file)[j] <= Players!RowTimeline(file)[k]
<1>1. Len(file) \in Nat /\ DOMAIN file = 1..Len(file)
  BY DEF IsFile
<1>2. \A k \in 1..Len(file) : Players!RowTimeline(file)[k] = Players!TimeOf(k) /\ Players!TimeOf(k) \in Int
  BY <1>1, StampsInOrder DEF IsFile, Players!TimeOf, Players!RowTimeline
<1>3. \A j, k \in 1..Len(file) : j < k => Players!TimeOf(j) <= Players!TimeOf(k)
  BY <1>1, StampsInOrder DEF IsFile, Players!TimeOf, Players!Ascending
<1>4. DOMAIN Players!RowTimeline(file) = 1..Len(file) /\ Len(Players!RowTimeline(file)) = Len(file)
  BY <1>1 DEF Players!RowTimeline
<1> QED BY <1>2, <1>3, <1>4

\* A player is set up at 0 and has shown nothing.
LEMMA InitPlayer ==
  ASSUME Players!Init, Players!ConstantsAssumption
  PROVE  PlayerInv
<1>1. IsFile
  <2>1. \E content : file \in Players!Files(content)
    BY DEF Players!Init
  <2>2. PICK n \in Nat : DOMAIN file = 1..n /\ \A k \in 1..n : file[k].seconds \in Int
    <3>0. PICK content : file \in Players!Files(content)
      BY <2>1
    <3>1. PICK n \in 1..MaxLength : file \in [1..n -> [seconds : Seconds, data : content]]
      BY <3>0 DEF Players!Files
    <3>2. DOMAIN file = 1..n /\ \A k \in 1..n : file[k].seconds \in Int
      BY <3>1 DEF Players!ConstantsAssumption
    <3>3. n \in Nat
      BY DEF Players!ConstantsAssumption
    <3> QED BY <3>2, <3>3
  <2> QED BY <2>2 DEF IsFile, Players!Init
<1>2. CASE player = "tape"
  <2>1. /\ timeline = WholeTape /\ shown = [k \in Keys |-> Undefined] /\ playerTime = 0
        /\ playerWake = 0 /\ ~playerFailed
    BY <1>2 DEF Players!Init, WholeTape
  <2>2. DOMAIN WholeTape = 1..Len(file) /\ Len(file) \in Nat
    BY <1>1, WholeIs DEF IsFile
  <2>3. Len(timeline) = Len(file) /\ DOMAIN timeline = 1..Len(timeline)
    BY <2>1, <2>2
  <2>4. \A key \in Keys : IsShown(key)
    <3>1. (Len(timeline) + 1)..Len(file) = {}
      BY <2>2, <2>3
    <3>2. \A key \in Keys : Popped(key) = {} /\ shown[key] = Undefined
      BY <2>1, <3>1 DEF Popped
    <3> QED BY <3>2 DEF IsShown
  <2> QED BY <1>1, <1>2, <2>1, <2>2, <2>3, <2>4 DEF PlayerInv, AtItsPlace
<1>3. CASE player # "tape"
  BY <1>1, <1>3 DEF Players!Init, PlayerInv, AtItsRow
<1> QED BY <1>2, <1>3

\* An update of the tape player pops what is due and shows it.
LEMMA UpdateTapeKeeps ==
  ASSUME PlayerInv, Players!ConstantsAssumption, NEW t \in 0..PlayEnd, Players!UpdateTape(t)
  PROVE  PlayerInv'
<1> DEFINE n == Len(timeline)
           m == Players!Left(timeline, t)
           N == Len(file)
<1>1. /\ player = "tape" /\ ~playerFailed /\ t >= playerTime /\ t \in Int
      /\ shown' = Players!Receive(shown, Players!Due(timeline, t))
      /\ timeline' = Players!Remaining(timeline, t)
      /\ playerWake' = Players!NextTime(timeline') /\ playerTime' = t
      /\ UNCHANGED <<player, file, playerRow, playerFailed>>
  BY DEF Players!UpdateTape, Players!MayBeCalled
<1>2. IsFile /\ AtItsPlace
  BY <1>1 DEF PlayerInv
<1>3. /\ N \in Nat /\ DOMAIN WholeTape = 1..N /\ Descending(WholeTape)
      /\ \A i \in 1..N : WholeTape[i].time \in Int
  BY <1>2, WholeIs DEF IsFile
<1>4. n \in 0..N /\ DOMAIN timeline = 1..n /\ \A i \in 1..n : timeline[i] = WholeTape[i]
  BY <1>2 DEF AtItsPlace
<1>5. Timed(timeline) /\ Descending(timeline)
  BY <1>3, <1>4 DEF Timed, Descending
<1>6. m \in 0..n /\ \A k \in 1..n : timeline[k].time > t <=> k <= m
  BY <1>1, <1>4, <1>5, LeftIs
<1>7. UNCHANGED WholeTape
  BY <1>1 DEF WholeTape, Players!TapeTimeline, Players!Sorted, Players!Place, Players!NotAfter,
              Players!Stamp
<1>8. /\ Players!Due(timeline, t) = [k \in 1..(n - m) |-> timeline[n + 1 - k]]
      /\ timeline' = SubSeq(timeline, 1, m)
  BY <1>1 DEF Players!Due, Players!Remaining
<1>9. playerTime \in Nat /\ t >= 0 /\ (playerWake # 0 => \A i \in (n + 1)..N : WholeTape[i].time <= playerTime)
      /\ (playerWake = 0 => n = N) /\ \A key \in Keys : IsShown(key)
  <2>1. playerTime \in Nat /\ t >= 0
    BY <1>1, <1>2 DEF IsFile
  <2>2. playerWake # 0 => \A i \in (n + 1)..N : WholeTape[i].time <= playerTime
    BY <1>2 DEF AtItsPlace
  <2>3. (playerWake = 0 => n = N) /\ \A key \in Keys : IsShown(key)
    BY <1>2 DEF AtItsPlace
  <2> QED BY <2>1, <2>2, <2>3
<1>10. \A key \in Keys : Popped(key) = {i \in (n + 1)..N : key \in DOMAIN WholeTape[i].data}
  BY DEF Popped
<1>11. Len(file)' = N
  BY <1>1
<1> HIDE DEF n, m, N
<1>12. Len(timeline') = m /\ DOMAIN timeline' = 1..m /\ \A i \in 1..m : timeline'[i] = WholeTape[i]
  BY <1>3, <1>4, <1>6, <1>8
<1>13. \A i \in (m + 1)..N : WholeTape[i].time <= t
  <2> SUFFICES ASSUME NEW i \in (m + 1)..N PROVE WholeTape[i].time <= t
    OBVIOUS
  <2>1. CASE i <= n
    BY <1>1, <1>3, <1>4, <1>6, <2>1
  <2>2. CASE i > n
    BY <1>1, <1>3, <1>4, <1>6, <1>9, <2>2
  <2> QED BY <1>4, <2>1, <2>2
<1>14. m > 0 => playerWake' = WholeTape[m].time /\ t < playerWake' /\ playerWake' \in Int
  <2>1. m > 0 => timeline' # <<>> /\ Players!Last(timeline') = timeline'[m]
    BY <1>12 DEF Players!Last
  <2> QED BY <1>1, <1>3, <1>4, <1>6, <1>12, <2>1 DEF Players!NextTime
<1>15. m = 0 => playerWake' = None
  <2>1. m = 0 => timeline' = <<>>
    BY <1>4, <1>6, <1>8
  <2> QED BY <1>1, <2>1 DEF Players!NextTime
<1>16. playerWake' # 0
  BY <1>6, <1>4, <1>9, <1>14, <1>15 DEF Players!ConstantsAssumption
<1>17. ASSUME NEW key \in Keys PROVE IsShown(key)'
  <2> DEFINE set == {k \in 1..(n - m) : key \in DOMAIN WholeTape[n + 1 - k].data}
             past == {i \in (m + 1)..N : key \in DOMAIN WholeTape[i].data}
             before == {i \in (n + 1)..N : key \in DOMAIN WholeTape[i].data}
  <2>1. Popped(key)' = past
    BY <1>7, <1>11, <1>12 DEF Popped
  <2>2. \A k \in 1..(n - m) : Players!Due(timeline, t)[k] = WholeTape[n + 1 - k]
    BY <1>4, <1>6, <1>8
  <2>3. DOMAIN Players!Due(timeline, t) = 1..(n - m)
    BY <1>8
  <2>4. set = {k \in DOMAIN Players!Due(timeline, t) : key \in DOMAIN Players!Due(timeline, t)[k].data}
    BY <2>2, <2>3
  <2>5. /\ \A i \in (m + 1)..n : i \in past <=> n + 1 - i \in set
        /\ \A k \in set : k \in 1..(n - m) /\ n + 1 - k \in (m + 1)..n /\ n + 1 - k \in past
        /\ \A i \in past : i \in (m + 1)..n \/ i \in before
        /\ before \subseteq past /\ set \subseteq 1..(n - m) /\ \A i \in past : i \in Int
        /\ \A i \in before : i > n
    BY <1>3, <1>4, <1>6
  <2>6. IF before = {} THEN shown[key] = Undefined
        ELSE \E i \in before : /\ \A j \in before : i <= j
                               /\ shown[key] = WholeTape[i].data[key]
    BY <1>9, <1>10 DEF IsShown
  <2>7. shown'[key] = IF set = {} THEN shown[key] ELSE Players!Due(timeline, t)[Players!Max(set)].data[key]
    BY <1>1, <2>4 DEF Players!Receive
  <2>8. IsShown(key)' <=>
          IF past = {} THEN shown'[key] = Undefined
          ELSE \E i \in past : (\A j \in past : i <= j) /\ shown'[key] = WholeTape[i].data[key]
    BY <1>7, <2>1 DEF IsShown
  <2> HIDE DEF set, past, before
  <2>9. CASE set = {}
    <3>1. past = before
      BY <2>5, <2>9
    <3> QED BY <2>6, <2>7, <2>8, <2>9, <3>1
  <2>10. CASE set # {}
    <3> DEFINE k == Players!Max(set)
    <3>1. n - m \in Nat
      BY <1>4, <1>6
    <3>2. k \in set /\ \A y \in set : y <= k
      <4>1. \E x \in set : \A y \in set : y <= x
        BY <2>5, <2>10, <3>1, LastPlace
      <4>2. \E x \in set : \A y \in set : x >= y
        BY <2>5, <3>1, <4>1
      <4> QED BY <2>5, <4>2 DEF Players!Max
    <3> HIDE DEF k
    <3>3. n + 1 - k \in past /\ n + 1 - k \in (m + 1)..n /\ k \in 1..(n - m)
      BY <2>5, <3>2
    <3>4. ASSUME NEW j \in past PROVE n + 1 - k <= j
      <4>1. CASE j \in (m + 1)..n
        <5>1. n + 1 - j <= k
          BY <2>5, <3>2, <4>1
        <5> QED BY <1>4, <1>6, <3>3, <4>1, <5>1
      <4>2. CASE j \in before
        BY <2>5, <3>3, <4>2, <1>4
      <4> QED BY <2>5, <4>1, <4>2
    <3>5. shown'[key] = WholeTape[n + 1 - k].data[key]
      BY <2>2, <2>7, <2>10, <3>3 DEF k
    <3> QED BY <2>8, <3>3, <3>4, <3>5
  <2> QED BY <2>9, <2>10
<1>18. AtItsPlace'
  <2>1. Len(timeline)' = m /\ m \in 0..N
    BY <1>3, <1>4, <1>6, <1>12
  <2> QED BY <1>1, <1>7, <1>11, <1>12, <1>13, <1>14, <1>16, <1>17, <2>1 DEF AtItsPlace
<1>19. IsFile'
  BY <1>1, <1>2, <1>9 DEF IsFile
<1> QED BY <1>1, <1>18, <1>19 DEF PlayerInv

\* An update of a csv or netcdf player brings it to the row of the moment.
LEMMA UpdateRowKeeps ==
  ASSUME PlayerInv, Players!ConstantsAssumption, NEW t \in 0..PlayEnd, Players!UpdateCsv(t) \/ Players!UpdateNetCDF(t)
  PROVE  PlayerInv'
<1>1. /\ player # "tape" /\ ~playerFailed /\ t \in Nat
      /\ playerRow' = Players!PositionAt(timeline, t) /\ playerTime' = t
      /\ UNCHANGED <<player, file, timeline>>
  BY DEF Players!UpdateCsv, Players!UpdateNetCDF, Players!MayBeCalled
<1>2. /\ playerRow' # 0 => shown' = file[playerRow'].data
      /\ playerFailed' => playerRow' = 0
      /\ ~playerFailed' => playerWake' = Players!NextRow(playerRow')
  BY <1>1 DEF Players!UpdateCsv, Players!UpdateNetCDF
<1>3. IsFile /\ AtItsRow
  BY <1>1 DEF PlayerInv
<1>4. Players!NextRow(playerRow)' = Players!NextRow(playerRow')
  BY <1>1 DEF Players!NextRow
<1>5. Players!RowTimeline(file)' = Players!RowTimeline(file) /\ Players!PositionAt(timeline, playerTime)' = Players!PositionAt(timeline, t)
      /\ Players!Ascending(file)' = Players!Ascending(file)
  BY <1>1 DEF Players!RowTimeline, Players!PositionAt, Players!Ascending, Players!Stamp
<1>6. AtItsRow'
  BY <1>1, <1>2, <1>3, <1>4, <1>5 DEF AtItsRow
<1>7. IsFile'
  BY <1>1, <1>3 DEF IsFile
<1> QED BY <1>1, <1>6, <1>7 DEF PlayerInv

\* Nothing is due in the time that passes.
LEMMA PassTapeKeeps ==
  ASSUME PlayerInv, Players!ConstantsAssumption, NEW t \in 0..PlayEnd, Players!Pass(t)
  PROVE  PlayerInv'
<1>1. /\ ~playerFailed /\ playerTime < t /\ (playerWake # None => t < playerWake) /\ playerTime' = t
      /\ t \in Nat
      /\ UNCHANGED <<player, file, timeline, playerRow, shown, playerWake, playerFailed>>
  BY DEF Players!Pass
<1>2. IsFile /\ IsFile' /\ playerTime \in Nat /\ None # 0
  BY <1>1 DEF PlayerInv, IsFile, Players!ConstantsAssumption
<1>3. CASE player = "tape"
  <2>1. AtItsPlace
    BY <1>3 DEF PlayerInv
  <2>2. playerWake # 0
    BY <1>1, <1>2
  <2>3. UNCHANGED WholeTape
    BY <1>1 DEF WholeTape, Players!TapeTimeline, Players!Sorted, Players!Place, Players!NotAfter,
                Players!Stamp
  <2>4. \A key \in Keys : IsShown(key)'
    BY <1>1, <2>1, <2>3 DEF AtItsPlace, IsShown, Popped
  <2>5. \A i \in (Len(timeline) + 1)..Len(file) : WholeTape[i].time <= t
    <3> SUFFICES ASSUME NEW i \in (Len(timeline) + 1)..Len(file) PROVE WholeTape[i].time <= t
      OBVIOUS
    <3>0. Len(timeline) \in 0..Len(file) /\ Len(file) \in Nat
      BY <1>2, <2>1 DEF AtItsPlace, IsFile
    <3>1. i \in 1..Len(file) /\ WholeTape[i].time <= playerTime
      BY <2>1, <2>2, <3>0 DEF AtItsPlace
    <3>2. WholeTape[i].time \in Int
      BY <1>2, <3>1, WholeIs
    <3> QED BY <1>1, <1>2, <3>1, <3>2
  <2>6. Len(timeline) > 0 => playerWake \in Int /\ playerWake = WholeTape[Len(timeline)].time /\ t < playerWake
    BY <1>1, <2>1, <2>2 DEF AtItsPlace, Players!ConstantsAssumption
  <2>7. AtItsPlace'
    BY <1>1, <2>1, <2>2, <2>3, <2>4, <2>5, <2>6 DEF AtItsPlace
  <2> QED BY <1>1, <1>2, <1>3, <2>7 DEF PlayerInv
<1>4. CASE player # "tape"
  <2>1. AtItsRow
    BY <1>4 DEF PlayerInv
  <2>2. playerWake = Players!NextRow(playerRow)
    BY <1>1, <1>2, <2>1 DEF AtItsRow
  <2>3. /\ Len(timeline) = Len(file) /\ DOMAIN timeline = 1..Len(file)
        /\ \A k \in 1..Len(file) : timeline[k] \in Int
        /\ \A j, k \in 1..Len(file) : j < k => timeline[j] <= timeline[k]
        /\ Len(file) \in Nat
    BY <1>2, <2>1, RowTimesAre DEF AtItsRow, IsFile
  <2>4. /\ playerRow \in 0..Len(file)
        /\ \A k \in 1..Len(file) : timeline[k] <= playerTime <=> k <= playerRow
    <3>1. playerRow = Players!PositionAt(timeline, playerTime)
      BY <2>1 DEF AtItsRow
    <3>2. playerTime \in Int
      BY <1>2
    <3> QED BY <2>3, <3>1, <3>2, RowsUntil
  <2>5. ASSUME NEW k \in 1..Len(file) PROVE timeline[k] <= t <=> timeline[k] <= playerTime
    <3>1. CASE k <= playerRow
      BY <1>1, <1>2, <2>3, <2>4, <3>1
    <3>2. CASE ~(k <= playerRow)
      <4>1. playerRow + 1 \in 1..Len(file) /\ (k = playerRow + 1 \/ playerRow + 1 < k) /\ playerRow + 1 <= Len(timeline)
        BY <2>3, <2>4, <3>2
      <4>2. playerWake = timeline[playerRow + 1] /\ playerWake \in Int /\ playerWake <= timeline[k]
        BY <2>2, <2>3, <4>1 DEF Players!NextRow
      <4>3. t < playerWake
        BY <1>1, <4>2 DEF Players!ConstantsAssumption
      <4> QED BY <1>1, <1>2, <2>3, <4>2, <4>3
    <3> QED BY <3>1, <3>2
  <2>6. Players!PositionAt(timeline, t) = playerRow
    <3>1. {k \in DOMAIN timeline : timeline[k] <= t} = {k \in DOMAIN timeline : timeline[k] <= playerTime}
      BY <2>3, <2>5
    <3> QED BY <2>1, <3>1 DEF Players!PositionAt, AtItsRow
  <2>7. Players!RowTimeline(file)' = Players!RowTimeline(file) /\ Players!PositionAt(timeline, playerTime)' = Players!PositionAt(timeline, t)
        /\ Players!Ascending(file)' = Players!Ascending(file)
        /\ Players!NextRow(playerRow)' = Players!NextRow(playerRow)
    BY <1>1 DEF Players!RowTimeline, Players!PositionAt, Players!Ascending, Players!Stamp,
                Players!NextRow
  <2>8. AtItsRow'
    BY <1>1, <2>1, <2>2, <2>6, <2>7 DEF AtItsRow
  <2> QED BY <1>1, <1>2, <1>4, <2>8 DEF PlayerInv
<1> QED BY <1>3, <1>4

\* Every step keeps the player at the place, or the row, of the time.
LEMMA PlayerNext ==
  ASSUME PlayerInv, Players!ConstantsAssumption, [Players!Next]_(Players!vars)
  PROVE  PlayerInv'
<1>1. CASE UNCHANGED Players!vars
  <2>1. UNCHANGED WholeTape
    BY <1>1 DEF Players!vars, WholeTape, Players!TapeTimeline, Players!Sorted, Players!Place,
                Players!NotAfter, Players!Stamp
  <2>2. AtItsPlace' <=> AtItsPlace
    BY <1>1, <2>1 DEF Players!vars, AtItsPlace, IsShown, Popped
  <2>3. AtItsRow' <=> AtItsRow
    BY <1>1 DEF Players!vars, AtItsRow, Players!RowTimeline, Players!PositionAt, Players!Ascending,
                Players!Stamp, Players!NextRow
  <2>4. IsFile' <=> IsFile
    BY <1>1 DEF Players!vars, IsFile
  <2>5. UNCHANGED player
    BY <1>1 DEF Players!vars
  <2> QED BY <2>2, <2>3, <2>4, <2>5 DEF PlayerInv
<1> QED BY <1>1, UpdateTapeKeeps, UpdateRowKeeps, PassTapeKeeps DEF Players!Next

\* A csv or netcdf player at its row shows what its file holds for the time.
LEMMA RowIsShown ==
  ASSUME PlayerInv, Players!ConstantsAssumption
  PROVE  Players!RowIsCurrent
<1>1. CASE player = "tape"
  BY <1>1 DEF PlayerInv, AtItsPlace, Players!RowIsCurrent
<1>2. CASE player # "tape"
  <2> DEFINE past == {k \in DOMAIN file : Players!TimeOf(k) <= playerTime}
  <2>1. IsFile /\ AtItsRow
    BY <1>2 DEF PlayerInv
  <2>2. /\ DOMAIN timeline = 1..Len(file) /\ DOMAIN file = 1..Len(file) /\ Len(file) \in Nat
        /\ \A k \in 1..Len(file) : timeline[k] = Players!TimeOf(k)
    BY <2>1, RowTimesAre DEF AtItsRow, IsFile
  <2>3. past = {k \in DOMAIN timeline : timeline[k] <= playerTime}
    BY <2>2
  <2>4. Cardinality(past) = playerRow
    BY <2>1, <2>3, SameCardinality DEF AtItsRow, Players!PositionAt
  <2>5. IsFiniteSet(past)
    <3>1. IsFiniteSet(1..Len(file))
      BY <2>2, FirstNumbers
    <3> QED BY <2>2, <3>1, FS_Subset
  <2>6. playerRow = 0 <=> past = {}
    BY <2>4, <2>5, FS_EmptySet
  <2>7. playerFailed => playerRow = 0
    BY <2>1 DEF AtItsRow
  <2>8. shown # Undefined /\ playerRow # 0 => shown = file[playerRow].data
    BY <2>1 DEF AtItsRow
  <2>9. playerFailed \/ shown # Undefined => (past # {} => shown = file[Cardinality(past)].data) /\ (playerFailed => past = {})
    BY <2>4, <2>6, <2>7, <2>8
  <2> QED BY <2>9, SameCardinality DEF Players!RowIsCurrent
<1> QED BY <1>1, <1>2

\* A tape player at its place shows of every key a latest value that is not after the time.
LEMMA PlaceIsShown ==
  ASSUME PlayerInv, Players!ConstantsAssumption
  PROVE  Players!TapeIsCurrent
<1> SUFFICES ASSUME player = "tape", playerWake # 0, NEW key \in Keys
             PROVE  IF Players!LatestFor(key) = {} THEN shown[key] = Undefined
                    ELSE \E k \in Players!LatestFor(key) : shown[key] = file[k].data[key]
  BY DEF Players!TapeIsCurrent
<1> DEFINE n == Len(timeline)
           N == Len(file)
           set == {k \in DOMAIN file : key \in DOMAIN file[k].data /\ Players!TimeOf(k) <= playerTime}
<1>1. IsFile /\ AtItsPlace
  BY DEF PlayerInv
<1>2. /\ N \in Nat /\ DOMAIN file = 1..N /\ playerTime \in Nat /\ n \in 0..N
      /\ Descending(WholeTape) /\ DOMAIN WholeTape = 1..N /\ \A i \in 1..N : WholeTape[i].time \in Int
  BY <1>1, WholeIs DEF IsFile, AtItsPlace
<1>3. PICK f \in [1..N -> 1..N] :
            /\ \A k \in 1..N : \E i \in 1..N : f[i] = k
            /\ \A i \in 1..N : WholeTape[i].time = Players!TimeOf(f[i]) /\ WholeTape[i].data = file[f[i]].data
  BY <1>1, WholeIs
<1>4. /\ \A i \in (n + 1)..N : WholeTape[i].time <= playerTime
      /\ n > 0 => WholeTape[n].time \in Int /\ playerTime < WholeTape[n].time
  BY <1>1 DEF AtItsPlace
<1>5. IsShown(key) /\ Popped(key) = {i \in (n + 1)..N : key \in DOMAIN WholeTape[i].data}
  BY <1>1 DEF AtItsPlace, Popped
<1>6. Players!LatestFor(key) = {k \in set : \A j \in set : Players!TimeOf(j) <= Players!TimeOf(k)}
  BY DEF Players!LatestFor
<1> HIDE DEF n, N
<1>7. ASSUME NEW i \in 1..N, i <= n PROVE ~(WholeTape[i].time <= playerTime)
  <2>1. n > 0 /\ n \in 1..N /\ (i = n \/ i < n)
    BY <1>2, <1>7
  <2>2. WholeTape[i].time \in Int /\ WholeTape[n].time \in Int /\ playerTime \in Int
    BY <1>2, <2>1
  <2>3. CASE i = n
    BY <1>4, <2>1, <2>2, <2>3
  <2>4. CASE i < n
    <3>1. WholeTape[i].time >= WholeTape[n].time
      BY <1>2, <2>1, <2>4 DEF Descending
    <3>2. playerTime < WholeTape[n].time
      BY <1>4, <2>1
    <3> QED BY <2>2, <3>1, <3>2
  <2> QED BY <2>1, <2>3, <2>4
<1>8. \A i \in 1..N : f[i] \in set <=> i \in Popped(key)
  <2> SUFFICES ASSUME NEW i \in 1..N PROVE f[i] \in set <=> i \in Popped(key)
    OBVIOUS
  <2>1. f[i] \in DOMAIN file /\ WholeTape[i].time = Players!TimeOf(f[i]) /\ WholeTape[i].data = file[f[i]].data
    BY <1>2, <1>3
  <2>2. i \in (n + 1)..N <=> ~(i <= n)
    BY <1>2
  <2> QED BY <1>4, <1>5, <1>7, <2>1, <2>2
<1>9. \A k \in set : \E i \in 1..N : f[i] = k /\ i \in Popped(key)
  <2> SUFFICES ASSUME NEW k \in set PROVE \E i \in 1..N : f[i] = k /\ i \in Popped(key)
    OBVIOUS
  <2>1. k \in 1..N
    BY <1>2
  <2> QED BY <1>3, <1>8, <2>1
<1> HIDE DEF set
<1>10. CASE Popped(key) = {}
  <2>1. Players!LatestFor(key) = {} /\ shown[key] = Undefined
    BY <1>5, <1>6, <1>9, <1>10 DEF IsShown
  <2> QED BY <2>1
<1>11. CASE Popped(key) # {}
  <2>1. PICK i \in Popped(key) : (\A j \in Popped(key) : i <= j) /\ shown[key] = WholeTape[i].data[key]
    BY <1>5, <1>11 DEF IsShown
  <2>2. i \in 1..N
    BY <1>2, <1>5
  <2>3. f[i] \in set /\ shown[key] = file[f[i]].data[key]
    BY <1>3, <1>8, <2>1, <2>2
  <2>4. ASSUME NEW k \in set PROVE Players!TimeOf(k) <= Players!TimeOf(f[i])
    <3>1. PICK j \in 1..N : f[j] = k /\ j \in Popped(key)
      BY <1>9
    <3>2. i = j \/ i < j
      BY <2>1, <2>2, <3>1
    <3>3. WholeTape[i].time >= WholeTape[j].time
      BY <1>2, <2>2, <3>2 DEF Descending
    <3> QED BY <1>2, <1>3, <2>2, <3>1, <3>3
  <2>5. f[i] \in Players!LatestFor(key)
    BY <1>6, <2>3, <2>4
  <2> QED BY <2>3, <2>5
<1> QED BY <1>10, <1>11

\* However the entries of its file are ordered and whenever it is called, before its time or at
\* it, a tape player shows of every key a latest value that its file holds for the moment, and
\* a csv or netcdf player that has been called the last row that is not after the moment
\* (tape_player/model.py update, csv_player.py update, netcdf_player.py update): for all files,
\* times and numbers of seconds per timestamp.
THEOREM PlayersAreCurrent ==
  ASSUME Players!ConstantsAssumption
  PROVE  Players!Spec => [](Players!TapeIsCurrent /\ Players!RowIsCurrent)
<1>1. Players!Init => PlayerInv
  BY InitPlayer
<1>2. PlayerInv /\ [Players!Next]_(Players!vars) => PlayerInv'
  BY PlayerNext
<1>3. PlayerInv => Players!TapeIsCurrent /\ Players!RowIsCurrent
  BY PlaceIsShown, RowIsShown
<1> QED BY <1>1, <1>2, <1>3, PTL DEF Players!Spec

(***************************************************************************)
(* The time window status model                                            *)
(***************************************************************************)
\* The schedule of windows is a timeline like that of a tape.
LEMMA SameTimelines ==
  /\ \A items : Windows!Sorted(items) = Players!Sorted(items)
  /\ \A series, t : Windows!Left(series, t) = Players!Left(series, t)
<1>1. \A items : Windows!Sorted(items) = Players!Sorted(items)
  BY DEF Windows!Sorted, Players!Sorted, Windows!Place, Players!Place, Windows!NotAfter,
         Players!NotAfter, Windows!Cardinality, Players!Cardinality
<1>2. \A series, t : Windows!Left(series, t) = Players!Left(series, t)
  BY SameCardinality DEF Windows!Left, Players!Left
<1> QED BY <1>1, <1>2

\* Two sets of which the members correspond have as many.
LEMMA SameNumber ==
  ASSUME NEW S, NEW T, IsFiniteSet(S), NEW f \in [S -> T],
         \A i, j \in S : f[i] = f[j] => i = j, \A k \in T : \E i \in S : f[i] = k
  PROVE  IsFiniteSet(T) /\ Cardinality(T) = Cardinality(S)
<1>1. f \in Bijection(S, T)
  BY DEF Bijection, Injection, Surjection, IsInjective
<1>2. ExistsBijection(S, T)
  BY <1>1 DEF ExistsBijection
<1> QED BY <1>2, FS_Bijection

\* The sources with a window can be put in their order, each in one place.
LEMMA SourcesInOrder ==
  ASSUME Windows!ConstantsAssumption
  PROVE  /\ Cardinality(Windows!Defined) \in Nat
         /\ Windows!InOrder \in [1..Cardinality(Windows!Defined) -> Windows!Defined]
         /\ \A i, j \in 1..Cardinality(Windows!Defined) : Windows!InOrder[i] = Windows!InOrder[j] => i = j
         /\ \A s \in Windows!Defined : \E k \in 1..Cardinality(Windows!Defined) : Windows!InOrder[k] = s
<1> DEFINE D == Windows!Defined
           m == Cardinality(D)
           R == {p \in D \X D : p[1] <= p[2]}
           r == PlacesIn(D, R)
<1>1. IsFiniteSet(D) /\ D \subseteq Int
  <2>1. D \subseteq Sources
    BY DEF Windows!Defined
  <2> QED BY <2>1, FS_Subset, SameCardinality DEF Windows!ConstantsAssumption
<1>2. \A i, j \in D : <<i, j>> \in R <=> i <= j
  OBVIOUS
<1> HIDE DEF D, R
<1>3. InTotalOrder(D, R)
  BY <1>1, <1>2 DEF InTotalOrder
<1>4. /\ m \in Nat /\ r \in [D -> 1..m] /\ \A k \in 1..m : \E i \in D : r[i] = k
      /\ \A i, j \in D : i # j => r[i] # r[j]
      /\ \A i, j \in D : i # j /\ <<i, j>> \in R => r[i] < r[j]
  <2>1. /\ Cardinality(D) \in Nat /\ PlacesIn(D, R) \in [D -> 1..Cardinality(D)]
        /\ \A i, j \in D : i # j /\ <<i, j>> \in R => PlacesIn(D, R)[i] < PlacesIn(D, R)[j]
        /\ \A i, j \in D : i # j => PlacesIn(D, R)[i] # PlacesIn(D, R)[j]
        /\ \A k \in 1..Cardinality(D) : \E i \in D : PlacesIn(D, R)[i] = k
    <3>1. IsFiniteSet(D) /\ InTotalOrder(D, R)
      BY <1>1, <1>3
    <3>2. Cardinality(D) \in Nat
      BY <3>1, PlacesInOrder
    <3>3. PlacesIn(D, R) \in [D -> 1..Cardinality(D)]
      BY <3>1, PlacesInOrder
    <3>4. \A i, j \in D : i # j /\ <<i, j>> \in R => PlacesIn(D, R)[i] < PlacesIn(D, R)[j]
      BY <3>1, PlacesInOrder
    <3>5. \A i, j \in D : i # j => PlacesIn(D, R)[i] # PlacesIn(D, R)[j]
      BY <3>1, PlacesInOrder
    <3>6. \A k \in 1..Cardinality(D) : \E i \in D : PlacesIn(D, R)[i] = k
      BY <3>1, PlacesInOrder
    <3> QED BY <3>2, <3>3, <3>4, <3>5, <3>6
  <2> QED BY <2>1
<1> DEFINE f == [k \in 1..m |-> CHOOSE i \in D : r[i] = k]
<1> HIDE DEF m, r
<1>5. \A k \in 1..m : f[k] \in D /\ r[f[k]] = k
  BY <1>4
<1>6. f \in [1..m -> D]
  BY <1>5
<1> HIDE DEF f
<1>7. ASSUME NEW i \in 1..m, NEW j \in 1..m, i < j PROVE f[i] < f[j]
  <2>1. f[i] \in D /\ f[j] \in D /\ r[f[i]] = i /\ r[f[j]] = j /\ f[i] \in Int /\ f[j] \in Int
    BY <1>1, <1>5
  <2>2. i \in Int /\ j \in Int /\ i # j /\ ~(j < i)
    BY <1>4, <1>7
  <2>3. f[j] # f[i] /\ <<f[j], f[i]>> \notin R
    BY <1>4, <2>1, <2>2
  <2>4. ~(f[j] <= f[i])
    BY <1>2, <2>1, <2>3
  <2> QED BY <2>1, <2>4
<1>8. \E order \in [1..m -> D] : \A i, j \in DOMAIN order : i < j => order[i] < order[j]
  BY <1>6, <1>7
<1>9. Windows!InOrder = CHOOSE order \in [1..m -> D] : \A i, j \in DOMAIN order : i < j => order[i] < order[j]
  BY SameCardinality DEF Windows!InOrder, m, D
<1>10. Windows!InOrder \in [1..m -> D] /\ \A i, j \in 1..m : i < j => Windows!InOrder[i] < Windows!InOrder[j]
  BY <1>8, <1>9
<1>11. \A i, j \in 1..m : Windows!InOrder[i] = Windows!InOrder[j] => i = j
  <2> SUFFICES ASSUME NEW i \in 1..m, NEW j \in 1..m, Windows!InOrder[i] = Windows!InOrder[j] PROVE i = j
    OBVIOUS
  <2>1. Windows!InOrder[i] \in Int /\ i \in Int /\ j \in Int
    <3>1. Windows!InOrder[i] \in D
      BY <1>10
    <3>2. i \in Int /\ j \in Int
      BY <1>4
    <3> QED BY <1>1, <3>1, <3>2
  <2>2. ~(i < j) /\ ~(j < i)
    BY <1>10, <2>1
  <2> QED BY <2>1, <2>2
<1>12. IsFiniteSet(1..m) /\ Cardinality(1..m) = m
  BY <1>4, FirstNumbers
<1>13. Windows!InOrder \in Injection(1..m, D)
  BY <1>10, <1>11 DEF Injection, IsInjective
<1>14. Windows!InOrder \in Surjection(1..m, D)
  BY <1>1, <1>12, <1>13, FS_Injection DEF m
<1>15. \A s \in D : \E k \in 1..m : Windows!InOrder[k] = s
  BY <1>14 DEF Surjection
<1> QED BY <1>4, <1>10, <1>11, <1>15 DEF D, m

-----------------------------------------------------------------------------
\* Windows have times, and the model is set up at 0.
IsSetUp ==
  /\ windows \in [Sources -> Windows!Windows]
  /\ windowTime \in Nat
  /\ schedule = None => windowTime = 0 /\ windowWake = 0

Plan == Windows!Schedule
Size == 2 * Cardinality(Windows!Defined)

\* The events that are over, of one kind and for a target.
Over(x, isStart) ==
  {i \in (Len(schedule) + 1)..Size : Plan[i].isStart = isStart /\ x \in connections[Plan[i].source]}

\* The model has come to a place in its schedule and has counted the events that are over.
AtItsEvents ==
  /\ schedule \in Seq(Windows!Events) /\ Len(schedule) \in 0..Size /\ DOMAIN schedule = 1..Len(schedule)
  /\ \A i \in 1..Len(schedule) : schedule[i] = Plan[i]
  /\ \A x \in Targets : count[x] = Cardinality(Over(x, TRUE)) - Cardinality(Over(x, FALSE))
  /\ status = Windows!Statuses(count)
  /\ windowWake = 0 => windowTime = 0 /\ Len(schedule) = Size
  /\ windowWake # 0 =>
       /\ \A i \in (Len(schedule) + 1)..Size : Plan[i].time <= windowTime
       /\ Len(schedule) > 0 => windowWake \in Int /\ windowWake = Plan[Len(schedule)].time /\ windowTime < windowWake

WindowsInv == IsSetUp /\ (schedule # None => AtItsEvents)

\* The schedule has the begin and the end of every window once, the latest first.
LEMMA ScheduleIs ==
  ASSUME Windows!ConstantsAssumption, IsSetUp
  PROVE  /\ Size \in Nat /\ DOMAIN Plan = 1..Size /\ Descending(Plan) /\ Len(Plan) = Size
         /\ Plan \in Seq(Windows!Events)
         /\ \A i \in 1..Size : /\ Plan[i] = Windows!Event(Plan[i].source, Plan[i].isStart)
                                 /\ Plan[i].source \in Windows!Defined /\ Plan[i].isStart \in BOOLEAN
                                 /\ Plan[i].time \in Int /\ Plan[i] \in Windows!Events
         /\ \A s \in Windows!Defined : \A b \in BOOLEAN : \E i \in 1..Size : Plan[i] = Windows!Event(s, b)
         /\ \A i, j \in 1..Size :
              Plan[i].source = Plan[j].source /\ Plan[i].isStart = Plan[j].isStart => i = j
<1> DEFINE m == Cardinality(Windows!Defined)
           items == [k \in 1..(2 * m) |-> Windows!Event(Windows!InOrder[(k + 1) \div 2], k % 2 = 1)]
<1>1. /\ m \in Nat /\ Windows!InOrder \in [1..m -> Windows!Defined]
      /\ \A i, j \in 1..m : Windows!InOrder[i] = Windows!InOrder[j] => i = j
      /\ \A s \in Windows!Defined : \E k \in 1..m : Windows!InOrder[k] = s
  BY SourcesInOrder
<1>2. Plan = Players!Sorted(items) /\ Size = 2 * m
  BY SameCardinality, SameTimelines DEF Plan, Windows!Schedule, Size
<1>3. \A s \in Windows!Defined : \A b \in BOOLEAN :
         /\ Windows!Event(s, b).time \in Times /\ Windows!Event(s, b).time \in Int
         /\ Windows!Event(s, b).source = s /\ Windows!Event(s, b).isStart = b
         /\ Windows!Event(s, b) \in Windows!Events
  <2> SUFFICES ASSUME NEW s \in Windows!Defined, NEW b \in BOOLEAN
               PROVE  /\ Windows!Event(s, b).time \in Times /\ Windows!Event(s, b).source = s
                      /\ Windows!Event(s, b).isStart = b
                      /\ Windows!Event(s, b) \in Windows!Events
    BY DEF Windows!ConstantsAssumption
  <2>1. s \in Sources /\ windows[s] \in [begin : Times, end : Times]
    BY DEF Windows!Defined, IsSetUp, Windows!Windows
  <2> QED BY <2>1 DEF Windows!Event, Windows!Events
<1> HIDE DEF m
<1>4. \A k \in 1..(2 * m) : (k + 1) \div 2 \in 1..m /\ (k % 2 = 1) \in BOOLEAN
  BY <1>1
<1>5. Len(items) = 2 * m /\ DOMAIN items = 1..(2 * m) /\ 2 * m \in Nat
      /\ \A k \in 1..(2 * m) : items[k] = Windows!Event(Windows!InOrder[(k + 1) \div 2], k % 2 = 1)
  BY <1>1
<1> HIDE DEF items
<1>6. ASSUME NEW k \in 1..(2 * m)
      PROVE  /\ items[k].source = Windows!InOrder[(k + 1) \div 2] /\ items[k].source \in Windows!Defined
             /\ items[k].isStart = (k % 2 = 1) /\ items[k].isStart \in BOOLEAN
             /\ items[k].time \in Int /\ items[k] \in Windows!Events
             /\ items[k] = Windows!Event(items[k].source, items[k].isStart)
  <2> DEFINE s == Windows!InOrder[(k + 1) \div 2]
             b == (k % 2 = 1)
  <2>1. s \in Windows!Defined /\ b \in BOOLEAN /\ items[k] = Windows!Event(s, b)
    BY <1>1, <1>4, <1>5
  <2> HIDE DEF s, b
  <2>2. items[k].source = s /\ items[k].isStart = b /\ items[k].time \in Int /\ items[k] \in Windows!Events
    BY <1>3, <2>1
  <2> QED BY <2>1, <2>2 DEF s, b
<1>7. Timed(items)
  BY <1>5, <1>6 DEF Timed
<1>8. PICK f \in [1..(2 * m) -> 1..(2 * m)] :
        /\ \A i \in 1..(2 * m) : \E k \in 1..(2 * m) : f[k] = i
        /\ \A j, k \in 1..(2 * m) : j # k => f[j] # f[k]
        /\ \A k \in 1..(2 * m) : Plan[k] = items[f[k]]
  <2> DEFINE Arranges(s, l) ==
               \E f \in [1..l -> 1..l] :
                  /\ \A i \in 1..l : \E k \in 1..l : f[k] = i
                  /\ \A j, k \in 1..l : j # k => f[j] # f[k]
                  /\ \A k \in 1..l : s[k] = items[f[k]]
  <2>1. Arranges(Players!Sorted(items), Len(items))
    BY <1>7, SortedIs
  <2>2. Arranges(Plan, 2 * m)
    <3> HIDE DEF Arranges
    <3> QED BY <1>2, <1>5, <2>1
  <2> QED BY <2>2
<1>9. DOMAIN Plan = 1..(2 * m) /\ Descending(Plan)
  BY <1>2, <1>5, <1>7, SortedIs
<1>10. ASSUME NEW s \in Windows!Defined, NEW b \in BOOLEAN
       PROVE  \E i \in 1..(2 * m) : Plan[i] = Windows!Event(s, b)
  <2>1. PICK p \in 1..m : Windows!InOrder[p] = s
    BY <1>1
  <2> DEFINE k == IF b THEN 2 * p - 1 ELSE 2 * p
  <2>2. k \in 1..(2 * m) /\ (k + 1) \div 2 = p /\ (b => k % 2 = 1) /\ (~b => k % 2 # 1)
    BY <1>1
  <2> HIDE DEF k
  <2>3. b = TRUE \/ b = FALSE
    OBVIOUS
  <2>4. b = TRUE => (k % 2 = 1) = TRUE
    BY <2>2
  <2>5. b = FALSE => (k % 2 = 1) = FALSE
    BY <2>2
  <2>6. (k % 2 = 1) = b
    BY <2>3, <2>4, <2>5
  <2>7. items[k] = Windows!Event(s, b)
    BY <1>5, <2>1, <2>2, <2>6
  <2>8. PICK i \in 1..(2 * m) : f[i] = k
    BY <1>8, <2>2
  <2> QED BY <1>8, <2>7, <2>8
<1>11. ASSUME NEW i \in 1..(2 * m), NEW j \in 1..(2 * m),
              Plan[i].source = Plan[j].source, Plan[i].isStart = Plan[j].isStart
       PROVE  i = j
  <2>1. f[i] \in 1..(2 * m) /\ f[j] \in 1..(2 * m) /\ Plan[i] = items[f[i]] /\ Plan[j] = items[f[j]]
    BY <1>8
  <2>2. Windows!InOrder[(f[i] + 1) \div 2] = Windows!InOrder[(f[j] + 1) \div 2] /\ (f[i] % 2 = 1) = (f[j] % 2 = 1)
    BY <1>6, <1>11, <2>1
  <2>3. (f[i] + 1) \div 2 = (f[j] + 1) \div 2
    <3>1. (f[i] + 1) \div 2 \in 1..m /\ (f[j] + 1) \div 2 \in 1..m
      BY <1>4, <2>1
    <3> QED BY <1>1, <2>2, <3>1
  <2>4. f[i] % 2 = 1 <=> f[j] % 2 = 1
    BY <2>2
  <2>5. f[i] = f[j]
    <3>1. \A a, b \in Nat : (a + 1) \div 2 = (b + 1) \div 2 /\ (a % 2 = 1 <=> b % 2 = 1) => a = b
      OBVIOUS
    <3>2. f[i] \in Nat /\ f[j] \in Nat
      BY <1>1, <2>1
    <3> QED BY <2>3, <2>4, <3>1, <3>2
  <2> QED BY <1>8, <2>5
<1>12. ASSUME NEW i \in 1..(2 * m)
       PROVE  /\ Plan[i] = Windows!Event(Plan[i].source, Plan[i].isStart)
              /\ Plan[i].source \in Windows!Defined /\ Plan[i].isStart \in BOOLEAN
              /\ Plan[i].time \in Int /\ Plan[i] \in Windows!Events
  <2>1. f[i] \in 1..(2 * m) /\ Plan[i] = items[f[i]]
    BY <1>8
  <2> QED BY <1>6, <2>1
<1>13. Len(Plan) = 2 * m
  BY <1>5, <1>9
<1>14. Plan \in Seq(Windows!Events)
  <2>1. Plan = [k \in 1..(2 * m) |-> Plan[k]]
    BY <1>2, <1>5, <1>7, SortedIs
  <2>2. [k \in 1..(2 * m) |-> Plan[k]] \in [1..(2 * m) -> Windows!Events]
    BY <1>12
  <2> QED BY <1>5, <2>1, <2>2
<1> QED BY <1>14, <1>2, <1>5, <1>9, <1>10, <1>11, <1>12, <1>13

\* The schedule depends on nothing but the windows.
LEMMA ScheduleStays == ASSUME UNCHANGED windows PROVE UNCHANGED <<Plan, Size, Windows!Defined>>
<1>1. UNCHANGED Windows!Defined
  BY DEF Windows!Defined
<1>2. UNCHANGED Windows!InOrder
  BY <1>1 DEF Windows!InOrder
<1>3. \A s, b : Windows!Event(s, b)' = Windows!Event(s, b)
  BY DEF Windows!Event
<1>4. UNCHANGED Windows!Schedule
  BY <1>1, <1>2, <1>3 DEF Windows!Schedule
<1> QED BY <1>1, <1>4 DEF Plan, Size

\* The events that are over are finitely many.
LEMMA FinitelyOver ==
  ASSUME Windows!ConstantsAssumption, IsSetUp, NEW n \in Nat, NEW P \in SUBSET ((n + 1)..Size)
  PROVE  IsFiniteSet(P) /\ Cardinality(P) \in Nat
<1>1. Size \in Nat
  BY ScheduleIs
<1>2. IsFiniteSet((n + 1)..Size)
  BY <1>1, FS_Interval
<1> QED BY <1>2, FS_Subset, FS_CardinalityType

\* At 0 there is no schedule yet.
LEMMA InitWindows ==
  ASSUME Windows!Init
  PROVE  WindowsInv
BY DEF Windows!Init, WindowsInv, IsSetUp

\* The model is initialized with all events to come.
LEMMA InitializeKeeps ==
  ASSUME WindowsInv, Windows!ConstantsAssumption, Windows!Initialize
  PROVE  WindowsInv'
<1>1. /\ schedule = None /\ schedule' = Plan /\ count' = [x \in Targets |-> 0]
      /\ status' = Windows!Statuses(count') /\ UNCHANGED <<windows, links, windowTime, windowWake>>
  BY DEF Windows!Initialize, Plan
<1>2. IsSetUp /\ windowTime = 0 /\ windowWake = 0
  BY <1>1 DEF WindowsInv, IsSetUp
<1>3. UNCHANGED <<Plan, Size>>
  BY <1>1, ScheduleStays
<1>4. Size \in Nat /\ DOMAIN Plan = 1..Size /\ Len(Plan) = Size /\ Plan \in Seq(Windows!Events)
  BY <1>2, ScheduleIs
<1>5. Len(schedule') = Size /\ DOMAIN schedule' = 1..Size /\ \A i \in 1..Size : schedule'[i] = Plan[i]
  BY <1>1, <1>4
<1>6. \A x \in Targets, b \in BOOLEAN : Over(x, b)' = {}
  <2>1. (Len(schedule') + 1)..Size' = {}
    BY <1>3, <1>4, <1>5
  <2> QED BY <2>1 DEF Over
<1>7. \A x \in Targets : count'[x] = Cardinality(Over(x, TRUE)') - Cardinality(Over(x, FALSE)')
  <2>1. Cardinality({}) = 0
    BY FS_EmptySet
  <2> SUFFICES ASSUME NEW x \in Targets
               PROVE  count'[x] = Cardinality(Over(x, TRUE)') - Cardinality(Over(x, FALSE)')
    OBVIOUS
  <2>2. Over(x, TRUE)' = {} /\ Over(x, FALSE)' = {}
    BY <1>6, Zenon
  <2> DEFINE starts == Cardinality(Over(x, TRUE)')
             ends == Cardinality(Over(x, FALSE)')
  <2>3. starts = 0 /\ ends = 0
    BY <2>1, <2>2
  <2>4. count'[x] = 0
    BY <1>1
  <2> HIDE DEF starts, ends
  <2>5. count'[x] = starts - ends
    BY <2>3, <2>4
  <2> QED BY <2>5, Zenon DEF starts, ends
<1>8. Windows!Statuses(count)' = Windows!Statuses(count')
  BY DEF Windows!Statuses
<1>9. AtItsEvents'
  <2>1. schedule' \in Seq(Windows!Events) /\ UNCHANGED Windows!Events
    BY <1>1, <1>4 DEF Windows!Events
  <2>2. windowWake' = 0 /\ windowTime' = 0
    BY <1>1, <1>2
  <2>3. Len(schedule') \in 0..Size /\ Len(schedule') = Size
    BY <1>4, <1>5
  <2>4. /\ (schedule \in Seq(Windows!Events))' /\ (Len(schedule) \in 0..Size)'
        /\ (DOMAIN schedule = 1..Len(schedule))' /\ (\A i \in 1..Len(schedule) : schedule[i] = Plan[i])'
    BY <1>1, <1>3, <1>5, <2>1, <2>3
  <2>5. /\ (\A x \in Targets : count[x] = Cardinality(Over(x, TRUE)) - Cardinality(Over(x, FALSE)))'
        /\ (status = Windows!Statuses(count))'
    BY <1>1, <1>7, <1>8
  <2>6. (windowWake = 0)' /\ (windowWake = 0 => windowTime = 0 /\ Len(schedule) = Size)'
    BY <1>3, <2>2, <2>3
  <2> QED BY <2>4, <2>5, <2>6 DEF AtItsEvents
<1>10. IsSetUp'
  BY <1>1, <1>2 DEF IsSetUp
<1> QED BY <1>9, <1>10 DEF WindowsInv

\* An update counts the events that are due.
LEMMA UpdateWindowsKeeps ==
  ASSUME WindowsInv, Windows!ConstantsAssumption, NEW t \in 0..WindowEnd, Windows!Update(t)
  PROVE  WindowsInv'
<1> DEFINE n == Len(schedule)
           m == Windows!Left(schedule, t)
           N == Size
<1>1. /\ schedule # None /\ t >= windowTime /\ t \in Int /\ windowTime' = t
      /\ UNCHANGED <<windows, links, connections>>
  BY DEF Windows!Update
<1>2. IsSetUp /\ AtItsEvents /\ windowTime \in Nat /\ t \in Nat
  <2>1. windowTime \in Nat
    BY DEF WindowsInv, IsSetUp
  <2> QED BY <1>1, <2>1 DEF WindowsInv
<1>3. /\ N \in Nat /\ DOMAIN Plan = 1..N /\ Descending(Plan)
      /\ \A i \in 1..N : Plan[i].time \in Int /\ Plan[i] \in Windows!Events
  BY <1>2, ScheduleIs
<1>4. n \in 0..N /\ DOMAIN schedule = 1..n /\ \A i \in 1..n : schedule[i] = Plan[i]
  BY <1>2 DEF AtItsEvents
<1>5. UNCHANGED <<Plan, Size>>
  BY <1>1, ScheduleStays
<1>6. Timed(schedule) /\ Descending(schedule)
  BY <1>3, <1>4 DEF Timed, Descending
<1>7. m \in 0..n /\ \A k \in 1..n : schedule[k].time > t <=> k <= m
  BY <1>1, <1>4, <1>6, LeftIs, SameTimelines
<1>8. /\ windowWake # 0 => \A i \in (n + 1)..N : Plan[i].time <= windowTime
      /\ windowWake = 0 => n = N
      /\ \A x \in Targets : count[x] = Cardinality(Over(x, TRUE)) - Cardinality(Over(x, FALSE))
      /\ status = Windows!Statuses(count)
  BY <1>2 DEF AtItsEvents
<1>9. \A x, b : Over(x, b) = {i \in (n + 1)..N : Plan[i].isStart = b /\ x \in connections[Plan[i].source]}
  BY DEF Over
<1> HIDE DEF n, m, N
<1>10. n \in Nat /\ m \in Nat /\ m <= n /\ n <= N
  BY <1>3, <1>4, <1>7
<1>11. \A i \in (n + 1)..N : Plan[i].time <= t
  <2> SUFFICES ASSUME NEW i \in (n + 1)..N PROVE Plan[i].time <= t
    OBVIOUS
  <2>1. i \in 1..N /\ Plan[i].time \in Int
    BY <1>3, <1>10
  <2>2. windowWake # 0 /\ Plan[i].time <= windowTime
    BY <1>8, <1>10
  <2> QED BY <1>1, <1>2, <2>1, <2>2
<1>12. CASE schedule = <<>>
  <2>1. windowWake' = None /\ UNCHANGED <<schedule, count, status>>
    BY <1>12 DEF Windows!Update
  <2>2. n = 0 /\ windowWake' # 0
    BY <1>12, <2>1 DEF n, Windows!ConstantsAssumption
  <2>3. Windows!Statuses(count)' = Windows!Statuses(count)
    BY <2>1 DEF Windows!Statuses
  <2>4. \A x, b : Over(x, b)' = Over(x, b)
    BY <1>1, <1>5, <2>1 DEF Over
  <2>5. AtItsEvents'
    <3>1. \A i \in (Len(schedule) + 1)..Size : Plan[i].time <= t
      BY <1>11 DEF n, N
    <3>2. ~(Len(schedule) > 0)
      BY <2>2 DEF n
    <3> QED BY <1>1, <1>2, <1>5, <2>1, <2>2, <2>3, <2>4, <3>1, <3>2 DEF AtItsEvents
  <2> QED BY <1>1, <1>2, <2>1, <2>5 DEF WindowsInv, IsSetUp
<1>13. CASE schedule # <<>>
  <2> DEFINE due == Windows!Due(schedule, t)
  <2>1. /\ count' = Windows!Process(count, due) /\ schedule' = SubSeq(schedule, 1, m)
        /\ status' = Windows!Statuses(count') /\ windowWake' = Windows!NextTime(schedule')
    BY <1>13 DEF Windows!Update, Windows!Remaining, m
  <2>2. due = [k \in 1..(n - m) |-> schedule[n + 1 - k]]
    BY DEF Windows!Due, n, m
  <2>3. /\ Len(schedule') = m /\ DOMAIN schedule' = 1..m
        /\ \A i \in 1..m : schedule'[i] = schedule[i]
    BY <1>4, <1>10, <2>1 DEF n
  <2>0. schedule' \in Seq(Windows!Events)
    <3>1. schedule \in Seq(Windows!Events) /\ Len(schedule) = n
      BY <1>2 DEF AtItsEvents, n
    <3> QED BY <1>10, <2>1, <3>1
  <2>4. \A i \in 1..m : schedule'[i] = Plan[i]
    BY <1>4, <1>10, <2>3
  <2>5. \A i \in (m + 1)..N : Plan[i].time <= t
    <3> SUFFICES ASSUME NEW i \in (m + 1)..N PROVE Plan[i].time <= t
      OBVIOUS
    <3>1. i \in 1..N /\ Plan[i].time \in Int
      BY <1>3, <1>10
    <3>2. CASE i <= n
      BY <1>1, <1>4, <1>7, <1>10, <3>1, <3>2
    <3>3. CASE i > n
      BY <1>10, <1>11, <3>1, <3>3
    <3> QED BY <1>10, <3>1, <3>2, <3>3
  <2>6. m > 0 => windowWake' = Plan[m].time /\ t < windowWake' /\ windowWake' \in Int
    <3>1. m > 0 => schedule' # <<>> /\ Windows!Last(schedule') = schedule'[m]
      BY <2>3 DEF Windows!Last
    <3>2. m > 0 => m \in 1..n /\ m \in 1..N /\ m \in 1..m
      BY <1>3, <1>10
    <3> QED BY <1>1, <1>3, <1>4, <1>7, <2>1, <2>4, <3>1, <3>2 DEF Windows!NextTime
  <2>7. m = 0 => windowWake' = None
    <3>1. m = 0 => schedule' = <<>>
      BY <1>4, <1>10, <2>1
    <3> QED BY <2>1, <3>1 DEF Windows!NextTime
  <2>8. windowWake' # 0
    BY <1>2, <1>10, <2>6, <2>7 DEF Windows!ConstantsAssumption
  <2> HIDE DEF due
  <2>9. ASSUME NEW x \in Targets, NEW b \in BOOLEAN
        PROVE  /\ Cardinality(Over(x, b)') = Cardinality(Over(x, b)) + Cardinality(Windows!Of(due, x, b))
               /\ Cardinality(Over(x, b)) \in Nat /\ Cardinality(Windows!Of(due, x, b)) \in Nat
    <3> DEFINE Counts(i) == Plan[i].isStart = b /\ x \in connections[Plan[i].source]
               Then == {i \in (m + 1)..N : Counts(i)}
               Now == {i \in (n + 1)..N : Counts(i)}
               Late == {i \in (m + 1)..n : Counts(i)}
               Ks == {k \in 1..(n - m) : Counts(n + 1 - k)}
               f == [k \in Ks |-> n + 1 - k]
    <3>1. Over(x, b)' = Then
      <4>1. Over(x, b)' = {i \in (m + 1)..Size : Plan[i].isStart = b /\ x \in connections[Plan[i].source]}
        BY <1>1, <1>5, <2>3 DEF Over
      <4> QED BY <4>1 DEF N
    <3>0. Over(x, b) = Now
      BY <1>9
    <3>2. Windows!Of(due, x, b) = Ks
      <4>1. \A k \in 1..(n - m) : due[k] = Plan[n + 1 - k]
        BY <1>4, <1>10, <2>2
      <4>2. DOMAIN due = 1..(n - m)
        BY <2>2
      <4> QED BY <4>1, <4>2 DEF Windows!Of
    <3>3. Then = Now \cup Late /\ Now \cap Late = {}
      BY <1>3, <1>10
    <3>4. /\ f \in [Ks -> Late] /\ \A i, j \in Ks : f[i] = f[j] => i = j
          /\ \A l \in Late : \E k \in Ks : f[k] = l
      <4>1. \A k \in Ks : k \in Int /\ n + 1 - k \in Late
        BY <1>10
      <4>2. \A l \in Late : n + 1 - l \in Ks /\ n + 1 - (n + 1 - l) = l
        BY <1>10
      <4>3. \A k \in Ks : f[k] = n + 1 - k
        OBVIOUS
      <4> HIDE DEF Ks, Late
      <4>4. f \in [Ks -> Late]
        BY <4>1
      <4> HIDE DEF f
      <4>5. \A i, j \in Ks : f[i] = f[j] => i = j
        BY <1>10, <4>1, <4>3
      <4>6. \A l \in Late : \E k \in Ks : f[k] = l
        BY <4>2, <4>3
      <4> QED BY <4>4, <4>5, <4>6
    <3>5. IsFiniteSet(Ks)
      <4>1. IsFiniteSet(1..(n - m))
        BY <1>10, FS_Interval
      <4>2. Ks \subseteq 1..(n - m)
        OBVIOUS
      <4> QED BY <4>1, <4>2, FS_Subset
    <3>6. IsFiniteSet(Now) /\ Cardinality(Now) \in Nat
      <4>1. Now \subseteq (n + 1)..N
        OBVIOUS
      <4> HIDE DEF Now
      <4> QED BY <1>2, <1>10, <4>1, FinitelyOver DEF N
    <3> HIDE DEF Then, Now, Late, Ks, f, Counts
    <3>7. IsFiniteSet(Late) /\ Cardinality(Late) = Cardinality(Ks)
      BY <3>4, <3>5, SameNumber
    <3>8. Cardinality(Ks) \in Nat
      BY <3>5, FS_CardinalityType
    <3>9. Cardinality(Then) = Cardinality(Now) + Cardinality(Late) - Cardinality({})
      BY <3>3, <3>6, <3>7, FS_Union
    <3> QED BY <3>0, <3>1, <3>2, <3>6, <3>7, <3>8, <3>9, FS_EmptySet
  <2>10. ASSUME NEW x \in Targets
         PROVE  count'[x] = Cardinality(Over(x, TRUE)') - Cardinality(Over(x, FALSE)')
    <3>1. count'[x] = count[x] + Cardinality(Windows!Of(due, x, TRUE)) - Cardinality(Windows!Of(due, x, FALSE))
      BY <2>1, SameCardinality DEF Windows!Process
    <3>2. \A b \in BOOLEAN :
             /\ Cardinality(Over(x, b)') = Cardinality(Over(x, b)) + Cardinality(Windows!Of(due, x, b))
             /\ Cardinality(Over(x, b)) \in Nat /\ Cardinality(Windows!Of(due, x, b)) \in Nat
      BY <2>9
    <3>3. /\ Cardinality(Over(x, TRUE)') = Cardinality(Over(x, TRUE)) + Cardinality(Windows!Of(due, x, TRUE))
          /\ Cardinality(Over(x, FALSE)') = Cardinality(Over(x, FALSE)) + Cardinality(Windows!Of(due, x, FALSE))
          /\ Cardinality(Over(x, TRUE)) \in Nat /\ Cardinality(Windows!Of(due, x, TRUE)) \in Nat
          /\ Cardinality(Over(x, FALSE)) \in Nat /\ Cardinality(Windows!Of(due, x, FALSE)) \in Nat
      BY <3>2
    <3>4. count[x] = Cardinality(Over(x, TRUE)) - Cardinality(Over(x, FALSE))
      BY <1>8
    <3> DEFINE s1 == Cardinality(Over(x, TRUE)')
               e1 == Cardinality(Over(x, FALSE)')
               s0 == Cardinality(Over(x, TRUE))
               e0 == Cardinality(Over(x, FALSE))
               sd == Cardinality(Windows!Of(due, x, TRUE))
               ed == Cardinality(Windows!Of(due, x, FALSE))
    <3>5. /\ s1 = s0 + sd /\ e1 = e0 + ed /\ s0 \in Nat /\ e0 \in Nat /\ sd \in Nat /\ ed \in Nat
          /\ count[x] = s0 - e0 /\ count'[x] = count[x] + sd - ed
      BY <3>1, <3>3, <3>4, Zenon
    <3> HIDE DEF s1, e1, s0, e0, sd, ed
    <3>6. count'[x] = s1 - e1
      BY <3>5
    <3> QED BY <3>6, Zenon DEF s1, e1
  <2>11. Windows!Statuses(count)' = Windows!Statuses(count')
    BY DEF Windows!Statuses
  <2>12. AtItsEvents'
    <3>1. Len(schedule)' = m /\ m \in 0..Size'
      BY <1>3, <1>5, <1>10, <2>3 DEF N
    <3>2. \A i \in (m + 1)..Size' : Plan'[i].time <= windowTime'
      BY <1>1, <1>5, <2>5 DEF N
    <3>3. UNCHANGED Windows!Events
      BY DEF Windows!Events
    <3> QED BY <1>1, <1>5, <2>0, <2>1, <2>3, <2>4, <2>6, <2>8, <2>10, <2>11, <3>1, <3>2, <3>3
            DEF AtItsEvents
  <2>13. schedule' # None
    BY <2>0 DEF Windows!ConstantsAssumption
  <2>14. IsSetUp'
    BY <1>1, <1>2, <2>13 DEF IsSetUp
  <2> QED BY <2>12, <2>14 DEF WindowsInv
<1> QED BY <1>12, <1>13

\* Nothing is due in the time that passes.
LEMMA PassWindowsKeeps ==
  ASSUME WindowsInv, Windows!ConstantsAssumption, NEW t \in 0..WindowEnd, Windows!Pass(t)
  PROVE  WindowsInv'
<1>1. /\ schedule # None /\ windowTime < t /\ (windowWake # None => t < windowWake)
      /\ windowTime' = t /\ t \in Int
      /\ UNCHANGED <<windows, links, connections, schedule, count, status, windowWake>>
  BY DEF Windows!Pass
<1>2. IsSetUp /\ AtItsEvents /\ windowTime \in Nat
  BY <1>1 DEF WindowsInv, IsSetUp
<1>3. windowWake # 0
  BY <1>1, <1>2 DEF Windows!ConstantsAssumption
<1>4. UNCHANGED <<Plan, Size>> /\ Size \in Nat
  BY <1>1, <1>2, ScheduleStays, ScheduleIs
<1>5. \A x, b : Over(x, b)' = Over(x, b)
  BY <1>1, <1>4 DEF Over
<1>6. Windows!Statuses(count)' = Windows!Statuses(count)
  BY <1>1 DEF Windows!Statuses
<1>7. ASSUME NEW i \in (Len(schedule) + 1)..Size PROVE Plan[i].time <= t
  <2>1. Len(schedule) \in 0..Size
    BY <1>2 DEF AtItsEvents
  <2>2. i \in 1..Size
    BY <1>4, <2>1
  <2>3. Plan[i].time <= windowTime /\ Plan[i].time \in Int
    BY <1>2, <1>3, <2>2, ScheduleIs DEF AtItsEvents
  <2> QED BY <1>1, <1>2, <2>3
<1>8. Len(schedule) > 0 => windowWake \in Int /\ windowWake = Plan[Len(schedule)].time /\ t < windowWake
  BY <1>1, <1>2, <1>3 DEF AtItsEvents, Windows!ConstantsAssumption
<1>9. AtItsEvents'
  BY <1>1, <1>2, <1>3, <1>4, <1>5, <1>6, <1>7, <1>8 DEF AtItsEvents
<1>10. IsSetUp'
  BY <1>1, <1>2 DEF IsSetUp
<1> QED BY <1>9, <1>10 DEF WindowsInv

\* Every step keeps the counts.
LEMMA WindowsNext ==
  ASSUME WindowsInv, Windows!ConstantsAssumption, [Windows!Next]_(Windows!vars)
  PROVE  WindowsInv'
<1>1. CASE Windows!ReceiveLinks \/ UNCHANGED Windows!vars
  <2>1. UNCHANGED <<windows, connections, schedule, count, status, windowTime, windowWake>>
    BY <1>1 DEF Windows!ReceiveLinks, Windows!vars
  <2>2. UNCHANGED <<Plan, Size>>
    BY <2>1, ScheduleStays
  <2>3. \A x, b : Over(x, b)' = Over(x, b)
    BY <2>1, <2>2 DEF Over
  <2>4. Windows!Statuses(count)' = Windows!Statuses(count)
    BY <2>1 DEF Windows!Statuses
  <2>5. AtItsEvents => AtItsEvents'
    BY <2>1, <2>2, <2>3, <2>4 DEF AtItsEvents
  <2>6. IsSetUp'
    BY <2>1 DEF WindowsInv, IsSetUp
  <2> QED BY <2>1, <2>5, <2>6 DEF WindowsInv
<1> QED BY <1>1, InitializeKeeps, UpdateWindowsKeeps, PassWindowsKeeps DEF Windows!Next

\* The events of a kind that are over and count for a target are those of as many sources.
LEMMA OverOfSources ==
  ASSUME Windows!ConstantsAssumption, IsSetUp, AtItsEvents, windowWake # 0, NEW x \in Targets, NEW b \in BOOLEAN
  PROVE  LET D == {s \in Windows!Defined : x \in connections[s] /\ Windows!Event(s, b).time <= windowTime}
         IN  IsFiniteSet(D) /\ Cardinality(D) = Cardinality(Over(x, b))
<1> DEFINE n == Len(schedule)
           N == Size
           D == {s \in Windows!Defined : x \in connections[s] /\ Windows!Event(s, b).time <= windowTime}
           O == Over(x, b)
           f == [i \in O |-> Plan[i].source]
<1>1. /\ N \in Nat /\ Descending(Plan) /\ DOMAIN Plan = 1..N
      /\ \A i \in 1..N : /\ Plan[i] = Windows!Event(Plan[i].source, Plan[i].isStart)
                         /\ Plan[i].source \in Windows!Defined /\ Plan[i].time \in Int
      /\ \A s \in Windows!Defined : \A k \in BOOLEAN : \E i \in 1..N : Plan[i] = Windows!Event(s, k)
      /\ \A i, j \in 1..N :
           Plan[i].source = Plan[j].source /\ Plan[i].isStart = Plan[j].isStart => i = j
  BY ScheduleIs
<1>2. /\ n \in 0..N /\ windowTime \in Nat
      /\ \A i \in (n + 1)..N : Plan[i].time <= windowTime
      /\ n > 0 => windowTime < Plan[n].time
  BY DEF AtItsEvents, IsSetUp
<1>3. O = {i \in (n + 1)..N : Plan[i].isStart = b /\ x \in connections[Plan[i].source]}
  BY DEF Over
<1> HIDE DEF n, N, O
<1>4. n \in Nat /\ n <= N
  BY <1>1, <1>2
<1>5. ASSUME NEW i \in 1..N, i <= n PROVE ~(Plan[i].time <= windowTime)
  <2>1. n > 0 /\ n \in 1..N /\ (i = n \/ i < n)
    BY <1>4, <1>5
  <2>2. Plan[i].time \in Int /\ Plan[n].time \in Int /\ windowTime \in Int
    BY <1>1, <1>2, <2>1
  <2>3. CASE i = n
    BY <1>2, <2>1, <2>2, <2>3
  <2>4. CASE i < n
    <3>1. Plan[i].time >= Plan[n].time
      BY <1>1, <2>1, <2>4 DEF Descending
    <3> QED BY <1>2, <2>1, <2>2, <3>1
  <2> QED BY <2>1, <2>3, <2>4
<1>6. ASSUME NEW i \in O
      PROVE  i \in 1..N /\ Plan[i].isStart = b /\ Plan[i].source \in D
  <2>1. i \in (n + 1)..N /\ i \in 1..N
    BY <1>3, <1>4
  <2>2. Plan[i] = Windows!Event(Plan[i].source, b) /\ Plan[i].time <= windowTime /\ Plan[i].source \in Windows!Defined
    BY <1>1, <1>2, <1>3, <2>1
  <2> QED BY <1>3, <2>1, <2>2
<1>7. \A i \in O : f[i] = Plan[i].source
  OBVIOUS
<1>8. f \in [O -> D]
  BY <1>6
<1> HIDE DEF f
<1>9. \A i, j \in O : f[i] = f[j] => i = j
  BY <1>1, <1>6, <1>7
<1>10. ASSUME NEW s \in D PROVE \E i \in O : f[i] = s
  <2>1. s \in Windows!Defined /\ x \in connections[s] /\ Windows!Event(s, b).time <= windowTime
    OBVIOUS
  <2>2. PICK i \in 1..N : Plan[i] = Windows!Event(s, b)
    BY <1>1, <2>1
  <2>3. Plan[i].source = s /\ Plan[i].isStart = b
    BY <2>2 DEF Windows!Event
  <2>4. i \in (n + 1)..N
    BY <1>4, <1>5, <2>1, <2>2
  <2> QED BY <1>3, <1>7, <2>1, <2>3, <2>4
<1> HIDE DEF D
<1>11. IsFiniteSet(O)
  <2>1. O \in SUBSET ((n + 1)..Size)
    BY <1>3 DEF N
  <2> QED BY <1>4, <2>1, FinitelyOver
<1>12. IsFiniteSet(D) /\ Cardinality(D) = Cardinality(O)
  BY <1>8, <1>9, <1>10, <1>11, SameNumber
<1> QED BY <1>12 DEF D, O

\* The counts tell which windows are open.
LEMMA CountsAreTrue ==
  ASSUME WindowsInv, Windows!ConstantsAssumption
  PROVE  Windows!StatusIsTrue
<1> SUFFICES ASSUME schedule # None, windowWake # 0, Windows!WellFormed, NEW x \in Targets
             PROVE  status[x] = \E s \in Sources : /\ x \in connections[s] /\ windows[s] # Undefined
                                                   /\ windows[s].begin <= windowTime
                                                   /\ windowTime < windows[s].end
  BY DEF Windows!StatusIsTrue
<1> DEFINE Begun == {s \in Windows!Defined : x \in connections[s] /\ Windows!Event(s, TRUE).time <= windowTime}
           Ended == {s \in Windows!Defined : x \in connections[s] /\ Windows!Event(s, FALSE).time <= windowTime}
           IsOpen == \E s \in Sources : /\ x \in connections[s] /\ windows[s] # Undefined
                                        /\ windows[s].begin <= windowTime /\ windowTime < windows[s].end
<1>1. IsSetUp /\ AtItsEvents
  BY DEF WindowsInv
<1>2. /\ IsFiniteSet(Begun) /\ IsFiniteSet(Ended)
      /\ count[x] = Cardinality(Begun) - Cardinality(Ended)
      /\ status = Windows!Statuses(count)
  BY <1>1, OverOfSources DEF AtItsEvents
<1>3. /\ \A s \in Windows!Defined : /\ s \in Sources /\ windows[s] # Undefined /\ windows[s].begin <= windows[s].end
                            /\ windows[s].begin \in Int /\ windows[s].end \in Int
                            /\ Windows!Event(s, TRUE).time = windows[s].begin
                            /\ Windows!Event(s, FALSE).time = windows[s].end
      /\ windowTime \in Int
  <2>1. windowTime \in Int
    BY <1>1 DEF IsSetUp
  <2>2. ASSUME NEW s \in Windows!Defined
        PROVE  /\ s \in Sources /\ windows[s] # Undefined /\ windows[s].begin <= windows[s].end
               /\ windows[s].begin \in Int /\ windows[s].end \in Int
               /\ Windows!Event(s, TRUE).time = windows[s].begin
               /\ Windows!Event(s, FALSE).time = windows[s].end
    <3>1. s \in Sources /\ windows[s] # Undefined /\ windows[s] \in [begin : Times, end : Times]
      BY <1>1 DEF Windows!Defined, IsSetUp, Windows!Windows
    <3>2. windows[s].begin \in Int /\ windows[s].end \in Int /\ windows[s].begin <= windows[s].end
      BY <3>1 DEF Windows!WellFormed, Windows!ConstantsAssumption
    <3>3. Windows!Event(s, TRUE).time = windows[s].begin /\ Windows!Event(s, FALSE).time = windows[s].end
      BY DEF Windows!Event
    <3> QED BY <3>1, <3>2, <3>3
  <2> QED BY <2>1, <2>2
<1>4. Ended \subseteq Begun
  <2> SUFFICES ASSUME NEW s \in Ended PROVE s \in Begun
    OBVIOUS
  <2>1. s \in Windows!Defined /\ x \in connections[s] /\ Windows!Event(s, FALSE).time <= windowTime
    OBVIOUS
  <2>2. windows[s].end <= windowTime
    BY <1>3, <2>1, Zenon
  <2>3. windows[s].begin <= windows[s].end /\ windows[s].begin \in Int /\ windows[s].end \in Int /\ windowTime \in Int
    BY <1>3, <2>1, Zenon
  <2> HIDE DEF Begun, Ended, IsOpen
  <2>4. windows[s].begin <= windowTime
    BY <2>2, <2>3, SMT
  <2>5. Windows!Event(s, TRUE).time <= windowTime
    BY <1>3, <2>1, <2>4, Zenon
  <2> QED BY <2>1, <2>5, Zenon DEF Begun
<1>5. IsOpen <=> Ended # Begun
  <2>1. \A s \in Windows!Defined : s \in Begun /\ s \notin Ended <=>
            x \in connections[s] /\ windows[s].begin <= windowTime /\ windowTime < windows[s].end
    <3> SUFFICES ASSUME NEW s \in Windows!Defined
                 PROVE  s \in Begun /\ s \notin Ended <=>
                          x \in connections[s] /\ windows[s].begin <= windowTime /\ windowTime < windows[s].end
      OBVIOUS
    <3>1. s \in Begun <=> x \in connections[s] /\ windows[s].begin <= windowTime
      BY <1>3
    <3>2. s \in Ended <=> x \in connections[s] /\ windows[s].end <= windowTime
      BY <1>3
    <3>0. windows[s].end \in Int /\ windowTime \in Int
      BY <1>3
    <3>3. windowTime < windows[s].end <=> ~(windows[s].end <= windowTime)
      BY <3>0
    <3> QED BY <3>1, <3>2, <3>3
  <2>2. IsOpen <=> \E s \in Windows!Defined : s \in Begun /\ s \notin Ended
    BY <1>3, <2>1 DEF Windows!Defined
  <2> QED BY <1>4, <2>2
<1> HIDE DEF Begun, Ended, IsOpen
<1>6. /\ Cardinality(Begun) \in Nat /\ Cardinality(Ended) \in Nat
      /\ Cardinality(Ended) <= Cardinality(Begun)
      /\ Cardinality(Ended) = Cardinality(Begun) <=> Ended = Begun
  BY <1>2, <1>4, FS_Subset, FS_CardinalityType
<1>7. count[x] > 0 <=> IsOpen
  BY <1>2, <1>5, <1>6
<1>8. status[x] = (count[x] > 0)
  BY <1>2 DEF Windows!Statuses
<1>9. IsOpen \in BOOLEAN
  BY DEF IsOpen
<1>10. status[x] = IsOpen
  <2> DEFINE positive == count[x] > 0
  <2>1. status[x] = positive /\ (positive <=> IsOpen) /\ positive \in BOOLEAN
    BY <1>7, <1>8
  <2> HIDE DEF positive
  <2>2. positive = TRUE \/ positive = FALSE
    BY <2>1
  <2>3. positive = TRUE => IsOpen = TRUE
    BY <1>9, <2>1
  <2>4. positive = FALSE => IsOpen = FALSE
    BY <1>9, <2>1
  <2> QED BY <2>1, <2>2, <2>3, <2>4
<1> QED BY <1>10, Zenon DEF IsOpen

\* Windows that overlap, touch, are empty or have begun before the simulation, of any number of
\* sources and targets: a target is on exactly while a window of a source that is connected to
\* it is open, whenever the model is called (time_window_status.py update, process_event).
THEOREM StatusesAreTrue ==
  ASSUME Windows!ConstantsAssumption
  PROVE  Windows!Spec => []Windows!StatusIsTrue
<1>1. Windows!Init => WindowsInv
  BY InitWindows
<1>2. WindowsInv /\ [Windows!Next]_(Windows!vars) => WindowsInv'
  BY WindowsNext
<1>3. WindowsInv => Windows!StatusIsTrue
  BY CountsAreTrue
<1> QED BY <1>1, <1>2, <1>3, PTL DEF Windows!Spec
=============================================================================
