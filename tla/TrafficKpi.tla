------------------------------ MODULE TrafficKpi ------------------------------
(***************************************************************************)
(* The traffic KPI model: emissions and energy of the flows over transport *)
(* segments, the sum over kinds of vehicles of the flow times coefficients *)
(* of a tape, times scenario parameters of another tape.                   *)
(*                                                                         *)
(* The flows of all segments are one value, the length of a segment and    *)
(* the constants of conversion are left out, and the coefficients of a row *)
(* are small numbers; which of them a kind of vehicle uses is kept.        *)
(***************************************************************************)
EXTENDS Integers, Sequences, FiniteSets, FiniteSetsExt

CONSTANTS
  Modalities,       \* of "roads", "waterways", "tracks"
  CoefficientTapes, \* sequences of rows [time, factor, share, capacity, load]: factor per
                    \* kpi, share per vehicle
  ScenarioTapes,    \* sequences of rows [time, values], values per parameter; or None
  Parameters,       \* choices of the scenario parameters per category
  Flows,            \* what a flow may be
  Undefined, None,
  End

\* The rows of a tape are in order (set_timeline raises an error otherwise).
Tape(rows) ==
  /\ rows \in Seq({rows[i] : i \in DOMAIN rows})
  /\ \A i \in DOMAIN rows : rows[i].time \in Int
  /\ \A i, j \in DOMAIN rows : i < j => rows[i].time <= rows[j].time
ConstantsAssumption ==
  /\ \A rows \in CoefficientTapes \cup (ScenarioTapes \ {None}) : Tape(rows)
  /\ None \notin Int /\ End \in Int /\ Undefined \notin Flows

VARIABLES
  modality, coefficients, scenario, parameters,   \* the configuration
  pos,             \* per tape current_pos, counted from one
  flow,            \* per category
  seen,            \* the flows that are initialized, remembered by is_initialized
  changed,         \* the flows with changes
  output,          \* per kpi; Undefined before the first calculation
  ready,           \* initialize has succeeded
  now, wake,
  answered,        \* whether the model has been called at this moment, with all it received
  failed           \* an error other than NotReady

vars == <<modality, coefficients, scenario, parameters, pos, flow, seen, changed,
          output, ready, now, wake, answered, failed>>

Categories == {"cargo", "passenger"}
Kpis == {"co2", "nox", "energy"}
Tapes == {"coefficients", "scenario"}

\* add_road_coefficients, add_waterway_coefficients and add_tracks_coefficients: for every
\* kpi the same kinds of vehicles.
RoadVehicles == [cargo |-> {"truck_medium", "tractor_light", "tractor_heavy"},
                 passenger |-> {"passenger_car"}]
WaterwayVehicles == [cargo |-> {"rhc", "lr"}, passenger |-> {}]
TrackVehicles == [cargo |-> {"train_medium_length"}, passenger |-> {"ic", "st"}]
Vehicles == CASE modality = "roads" -> RoadVehicles
              [] modality = "waterways" -> WaterwayVehicles
              [] modality = "tracks" -> TrackVehicles

-----------------------------------------------------------------------------
\* The tapes: CoefficientsTape and CsvTape are tapes of rows.
Rows(tape) == IF tape = "coefficients" THEN coefficients ELSE scenario
HasTape(tape) == tape = "coefficients" \/ scenario # None
PositionAt(rows, t) == Cardinality({i \in DOMAIN rows : rows[i].time <= t})

\* Position -1, before the first row, is the last row to numpy and no row to pandas.
CurrentCoefficients(at) ==
  LET p == at["coefficients"] IN coefficients[IF p = 0 THEN Len(coefficients) ELSE p]
MissingParameters(at) ==
  scenario # None /\ at["scenario"] = 0 /\ \E c \in Categories : parameters[c] # {}

ProceedTapes(at, t) == [tape \in Tapes |-> IF HasTape(tape) THEN PositionAt(Rows(tape), t) ELSE at[tape]]

\* next_time: the earliest row to come of the two tapes
NextTime_Coefficients(at) ==
  IF at["coefficients"] < Len(coefficients) THEN coefficients[at["coefficients"] + 1].time ELSE None
NextTime(at) ==
  LET coming == {tape \in Tapes : HasTape(tape) /\ at[tape] < Len(Rows(tape))}
  IN IF coming = {} THEN None ELSE Min({Rows(tape)[at[tape] + 1].time : tape \in coming})

-----------------------------------------------------------------------------
\* _compute_scenario_multiplier and _add_contributions
Product(f) == FoldFunction( *, 1, f)
ScenarioMultiplier(category, at) ==
  IF scenario = None THEN 1
  ELSE Product([p \in parameters[category] |-> scenario[at["scenario"]].values[p]])

BaseCoefficient(row, category, kpi, vehicle) ==
  LET perKm == row.factor[kpi] * row.share[vehicle]
  IN CASE modality # "tracks" /\ category = "cargo" -> perKm * row.capacity * row.load
       [] modality = "roads" /\ category = "passenger" -> perKm * row.capacity
       [] modality = "tracks" /\ category = "cargo" -> perKm
       [] OTHER -> perKm \div row.capacity

Contribution(category, kpi, at) ==
  LET row == CurrentCoefficients(at)
  IN SumFunction([v \in Vehicles[category] |->
                    flow[category] * BaseCoefficient(row, category, kpi, v)
                      * ScenarioMultiplier(category, at)])

\* reset_values, and the contributions of the flows that are initialized
ResetValues == [k \in Kpis |-> 0]
WithContributions(values, flows, at) ==
  [k \in Kpis |-> values[k] + SumFunction([c \in flows |-> Contribution(c, k, at)])]

\* _coefficient_or_flow_changes; it asks a tape of scenario parameters that may be missing.
HasUpdate(tape, before, after) == before[tape] # after[tape]
AnyChange(before, after) ==
  HasUpdate("scenario", before, after) \/ HasUpdate("coefficients", before, after) \/ changed # {}

-----------------------------------------------------------------------------
\* setup moves the scenario tape to 0 already; the coefficients are before their first row.
Init ==
  /\ modality \in Modalities /\ coefficients \in CoefficientTapes /\ scenario \in ScenarioTapes
  /\ parameters \in Parameters
  /\ pos = [tape \in Tapes |-> IF tape = "scenario" /\ scenario # None
                               THEN PositionAt(scenario, 0) ELSE 0]
  /\ flow \in [Categories -> Flows \cup {Undefined}]
  /\ seen = {} /\ changed = {} /\ output = Undefined /\ ready = FALSE
  /\ now = 0 /\ wake = None /\ answered = FALSE /\ failed = FALSE

InitializedFlows == seen \cup {c \in Categories : flow[c] # Undefined}

\* initialize: raises NotReady without any flow
Initialize ==
  /\ ~ready /\ InitializedFlows # {}
  /\ ready' = TRUE /\ seen' = InitializedFlows
  /\ UNCHANGED <<modality, coefficients, scenario, parameters, pos, flow, changed,
                 output, now, wake, answered, failed>>

Update ==
  /\ ready /\ ~failed /\ ~answered
  /\ LET at == ProceedTapes(pos, now)
         calculates == AnyChange(pos, at)
     IN /\ pos' = at
        /\ failed' = (scenario = None \/ (calculates /\ MissingParameters(at)))
        /\ IF failed' THEN UNCHANGED <<seen, changed, output, wake, answered>>
           ELSE /\ output' = IF calculates
                             THEN WithContributions(ResetValues, InitializedFlows, at) ELSE output
                /\ seen' = IF calculates THEN InitializedFlows ELSE seen
                /\ wake' = NextTime(at) /\ changed' = {} /\ answered' = TRUE
  /\ UNCHANGED <<modality, coefficients, scenario, parameters, flow, ready, now>>

\* Another model's flow arrives.
Receive ==
  /\ ~failed
  /\ \E c \in Categories, v \in Flows :
       v # flow[c] /\ flow' = [flow EXCEPT ![c] = v] /\ changed' = changed \cup {c}
  /\ answered' = FALSE
  /\ UNCHANGED <<modality, coefficients, scenario, parameters, pos, seen, output,
                 ready, now, wake, failed>>

\* A new time, at the latest the one the model asked for; a model that is not ready is not
\* updated at it.
NewTime ==
  /\ ~failed /\ (answered \/ ~ready \/ (wake # None /\ wake > now)) /\ changed = {}
  /\ now' \in (now + 1)..(IF wake = None \/ wake > End THEN End ELSE wake)
  /\ answered' = (answered /\ wake # now')
  /\ UNCHANGED <<modality, coefficients, scenario, parameters, pos, flow, seen, changed,
                 output, ready, wake, failed>>

Next == Initialize \/ Update \/ Receive \/ NewTime
Spec == Init /\ [][Next]_vars

-----------------------------------------------------------------------------
\* From the moment both tapes have begun, what the model shows at any later moment - whether
\* it was called at it or not - is the sum for the present rows of both tapes and the present
\* flows: no row is slept through, and nothing is counted twice or from an earlier row.
Present == [tape \in Tapes |-> PositionAt(Rows(tape), now)]
KpisAreCurrent ==
  answered /\ scenario # None /\ (\A tape \in Tapes : Present[tape] > 0) =>
    output = WithContributions([k \in Kpis |-> 0], {c \in Categories : flow[c] # Undefined}, Present)
=============================================================================
