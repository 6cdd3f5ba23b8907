--------------------------- MODULE DrinkingWater ---------------------------
(***************************************************************************)
(* The drinking water model: a WNTR simulation that is paused between      *)
(* updates.  An update runs the simulation up to its moment with the       *)
(* inputs it had, and then passes on the inputs that have changed.         *)
(***************************************************************************)
EXTENDS Integers, Sequences

CONSTANTS
  Links,        \* the links of the dataset in order: records of a name and a kind
  Hydraulic,    \* hydraulic_timestep
  Report,       \* report_timestep
  End,          \* the last moment
  Undefined

\* The time steps are positive, and an undefined value is no number.
ConstantsAssumption ==
  Hydraulic \in Nat \ {0} /\ Report \in Nat /\ End \in Nat /\ Undefined \notin Int

VARIABLES
  driven,    \* the element whose inputs other models change
  array,     \* the inputs in the state
  engine,    \* the settings of the elements in the WaterNetworkModel
  at,        \* the time of the last step of the simulation, or Undefined when it failed
  used,      \* history: per unit of time the settings it was simulated with
  missed,    \* history: the elements whose last change the solver was not told
  known,     \* history: per moment passed the settings the state asked for when it was
             \* over, and what was missed then
  published, \* per link which result it shows
  last,      \* last_calculated, -1 for None
  now, wake

vars == <<driven, array, engine, at, used, missed, known, published, last, now, wake>>

InputsOf ==
  [junction |-> {"base_demand", "demand_factor"}, reservoir |-> {"base_head", "head_factor"},
   pipe |-> {"pipe_status"}, pump |-> {"pump_status", "power"}, valve |-> {"valve_status"}]
Elements == DOMAIN InputsOf
Statuses == {"pipe_status", "pump_status", "valve_status"}
Inputs == UNION {InputsOf[e] : e \in Elements}
ValuesOf(i) == IF i \in Statuses THEN {0, 1} ELSE {1, 2}       \* a status is 1 for open

\* _opt_val: the value, or the default when it is undefined.
OptVal(v, default) == IF v = Undefined THEN default ELSE v

\* What the arrays ask of an element: factors are 1, statuses open and the power is 1
\* unless they are defined.
JunctionDemand(a) == a["base_demand"] * OptVal(a["demand_factor"], 1)
ReservoirHead(a) == a["base_head"] * OptVal(a["head_factor"], 1)
PipeStatus(a) == OptVal(a["pipe_status"], 1)
PumpSetting(a) == <<OptVal(a["pump_status"], 1), OptVal(a["power"], 1)>>
ValveStatus(a) == OptVal(a["valve_status"], 1)
Settings(a) ==
  [junction |-> <<JunctionDemand(a)>>, reservoir |-> <<ReservoirHead(a)>>,
   pipe |-> <<PipeStatus(a)>>, pump |-> PumpSetting(a), valve |-> <<ValveStatus(a)>>]

\* What an update writes to an element: a pump gets the power as it is in the array.
\* (An undefined status counts as true, and is open.)
PumpUpdate(a) == <<OptVal(a["pump_status"], 1), a["power"]>>
Updated(a) == [Settings(a) EXCEPT !.pump = PumpUpdate(a)]

\* process_changes: the elements of which an input has changed look at their arrays again.
Touched(changed) == {e \in Elements : InputsOf[e] \cap changed # {}}
ProcessChanges_Base(a, changed) ==
  [e \in Elements |->
     IF \E i \in InputsOf[e] \cap changed : i \notin {"demand_factor", "head_factor", "power"}
     THEN Updated(a)[e] ELSE engine[e]]
ProcessChanges(a, changed) ==
  [e \in Elements |-> IF e \in Touched(changed) THEN Updated(a)[e] ELSE engine[e]]

\* initialize: create_elements.  The dataset has the base values, and a power pump has
\* its power (drinking_water_model.rst: "Required for power pumps").
Required == {"base_demand", "base_head", "power"}
Init ==
  /\ driven \in Elements
  /\ array \in [Inputs -> {1, Undefined}]
  /\ \A i \in Required : array[i] = 1
  /\ engine = Settings(array)
  /\ at = 0 /\ used = <<>> /\ missed = {} /\ known = <<>> /\ last = -1
  /\ published = [k \in DOMAIN Links |-> Undefined]
  /\ now = 0 /\ wake = Report

\* run_sim of WNTR, from the time the simulation is at: its steps are multiples of
\* the time step.  There is no result if the duration has been passed.
RunSim(from, duration, step) ==
  IF from = Undefined \/ duration < from THEN Undefined ELSE (duration \div step) * step

AtLeastOne(m) == IF m = 0 THEN 1 ELSE m      \* WNTR cannot run for no time
StepFor(m) == IF Hydraulic < AtLeastOne(m) THEN Hydraulic ELSE AtLeastOne(m)
ProgressTo(m) == (AtLeastOne(m) \div StepFor(m)) * StepFor(m)

\* run_simulation: to the last whole step, then with one small step to the moment.
RunSimulation(m) ==
  LET result == RunSim(at, ProgressTo(m), StepFor(m))
  IN IF ProgressTo(m) < AtLeastOne(m) THEN RunSim(result, AtLeastOne(m), AtLeastOne(m)) ELSE result

\* The columns of the results: WNTR puts head pumps before power pumps.
OfKind(kinds) == SelectSeq(Links, LAMBDA l : l.kind \in kinds)
Pumps == {"head_pump", "power_pump"}
Columns == OfKind({"pipe"}) \o OfKind({"head_pump"}) \o OfKind({"power_pump"}) \o OfKind({"valve"})

PlaceIn(l, s) == CHOOSE k \in DOMAIN s : s[k] = l
\* write_results: pipes and valves by their place in the dataset, pumps by name.
ColumnOf(l) ==
  CASE l.kind = "pipe" -> PlaceIn(l, OfKind({"pipe"}))
    [] l.kind \in Pumps -> CHOOSE c \in DOMAIN Columns : Columns[c].name = l.name
    [] l.kind = "valve" -> Len(OfKind({"pipe"} \cup Pumps)) + PlaceIn(l, OfKind({"valve"}))

\* The data an update brings: nothing, or a value for an input.
Data == {<<>>} \cup UNION {[{i} -> ValuesOf(i)] : i \in InputsOf[driven]}
Received(data) == [i \in Inputs |-> IF i \in DOMAIN data THEN data[i] ELSE array[i]]
ChangedBy(data) == {i \in DOMAIN data : data[i] # array[i]}

\* update at a new moment: simulate with the settings so far, publish, and pass on
\* the changes; the first update forgets its changes instead.
Update(data) ==
  LET wanted == Received(data)  result == RunSimulation(now) IN
  /\ now > last
  /\ array' = wanted
  /\ at' = result
  /\ IF result = Undefined
     THEN UNCHANGED <<engine, used, missed, published, last, wake>>
     ELSE /\ used' = [u \in 1..result |-> IF u \in DOMAIN used THEN used[u] ELSE engine]
          /\ published' = [k \in DOMAIN Links |->
                             [of |-> Columns[ColumnOf(Links[k])].name, time |-> result]]
          /\ engine' = IF last = -1 THEN engine ELSE ProcessChanges(wanted, ChangedBy(data))
          /\ missed' = IF last = -1 THEN Touched(ChangedBy(data))
                       ELSE missed \ Touched(ChangedBy(data))
          /\ last' = now
          /\ wake' = IF now >= wake THEN wake + Report ELSE wake
  /\ UNCHANGED <<driven, known, now>>

\* update again at the moment: only the changes are passed on.
UpdateAgain(data) ==
  /\ last = now /\ at # Undefined /\ data # <<>>
  /\ array' = Received(data)
  /\ engine' = ProcessChanges(Received(data), ChangedBy(data))
  /\ missed' = missed \ Touched(ChangedBy(data))
  /\ UNCHANGED <<driven, at, used, known, published, last, now, wake>>

\* The time moves to the moment the model asked for, or to an earlier one at which
\* another model has something to tell.
NextMoment ==
  /\ now < End /\ last = now /\ at # Undefined
  /\ now' \in (now + 1)..(IF wake < End THEN wake ELSE End)
  /\ known' = [t \in 1..now' |->
                 IF t \in DOMAIN known THEN known[t]
                 ELSE [asked |-> Settings(array), missed |-> missed]]
  /\ UNCHANGED <<driven, array, engine, at, used, missed, published, last, wake>>

Next == NextMoment \/ (\E data \in Data : Update(data) \/ UpdateAgain(data))

Spec == Init /\ [][Next]_vars

(***************************************************************************)
(* Properties                                                              *)
(***************************************************************************)
\* A change that is received at a moment takes effect from that moment onward: every
\* unit of time is simulated with what the state asked for before it began.  (The first
\* unit is simulated for the results at 0.)  For the elements whose last change came
\* with the first update it does not hold, see ChangesActFromTheirMoment.
PassedOnChangesActInTime ==
  \A u \in DOMAIN used \cap DOMAIN known, e \in Elements :
    u > 1 /\ e \notin known[u].missed => used[u][e] = known[u].asked[e]

\* The same for every element: "apply the change so it takes effect from t=x onward"
\* (model.py:180-184).
ChangesActFromTheirMoment ==
  \A u \in DOMAIN used \cap DOMAIN known : u > 1 => used[u] = known[u].asked

\* The results a link shows after an update are its own, of the moment of the update.
ResultsAreOfTheMoment ==
  at # Undefined /\ last # -1 =>
    \A k \in DOMAIN Links : published[k] = [of |-> Links[k].name, time |-> AtLeastOne(last)]
=============================================================================
