------------------------------- MODULE MCModels -------------------------------
(***************************************************************************)
(* Instances for TLC of the calculation models and players, of what is     *)
(* between a model and the simulation (its adapter and attributes), and of *)
(* the dataset creator.                                                    *)
(*                                                                         *)
(* They share no state, so that one run can check them all: a behaviour is *)
(* one of the component that part names, u1, u2, ... are its variables.    *)
(***************************************************************************)
EXTENDS MCModelsInputs

CONSTANTS
  Parts,   \* the components that are checked
  k1, k2, v1, v2, x, y, z, a, b, m1, m2, i1, i2, c1, c2,
  Zero, NaN, Special, Infinite, Eps, DefaultAlpha

VARIABLES
  part,
  u1, u2, u3, u4, u5, u6, u7, u8, u9, u10, u11, u12, u13, u14, u15, u16, u17, u18,
  u19, u20

\* The components of this run.
ASSUME PartsAssumption ==
  Parts \subseteq {"growth", "series", "csr", "players", "windows", "water", "drainage", "swmm",
                    "rules", "network", "demand", "assignment", "kpis",
                    "overlaps", "areas", "creator"}

\* Model values that no component treats differently from another.
Symmetric == Permutations({i1, i2}) \cup Permutations({c1, c2})

-----------------------------------------------------------------------------
Growth == INSTANCE ModelAdapter WITH
  group <- u1, latched <- u2, modelInitialized <- u3, modelReadyForUpdate <- u4,
  nextTime <- u5, status <- u6, now <- u7, request <- u8, due <- u9, result <- u10,
  shown <- u11, wish <- u12, grown <- u13, refused <- u14, world <- u15, seen <- u16,
  sent <- u17, Ids <- {i1, i2}, Values <- {c1, c2}, InitAttributes <- {},
  RequiredAttributes <- {}, SubAttributes <- {x}, PubAttributes <- {y},
  InitialIds <- SUBSET {i1, i2} \cup {None}, MayRefuse <- TRUE, MaxSeries <- 1,
  End <- 1

Series == INSTANCE ModelAdapter WITH
  group <- u1, latched <- u2, modelInitialized <- u3, modelReadyForUpdate <- u4,
  nextTime <- u5, status <- u6, now <- u7, request <- u8, due <- u9, result <- u10,
  shown <- u11, wish <- u12, grown <- u13, refused <- u14, world <- u15, seen <- u16,
  sent <- u17, Ids <- {i1}, Values <- {c1, c2}, InitAttributes <- {x},
  RequiredAttributes <- {x, z}, SubAttributes <- {x, z}, PubAttributes <- {},
  InitialIds <- {{}, {i1}, None}, MayRefuse <- TRUE, MaxSeries <- 2, End <- 2

Csr == INSTANCE CsrAttribute WITH
  own <- u1, other <- u2, touched <- u3, want <- u4, sent <- u5, Ids <- {1, 2, 3},
  Known <- <<<<1, 2>>, <<2>>>>, RowValues <- {<<5, 6>>}, Incoming <- {<<>>},
  Matrices <- {<<<<5>>, <<6>>>>}, Empty <- None

Players == INSTANCE Tapes WITH
  player <- u1, file <- u2, timeline <- u3, position <- u4, state <- u5, now <- u6,
  wake <- u7, failed <- u8, Players <- {"tape", "csv", "netcdf"}, Keys <- {k1, k2},
  Values <- {v1, v2}, Seconds <- {0, 1, 2, 5}, Scale <- 2, End <- 3, MaxLength <- 3

Windows == INSTANCE TimeWindows WITH
  windows <- u1, links <- u2, connections <- u3, schedule <- u4, count <- u5,
  status <- u6, now <- u7, wake <- u8, Sources <- {1, 2}, Targets <- {x, y},
  Times <- (-1) .. 3, End <- 2

Water == INSTANCE DrinkingWater WITH
  driven <- u1, array <- u2, engine <- u3, at <- u4, used <- u5, missed <- u6,
  known <- u7, published <- u8, last <- u9, now <- u10, wake <- u11, Links <- WaterLinks,
  Hydraulic <- 3, Report <- 4, End <- 5

Sewer == INSTANCE Drainage WITH
  active <- u1, stage <- u2, engine <- u3, offset <- u4, snapshot <- u5,
  pending <- u6, array <- u7, ran <- u8, last <- u9, wake <- u10, now <- u11,
  began <- u12, Wrappers <- {a, b}, Values <- {v1}, Report <- 2, TimeScale <- 1, EngineEnd <- 2,
  End <- 3

Swmm == INSTANCE SwmmInp WITH
  net <- u1, names <- u2, inp <- u3, stage <- u4, next <- u5,
  Networks <- SwmmNetworks, Override <- Undefined, Default <- "HORTON"

Rules == INSTANCE Rules WITH
  project <- u1, rules <- u2, data <- u3, out <- u4, asked <- u5, now <- u6,
  Projects <- RuleProjects, Datasets <- RuleDatasets, Values <- {1, 2}, Scale <- 2,
  Day <- 6, Clock0 <- 2, End <- 5

Paths == INSTANCE Network WITH
  net <- u1, plan <- u2, cost <- u3, routed <- u4, graph <- u5, source <- u6,
  cache <- u7, todo <- u8, result <- u9, Networks <- PathNetworks, Costs <- {1, 2},
  Plans <- PathPlans, NaN <- NaN

Demand == INSTANCE TrafficDemand WITH
  tape <- u1, pos <- u2, lastPos <- u3, curr <- u4, values <- u5, costs <- u6,
  changed <- u7, old <- u8, oldCosts <- u9, investments <- u10, demand <- u11,
  now <- u12, count <- u13, wake <- u14, plan <- u15, first <- u16, zeroed <- u17,
  answered <- u18, seen <- u19, skipped <- u20, Nodes <- {1, 2, 3}, Targets <- {1, 2}, Nearest <- <<1, 2, 2>>,
  Levels <- {0, 1}, Elasticity <- 1, RouteElasticity <- 2, GlobalElasticity <- 1,
  Tapes <- DemandTapes, Plans <- DemandPlans, Scale <- 2, End <- 2, MaxIterations <- 2

Assignment == INSTANCE TrafficAssignment WITH
  modality <- u1, attrs <- u2, changed <- u3, demand <- u4, nodes <- u5, links <- u6,
  graph <- u7, published <- u8, answered <- u9,
  Modalities <- {"roads", "waterways", "tracks", "passenger_tracks", "cargo_tracks"},
  Segments <- <<11>>,
  DemandLinks <- <<21>>, TransportNodes <- AssignmentNodes,
  DemandNodes <- AssignmentZones, Attributes <- AssignmentAttributes(Special),
  Changes <- AssignmentChanges,
  Demands <- {[passenger |-> m1, cargo |-> m2], [passenger |-> m2, cargo |-> m1]},
  Distance <- 4, LockTime <- 7, MaxChanges <- 2

Indicators == INSTANCE TrafficKpi WITH
  modality <- u1, coefficients <- u2, scenario <- u3, parameters <- u4, pos <- u5,
  flow <- u6, seen <- u7, changed <- u8, output <- u9, ready <- u10, now <- u11,
  wake <- u12, answered <- u13, failed <- u14,
  Modalities <- {"roads", "waterways", "tracks"}, CoefficientTapes <- KpiCoefficients,
  ScenarioTapes <- KpiScenarios, Parameters <- KpiParameters, Flows <- {0, 1},
  End <- 4

Overlaps == INSTANCE OverlapStatus WITH
  checked <- u1, status <- u2, published <- u3, entities <- u4, next <- u5,
  failed <- u6, undefinedSeen <- u7, dirty <- u8, Sources <- {1, 2},
  Targets <- <<{11, 12}, {13}>>, Near <- OverlapsNear, Checked <- {{0, 1, 2}, {0, 2}},
  Overlaps <- 3

Aggregates == INSTANCE AreaAggregation WITH
  interval <- u1, source <- u2, aggregates <- u3, previousSource <- u4,
  previousTime <- u5, wake <- u6, now <- u7, dirty <- u8, trueIntegral <- u9,
  Areas <- {"a", "b", "c"}, Entities <- {1, 2, 3}, Overlapping <- AreasOverlapping,
  Values <- {1, 2}, Special <- -9999, Unit <- 2, Intervals <- {0, 1, 3}, Scale <- 2,
  End <- 4

Creator == INSTANCE DatasetCreator WITH
  config <- u1, sources <- u2, enums <- u3, data <- u4, ids <- u5, done <- u6,
  error <- u7, Configs <- CreatorConfigs, Tables <- CreatorTables,
  Enums <- CreatorEnums

\* The variables from the k-th on belong to no component of the behaviour.
Empty(k) ==
  /\ IF k <= 6 THEN u6 = None ELSE TRUE
  /\ IF k <= 7 THEN u7 = None ELSE TRUE
  /\ IF k <= 8 THEN u8 = None ELSE TRUE
  /\ IF k <= 9 THEN u9 = None ELSE TRUE
  /\ IF k <= 10 THEN u10 = None ELSE TRUE
  /\ IF k <= 11 THEN u11 = None ELSE TRUE
  /\ IF k <= 12 THEN u12 = None ELSE TRUE
  /\ IF k <= 13 THEN u13 = None ELSE TRUE
  /\ IF k <= 14 THEN u14 = None ELSE TRUE
  /\ IF k <= 15 THEN u15 = None ELSE TRUE
  /\ IF k <= 16 THEN u16 = None ELSE TRUE
  /\ IF k <= 17 THEN u17 = None ELSE TRUE
  /\ IF k <= 18 THEN u18 = None ELSE TRUE
  /\ IF k <= 19 THEN u19 = None ELSE TRUE
  /\ IF k <= 20 THEN u20 = None ELSE TRUE
Kept(k) ==
  /\ IF k <= 6 THEN UNCHANGED u6 ELSE TRUE
  /\ IF k <= 7 THEN UNCHANGED u7 ELSE TRUE
  /\ IF k <= 8 THEN UNCHANGED u8 ELSE TRUE
  /\ IF k <= 9 THEN UNCHANGED u9 ELSE TRUE
  /\ IF k <= 10 THEN UNCHANGED u10 ELSE TRUE
  /\ IF k <= 11 THEN UNCHANGED u11 ELSE TRUE
  /\ IF k <= 12 THEN UNCHANGED u12 ELSE TRUE
  /\ IF k <= 13 THEN UNCHANGED u13 ELSE TRUE
  /\ IF k <= 14 THEN UNCHANGED u14 ELSE TRUE
  /\ IF k <= 15 THEN UNCHANGED u15 ELSE TRUE
  /\ IF k <= 16 THEN UNCHANGED u16 ELSE TRUE
  /\ IF k <= 17 THEN UNCHANGED u17 ELSE TRUE
  /\ IF k <= 18 THEN UNCHANGED u18 ELSE TRUE
  /\ IF k <= 19 THEN UNCHANGED u19 ELSE TRUE
  /\ IF k <= 20 THEN UNCHANGED u20 ELSE TRUE

\* Bound: the elements of the water network that no other model changes are defined.
WaterBound == \A i \in Water!Inputs \ Water!InputsOf[u1] : u2[i] = 1

Init ==
  /\ part \in Parts
  /\ \/ part = "growth" /\ Growth!Init /\ Empty(18)
     \/ part = "series" /\ Series!Init /\ Empty(18)
     \/ part = "csr" /\ Csr!Init /\ Empty(6)
     \/ part = "players" /\ Players!Init /\ Empty(9)
     \/ part = "windows" /\ Windows!Init /\ Empty(9)
     \/ part = "water" /\ Water!Init /\ WaterBound /\ Empty(12)
     \/ part = "drainage" /\ Sewer!Init /\ Empty(13)
     \/ part = "swmm" /\ Swmm!Init /\ Empty(6)
     \/ part = "rules" /\ Rules!Init /\ Empty(7)
     \/ part = "network" /\ Paths!Init /\ Empty(10)
     \/ part = "demand" /\ Demand!Init
     \/ part = "assignment" /\ Assignment!Init /\ Empty(10)
     \/ part = "kpis" /\ Indicators!Init /\ Empty(15)
     \/ part = "overlaps" /\ Overlaps!Init /\ Empty(9)
     \/ part = "areas" /\ Aggregates!Init /\ Empty(10)
     \/ part = "creator" /\ Creator!Init /\ Empty(8)

Next ==
  /\ UNCHANGED part
  /\ \/ part = "growth" /\ Growth!Next /\ Kept(18)
     \/ part = "series" /\ Series!Next /\ Kept(18)
     \/ part = "csr" /\ Csr!Next /\ Kept(6)
     \/ part = "players" /\ Players!Next /\ Kept(9)
     \/ part = "windows" /\ Windows!Next /\ Kept(9)
     \/ part = "water" /\ Water!Next /\ Kept(12)
     \/ part = "drainage" /\ Sewer!Next /\ Kept(13)
     \/ part = "swmm" /\ Swmm!Next /\ Kept(6)
     \/ part = "rules" /\ Rules!Next /\ Kept(7)
     \/ part = "network" /\ Paths!Next /\ Kept(10)
     \/ part = "demand" /\ Demand!Next
     \/ part = "assignment" /\ Assignment!Next /\ Kept(10)
     \/ part = "kpis" /\ Indicators!Next /\ Kept(15)
     \/ part = "overlaps" /\ Overlaps!Next /\ Kept(9)
     \/ part = "areas" /\ Aggregates!Next /\ Kept(10)
     \/ part = "creator" /\ Creator!Next /\ Kept(8)

vars == <<part, u1, u2, u3, u4, u5, u6, u7, u8, u9, u10, u11, u12,
          u13, u14, u15, u16, u17, u18, u19, u20>>
Spec == Init /\ [][Next]_vars

-----------------------------------------------------------------------------
ASSUME ModelsAssumption ==
  /\ Players!ConstantsAssumption /\ Windows!ConstantsAssumption /\ Water!ConstantsAssumption
  /\ Sewer!ConstantsAssumption /\ Indicators!ConstantsAssumption
  /\ Growth!ConstantsAssumption /\ Series!ConstantsAssumption

\* A model's state is what it has been told, its wake-ups are kept, and it fails for a
\* reason only, for every series of updates (ModelAdapter: UpdateSeries, Calculate).
AdapterFollows ==
  /\ part = "growth" => Growth!StateIsCurrent /\ Growth!WakeUpsAreKept /\ Growth!FailsOnlyIfNotReady
  /\ part = "series" => Series!StateIsCurrent /\ Series!WakeUpsAreKept /\ Series!FailsOnlyIfNotReady

\* What a model sets is published, also with entities that are added later
\* (ModelAdapter: Calculate, TrackedState: Resize, GenerateUpdate).
EverythingIsPublished == part = "growth" => Growth!TypeOK /\ Growth!EverythingIsPublished

\* A model that updates is shown every change since its last update, and publishes
\* nothing twice, unless entities were added since the last result (ModelAdapter:
\* UpdateSeries, Calculate; TrackedState: Resize, GenerateUpdate).
ChangesArePassedOn ==
  [][/\ part = "growth" => Growth!ShowsChanges /\ Growth!RepublishesAfterGrowthOnly
     /\ part = "series" => Series!ShowsChanges]_vars

\* docs/source/in_depth/simulations.rst:135: "These results should only contain the
\* changes in common World State. Any values that have not changed (significantly)
\* should be omitted."
OnlyChangesArePublished == [][part = "growth" => Growth!PublishesOnlyChanges]_vars

\* Every entity has the row that was last written for it, at the model that publishes
\* and at one that subscribes (CsrAttribute: UpdateCsr, Publish, Receive).
RowsAreKept == part = "csr" => Csr!RowsAreKept

\* The tape, csv and netcdf players: whenever they are called, what they show is what
\* their file holds for the moment (Tapes: Update... , TimeSeries: PopUntil).
PlayersShowTheMoment == part = "players" => Players!TapeIsCurrent /\ Players!RowIsCurrent

\* The time window status model: a target is on exactly while a window of a connected
\* source is open (TimeWindows: Process).
WindowsAreShown == part = "windows" => Windows!StatusIsTrue

\* The drinking water model: a change that is passed on acts from its moment onward, and
\* each link shows its own results of the moment of the update (DrinkingWater: Update).
\* A change that comes with the first update is not passed on: ChangesActFromTheirMoment.
WaterFollowsItsInputs ==
  part = "water" => Water!PassedOnChangesActInTime /\ Water!ResultsAreOfTheMoment

\* The drinking water model: every change acts from its moment onward. (model.py:180-184
\* has "When we receive a change at t=x we first simulate up to t=x with the OLD state,
\* then apply the change so it takes effect from t=x onward.")
ChangesActFromTheirMoment == part = "water" => Water!ChangesActFromTheirMoment

\* The urban drainage model: the engine has one owner at a time and follows its model,
\* also after a rollback (Drainage: Claim to Rollback, AdvanceTo).  Which interval a
\* value governs is not part of it: InputsGovernTheStepAfterThem.
DrainageHasOneEngine == part = "drainage" => Sewer!OneOwner /\ Sewer!EngineFollowsModel

\* The urban drainage model: a step of the engine runs with the inputs that were known
\* when it began. (urban_drainage_model.rst:60-62 has "a value supplied at time *t* governs
\* the step from *t* onward".)
InputsGovernTheStepAfterThem == part = "drainage" => Sewer!InputsGovernTheStepAfterThem

\* The input file of the drainage engine: importing the file that was written for a
\* dataset gives the dataset back (SwmmInp: the rows of every section).
ImportInvertsSynthesis == part = "swmm" => Swmm!ImportInvertsSynthesis

\* The rules model: whenever it rests, the targets whose rules have defined sources have
\* the value of the last rule that decides on them, and no threshold is slept through
\* (Rules: EvaluateRules, NextTrigger).
RulesAreCurrent == part = "rules" => Rules!OutputsAreCurrent

\* The rules model: a rule of which a source is undefined writes nothing.
\* (rules_model.rst:28-29 has "If the condition references source attributes that have not
\* yet received data, the rule is skipped entirely.")
RulesWithoutSourcesAreSkipped == part = "rules" => Rules!RulesWithoutSourcesAreSkipped

\* The network of the shortest path models: the answers about virtual nodes that are
\* connected are those of one cheapest path for the costs of the routes (Network: Update,
\* Calculate, Trees).  Averages that take their path from the cache, and nodes that are
\* not connected, are in the next property.
AnswersArePaths == part = "network" => Paths!AnswersArePaths

\* The network of the shortest path models: every answer is that of a cheapest path, or says
\* that there is none. (network.py:284-285 has "no_path_found: A fill value for when no valid
\* shortest path can be found between source and target.")
EveryAnswerIsAPath == part = "network" => Paths!EveryAnswerIsAPath

\* The traffic demand model: the matrix is the first one times the change of the parameters
\* of every row the model was updated at, each once.  It is updated at every row unless
\* max_iterations has it skip an update, which can lose the row after it (TrafficDemand:
\* Update, Skip).
DemandFollowsParameters == part = "demand" => Demand!DemandFollowsParameters

\* The traffic assignment model: what it publishes is calculated from the network and
\* the demand as they are known then (TrafficAssignment: ProcessLinks, Update).
AssignmentIsCurrent == part = "assignment" => Assignment!AssignmentIsCurrent

\* The traffic KPI model: its sums are those of the present rows of its tapes and the
\* present flows, at every moment (TrafficKpi: Update, NextTime).
KpisAreCurrent == part = "kpis" => Indicators!KpisAreCurrent

\* The overlap status model, as long as no status was undefined in an update: the
\* active overlaps are shown, each by an entity of its own (OverlapStatus: NewOverlaps,
\* Published).
OverlapsAreTheirOwn == part = "overlaps" => Overlaps!DefinedOverlapsAreShown

\* The overlap status model, also with undefined statuses: the active overlaps are
\* shown. (tests/models/overlap_status/test_unit.py has the case "Works with undefined
\* booleans".)
OverlapsAreShown == part = "overlaps" => Overlaps!OverlapsAreShown

\* The area aggregation model: the integrals are those of what was in each area over
\* time, and what lies in two areas counts once in all (AreaAggregation: Calculated,
\* Update).
AggregatesFollowTheSource == part = "areas" => Aggregates!AggregatesFollowTheSource

\* The dataset creator: a dataset says what its sources say, with unique ids, the right
\* enumerated values and links (DatasetCreator: the five operations).
DatasetTellsTheSources == part = "creator" => Creator!DatasetTellsTheSources
=============================================================================
