------------------------------ MODULE MCStorage ------------------------------
(***************************************************************************)
(* Instances for TLC of what is stored: by the data collector, in its      *)
(* databases, in results that are read back, and by the data core.         *)
(*                                                                         *)
(* They share no state, so that one run can check them all: a behaviour is *)
(* one of the component that part names, u1, u2, ... are its variables.    *)
(***************************************************************************)
EXTENDS Naturals, Sequences, TLC

CONSTANTS
  Parts,   \* the components that are checked
  c1, c2, d, d1, d2, g, h, n, p, q, s, t, u, v1, v2, w1, w2, x, Fixed, Undefined, None

VARIABLES
  part,
  u1, u2, u3, u4, u5, u6, u7, u8, u9, u10, u11, u12, u13, u14, u15, u16, u17, u18,
  u19, u20, u21

\* The components of this run.
ASSUME PartsAssumption == Parts \subseteq {"collector", "failing_collector", "results", "archive", "core"}

\* Results: rows of a single attribute, and none.
HistoryRow(row) == [ids |-> DOMAIN row, data |-> (x :> row)]
NoHistoryRow == [ids |-> {}, data |-> <<>>]
HistoryInitialRows == {HistoryRow(1 :> p @@ 2 :> q), NoHistoryRow}
HistoryUpdateRows == {HistoryRow(1 :> q), HistoryRow(2 :> p), HistoryRow(1 :> Undefined @@ 2 :> q)}

\* Archive: the files of the datasets.
ArchiveDatasets == {"d1", "d2"}
ArchiveDirs == {"d1" :> {"unstructured"} @@ "d2" :> {"binary"}, "d1" :> {} @@ "d2" :> {"entity_based"}}

\* DataCore
StrictOptions == {{}, {"dataset_types", "attribute_types", "model_types", "scenario_datasets"}}

\* Model values that no component treats differently from another.
Symmetric ==
  Permutations({c1, c2}) \cup Permutations({d1, d2}) \cup Permutations({g, h})
    \cup Permutations({v1, v2}) \cup Permutations({w1, w2})

-----------------------------------------------------------------------------
Collector == INSTANCE DataCollector WITH
  aggregate <- u1, state <- u2, reported <- u3, currentTime <- u4, iteration <- u5,
  main <- u6, call <- u7, toSubmit <- u8, submitted <- u9, permits <- u10,
  queue <- u11, job <- u12, phase <- u13, finished <- u14, errors <- u15,
  releasing <- u16, hooked <- u17, futs <- u18, exceptions <- u19, stored <- u20,
  history <- u21,
  Datasets <- {d1, d2}, Values <- {v1, v2}, Unset <- Undefined, End <- 1,
  Threads <- {w1, w2}, Aggregating <- BOOLEAN, MayFail <- FALSE, MaxIterations <- 2

\* The same for one dataset, with results that may fail to be stored.
Failing == INSTANCE DataCollector WITH
  aggregate <- u1, state <- u2, reported <- u3, currentTime <- u4, iteration <- u5,
  main <- u6, call <- u7, toSubmit <- u8, submitted <- u9, permits <- u10,
  queue <- u11, job <- u12, phase <- u13, finished <- u14, errors <- u15,
  releasing <- u16, hooked <- u17, futs <- u18, exceptions <- u19, stored <- u20,
  history <- u21,
  Datasets <- {d1}, Values <- {v1, v2}, Unset <- Undefined, End <- 1,
  Threads <- {w1, w2}, Aggregating <- BOOLEAN, MayFail <- TRUE, MaxIterations <- 2

History == INSTANCE Results WITH
  initial <- u1, archive <- u2, loaded <- u3, state <- u4, streams <- u5,
  position <- u6, moment <- u7, slice <- u8, Groups <- {g, h}, Ids <- {1, 2},
  Attributes <- {x}, Values <- {p, q}, InitialRows <- HistoryInitialRows,
  UpdateRows <- HistoryUpdateRows, End <- 1, MaxIteration <- 1, MaxUpdates <- 3

Archives == INSTANCE Archive WITH
  dir <- u1, second <- u2, db <- u3, col <- u4, sent <- u5, Collectors <- {c1, c2},
  Datasets <- ArchiveDatasets, Fixed <- Fixed, DataDirs <- ArchiveDirs, End <- 1,
  MaxUpdates <- 2

Core == INSTANCE DataCore WITH
  options <- u1, workspaces <- u2, datasetTypes <- u3, attributeTypes <- u4,
  modelTypes <- u5, datasets <- u6, scenarios <- u7, updates <- u8, attributes <- u9,
  raw <- u10, sessions <- u11, Sessions <- {s}, WorkspaceIds <- {w1, w2},
  ScenarioIds <- {c1, c2}, DatasetIds <- {d}, UpdateIds <- {u}, Names <- {n},
  TypeNames <- {t}, AttributeNames <- {x}, DataTypes <- {v1, v2}, ModelTypes <- {g, h},
  StrictSets <- StrictOptions

\* The variables from the k-th on belong to no component of the behaviour.
Empty(k) ==
  /\ IF k <= 6 THEN u6 = None ELSE TRUE
  /\ IF k <= 7 THEN u7 = None ELSE TRUE
  /\ IF k <= 8 THEN u8 = None ELSE TRUE
  /\ IF k <= 9 THEN u9 = None ELSE TRUE
  /\ IF k <= 10 THEN u10 = None ELSE TRUE
  /\ IF k <= 11 THEN u11 = None ELSE TRUE
  /\ IF k <= 12 THEN u12 = None ELSE TRUE
  /\ IF k <= 13 THEN u13 = None ELSE TRUE
  /\ IF k <= 14 THEN u14 = None ELSE TRUE
  /\ IF k <= 15 THEN u15 = None ELSE TRUE
  /\ IF k <= 16 THEN u16 = None ELSE TRUE
  /\ IF k <= 17 THEN u17 = None ELSE TRUE
  /\ IF k <= 18 THEN u18 = None ELSE TRUE
  /\ IF k <= 19 THEN u19 = None ELSE TRUE
  /\ IF k <= 20 THEN u20 = None ELSE TRUE
  /\ IF k <= 21 THEN u21 = None ELSE TRUE
Kept(k) ==
  /\ IF k <= 6 THEN UNCHANGED u6 ELSE TRUE
  /\ IF k <= 7 THEN UNCHANGED u7 ELSE TRUE
  /\ IF k <= 8 THEN UNCHANGED u8 ELSE TRUE
  /\ IF k <= 9 THEN UNCHANGED u9 ELSE TRUE
  /\ IF k <= 10 THEN UNCHANGED u10 ELSE TRUE
  /\ IF k <= 11 THEN UNCHANGED u11 ELSE TRUE
  /\ IF k <= 12 THEN UNCHANGED u12 ELSE TRUE
  /\ IF k <= 13 THEN UNCHANGED u13 ELSE TRUE
  /\ IF k <= 14 THEN UNCHANGED u14 ELSE TRUE
  /\ IF k <= 15 THEN UNCHANGED u15 ELSE TRUE
  /\ IF k <= 16 THEN UNCHANGED u16 ELSE TRUE
  /\ IF k <= 17 THEN UNCHANGED u17 ELSE TRUE
  /\ IF k <= 18 THEN UNCHANGED u18 ELSE TRUE
  /\ IF k <= 19 THEN UNCHANGED u19 ELSE TRUE
  /\ IF k <= 20 THEN UNCHANGED u20 ELSE TRUE
  /\ IF k <= 21 THEN UNCHANGED u21 ELSE TRUE

Init ==
  /\ part \in Parts
  /\ \/ part = "collector" /\ Collector!Init
     \/ part = "failing_collector" /\ Failing!Init
     \/ part = "results" /\ History!Init /\ Empty(9)
     \/ part = "archive" /\ Archives!Init /\ Empty(6)
     \/ part = "core" /\ Core!Init /\ Empty(12)

Next ==
  /\ UNCHANGED part
  /\ \/ part = "collector" /\ Collector!Next
     \/ part = "failing_collector" /\ Failing!Next
     \/ part = "results" /\ History!Next /\ Kept(9)
     \/ part = "archive" /\ Archives!Next /\ Kept(6)
     \/ part = "core" /\ Core!Next /\ Kept(12)

vars == <<part, u1, u2, u3, u4, u5, u6, u7, u8, u9, u10, u11, u12,
          u13, u14, u15, u16, u17, u18, u19, u20, u21>>
Spec == Init /\ [][Next]_vars

-----------------------------------------------------------------------------
ASSUME StorageAssumption ==
  /\ Collector!ConstantsAssumption /\ Failing!ConstantsAssumption
  /\ History!ConstantsAssumption /\ Archives!ConstantsAssumption /\ Core!ConstantsAssumption

\* The results of a data collector that has closed are complete, its pool is bounded
\* and nothing runs or waits that should not (DataCollector: Submit to CloseStrategy,
\* Take to Record).
CollectorIsComplete ==
  /\ part = "collector" => /\ Collector!TypeOK /\ Collector!ResultsAreComplete
                           /\ Collector!NoMoreJobsThanThreads /\ Collector!NothingRunsAfterClose
                           /\ Collector!CallsGoOn
  /\ part = "failing_collector" => /\ Failing!TypeOK /\ Failing!ResultsAreComplete
                                   /\ Failing!NoMoreJobsThanThreads /\ Failing!NothingRunsAfterClose
                                   /\ Failing!CallsGoOn

\* No stored update takes the place of another (DataCollector: Submit, EndFlush,
\* Store).
NothingIsOverwritten ==
  [][/\ part = "collector" => Collector!KeepsWhatIsStored
     /\ part = "failing_collector" => Failing!KeepsWhatIsStored]_vars

\* Results show what the updates up to the moment make of the initial data, also in
\* slices, wherever the state was moved before (Results: Move, Revert, SliceAttribute).
HistoryIsReplayed == part = "results" => History!ShowsTheMoment /\ History!SlicesAreHistory

\* A database holds the history of one run and its initial data (Archive: Start,
\* StoreInitial, Store).
ArchiveTellsOneRun == part = "archive" => Archives!ArchiveTellsOneRun

\* Rows refer to rows that exist, a database has what its mode says, and stored data
\* fits its types (DataCore: the repositories' operations).
StoredDataIsConsistent == part = "core" => Core!TypeOK /\ Core!ModeHolds /\ Core!DataFitsTypes
=============================================================================
