------------------------------ MODULE DataCore ------------------------------
(***************************************************************************)
(* The data core: a database with workspaces, datasets and scenarios with  *)
(* their updates, which runs in one of three modes.  A request opens a     *)
(* session, reads the options of the database, does one operation with     *)
(* them, and commits it, or rolls back when it raises an error.  What one  *)
(* request read, another may have changed before its operation.            *)
(*                                                                         *)
(* Entity types and attribute types are one kind here (names with a data   *)
(* type). Rows refer to these and to dataset types by id; that they can be *)
(* given another name is left out, as are the display names, bounding      *)
(* boxes and sizes.                                                        *)
(***************************************************************************)
EXTENDS Naturals, FiniteSets, Functions

CONSTANTS
  Sessions,
  WorkspaceIds, ScenarioIds, DatasetIds, UpdateIds,   \* what uuid4 gives out
  Names,          \* names of datasets
  TypeNames,      \* names of dataset types
  AttributeNames, DataTypes,
  ModelTypes,     \* model types; a scenario has at most one model of each
  StrictSets,     \* the sets of STRICT_ options that are used, {} and AllStrict among them
  None

\* Ids are told apart, and from no id; the options may be none or all.
ConstantsAssumption ==
  /\ DatasetIds \cap UpdateIds = {}
  /\ None \notin WorkspaceIds \cup ScenarioIds \cup DatasetIds \cup UpdateIds
  /\ {} \in StrictSets
  /\ {"dataset_types", "attribute_types", "model_types", "scenario_datasets"} \in StrictSets

Entity == "entity_based"
Binary == "binary"       \* stands for "unstructured" too: both are stored as raw chunks
Formats == {Entity, Binary}
AllStrict == {"dataset_types", "attribute_types", "model_types", "scenario_datasets"}
Single == "single_scenario"
Workspace == "single_workspace"
Multiple == "multiple_workspaces"

VARIABLES
  options,         \* the options row: mode, strict, and the default workspace and scenario
  workspaces,      \* the ids of the workspaces
  datasetTypes,    \* name |-> format
  attributeTypes,  \* name |-> data type
  modelTypes,      \* the names that are known
  datasets,        \* id |-> its workspace, name and type
  scenarios,       \* id |-> its workspace, datasets and models
  updates,         \* id |-> its scenario, dataset, model
  attributes,      \* rows of attribute data: owner (None: nobody's), name, data type
  raw,             \* the datasets with raw data
  sessions         \* per session what its backend was built with, or None

tables == <<workspaces, datasetTypes, attributeTypes, modelTypes, datasets, scenarios,
            updates, attributes, raw>>
vars == <<options, tables, sessions>>

Owners == DatasetIds \cup UpdateIds

\* The rows of the tables, and the columns that refer to other rows.
OptionsRow == [mode : {Single, Workspace, Multiple}, strict : StrictSets,
               workspace : WorkspaceIds \cup {None}, scenario : ScenarioIds \cup {None}]
DatasetRow == [workspace : WorkspaceIds, name : Names, type : TypeNames]
ScenarioRow == [workspace : WorkspaceIds, datasets : SUBSET DatasetIds, models : SUBSET ModelTypes]
UpdateRow == [scenario : ScenarioIds, dataset : DatasetIds, model : ModelTypes]
AttributeRow == [owner : Owners \cup {None}, name : AttributeNames, dataType : DataTypes]

Backend == [mode : {Single, Workspace, Multiple}, strict : StrictSets,
            workspace : WorkspaceIds \cup {None}, scenario : ScenarioIds \cup {None}]

Without(f, ids) == Restrict(f, DOMAIN f \ ids)
With(f, id, row) == [x \in DOMAIN f \cup {id} |-> IF x = id THEN row ELSE f[x]]
Merged(f, g) == [x \in DOMAIN f \cup DOMAIN g |-> IF x \in DOMAIN f THEN f[x] ELSE g[x]]

\* initialize_database and _default_flags
Init ==
  /\ \E m \in {Single, Workspace, Multiple}, w \in WorkspaceIds, c \in ScenarioIds :
       /\ options = [mode |-> m, strict |-> IF m = Multiple THEN AllStrict ELSE {},
                     workspace |-> IF m = Multiple THEN None ELSE w,
                     scenario |-> IF m = Single THEN c ELSE None]
       /\ workspaces = IF m = Multiple THEN {} ELSE {w}
       /\ scenarios = IF m = Single
                      THEN With(<<>>, c, [workspace |-> w, datasets |-> {}, models |-> {}]) ELSE <<>>
  /\ datasetTypes = <<>> /\ attributeTypes = <<>> /\ modelTypes = {}
  /\ datasets = <<>> /\ updates = <<>> /\ attributes = {} /\ raw = {}
  /\ sessions = [s \in Sessions |-> None]

-----------------------------------------------------------------------------
(* Sessions.                                                               *)

\* get_backend reads the options, _build_backend binds the backend to the defaults of
\* the mode; in the other modes the request binds it to what it is about.
Begin(s) ==
  /\ sessions[s] = None
  /\ \E w \in workspaces \cup {None}, c \in DOMAIN scenarios \cup {None} :
       /\ options.mode # Multiple => w = options.workspace
       /\ options.mode = Single => c = options.scenario
       /\ sessions' = [sessions EXCEPT ![s] =
                         [mode |-> options.mode, strict |-> options.strict,
                          workspace |-> w, scenario |-> c]]
  /\ UNCHANGED <<options, tables>>

Commit(s) == sessions[s] # None /\ sessions' = [sessions EXCEPT ![s] = None]

\* Any operation may raise an error, and undoes all it did.
RollBack(s) == Commit(s) /\ UNCHANGED <<options, tables>>

-----------------------------------------------------------------------------
(* Rows that go with others, and rows that hold others back.               *)

\* ON DELETE CASCADE and RESTRICT, and SQL deletes that name rows. Attribute rows do
\* not go with the rows that link them to a dataset or an update.
Orphaned(owners) ==
  {IF a.owner \in owners THEN [a EXCEPT !.owner = None] ELSE a : a \in attributes}

DatasetsOf(W) == {d \in DOMAIN datasets : datasets[d].workspace \in W}
ScenariosOf(W) == {c \in DOMAIN scenarios : scenarios[c].workspace \in W}
UpdatesOf(C) == {u \in DOMAIN updates : updates[u].scenario \in C}

\* What a scenario or an update that stays refers to may not be deleted.
Restricted(D, C) ==
  \/ \E c \in DOMAIN scenarios \ C : scenarios[c].datasets \cap D # {}
  \/ \E u \in DOMAIN updates \ UpdatesOf(C) : updates[u].dataset \in D

\* ensure_dataset_type, ensure_attribute_type: the type as it is, or a new one.
Ensured(known, name, value, strict) ==
  IF name \in DOMAIN known THEN known[name] = value ELSE ~strict

\* EntityDataProcessor.store of data for attributes, each of which is ensured.
Storable(data, strict) ==
  \A a \in DOMAIN data : Ensured(attributeTypes, a, data[a], "attribute_types" \in strict)

Rows(owner, data) ==
  {[owner |-> owner, name |-> a, dataType |-> data[a]] : a \in DOMAIN data}

EntityData == UNION {[A -> DataTypes] : A \in (SUBSET AttributeNames) \ {{}}}

-----------------------------------------------------------------------------
(* Workspaces and the mode.                                                *)

\* SQLAlchemyBackend.workspaces: not in a mode with one workspace.
CreateWorkspace(s, w) ==
  /\ Commit(s) /\ sessions[s].mode = Multiple /\ w \notin workspaces
  /\ workspaces' = workspaces \cup {w}
  /\ UNCHANGED <<options, datasetTypes, attributeTypes, modelTypes, datasets, scenarios,
                 updates, attributes, raw>>

\* GenericResourceRepository.delete. Its datasets and scenarios go too.
DeleteWorkspace(s, w) ==
  /\ Commit(s) /\ sessions[s].mode = Multiple /\ w \in workspaces
  /\ w # options.workspace
  /\ LET D == DatasetsOf({w})
         C == ScenariosOf({w})
     IN /\ options.scenario \notin C /\ ~Restricted(D, C)
        /\ datasets' = Without(datasets, D) /\ scenarios' = Without(scenarios, C)
        /\ updates' = Without(updates, UpdatesOf(C))
        /\ attributes' = Orphaned(D \cup UpdatesOf(C)) /\ raw' = raw \ D
  /\ workspaces' = workspaces \ {w}
  /\ UNCHANGED <<options, datasetTypes, attributeTypes, modelTypes>>

\* _downgrade_to_single_workspace_mode: the workspace, a new one if there is none.
OnlyWorkspace(w) ==
  /\ Cardinality(workspaces) <= 1
  /\ workspaces # {} => w \in workspaces

\* _downgrade_to_single_scenario_mode, for the workspace that the backend has then.
OnlyScenario(w, c) ==
  LET C == ScenariosOf({w})
  IN /\ Cardinality(C) <= 1
     /\ IF C # {} THEN c \in C ELSE c \notin DOMAIN scenarios

\* set_database_mode, from the mode that the session has read. Upgrades drop the
\* defaults, downgrades look for what can be the default, or create it.
SetMode(s, new) ==
  LET old == sessions[s].mode
      bound == sessions[s].workspace
  IN
  /\ Commit(s) /\ new # old
  /\ \/ /\ new = Multiple /\ old # Multiple
        /\ options' = [options EXCEPT !.mode = new, !.workspace = None,
                         !.scenario = IF old = Single THEN None ELSE options.scenario]
        /\ UNCHANGED <<workspaces, scenarios>>
     \/ /\ new = Workspace /\ old = Single
        /\ options' = [options EXCEPT !.mode = new, !.scenario = None]
        /\ UNCHANGED <<workspaces, scenarios>>
     \/ /\ new = Workspace /\ old = Multiple
        /\ \E w \in WorkspaceIds :
             /\ OnlyWorkspace(w)
             /\ options' = [options EXCEPT !.mode = new, !.workspace = w]
             /\ workspaces' = workspaces \cup {w}
        /\ UNCHANGED scenarios
     \/ /\ new = Single
        /\ \E w \in WorkspaceIds, c \in ScenarioIds :
             /\ IF old = Multiple THEN OnlyWorkspace(w) ELSE w = bound /\ w \in workspaces
             /\ OnlyScenario(w, c)
             /\ options' = [options EXCEPT !.mode = new, !.scenario = c,
                              !.workspace = IF old = Multiple THEN w ELSE options.workspace]
             /\ workspaces' = workspaces \cup {w}
             /\ scenarios' = IF c \in DOMAIN scenarios THEN scenarios
                             ELSE With(scenarios, c,
                                       [workspace |-> w, datasets |-> {}, models |-> {}])
  /\ UNCHANGED <<datasetTypes, attributeTypes, modelTypes, datasets, updates, attributes, raw>>

SetOptions(s, strict) ==
  /\ Commit(s)
  /\ options' = [options EXCEPT !.strict = strict]
  /\ UNCHANGED tables

-----------------------------------------------------------------------------
(* Types.                                                                  *)

CreateAttributeType(s, a, dataType) ==
  /\ Commit(s) /\ a \notin DOMAIN attributeTypes
  /\ attributeTypes' = With(attributeTypes, a, dataType)
  /\ UNCHANGED <<options, workspaces, datasetTypes, modelTypes, datasets, scenarios, updates,
                 attributes, raw>>

\* AttributeTypeRepository.update: not the data type of one that is in use. (Mutant: only
\* the data of datasets counts as use.)
InUse_ByDataset(a) == \E row \in attributes : row.name = a /\ row.owner \in DatasetIds
InUse(a) == \E row \in attributes : row.name = a
ChangeAttributeType(s, a, dataType) ==
  /\ Commit(s) /\ a \in DOMAIN attributeTypes
  /\ InUse(a) => attributeTypes[a] = dataType
  /\ attributeTypes' = [attributeTypes EXCEPT ![a] = dataType]
  /\ UNCHANGED <<options, workspaces, datasetTypes, modelTypes, datasets, scenarios, updates,
                 attributes, raw>>

DeleteAttributeType(s, a) ==
  /\ Commit(s) /\ a \in DOMAIN attributeTypes /\ ~InUse(a)
  /\ attributeTypes' = Without(attributeTypes, {a})
  /\ UNCHANGED <<options, workspaces, datasetTypes, modelTypes, datasets, scenarios, updates,
                 attributes, raw>>

\* The format of a dataset type never changes.
CreateDatasetType(s, name, format) ==
  /\ Commit(s) /\ name \notin DOMAIN datasetTypes
  /\ datasetTypes' = With(datasetTypes, name, format)
  /\ UNCHANGED <<options, workspaces, attributeTypes, modelTypes, datasets, scenarios, updates,
                 attributes, raw>>

DeleteDatasetType(s, name) ==
  /\ Commit(s) /\ name \in DOMAIN datasetTypes
  /\ \A d \in DOMAIN datasets : datasets[d].type # name
  /\ datasetTypes' = Without(datasetTypes, {name})
  /\ UNCHANGED <<options, workspaces, attributeTypes, modelTypes, datasets, scenarios, updates,
                 attributes, raw>>

CreateModelType(s, m) ==
  /\ Commit(s) /\ m \notin modelTypes
  /\ modelTypes' = modelTypes \cup {m}
  /\ UNCHANGED <<options, workspaces, datasetTypes, attributeTypes, datasets, scenarios, updates,
                 attributes, raw>>

\* ModelTypeRepository.update: scenarios and updates, which refer to it by id, have it
\* under its new name.
RenameModelType(s, m, new) ==
  /\ Commit(s) /\ m \in modelTypes /\ new \notin modelTypes \ {m}
  /\ LET name == [x \in modelTypes |-> IF x = m THEN new ELSE x]
     IN /\ modelTypes' = {name[x] : x \in modelTypes}
        /\ scenarios' = [c \in DOMAIN scenarios |->
                           [scenarios[c] EXCEPT !.models = {name[x] : x \in scenarios[c].models}]]
        /\ updates' = [u \in DOMAIN updates |-> [updates[u] EXCEPT !.model = name[updates[u].model]]]
  /\ UNCHANGED <<options, workspaces, datasetTypes, attributeTypes, datasets, attributes, raw>>

\* Not one that a scenario or an update refers to, the update of a model that is no longer
\* in its scenario included.
DeleteModelType(s, m) ==
  /\ Commit(s) /\ m \in modelTypes
  /\ \A c \in DOMAIN scenarios : m \notin scenarios[c].models
  /\ \A u \in DOMAIN updates : updates[u].model # m
  /\ modelTypes' = modelTypes \ {m}
  /\ UNCHANGED <<options, workspaces, datasetTypes, attributeTypes, datasets, scenarios, updates,
                 attributes, raw>>

-----------------------------------------------------------------------------
(* Datasets.                                                               *)

NameIsFree(w, name) ==
  \A d \in DOMAIN datasets : datasets[d].workspace # w \/ datasets[d].name # name

\* DatasetRepository.create
CreateDataset(s, d, name, type, format) ==
  /\ Commit(s) /\ d \notin DOMAIN datasets
  /\ sessions[s].workspace \in workspaces /\ NameIsFree(sessions[s].workspace, name)
  /\ Ensured(datasetTypes, type, format, "dataset_types" \in sessions[s].strict)
  /\ datasetTypes' = With(datasetTypes, type, format)
  /\ datasets' = With(datasets, d,
                      [workspace |-> sessions[s].workspace, name |-> name, type |-> type])
  /\ UNCHANGED <<options, workspaces, attributeTypes, modelTypes, scenarios, updates, attributes, raw>>

\* DatasetService.update_from_file reads the file in the format of the dataset's type.
Accepts(d, format) == d \in DOMAIN datasets /\ datasetTypes[datasets[d].type] = format

\* DatasetDataRepository.delete: the data that there is goes.
Replaced(d) == {row \in attributes : row.owner # d}

\* DatasetRepository.update: the dataset has the name of the object, that of a file which
\* is uploaded included.
Named(d, name) ==
  /\ name # datasets[d].name => NameIsFree(datasets[d].workspace, name)
  /\ datasets' = [datasets EXCEPT ![d].name = name]

RenameDataset(s, d, name) ==
  /\ Commit(s) /\ d \in DOMAIN datasets /\ Named(d, name)
  /\ UNCHANGED <<options, workspaces, datasetTypes, attributeTypes, modelTypes, scenarios, updates,
                 attributes, raw>>

\* DatasetRepository.update with data.
UploadEntityData(s, d, name, data) ==
  /\ Commit(s) /\ Accepts(d, Entity) /\ Named(d, name)
  /\ Storable(data, sessions[s].strict)
  /\ attributeTypes' = Merged(attributeTypes, data)
  /\ attributes' = Replaced(d) \cup Rows(d, data)
  /\ raw' = raw \ {d}
  /\ UNCHANGED <<options, workspaces, datasetTypes, modelTypes, scenarios, updates>>

UploadRawData(s, d, name) ==
  /\ Commit(s) /\ Accepts(d, Binary) /\ Named(d, name)
  /\ attributes' = Replaced(d)
  /\ raw' = raw \cup {d}
  /\ UNCHANGED <<options, workspaces, datasetTypes, attributeTypes, modelTypes, scenarios, updates>>

DeleteDatasetData(s, d) ==
  /\ Commit(s)
  /\ attributes' = Replaced(d) /\ raw' = raw \ {d}
  /\ UNCHANGED <<options, workspaces, datasetTypes, attributeTypes, modelTypes, datasets, scenarios,
                 updates>>

\* DatasetRepository.delete: its data, then the dataset, if nothing refers to it.
DeleteDataset(s, d) ==
  /\ Commit(s) /\ ~Restricted({d}, {})
  /\ datasets' = Without(datasets, {d})
  /\ attributes' = Replaced(d) /\ raw' = raw \ {d}
  /\ UNCHANGED <<options, workspaces, datasetTypes, attributeTypes, modelTypes, scenarios, updates>>

-----------------------------------------------------------------------------
(* Scenarios and updates.                                                  *)

\* ensure_scenario_datasets: D is the datasets with these names in the workspace; without
\* the STRICT options stubs are created for those that are not there.
EnsureDatasets(strict, w, names, type, D) ==
  LET known == {d \in DatasetsOf({w}) : datasets[d].name \in names}
      missing == names \ {datasets[d].name : d \in known}
  IN /\ D \cap DOMAIN datasets = known /\ Cardinality(D) = Cardinality(names)
     /\ missing # {} => /\ "scenario_datasets" \notin strict
                        /\ type \in DOMAIN datasetTypes \/ "dataset_types" \notin strict
     /\ \A d \in known : datasets[d].type = type
     /\ \E stub \in Bijection(D \ known, missing) :
          datasets' = Merged(datasets, [d \in D \ known |->
                                          [workspace |-> w, name |-> stub[d], type |-> type]])
     /\ datasetTypes' = IF missing = {} THEN datasetTypes ELSE Merged(datasetTypes, [x \in {type} |-> Entity])

\* ensure_model_types
EnsureModelTypes(strict, models) ==
  /\ models \subseteq modelTypes \/ "model_types" \notin strict
  /\ modelTypes' = modelTypes \cup models

\* _store_scenario_details
StoreDetails(s, w, c, names, type, models, D) ==
  /\ EnsureDatasets(sessions[s].strict, w, names, type, D)
  /\ EnsureModelTypes(sessions[s].strict, models)
  /\ scenarios' = With(scenarios, c, [workspace |-> w, datasets |-> D, models |-> models])

\* ScenarioService.create: not in single scenario mode.
CreateScenario(s, c, names, type, models, D) ==
  /\ Commit(s) /\ sessions[s].mode # Single
  /\ c \notin DOMAIN scenarios /\ sessions[s].workspace \in workspaces
  /\ StoreDetails(s, sessions[s].workspace, c, names, type, models, D)
  /\ UNCHANGED <<options, workspaces, attributeTypes, updates, attributes, raw>>

\* ScenarioRepository.update: datasets and models are replaced, the updates stay. Its
\* datasets come from its own workspace.
WorkspaceOf(s) == scenarios[sessions[s].scenario].workspace
UpdateScenario(s, names, type, models, D) ==
  LET c == sessions[s].scenario
  IN /\ Commit(s) /\ c \in DOMAIN scenarios
     /\ StoreDetails(s, WorkspaceOf(s), c, names, type, models, D)
     /\ UNCHANGED <<options, workspaces, attributeTypes, updates, attributes, raw>>

\* ScenarioService.delete. Attribute data of its updates is left behind.
DeleteScenario(s) ==
  LET c == sessions[s].scenario
  IN /\ Commit(s) /\ sessions[s].mode # Single
     /\ c \in DOMAIN scenarios /\ c # options.scenario
     /\ scenarios' = Without(scenarios, {c})
     /\ updates' = Without(updates, UpdatesOf({c}))
     /\ attributes' = Orphaned(UpdatesOf({c}))
     /\ UNCHANGED <<options, workspaces, datasetTypes, attributeTypes, modelTypes, datasets, raw>>

\* UpdateRepository.create: from a model and for a dataset of the scenario.
CreateUpdate(s, u, d, m, data) ==
  LET c == sessions[s].scenario
  IN /\ Commit(s) /\ u \notin DOMAIN updates
     /\ c \in DOMAIN scenarios /\ d \in scenarios[c].datasets /\ m \in scenarios[c].models
     /\ Storable(data, sessions[s].strict)
     /\ attributeTypes' = Merged(attributeTypes, data)
     /\ updates' = With(updates, u, [scenario |-> c, dataset |-> d, model |-> m])
     /\ attributes' = attributes \cup Rows(u, data)
     /\ UNCHANGED <<options, workspaces, datasetTypes, modelTypes, datasets, scenarios, raw>>

\* UpdateRepository.delete_all, with their data.
DeleteUpdates(s) ==
  LET U == UpdatesOf({sessions[s].scenario})
  IN /\ Commit(s)
     /\ updates' = Without(updates, U)
     /\ attributes' = {row \in attributes : row.owner \notin U}
     /\ UNCHANGED <<options, workspaces, datasetTypes, attributeTypes, modelTypes, datasets,
                    scenarios, raw>>

-----------------------------------------------------------------------------

Operation(s) ==
  \/ RollBack(s)
  \/ \E w \in WorkspaceIds : CreateWorkspace(s, w) \/ DeleteWorkspace(s, w)
  \/ \E m \in {Single, Workspace, Multiple} : SetMode(s, m)
  \/ \E strict \in StrictSets : SetOptions(s, strict)
  \/ \E a \in AttributeNames : DeleteAttributeType(s, a)
  \/ \E a \in AttributeNames, dt \in DataTypes :
       CreateAttributeType(s, a, dt) \/ ChangeAttributeType(s, a, dt)
  \/ \E n \in TypeNames : DeleteDatasetType(s, n)
  \/ \E n \in TypeNames, f \in Formats : CreateDatasetType(s, n, f)
  \/ \E m \in ModelTypes : CreateModelType(s, m) \/ DeleteModelType(s, m)
  \/ \E m, new \in ModelTypes : RenameModelType(s, m, new)
  \/ \E d \in DatasetIds, n \in Names, ty \in TypeNames, f \in Formats :
       CreateDataset(s, d, n, ty, f)
  \/ \E d \in DatasetIds, n \in Names : RenameDataset(s, d, n) \/ UploadRawData(s, d, n)
  \/ \E d \in DatasetIds, n \in Names, data \in EntityData : UploadEntityData(s, d, n, data)
  \/ \E d \in DatasetIds : DeleteDatasetData(s, d) \/ DeleteDataset(s, d)
  \/ \E names \in SUBSET Names, ty \in TypeNames, M \in SUBSET ModelTypes, D \in SUBSET DatasetIds :
       \/ \E c \in ScenarioIds : CreateScenario(s, c, names, ty, M, D)
       \/ UpdateScenario(s, names, ty, M, D)
  \/ DeleteScenario(s)
  \/ \E u \in UpdateIds, d \in DatasetIds, m \in ModelTypes, data \in EntityData :
       CreateUpdate(s, u, d, m, data)
  \/ DeleteUpdates(s)

Next == \E s \in Sessions : Begin(s) \/ (sessions[s] # None /\ Operation(s))

Spec == Init /\ [][Next]_vars

-----------------------------------------------------------------------------
(* Properties.                                                             *)

DatasetRowsHold ==
  \A d \in DOMAIN datasets : /\ datasets[d] \in DatasetRow
                             /\ datasets[d].workspace \in workspaces
                             /\ datasets[d].type \in DOMAIN datasetTypes
ScenarioRowsHold ==
  \A c \in DOMAIN scenarios : /\ scenarios[c] \in ScenarioRow
                              /\ scenarios[c].workspace \in workspaces
                              /\ \A d \in scenarios[c].datasets :
                                   /\ d \in DOMAIN datasets
                                   /\ datasets[d].workspace = scenarios[c].workspace
                              /\ scenarios[c].models \subseteq modelTypes
UpdateRowsHold ==
  \A u \in DOMAIN updates : /\ updates[u] \in UpdateRow
                            /\ updates[u].scenario \in DOMAIN scenarios
                            /\ updates[u].dataset \in DOMAIN datasets
                            /\ updates[u].model \in modelTypes
AttributeRowsHold ==
  \A row \in attributes : /\ row \in AttributeRow
                          /\ row.owner \in DOMAIN datasets \cup DOMAIN updates \cup {None}

\* The rows are rows of their tables, and every row that a column refers to exists.
TypeOK ==
  /\ options \in OptionsRow /\ workspaces \subseteq WorkspaceIds
  /\ DatasetRowsHold /\ ScenarioRowsHold /\ UpdateRowsHold /\ AttributeRowsHold
  /\ DOMAIN datasets \subseteq DatasetIds /\ DOMAIN scenarios \subseteq ScenarioIds
  /\ DOMAIN updates \subseteq UpdateIds
  /\ raw \subseteq DOMAIN datasets
  /\ sessions \in [Sessions -> Backend \cup {None}]

\* What DatabaseMode says of each mode (model.py:54): a database for a single scenario
\* has one, which is the default, and so for the workspace.
ModeHolds ==
  /\ options.mode = Single => /\ DOMAIN scenarios = {options.scenario}
                              /\ workspaces = {options.workspace}
  /\ options.mode = Workspace => workspaces = {options.workspace} /\ options.scenario = None
  /\ options.mode = Multiple => options.workspace = None /\ options.scenario = None

\* Stored data can be read as what its types say: attribute data has the data type that
\* its attribute type has now, whoever owns it, and a dataset has data of no other
\* format than that of its type.
DataTypesFit ==
  \A row \in attributes : /\ row.name \in DOMAIN attributeTypes
                          /\ row.dataType = attributeTypes[row.name]
FormatsFit ==
  /\ \A d \in raw : datasetTypes[datasets[d].type] = Binary
  /\ \A row \in attributes : row.owner \in DatasetIds =>
                               datasetTypes[datasets[row.owner].type] = Entity
DataFitsTypes == DataTypesFit /\ FormatsFit
=============================================================================
