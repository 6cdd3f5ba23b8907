--------------------------- MODULE DataCoreProofs ---------------------------
(***************************************************************************)
(* Theorems about DataCore: what one request leaves in the tables the next *)
(* one can read, for any sets of ids, names and types, and any number of   *)
(* sessions that are open at once, whose backends may know options that    *)
(* another session has changed; and, for sessions that are not open at     *)
(* once, that the database has what its mode says.                         *)
(***************************************************************************)
EXTENDS DataCore, FiniteSetTheorems, TLAPS

-----------------------------------------------------------------------------
(* The invariant.                                                          *)

CoreInv == TypeOK /\ DataTypesFit /\ FormatsFit

\* A new database has the rows of its mode, and they refer to each other only.
LEMMA InitCore ==
  ASSUME Init, ConstantsAssumption
  PROVE  CoreInv
<1>1. DOMAIN <<>> = {}
  OBVIOUS
<1>2. PICK m \in {Single, Workspace, Multiple}, w \in WorkspaceIds, c \in ScenarioIds :
       /\ options = [mode |-> m, strict |-> IF m = Multiple THEN AllStrict ELSE {},
                     workspace |-> IF m = Multiple THEN None ELSE w,
                     scenario |-> IF m = Single THEN c ELSE None]
       /\ workspaces = IF m = Multiple THEN {} ELSE {w}
       /\ scenarios = IF m = Single
                      THEN With(<<>>, c, [workspace |-> w, datasets |-> {}, models |-> {}]) ELSE <<>>
  BY DEF Init
<1>3. options \in OptionsRow /\ workspaces \subseteq WorkspaceIds
  BY <1>2 DEF OptionsRow, ConstantsAssumption, AllStrict
<1>4. ScenarioRowsHold /\ DOMAIN scenarios \subseteq ScenarioIds
  <2>1. CASE m = Single
    <3> DEFINE row == [workspace |-> w, datasets |-> {}, models |-> {}]
    <3>1. scenarios = With(<<>>, c, row) /\ workspaces = {w}
      BY <1>2, <2>1 DEF Single, Multiple
    <3> HIDE DEF row
    <3>2. DOMAIN scenarios = {c} /\ scenarios[c] = row
      BY <1>1, <3>1 DEF With
    <3>3. row \in ScenarioRow /\ row.workspace = w /\ row.datasets = {} /\ row.models = {}
      BY DEF row, ScenarioRow
    <3> QED BY <3>1, <3>2, <3>3 DEF ScenarioRowsHold
  <2>2. CASE m # Single
    BY <1>1, <1>2, <2>2 DEF ScenarioRowsHold
  <2> QED BY <2>1, <2>2
<1> QED BY <1>1, <1>3, <1>4 DEF Init, CoreInv, TypeOK, DataTypesFit, FormatsFit, DatasetRowsHold,
             UpdateRowsHold, AttributeRowsHold

\* A session that ends leaves the others as they are.
LEMMA SessionsStay ==
  ASSUME CoreInv, NEW s \in Sessions, Commit(s)
  PROVE  sessions' \in [Sessions -> Backend \cup {None}] /\ sessions[s] \in Backend
BY DEF CoreInv, TypeOK, Commit

-----------------------------------------------------------------------------
(* Sessions, the mode and the types.                                       *)

\* A session begins with a backend of what it reads; no row changes.
LEMMA BeginKeeps ==
  ASSUME CoreInv, NEW s \in Sessions, Begin(s)
  PROVE  CoreInv'
<1>1. sessions' \in [Sessions -> Backend \cup {None}]
  <2>1. PICK w \in workspaces \cup {None}, c \in DOMAIN scenarios \cup {None} :
          sessions' = [sessions EXCEPT ![s] = [mode |-> options.mode, strict |-> options.strict,
                                               workspace |-> w, scenario |-> c]]
    BY DEF Begin
  <2>2. [mode |-> options.mode, strict |-> options.strict, workspace |-> w, scenario |-> c] \in Backend
    BY DEF CoreInv, TypeOK, OptionsRow, Backend
  <2> QED BY <2>1, <2>2 DEF CoreInv, TypeOK
<1> QED BY <1>1 DEF CoreInv, TypeOK, Begin, tables, DatasetRowsHold, ScenarioRowsHold, UpdateRowsHold,
             AttributeRowsHold, DataTypesFit, FormatsFit, DatasetsOf

\* Options change no row.
LEMMA OptionsKeep ==
  ASSUME CoreInv, NEW s \in Sessions, RollBack(s) \/ \E strict \in StrictSets : SetOptions(s, strict)
  PROVE  CoreInv'
<1>1. sessions' \in [Sessions -> Backend \cup {None}]
  BY SessionsStay DEF RollBack, SetOptions
<1>2. options' \in OptionsRow
  BY DEF CoreInv, TypeOK, RollBack, SetOptions, OptionsRow
<1>3. UNCHANGED tables
  BY DEF RollBack, SetOptions
<1> QED BY <1>1, <1>2, <1>3 DEF CoreInv, TypeOK, tables, DatasetRowsHold, ScenarioRowsHold,
             UpdateRowsHold, AttributeRowsHold, DataTypesFit, FormatsFit, DatasetsOf

\* A workspace is one more row that nothing refers to.
LEMMA CreateWorkspaceKeeps ==
  ASSUME CoreInv, NEW s \in Sessions, NEW w \in WorkspaceIds, CreateWorkspace(s, w)
  PROVE  CoreInv'
<1>1. sessions' \in [Sessions -> Backend \cup {None}]
  BY SessionsStay DEF CreateWorkspace
<1> QED BY <1>1 DEF CreateWorkspace, CoreInv, TypeOK, DatasetRowsHold, ScenarioRowsHold,
             UpdateRowsHold, AttributeRowsHold, DataTypesFit, FormatsFit, DatasetsOf

\* A mode may come with a workspace and a scenario without anything.
LEMMA SetModeKeeps ==
  ASSUME CoreInv, ConstantsAssumption, NEW s \in Sessions,
         NEW new \in {Single, Workspace, Multiple}, SetMode(s, new)
  PROVE  CoreInv'
<1>1. sessions' \in [Sessions -> Backend \cup {None}]
  BY SessionsStay DEF SetMode
<1>2. /\ options' \in OptionsRow
      /\ workspaces \subseteq workspaces' /\ workspaces' \subseteq WorkspaceIds
      /\ \/ UNCHANGED scenarios
         \/ \E w \in workspaces', c \in ScenarioIds :
              c \notin DOMAIN scenarios /\ scenarios' = With(scenarios, c, [workspace |-> w, datasets |-> {}, models |-> {}])
  <2>1. options \in OptionsRow /\ workspaces \subseteq WorkspaceIds
    BY DEF CoreInv, TypeOK
  <2>2. CASE new = Multiple
    BY <2>1, <2>2 DEF SetMode, OptionsRow, Single, Workspace, Multiple
  <2>3. CASE new = Workspace
    BY <2>1, <2>3 DEF SetMode, OptionsRow, Single, Workspace, Multiple
  <2>4. CASE new = Single
    <3>1. PICK w \in WorkspaceIds, c \in ScenarioIds :
             /\ options' = [options EXCEPT !.mode = new, !.scenario = c,
                              !.workspace = IF sessions[s].mode = Multiple THEN w ELSE options.workspace]
             /\ workspaces' = workspaces \cup {w}
             /\ scenarios' = IF c \in DOMAIN scenarios THEN scenarios
                             ELSE With(scenarios, c,
                                       [workspace |-> w, datasets |-> {}, models |-> {}])
      BY <2>4 DEF SetMode, Single, Workspace, Multiple
    <3> QED BY <2>1, <3>1 DEF OptionsRow
  <2> QED BY <2>2, <2>3, <2>4
<1>3. UNCHANGED <<datasetTypes, attributeTypes, modelTypes, datasets, updates, attributes, raw>>
  BY DEF SetMode
<1>4. DatasetRowsHold'
  BY <1>2, <1>3 DEF CoreInv, TypeOK, DatasetRowsHold
<1>5. ScenarioRowsHold' /\ DOMAIN scenarios \subseteq DOMAIN scenarios' /\ DOMAIN scenarios' \subseteq ScenarioIds
  <2>1. CASE UNCHANGED scenarios
    BY <1>2, <1>3, <2>1 DEF CoreInv, TypeOK, ScenarioRowsHold, DatasetsOf
  <2>2. ASSUME NEW w \in workspaces', NEW c \in ScenarioIds, c \notin DOMAIN scenarios,
               scenarios' = With(scenarios, c, [workspace |-> w, datasets |-> {}, models |-> {}])
        PROVE  /\ ScenarioRowsHold' /\ DOMAIN scenarios \subseteq DOMAIN scenarios'
               /\ DOMAIN scenarios' \subseteq ScenarioIds
    <3> DEFINE row == [workspace |-> w, datasets |-> {}, models |-> {}]
    <3>1. /\ DOMAIN scenarios' = DOMAIN scenarios \cup {c} /\ scenarios'[c] = row
          /\ \A x \in DOMAIN scenarios : x # c => scenarios'[x] = scenarios[x]
      BY <2>2 DEF With
    <3>2. row \in ScenarioRow /\ row.workspace = w /\ row.datasets = {} /\ row.models = {}
      BY <1>2 DEF ScenarioRow
    <3> HIDE DEF row
    <3>3. \A x \in DOMAIN scenarios' : x = c \/ (x \in DOMAIN scenarios /\ scenarios'[x] = scenarios[x])
      BY <3>1
    <3>4. ASSUME NEW x \in DOMAIN scenarios'
          PROVE  /\ scenarios'[x] \in ScenarioRow
                 /\ scenarios'[x].workspace \in workspaces'
                 /\ \A d \in scenarios'[x].datasets :
                      d \in DOMAIN datasets' /\ datasets'[d].workspace = scenarios'[x].workspace
                 /\ scenarios'[x].models \subseteq modelTypes'
      <4>1. CASE x = c
        BY <3>1, <3>2, <4>1
      <4>2. CASE x # c
        <5>1. x \in DOMAIN scenarios /\ scenarios'[x] = scenarios[x]
          BY <3>3, <4>2
        <5> QED BY <1>2, <1>3, <5>1 DEF CoreInv, TypeOK, ScenarioRowsHold
      <4> QED BY <4>1, <4>2
    <3>5. DOMAIN scenarios \subseteq DOMAIN scenarios' /\ DOMAIN scenarios' \subseteq ScenarioIds
      BY <3>1 DEF CoreInv, TypeOK
    <3> QED BY <3>4, <3>5 DEF ScenarioRowsHold
  <2> QED BY <1>2, <2>1, <2>2
<1>6. UpdateRowsHold'
  BY <1>3, <1>5 DEF CoreInv, TypeOK, UpdateRowsHold
<1> QED BY <1>1, <1>2, <1>3, <1>4, <1>5, <1>6 DEF CoreInv, TypeOK, AttributeRowsHold, DataTypesFit, FormatsFit

\* An attribute type with data keeps its data type.
LEMMA AttributeTypesKeep ==
  ASSUME CoreInv, NEW s \in Sessions, NEW a \in AttributeNames,
         \/ \E dt \in DataTypes : CreateAttributeType(s, a, dt) \/ ChangeAttributeType(s, a, dt)
         \/ DeleteAttributeType(s, a)
  PROVE  CoreInv'
<1>1. sessions' \in [Sessions -> Backend \cup {None}]
  BY SessionsStay DEF CreateAttributeType, ChangeAttributeType, DeleteAttributeType
<1>2. UNCHANGED <<options, workspaces, datasetTypes, modelTypes, datasets, scenarios, updates, attributes, raw>>
  BY DEF CreateAttributeType, ChangeAttributeType, DeleteAttributeType
<1>3. \A row \in attributes : row.name \in DOMAIN attributeTypes' /\ attributeTypes'[row.name] = attributeTypes[row.name]
  <2>1. CASE \E dt \in DataTypes : CreateAttributeType(s, a, dt)
    BY <2>1 DEF CreateAttributeType, With, CoreInv, DataTypesFit
  <2>2. CASE \E dt \in DataTypes : ChangeAttributeType(s, a, dt)
    <3>1. CASE InUse(a)
      BY <2>2, <3>1 DEF ChangeAttributeType, CoreInv, DataTypesFit
    <3>2. CASE ~InUse(a)
      BY <2>2, <3>2 DEF ChangeAttributeType, InUse, CoreInv, DataTypesFit
    <3> QED BY <3>1, <3>2
  <2>3. CASE DeleteAttributeType(s, a)
    BY <2>3 DEF DeleteAttributeType, InUse, Without, Restrict, CoreInv, DataTypesFit
  <2> QED BY <2>1, <2>2, <2>3
<1> QED BY <1>1, <1>2, <1>3 DEF CoreInv, TypeOK, DatasetRowsHold, ScenarioRowsHold,
             UpdateRowsHold, AttributeRowsHold, DataTypesFit, FormatsFit, DatasetsOf

\* A dataset type with datasets keeps its format.
LEMMA DatasetTypesKeep ==
  ASSUME CoreInv, NEW s \in Sessions, NEW name \in TypeNames, ConstantsAssumption,
         (\E format \in Formats : CreateDatasetType(s, name, format)) \/ DeleteDatasetType(s, name)
  PROVE  CoreInv'
<1>1. sessions' \in [Sessions -> Backend \cup {None}]
  BY SessionsStay DEF CreateDatasetType, DeleteDatasetType
<1>2. UNCHANGED <<options, workspaces, attributeTypes, modelTypes, datasets, scenarios, updates, attributes, raw>>
  BY DEF CreateDatasetType, DeleteDatasetType
<1>3. \A d \in DOMAIN datasets : /\ datasets[d].type \in DOMAIN datasetTypes'
                                 /\ datasetTypes'[datasets[d].type] = datasetTypes[datasets[d].type]
  <2>1. CASE \E format \in Formats : CreateDatasetType(s, name, format)
    BY <2>1 DEF CreateDatasetType, With, CoreInv, TypeOK, DatasetRowsHold
  <2>2. CASE DeleteDatasetType(s, name)
    BY <2>2 DEF DeleteDatasetType, Without, Restrict, CoreInv, TypeOK, DatasetRowsHold
  <2> QED BY <2>1, <2>2
<1>4. DatasetRowsHold'
  BY <1>2, <1>3 DEF CoreInv, TypeOK, DatasetRowsHold
<1>5. FormatsFit'
  <2>1. \A d \in raw : d \in DOMAIN datasets
    BY DEF CoreInv, TypeOK
  <2>2. \A row \in attributes : row.owner \in DatasetIds => row.owner \in DOMAIN datasets
    BY DEF CoreInv, TypeOK, AttributeRowsHold, ConstantsAssumption
  <2> QED BY <1>2, <1>3, <2>1, <2>2 DEF CoreInv, FormatsFit
<1> QED BY <1>1, <1>2, <1>4, <1>5 DEF CoreInv, TypeOK, ScenarioRowsHold,
             UpdateRowsHold, AttributeRowsHold, DataTypesFit, DatasetsOf

\* A model type that a row refers to stays, under its new name if it is given one.
LEMMA ModelTypesKeep ==
  ASSUME CoreInv, NEW s \in Sessions, NEW m \in ModelTypes, CreateModelType(s, m) \/ DeleteModelType(s, m)
  PROVE  CoreInv'
<1>1. sessions' \in [Sessions -> Backend \cup {None}]
  BY SessionsStay DEF CreateModelType, DeleteModelType
<1>2. UNCHANGED <<options, workspaces, datasetTypes, attributeTypes, datasets, scenarios, updates, attributes, raw>>
  BY DEF CreateModelType, DeleteModelType
<1>3. /\ \A c \in DOMAIN scenarios : scenarios[c].models \subseteq modelTypes'
      /\ \A u \in DOMAIN updates : updates[u].model \in modelTypes'
  BY DEF CreateModelType, DeleteModelType, CoreInv, TypeOK, ScenarioRowsHold, UpdateRowsHold
<1> QED BY <1>1, <1>2, <1>3 DEF CoreInv, TypeOK, DatasetRowsHold, ScenarioRowsHold,
             UpdateRowsHold, AttributeRowsHold, DataTypesFit, FormatsFit

LEMMA RenameModelTypeKeeps ==
  ASSUME CoreInv, NEW s \in Sessions, NEW m \in ModelTypes, NEW new \in ModelTypes, RenameModelType(s, m, new)
  PROVE  CoreInv'
<1> DEFINE name == [x \in modelTypes |-> IF x = m THEN new ELSE x]
<1>1. sessions' \in [Sessions -> Backend \cup {None}]
  BY SessionsStay DEF RenameModelType
<1>2. UNCHANGED <<options, workspaces, datasetTypes, attributeTypes, datasets, attributes, raw>>
  BY DEF RenameModelType
<1>3. /\ modelTypes' = {name[x] : x \in modelTypes}
      /\ scenarios' = [c \in DOMAIN scenarios |->
                           [scenarios[c] EXCEPT !.models = {name[x] : x \in scenarios[c].models}]]
      /\ updates' = [u \in DOMAIN updates |-> [updates[u] EXCEPT !.model = name[updates[u].model]]]
  BY DEF RenameModelType
<1>4. \A x \in modelTypes : name[x] = x \/ name[x] = new
  OBVIOUS
<1> HIDE DEF name
<1>5. ASSUME NEW c \in DOMAIN scenarios
      PROVE  /\ scenarios'[c] \in ScenarioRow
             /\ scenarios'[c].workspace = scenarios[c].workspace
             /\ scenarios'[c].datasets = scenarios[c].datasets
             /\ scenarios'[c].models \subseteq modelTypes'
  <2> DEFINE M == {name[x] : x \in scenarios[c].models}
  <2>1. scenarios[c] \in ScenarioRow /\ scenarios[c].models \subseteq modelTypes
    BY DEF CoreInv, TypeOK, ScenarioRowsHold
  <2>2. M \subseteq modelTypes' /\ M \subseteq ModelTypes
    BY <1>3, <1>4, <2>1 DEF ScenarioRow
  <2>3. scenarios'[c] = [scenarios[c] EXCEPT !.models = M]
    BY <1>3
  <2> HIDE DEF M
  <2> QED BY <2>1, <2>2, <2>3 DEF ScenarioRow
<1>6. ScenarioRowsHold' /\ DOMAIN scenarios' = DOMAIN scenarios
  <2>1. DOMAIN scenarios' = DOMAIN scenarios
    BY <1>3
  <2>2. \A c \in DOMAIN scenarios :
          /\ scenarios[c].workspace \in workspaces
          /\ \A d \in scenarios[c].datasets :
               d \in DOMAIN datasets /\ datasets[d].workspace = scenarios[c].workspace
    BY DEF CoreInv, TypeOK, ScenarioRowsHold
  <2> QED BY <1>2, <1>5, <2>1, <2>2 DEF ScenarioRowsHold
<1>7. ASSUME NEW u \in DOMAIN updates
      PROVE  /\ updates'[u] \in UpdateRow
             /\ updates'[u].scenario = updates[u].scenario
             /\ updates'[u].dataset = updates[u].dataset
             /\ updates'[u].model \in modelTypes'
  <2>1. updates[u] \in UpdateRow /\ updates[u].model \in modelTypes
    BY DEF CoreInv, TypeOK, UpdateRowsHold
  <2>2. name[updates[u].model] \in modelTypes' /\ name[updates[u].model] \in ModelTypes
    BY <1>3, <1>4, <2>1 DEF UpdateRow
  <2>3. updates'[u] = [updates[u] EXCEPT !.model = name[updates[u].model]]
    BY <1>3
  <2> QED BY <2>1, <2>2, <2>3 DEF UpdateRow
<1>8. UpdateRowsHold' /\ DOMAIN updates' = DOMAIN updates
  <2>1. DOMAIN updates' = DOMAIN updates
    BY <1>3
  <2>2. \A u \in DOMAIN updates : /\ updates[u].scenario \in DOMAIN scenarios
                                  /\ updates[u].dataset \in DOMAIN datasets
    BY DEF CoreInv, TypeOK, UpdateRowsHold
  <2> QED BY <1>2, <1>6, <1>7, <2>1, <2>2 DEF UpdateRowsHold
<1> QED BY <1>1, <1>2, <1>6, <1>8 DEF CoreInv, TypeOK, DatasetRowsHold,
             AttributeRowsHold, DataTypesFit, FormatsFit

-----------------------------------------------------------------------------
(* Datasets and their data.                                                *)

\* A dataset without data refers to its workspace and to a type that is there.
LEMMA CreateDatasetKeeps ==
  ASSUME CoreInv, ConstantsAssumption, NEW s \in Sessions, NEW d \in DatasetIds, NEW name \in Names,
         NEW type \in TypeNames, NEW format \in Formats, CreateDataset(s, d, name, type, format)
  PROVE  CoreInv'
<1>1. sessions' \in [Sessions -> Backend \cup {None}]
  BY SessionsStay DEF CreateDataset
<1> DEFINE row == [workspace |-> sessions[s].workspace, name |-> name, type |-> type]
<1>2. /\ DOMAIN datasets' = DOMAIN datasets \cup {d} /\ datasets'[d] = row /\ d \notin DOMAIN datasets
      /\ \A x \in DOMAIN datasets : datasets'[x] = datasets[x]
  BY DEF CreateDataset, With
<1>3. row \in DatasetRow /\ row.workspace \in workspaces /\ row.type = type
  BY DEF CreateDataset, DatasetRow, CoreInv, TypeOK
<1> HIDE DEF row
<1>4. /\ DOMAIN datasetTypes' = DOMAIN datasetTypes \cup {type}
      /\ \A x \in DOMAIN datasetTypes : datasetTypes'[x] = datasetTypes[x]
  BY DEF CreateDataset, With, Ensured
<1>5. UNCHANGED <<options, workspaces, attributeTypes, modelTypes, scenarios, updates, attributes, raw>>
  BY DEF CreateDataset
<1>6. DatasetRowsHold' /\ DOMAIN datasets' \subseteq DatasetIds
  BY <1>2, <1>3, <1>4, <1>5 DEF CoreInv, TypeOK, DatasetRowsHold
<1>7. ScenarioRowsHold' /\ UpdateRowsHold' /\ AttributeRowsHold' /\ DataTypesFit'
  BY <1>2, <1>5 DEF CoreInv, TypeOK, ScenarioRowsHold, UpdateRowsHold, AttributeRowsHold, DatasetsOf, DataTypesFit
<1>8. FormatsFit'
  <2>1. \A x \in raw : x \in DOMAIN datasets
    BY DEF CoreInv, TypeOK
  <2>2. \A a \in attributes : a.owner \in DatasetIds => a.owner \in DOMAIN datasets
    BY DEF CoreInv, TypeOK, AttributeRowsHold, ConstantsAssumption
  <2>3. \A x \in DOMAIN datasets : datasetTypes'[datasets'[x].type] = datasetTypes[datasets[x].type]
    BY <1>2, <1>4 DEF CoreInv, TypeOK, DatasetRowsHold
  <2> QED BY <1>5, <2>1, <2>2, <2>3 DEF CoreInv, FormatsFit
<1> QED BY <1>1, <1>2, <1>5, <1>6, <1>7, <1>8 DEF CoreInv, TypeOK

\* Data that is storable has the data types that its attributes have then.
LEMMA StoredRows ==
  ASSUME DataTypesFit, NEW owner, NEW data \in EntityData, NEW strict, Storable(data, strict),
         attributeTypes' = Merged(attributeTypes, data)
  PROVE  /\ \A row \in Rows(owner, data) : /\ row.owner = owner
                                           /\ row.name \in AttributeNames /\ row.dataType \in DataTypes
                                           /\ row = [owner |-> owner, name |-> row.name, dataType |-> row.dataType]
         /\ \A row \in attributes \cup Rows(owner, data) : /\ row.name \in DOMAIN attributeTypes'
                                                          /\ row.dataType = attributeTypes'[row.name]
<1>1. PICK A \in SUBSET AttributeNames : data \in [A -> DataTypes]
  BY DEF EntityData
<1>2. /\ DOMAIN attributeTypes' = DOMAIN attributeTypes \cup A
      /\ \A a \in DOMAIN attributeTypes : attributeTypes'[a] = attributeTypes[a]
      /\ \A a \in A : a \notin DOMAIN attributeTypes => attributeTypes'[a] = data[a]
  BY <1>1 DEF Merged
<1>3. \A a \in A : attributeTypes'[a] = data[a]
  BY <1>1, <1>2 DEF Storable, Ensured
<1>4. \A row \in Rows(owner, data) : \E a \in A : row = [owner |-> owner, name |-> a, dataType |-> data[a]]
  BY <1>1 DEF Rows
<1>5. ASSUME NEW row \in Rows(owner, data)
      PROVE  /\ row.owner = owner
             /\ row.name \in AttributeNames /\ row.dataType \in DataTypes
             /\ row = [owner |-> owner, name |-> row.name, dataType |-> row.dataType]
             /\ row.name \in DOMAIN attributeTypes' /\ row.dataType = attributeTypes'[row.name]
  <2>1. PICK a \in A : row = [owner |-> owner, name |-> a, dataType |-> data[a]]
    BY <1>4
  <2> QED BY <1>1, <1>2, <1>3, <2>1
<1>6. ASSUME NEW row \in attributes
      PROVE  row.name \in DOMAIN attributeTypes' /\ row.dataType = attributeTypes'[row.name]
  BY <1>2 DEF DataTypesFit
<1> QED BY <1>5, <1>6

\* A dataset with another name is in the same workspace and has the same type.
LEMMA NamedDatasets ==
  ASSUME CoreInv, NEW d \in DOMAIN datasets, NEW name \in Names, Named(d, name),
         workspaces' = workspaces, datasetTypes' = datasetTypes
  PROVE  /\ DOMAIN datasets' = DOMAIN datasets /\ DatasetRowsHold'
         /\ \A x \in DOMAIN datasets : /\ datasets'[x].workspace = datasets[x].workspace
                                       /\ datasets'[x].type = datasets[x].type
<1>1. \A x \in DOMAIN datasets : datasets[x] \in DatasetRow
  BY DEF CoreInv, TypeOK, DatasetRowsHold
<1>2. /\ DOMAIN datasets' = DOMAIN datasets
      /\ datasets'[d] = [datasets[d] EXCEPT !.name = name]
      /\ \A x \in DOMAIN datasets : x # d => datasets'[x] = datasets[x]
  BY DEF Named
<1>3. \A x \in DOMAIN datasets : /\ datasets'[x] \in DatasetRow
                                /\ datasets'[x].workspace = datasets[x].workspace
                                /\ datasets'[x].type = datasets[x].type
  BY <1>1, <1>2 DEF DatasetRow
<1> QED BY <1>2, <1>3 DEF CoreInv, TypeOK, DatasetRowsHold

\* Nothing refers to the name of a dataset.
LEMMA RenameDatasetKeeps ==
  ASSUME CoreInv, ConstantsAssumption, NEW s \in Sessions, NEW d \in DatasetIds, NEW name \in Names,
         RenameDataset(s, d, name)
  PROVE  CoreInv'
<1>1. sessions' \in [Sessions -> Backend \cup {None}]
  BY SessionsStay DEF RenameDataset
<1>2. UNCHANGED <<options, workspaces, datasetTypes, attributeTypes, modelTypes, scenarios, updates, attributes, raw>>
  BY DEF RenameDataset
<1>3. /\ DOMAIN datasets' = DOMAIN datasets /\ DatasetRowsHold'
      /\ \A x \in DOMAIN datasets : /\ datasets'[x].workspace = datasets[x].workspace
                                    /\ datasets'[x].type = datasets[x].type
  BY <1>2, NamedDatasets DEF RenameDataset
<1>4. FormatsFit'
  <2>1. \A x \in raw : x \in DOMAIN datasets
    BY DEF CoreInv, TypeOK
  <2>2. \A a \in attributes : a.owner \in DatasetIds => a.owner \in DOMAIN datasets
    BY DEF CoreInv, TypeOK, AttributeRowsHold, ConstantsAssumption
  <2> QED BY <1>2, <1>3, <2>1, <2>2 DEF CoreInv, FormatsFit
<1> QED BY <1>1, <1>2, <1>3, <1>4 DEF CoreInv, TypeOK, ScenarioRowsHold,
             UpdateRowsHold, AttributeRowsHold, DataTypesFit

\* Data is deleted, with its dataset if no scenario and no update refers to it.
LEMMA DatasetDeletionKeeps ==
  ASSUME CoreInv, ConstantsAssumption, NEW s \in Sessions, NEW d \in DatasetIds,
         DeleteDatasetData(s, d) \/ DeleteDataset(s, d)
  PROVE  CoreInv'
<1>1. sessions' \in [Sessions -> Backend \cup {None}]
  BY SessionsStay DEF DeleteDatasetData, DeleteDataset
<1>2. /\ UNCHANGED <<options, workspaces, datasetTypes, attributeTypes, modelTypes, scenarios, updates>>
      /\ attributes' = Replaced(d) /\ raw' = raw \ {d}
  BY DEF DeleteDatasetData, DeleteDataset
<1>3. /\ DOMAIN datasets' \subseteq DOMAIN datasets
      /\ \A x \in DOMAIN datasets' : datasets'[x] = datasets[x]
      /\ \A x \in DOMAIN datasets : x # d => x \in DOMAIN datasets'
  BY DEF DeleteDatasetData, DeleteDataset, Without, Restrict
<1>4. /\ \A c \in DOMAIN scenarios : \A x \in scenarios[c].datasets : x \in DOMAIN datasets'
      /\ \A u \in DOMAIN updates : updates[u].dataset \in DOMAIN datasets'
  <2>1. CASE DeleteDatasetData(s, d)
    BY <2>1 DEF DeleteDatasetData, CoreInv, TypeOK, ScenarioRowsHold, UpdateRowsHold
  <2>2. CASE DeleteDataset(s, d)
    <3>1. UpdatesOf({}) = {}
      BY DEF UpdatesOf
    <3>2. /\ \A c \in DOMAIN scenarios : d \notin scenarios[c].datasets
          /\ \A u \in DOMAIN updates : updates[u].dataset # d
      BY <2>2, <3>1 DEF DeleteDataset, Restricted
    <3> QED BY <1>3, <3>2 DEF CoreInv, TypeOK, ScenarioRowsHold, UpdateRowsHold
  <2> QED BY <2>1, <2>2
<1>5. DatasetRowsHold' /\ ScenarioRowsHold' /\ UpdateRowsHold'
  BY <1>2, <1>3, <1>4 DEF CoreInv, TypeOK, DatasetRowsHold, ScenarioRowsHold, UpdateRowsHold
<1>6. \A row \in attributes' : row \in attributes /\ row.owner # d
  BY <1>2 DEF Replaced
<1>7. AttributeRowsHold' /\ DataTypesFit'
  BY <1>2, <1>3, <1>6 DEF CoreInv, TypeOK, AttributeRowsHold, DataTypesFit
<1>8. FormatsFit'
  <2>1. \A x \in raw' : x \in raw /\ x \in DOMAIN datasets'
    BY <1>2, <1>3 DEF CoreInv, TypeOK
  <2>2. \A a \in attributes' : a.owner \in DatasetIds => a.owner \in DOMAIN datasets'
    BY <1>3, <1>6 DEF CoreInv, TypeOK, AttributeRowsHold, ConstantsAssumption
  <2> QED BY <1>2, <1>3, <1>6, <2>1, <2>2 DEF CoreInv, FormatsFit
<1> QED BY <1>1, <1>2, <1>3, <1>5, <1>7, <1>8 DEF CoreInv, TypeOK

\* Entity data replaces the rows of a dataset by rows that fit the types.
LEMMA UploadEntityDataKeeps ==
  ASSUME CoreInv, ConstantsAssumption, NEW s \in Sessions, NEW d \in DatasetIds, NEW name \in Names,
         NEW data \in EntityData, UploadEntityData(s, d, name, data)
  PROVE  CoreInv'
<1>1. sessions' \in [Sessions -> Backend \cup {None}]
  BY SessionsStay DEF UploadEntityData
<1>2. UNCHANGED <<options, workspaces, datasetTypes, modelTypes, scenarios, updates>>
  BY DEF UploadEntityData
<1>3. attributes' = Replaced(d) \cup Rows(d, data) /\ raw' = raw \ {d}
  BY DEF UploadEntityData
<1>4. d \in DOMAIN datasets /\ datasetTypes[datasets[d].type] = Entity
  BY DEF UploadEntityData, Accepts
<1>10. /\ DOMAIN datasets' = DOMAIN datasets /\ DatasetRowsHold'
       /\ \A x \in DOMAIN datasets : /\ datasets'[x].workspace = datasets[x].workspace
                                     /\ datasets'[x].type = datasets[x].type
  BY <1>2, <1>4, NamedDatasets DEF UploadEntityData
<1>5. /\ \A row \in Rows(d, data) : /\ row.owner = d
                                    /\ row.name \in AttributeNames /\ row.dataType \in DataTypes
                                    /\ row = [owner |-> d, name |-> row.name, dataType |-> row.dataType]
      /\ \A row \in attributes \cup Rows(d, data) : /\ row.name \in DOMAIN attributeTypes'
                                                   /\ row.dataType = attributeTypes'[row.name]
  BY StoredRows DEF UploadEntityData, CoreInv
<1>6. Replaced(d) \subseteq attributes
  BY DEF Replaced
<1>7. AttributeRowsHold'
  <2>1. \A row \in Rows(d, data) : row \in AttributeRow
    BY <1>5 DEF AttributeRow, Owners
  <2> QED BY <1>2, <1>3, <1>4, <1>5, <1>6, <1>10, <2>1 DEF CoreInv, TypeOK, AttributeRowsHold
<1>8. DataTypesFit'
  BY <1>3, <1>5, <1>6 DEF DataTypesFit
<1>9. FormatsFit'
  <2>1. \A x \in raw' : x \in raw /\ x \in DOMAIN datasets
    BY <1>3 DEF CoreInv, TypeOK
  <2>2. \A a \in attributes : a.owner \in DatasetIds => a.owner \in DOMAIN datasets
    BY DEF CoreInv, TypeOK, AttributeRowsHold, ConstantsAssumption
  <2>3. ASSUME NEW a \in attributes', a.owner \in DatasetIds
        PROVE  datasetTypes'[datasets'[a.owner].type] = Entity
    <3>1. a \in attributes \/ a.owner = d
      BY <1>3, <1>5, <1>6
    <3> QED BY <1>2, <1>4, <1>10, <2>2, <2>3, <3>1 DEF CoreInv, FormatsFit
  <2> QED BY <1>2, <1>10, <2>1, <2>3 DEF CoreInv, FormatsFit
<1> QED BY <1>1, <1>2, <1>3, <1>7, <1>8, <1>9, <1>10 DEF CoreInv, TypeOK, ScenarioRowsHold,
             UpdateRowsHold

\* Raw data has no rows of attributes.
LEMMA UploadRawDataKeeps ==
  ASSUME CoreInv, ConstantsAssumption, NEW s \in Sessions, NEW d \in DatasetIds, NEW name \in Names,
         UploadRawData(s, d, name)
  PROVE  CoreInv'
<1>1. sessions' \in [Sessions -> Backend \cup {None}]
  BY SessionsStay DEF UploadRawData
<1>2. UNCHANGED <<options, workspaces, datasetTypes, attributeTypes, modelTypes, scenarios, updates>>
  BY DEF UploadRawData
<1>3. attributes' \subseteq attributes /\ raw' = raw \cup {d}
  BY DEF UploadRawData, Replaced
<1>4. d \in DOMAIN datasets /\ datasetTypes[datasets[d].type] = Binary
  BY DEF UploadRawData, Accepts
<1>5. /\ DOMAIN datasets' = DOMAIN datasets /\ DatasetRowsHold'
      /\ \A x \in DOMAIN datasets : /\ datasets'[x].workspace = datasets[x].workspace
                                    /\ datasets'[x].type = datasets[x].type
  BY <1>2, <1>4, NamedDatasets DEF UploadRawData
<1>6. FormatsFit'
  <2>1. \A x \in raw : x \in DOMAIN datasets
    BY DEF CoreInv, TypeOK
  <2>2. \A a \in attributes : a.owner \in DatasetIds => a.owner \in DOMAIN datasets
    BY DEF CoreInv, TypeOK, AttributeRowsHold, ConstantsAssumption
  <2> QED BY <1>2, <1>3, <1>4, <1>5, <2>1, <2>2 DEF CoreInv, FormatsFit
<1> QED BY <1>1, <1>2, <1>3, <1>4, <1>5, <1>6 DEF CoreInv, TypeOK, ScenarioRowsHold,
             UpdateRowsHold, AttributeRowsHold, DataTypesFit
-----------------------------------------------------------------------------
(* Scenarios and updates.                                                  *)

\* Stubs are added for datasets that are missing, the others stay as they are.
LEMMA EnsuredDatasets ==
  ASSUME CoreInv, NEW strict, NEW w \in workspaces, NEW names \in SUBSET Names, NEW type \in TypeNames,
         NEW D \in SUBSET DatasetIds, EnsureDatasets(strict, w, names, type, D)
  PROVE  /\ DOMAIN datasets' = DOMAIN datasets \cup D
         /\ \A d \in DOMAIN datasets : datasets'[d] = datasets[d]
         /\ \A d \in D : datasets'[d].workspace = w
         /\ \A d \in D : d \notin DOMAIN datasets =>
               datasets'[d] \in DatasetRow /\ datasets'[d].type \in DOMAIN datasetTypes'
         /\ DOMAIN datasetTypes \subseteq DOMAIN datasetTypes'
         /\ \A t \in DOMAIN datasetTypes : datasetTypes'[t] = datasetTypes[t]
<1> DEFINE known == {d \in DatasetsOf({w}) : datasets[d].name \in names}
           missing == names \ {datasets[d].name : d \in known}
<1>1. /\ D \cap DOMAIN datasets = known
      /\ datasetTypes' = IF missing = {} THEN datasetTypes ELSE Merged(datasetTypes, [x \in {type} |-> Entity])
  BY DEF EnsureDatasets
<1>2. PICK stub \in Bijection(D \ known, missing) :
        datasets' = Merged(datasets, [d \in D \ known |-> [workspace |-> w, name |-> stub[d], type |-> type]])
  BY DEF EnsureDatasets
<1>3. stub \in [D \ known -> missing] /\ missing \subseteq Names
  BY <1>2 DEF Bijection, Injection
<1>4. known \subseteq DOMAIN datasets /\ \A d \in known : datasets[d].workspace = w
  BY DEF DatasetsOf
<1> HIDE DEF known, missing
<1>5. /\ DOMAIN datasets' = DOMAIN datasets \cup D
      /\ \A d \in DOMAIN datasets : datasets'[d] = datasets[d]
      /\ \A d \in D \ known : datasets'[d] = [workspace |-> w, name |-> stub[d], type |-> type]
  BY <1>1, <1>2, <1>4 DEF Merged
<1>6. /\ DOMAIN datasetTypes \subseteq DOMAIN datasetTypes'
      /\ \A t \in DOMAIN datasetTypes : datasetTypes'[t] = datasetTypes[t]
      /\ missing # {} => type \in DOMAIN datasetTypes'
  BY <1>1 DEF Merged
<1>7. \A d \in D \ known : datasets'[d] \in DatasetRow /\ datasets'[d].type = type /\ datasets'[d].workspace = w
  BY <1>3, <1>5 DEF CoreInv, TypeOK, DatasetRow
<1>8. \A d \in D \ known : type \in DOMAIN datasetTypes'
  BY <1>3, <1>6
<1>9. \A d \in D : datasets'[d].workspace = w
  BY <1>4, <1>5, <1>7
<1>10. \A d \in D : d \notin DOMAIN datasets =>
               datasets'[d] \in DatasetRow /\ datasets'[d].type \in DOMAIN datasetTypes'
  BY <1>1, <1>7, <1>8
<1> QED BY <1>5, <1>6, <1>9, <1>10

\* A scenario is stored with its datasets, which are those of its workspace, and models.
LEMMA StoreDetailsKeeps ==
  ASSUME CoreInv, ConstantsAssumption, NEW s \in Sessions, NEW w \in workspaces, NEW c \in ScenarioIds,
         NEW names \in SUBSET Names, NEW type \in TypeNames, NEW models \in SUBSET ModelTypes,
         NEW D \in SUBSET DatasetIds, Commit(s), StoreDetails(s, w, c, names, type, models, D),
         UNCHANGED <<options, workspaces, attributeTypes, updates, attributes, raw>>
  PROVE  CoreInv'
<1>1. sessions' \in [Sessions -> Backend \cup {None}]
  BY SessionsStay
<1>2. /\ DOMAIN datasets' = DOMAIN datasets \cup D
      /\ \A d \in DOMAIN datasets : datasets'[d] = datasets[d]
      /\ \A d \in D : datasets'[d].workspace = w
      /\ \A d \in D : d \notin DOMAIN datasets =>
            datasets'[d] \in DatasetRow /\ datasets'[d].type \in DOMAIN datasetTypes'
      /\ DOMAIN datasetTypes \subseteq DOMAIN datasetTypes'
      /\ \A t \in DOMAIN datasetTypes : datasetTypes'[t] = datasetTypes[t]
  <2>1. EnsureDatasets(sessions[s].strict, w, names, type, D)
    BY DEF StoreDetails
  <2> QED BY <2>1, EnsuredDatasets
<1>3. modelTypes' = modelTypes \cup models
  BY DEF StoreDetails, EnsureModelTypes
<1> DEFINE row == [workspace |-> w, datasets |-> D, models |-> models]
<1>4. /\ DOMAIN scenarios' = DOMAIN scenarios \cup {c} /\ scenarios'[c] = row
      /\ \A x \in DOMAIN scenarios : x # c => scenarios'[x] = scenarios[x]
  BY DEF StoreDetails, With
<1>5. row \in ScenarioRow /\ row.workspace = w /\ row.datasets = D /\ row.models = models
  BY DEF ScenarioRow, CoreInv, TypeOK
<1> HIDE DEF row
<1>6. DatasetRowsHold' /\ DOMAIN datasets' \subseteq DatasetIds
  <2>1. \A d \in DOMAIN datasets' : \/ d \in DOMAIN datasets
                                    \/ d \in D /\ d \notin DOMAIN datasets
    BY <1>2
  <2>2. ASSUME NEW d \in DOMAIN datasets'
        PROVE  datasets'[d] \in DatasetRow /\ datasets'[d].workspace \in workspaces'
               /\ datasets'[d].type \in DOMAIN datasetTypes'
    BY <1>2, <2>1 DEF CoreInv, TypeOK, DatasetRowsHold
  <2> QED BY <1>2, <2>2 DEF CoreInv, TypeOK, DatasetRowsHold
<1>7. ScenarioRowsHold' /\ DOMAIN scenarios' \subseteq ScenarioIds
  <2>1. ASSUME NEW x \in DOMAIN scenarios'
        PROVE  /\ scenarios'[x] \in ScenarioRow
               /\ scenarios'[x].workspace \in workspaces'
               /\ scenarios'[x].models \subseteq modelTypes'
               /\ \A d \in scenarios'[x].datasets :
                    d \in DOMAIN datasets' /\ datasets'[d].workspace = scenarios'[x].workspace
    <3>1. CASE x = c
      BY <1>2, <1>3, <1>4, <1>5, <3>1
    <3>2. CASE x # c
      <4>1. x \in DOMAIN scenarios /\ scenarios'[x] = scenarios[x]
        BY <1>4, <3>2
      <4> QED BY <1>2, <1>3, <4>1 DEF CoreInv, TypeOK, ScenarioRowsHold
    <3> QED BY <3>1, <3>2
  <2> QED BY <1>4, <2>1 DEF CoreInv, TypeOK, ScenarioRowsHold
<1>8. UpdateRowsHold' /\ AttributeRowsHold' /\ DataTypesFit'
  BY <1>2, <1>3, <1>4 DEF CoreInv, TypeOK, UpdateRowsHold, AttributeRowsHold, DataTypesFit
<1>9. FormatsFit'
  <2>1. \A x \in raw : x \in DOMAIN datasets
    BY DEF CoreInv, TypeOK
  <2>2. \A a \in attributes : a.owner \in DatasetIds => a.owner \in DOMAIN datasets
    BY DEF CoreInv, TypeOK, AttributeRowsHold, ConstantsAssumption
  <2>3. \A x \in DOMAIN datasets : datasetTypes'[datasets'[x].type] = datasetTypes[datasets[x].type]
    BY <1>2 DEF CoreInv, TypeOK, DatasetRowsHold
  <2> QED BY <2>1, <2>2, <2>3 DEF CoreInv, FormatsFit
<1> QED BY <1>1, <1>2, <1>6, <1>7, <1>8, <1>9 DEF CoreInv, TypeOK

\* A scenario is created or replaced, with its details.
LEMMA ScenariosKeep ==
  ASSUME CoreInv, ConstantsAssumption, NEW s \in Sessions, NEW c \in ScenarioIds,
         NEW names \in SUBSET Names, NEW type \in TypeNames, NEW models \in SUBSET ModelTypes,
         NEW D \in SUBSET DatasetIds,
         \/ CreateScenario(s, c, names, type, models, D)
         \/ UpdateScenario(s, names, type, models, D)
  PROVE  CoreInv'
<1>1. CASE CreateScenario(s, c, names, type, models, D)
  BY <1>1, StoreDetailsKeeps DEF CreateScenario
<1>2. CASE UpdateScenario(s, names, type, models, D)
  <2>1. /\ sessions[s].scenario \in DOMAIN scenarios /\ WorkspaceOf(s) \in workspaces
        /\ sessions[s].scenario \in ScenarioIds
    BY <1>2 DEF UpdateScenario, WorkspaceOf, CoreInv, TypeOK, ScenarioRowsHold
  <2> QED BY <1>2, <2>1, StoreDetailsKeeps DEF UpdateScenario
<1> QED BY <1>1, <1>2

\* Rows are deleted together with those that refer to them.
LEMMA DeletionKeeps ==
  ASSUME CoreInv, ConstantsAssumption, NEW W, NEW D, NEW C, NEW U,
         sessions' \in [Sessions -> Backend \cup {None}],
         workspaces' = workspaces \ W, D = DatasetsOf(W), ScenariosOf(W) \subseteq C, U = UpdatesOf(C),
         C \subseteq DOMAIN scenarios,
         \A u \in DOMAIN updates : u \notin U => updates[u].dataset \notin D,
         DOMAIN datasets' = DOMAIN datasets \ D, \A d \in DOMAIN datasets' : datasets'[d] = datasets[d],
         scenarios' = Without(scenarios, C),
         updates' = Without(updates, U), attributes' = Orphaned(D \cup U), raw' = raw \ D,
         UNCHANGED <<options, datasetTypes, attributeTypes, modelTypes>>
  PROVE  CoreInv'
<1>1. /\ DOMAIN datasets' = DOMAIN datasets \ D
      /\ \A d \in DOMAIN datasets' : datasets'[d] = datasets[d]
  OBVIOUS
<1>2. /\ DOMAIN scenarios' = DOMAIN scenarios \ C
      /\ \A c \in DOMAIN scenarios' : scenarios'[c] = scenarios[c]
  BY DEF Without, Restrict
<1>3. /\ DOMAIN updates' = DOMAIN updates \ U
      /\ \A u \in DOMAIN updates' : updates'[u] = updates[u]
  BY DEF Without, Restrict
<1>4. DatasetRowsHold'
  BY <1>1 DEF CoreInv, TypeOK, DatasetRowsHold, DatasetsOf
<1>5. ScenarioRowsHold'
  <2>1. ASSUME NEW c \in DOMAIN scenarios'
        PROVE  /\ scenarios[c].workspace \notin W
               /\ \A d \in scenarios[c].datasets :
                    d \in DOMAIN datasets' /\ datasets'[d].workspace = scenarios[c].workspace
    <3>1. c \in DOMAIN scenarios /\ scenarios[c].workspace \notin W
      BY <1>2 DEF ScenariosOf
    <3>2. \A d \in scenarios[c].datasets : d \in DOMAIN datasets /\ datasets[d].workspace = scenarios[c].workspace
      BY <3>1 DEF CoreInv, TypeOK, ScenarioRowsHold
    <3> QED BY <1>1, <3>1, <3>2 DEF DatasetsOf
  <2> QED BY <1>2, <2>1 DEF CoreInv, TypeOK, ScenarioRowsHold
<1>6. UpdateRowsHold'
  BY <1>1, <1>2, <1>3 DEF CoreInv, TypeOK, UpdateRowsHold, UpdatesOf
<1>7. ASSUME NEW row \in attributes'
      PROVE  \E a \in attributes : /\ row.name = a.name /\ row.dataType = a.dataType /\ row \in AttributeRow
                                   /\ row.owner = None \/ (row.owner = a.owner /\ a.owner \notin D \cup U)
  <2>1. PICK a \in attributes : row = IF a.owner \in D \cup U THEN [a EXCEPT !.owner = None] ELSE a
    BY DEF Orphaned
  <2>2. a \in AttributeRow
    BY DEF CoreInv, TypeOK, AttributeRowsHold
  <2> QED BY <2>1, <2>2 DEF AttributeRow
<1>8. AttributeRowsHold'
  BY <1>1, <1>3, <1>7 DEF CoreInv, TypeOK, AttributeRowsHold
<1>9. DataTypesFit'
  <2>1. ASSUME NEW row \in attributes'
        PROVE  row.name \in DOMAIN attributeTypes /\ row.dataType = attributeTypes[row.name]
    <3>1. PICK a \in attributes : row.name = a.name /\ row.dataType = a.dataType
      BY <1>7
    <3> QED BY <3>1 DEF CoreInv, DataTypesFit
  <2> QED BY <2>1 DEF DataTypesFit
<1>10. FormatsFit'
  <2>1. \A x \in raw' : x \in DOMAIN datasets' /\ x \in raw
    BY <1>1 DEF CoreInv, TypeOK
  <2>2. ASSUME NEW row \in attributes', row.owner \in DatasetIds
        PROVE  datasetTypes[datasets'[row.owner].type] = Entity
    <3>1. PICK a \in attributes : row.owner = None \/ (row.owner = a.owner /\ a.owner \notin D \cup U)
      BY <1>7
    <3>2. row.owner = a.owner /\ row.owner \in DOMAIN datasets'
      BY <1>1, <2>2, <3>1 DEF ConstantsAssumption, CoreInv, TypeOK, AttributeRowsHold
    <3> QED BY <1>1, <2>2, <3>2 DEF CoreInv, FormatsFit
  <2> QED BY <1>1, <2>1, <2>2 DEF CoreInv, FormatsFit
<1> QED BY <1>1, <1>2, <1>3, <1>4, <1>5, <1>6, <1>8, <1>9, <1>10 DEF CoreInv, TypeOK

\* A workspace is deleted with its scenarios and datasets, and with what refers to them.
LEMMA DeleteWorkspaceKeeps ==
  ASSUME CoreInv, ConstantsAssumption, NEW s \in Sessions, NEW w \in WorkspaceIds, DeleteWorkspace(s, w)
  PROVE  CoreInv'
<1> DEFINE D == DatasetsOf({w})
           C == ScenariosOf({w})
<1>1. sessions' \in [Sessions -> Backend \cup {None}]
  BY SessionsStay DEF DeleteWorkspace
<1>2. /\ workspaces' = workspaces \ {w} /\ ~Restricted(D, C)
      /\ datasets' = Without(datasets, D) /\ scenarios' = Without(scenarios, C)
      /\ updates' = Without(updates, UpdatesOf(C))
      /\ attributes' = Orphaned(D \cup UpdatesOf(C)) /\ raw' = raw \ D
      /\ UNCHANGED <<options, datasetTypes, attributeTypes, modelTypes>>
  BY DEF DeleteWorkspace
<1>3. \A u \in DOMAIN updates : u \notin UpdatesOf(C) => updates[u].dataset \notin D
  BY <1>2 DEF Restricted
<1>4. C \subseteq DOMAIN scenarios /\ ScenariosOf({w}) \subseteq C
  BY DEF ScenariosOf
<1>5. /\ DOMAIN datasets' = DOMAIN datasets \ D
      /\ \A d \in DOMAIN datasets' : datasets'[d] = datasets[d]
  BY <1>2 DEF Without, Restrict
<1> HIDE DEF C
<1> QED BY <1>1, <1>2, <1>3, <1>4, <1>5, DeletionKeeps

\* A scenario is deleted with its updates and their rows.
LEMMA DeleteScenarioKeeps ==
  ASSUME CoreInv, ConstantsAssumption, NEW s \in Sessions, DeleteScenario(s)
  PROVE  CoreInv'
<1> DEFINE C == {sessions[s].scenario}
<1>1. sessions' \in [Sessions -> Backend \cup {None}]
  BY SessionsStay DEF DeleteScenario
<1>2. /\ scenarios' = Without(scenarios, C) /\ updates' = Without(updates, UpdatesOf(C))
      /\ attributes' = Orphaned(UpdatesOf(C)) /\ C \subseteq DOMAIN scenarios
      /\ UNCHANGED <<options, workspaces, datasetTypes, attributeTypes, modelTypes, datasets, raw>>
  BY DEF DeleteScenario
<1>3. DatasetsOf({}) = {} /\ ScenariosOf({}) = {}
  BY DEF DatasetsOf, ScenariosOf
<1>4. /\ DOMAIN datasets' = DOMAIN datasets \ DatasetsOf({}) /\ raw' = raw \ DatasetsOf({})
      /\ \A d \in DOMAIN datasets' : datasets'[d] = datasets[d]
  BY <1>2, <1>3
<1> QED BY <1>1, <1>2, <1>3, <1>4, DeletionKeeps

\* An update refers to its scenario and to a dataset that is stored with it.
LEMMA CreateUpdateKeeps ==
  ASSUME CoreInv, ConstantsAssumption, NEW s \in Sessions, NEW u \in UpdateIds, NEW d \in DatasetIds,
         NEW m \in ModelTypes, NEW data \in EntityData, CreateUpdate(s, u, d, m, data)
  PROVE  CoreInv'
<1> DEFINE c == sessions[s].scenario
           new == [scenario |-> c, dataset |-> d, model |-> m]
<1>1. sessions' \in [Sessions -> Backend \cup {None}]
  BY SessionsStay DEF CreateUpdate
<1>2. UNCHANGED <<options, workspaces, datasetTypes, modelTypes, datasets, scenarios, raw>>
  BY DEF CreateUpdate
<1>3. /\ DOMAIN updates' = DOMAIN updates \cup {u} /\ updates'[u] = new
      /\ \A x \in DOMAIN updates : x # u => updates'[x] = updates[x]
  BY DEF CreateUpdate, With
<1>4. /\ new \in UpdateRow /\ new.scenario \in DOMAIN scenarios /\ new.dataset \in DOMAIN datasets
      /\ new.model \in modelTypes
  <2>1. c \in DOMAIN scenarios /\ d \in scenarios[c].datasets /\ m \in scenarios[c].models
    BY DEF CreateUpdate
  <2>2. c \in ScenarioIds /\ d \in DOMAIN datasets /\ m \in modelTypes
    BY <2>1 DEF CoreInv, TypeOK, ScenarioRowsHold
  <2> QED BY <2>1, <2>2 DEF UpdateRow
<1> HIDE DEF new
<1>5. UpdateRowsHold' /\ DOMAIN updates' \subseteq UpdateIds
  <2>1. \A x \in DOMAIN updates' : x = u \/ (x \in DOMAIN updates /\ updates'[x] = updates[x])
    BY <1>3
  <2> QED BY <1>2, <1>3, <1>4, <2>1 DEF CoreInv, TypeOK, UpdateRowsHold
<1>6. attributes' = attributes \cup Rows(u, data)
  BY DEF CreateUpdate
<1>7. /\ \A row \in Rows(u, data) : /\ row.owner = u
                                    /\ row.name \in AttributeNames /\ row.dataType \in DataTypes
                                    /\ row = [owner |-> u, name |-> row.name, dataType |-> row.dataType]
      /\ \A row \in attributes \cup Rows(u, data) : /\ row.name \in DOMAIN attributeTypes'
                                                   /\ row.dataType = attributeTypes'[row.name]
  BY StoredRows DEF CreateUpdate, CoreInv
<1>8. AttributeRowsHold'
  <2>1. \A row \in Rows(u, data) : row \in AttributeRow
    BY <1>7 DEF AttributeRow, Owners
  <2> QED BY <1>2, <1>3, <1>6, <1>7, <2>1 DEF CoreInv, TypeOK, AttributeRowsHold
<1>9. DataTypesFit'
  BY <1>6, <1>7 DEF DataTypesFit
<1>10. FormatsFit'
  BY <1>2, <1>6, <1>7 DEF CoreInv, FormatsFit, ConstantsAssumption
<1> QED BY <1>1, <1>2, <1>5, <1>8, <1>9, <1>10 DEF CoreInv, TypeOK, DatasetRowsHold, ScenarioRowsHold

\* Updates are deleted with their rows.
LEMMA DeleteUpdatesKeeps ==
  ASSUME CoreInv, NEW s \in Sessions, DeleteUpdates(s)
  PROVE  CoreInv'
<1> DEFINE U == UpdatesOf({sessions[s].scenario})
<1>1. sessions' \in [Sessions -> Backend \cup {None}]
  BY SessionsStay DEF DeleteUpdates
<1>2. UNCHANGED <<options, workspaces, datasetTypes, attributeTypes, modelTypes, datasets, scenarios, raw>>
  BY DEF DeleteUpdates
<1>3. /\ DOMAIN updates' = DOMAIN updates \ U
      /\ \A u \in DOMAIN updates' : updates'[u] = updates[u]
      /\ attributes' = {row \in attributes : row.owner \notin U}
  BY DEF DeleteUpdates, Without, Restrict
<1> QED BY <1>1, <1>2, <1>3 DEF CoreInv, TypeOK, DatasetRowsHold, ScenarioRowsHold, UpdateRowsHold,
             AttributeRowsHold, DataTypesFit, FormatsFit

\* Every step of every session.
LEMMA NextKeeps ==
  ASSUME CoreInv, ConstantsAssumption, [Next]_vars
  PROVE  CoreInv'
<1>1. CASE UNCHANGED vars
  BY <1>1 DEF vars, tables, CoreInv, TypeOK, DatasetRowsHold, ScenarioRowsHold, UpdateRowsHold,
       AttributeRowsHold, DataTypesFit, FormatsFit
<1>2. ASSUME NEW s \in Sessions, Begin(s)
      PROVE  CoreInv'
  BY <1>2, BeginKeeps
<1>3. ASSUME NEW s \in Sessions, Operation(s)
      PROVE  CoreInv'
  <2>1. CASE RollBack(s) \/ \E strict \in StrictSets : SetOptions(s, strict)
    BY <2>1, OptionsKeep
  <2>2. CASE \E w \in WorkspaceIds : CreateWorkspace(s, w) \/ DeleteWorkspace(s, w)
    BY <2>2, CreateWorkspaceKeeps, DeleteWorkspaceKeeps
  <2>3. CASE \E m \in {Single, Workspace, Multiple} : SetMode(s, m)
    BY <2>3, SetModeKeeps
  <2>4. CASE \E a \in AttributeNames : DeleteAttributeType(s, a)
    BY <2>4, AttributeTypesKeep
  <2>5. CASE \E a \in AttributeNames, dt \in DataTypes :
               CreateAttributeType(s, a, dt) \/ ChangeAttributeType(s, a, dt)
    BY <2>5, AttributeTypesKeep
  <2>6. CASE \E n \in TypeNames : DeleteDatasetType(s, n)
    BY <2>6, DatasetTypesKeep
  <2>7. CASE \E n \in TypeNames, f \in Formats : CreateDatasetType(s, n, f)
    BY <2>7, DatasetTypesKeep
  <2>8. CASE \E d \in DatasetIds, n \in Names, ty \in TypeNames, f \in Formats :
               CreateDataset(s, d, n, ty, f)
    BY <2>8, CreateDatasetKeeps
  <2>9. CASE \E d \in DatasetIds, n \in Names, data \in EntityData : UploadEntityData(s, d, n, data)
    BY <2>9, UploadEntityDataKeeps
  <2>10. CASE \E d \in DatasetIds, n \in Names : RenameDataset(s, d, n) \/ UploadRawData(s, d, n)
    BY <2>10, RenameDatasetKeeps, UploadRawDataKeeps
  <2>11. ASSUME NEW names \in SUBSET Names, NEW ty \in TypeNames, NEW M \in SUBSET ModelTypes,
                NEW D \in SUBSET DatasetIds,
                \/ \E c \in ScenarioIds : CreateScenario(s, c, names, ty, M, D)
                \/ UpdateScenario(s, names, ty, M, D)
         PROVE  CoreInv'
    <3>1. CASE \E c \in ScenarioIds : CreateScenario(s, c, names, ty, M, D)
      BY <3>1, ScenariosKeep
    <3>2. CASE UpdateScenario(s, names, ty, M, D)
      <4>1. sessions[s].scenario \in ScenarioIds
        BY <3>2 DEF UpdateScenario, CoreInv, TypeOK
      <4> QED BY <3>2, <4>1, ScenariosKeep
    <3> QED BY <2>11, <3>1, <3>2
  <2>12. CASE DeleteScenario(s)
    BY <2>12, DeleteScenarioKeeps
  <2>13. CASE \E u \in UpdateIds, d \in DatasetIds, m \in ModelTypes, data \in EntityData :
               CreateUpdate(s, u, d, m, data)
    BY <2>13, CreateUpdateKeeps
  <2>14. CASE DeleteUpdates(s)
    BY <2>14, DeleteUpdatesKeeps
  <2>15. CASE \E d \in DatasetIds : DeleteDatasetData(s, d) \/ DeleteDataset(s, d)
    BY <2>15, DatasetDeletionKeeps
  <2>16. CASE \E m \in ModelTypes : CreateModelType(s, m) \/ DeleteModelType(s, m)
    BY <2>16, ModelTypesKeep
  <2>17. CASE \E m, new \in ModelTypes : RenameModelType(s, m, new)
    BY <2>17, RenameModelTypeKeeps
  <2> QED BY <1>3, <2>1, <2>2, <2>3, <2>4, <2>5, <2>6, <2>7, <2>8, <2>9, <2>10, <2>11, <2>12, <2>13, <2>14,
             <2>15, <2>16, <2>17
           DEF Operation
<1> QED BY <1>1, <1>2, <1>3 DEF Next

\* Whatever requests do one after the other or with what they have read before others
\* changed it: every row that a row refers to exists, and ...
THEOREM TablesAreConsistent == ConstantsAssumption /\ Spec => []TypeOK
<1> SUFFICES ASSUME ConstantsAssumption PROVE Spec => []TypeOK
  OBVIOUS
<1>1. Init => CoreInv
  BY InitCore
<1>2. CoreInv /\ [Next]_vars => CoreInv'
  BY NextKeeps
<1>3. CoreInv => TypeOK
  BY DEF CoreInv
<1> QED BY <1>1, <1>2, <1>3, PTL DEF Spec

\* ... stored data can be read as what the types say that it is.
THEOREM StoredDataFits == ConstantsAssumption /\ Spec => []DataFitsTypes
<1> SUFFICES ASSUME ConstantsAssumption PROVE Spec => []DataFitsTypes
  OBVIOUS
<1>1. Init => CoreInv
  BY InitCore
<1>2. CoreInv /\ [Next]_vars => CoreInv'
  BY NextKeeps
<1>3. CoreInv => DataFitsTypes
  BY DEF CoreInv, DataFitsTypes
<1> QED BY <1>1, <1>2, <1>3, PTL DEF Spec

-----------------------------------------------------------------------------
(* The mode of the database, for sessions that are not open at once.       *)

OneAtATime == \A s, t \in Sessions : sessions[s] # None /\ sessions[t] # None => s = t

\* What a session has read is what the options still say, and the database has what its mode
\* says; ids are given out one at a time, so that there are finitely many.
ModeInv ==
  /\ ModeHolds
  /\ \A s \in Sessions : sessions[s] # None =>
       /\ sessions[s].mode = options.mode
       /\ options.mode # Multiple => sessions[s].workspace = options.workspace
  /\ IsFiniteSet(workspaces) /\ IsFiniteSet(DOMAIN scenarios)

\* A new database has what its mode says.
LEMMA InitMode ==
  ASSUME Init
  PROVE  ModeInv
<1>1. DOMAIN <<>> = {}
  OBVIOUS
<1>2. PICK m \in {Single, Workspace, Multiple}, w \in WorkspaceIds, c \in ScenarioIds :
       /\ options = [mode |-> m, strict |-> IF m = Multiple THEN AllStrict ELSE {},
                     workspace |-> IF m = Multiple THEN None ELSE w,
                     scenario |-> IF m = Single THEN c ELSE None]
       /\ workspaces = IF m = Multiple THEN {} ELSE {w}
       /\ scenarios = IF m = Single
                      THEN With(<<>>, c, [workspace |-> w, datasets |-> {}, models |-> {}]) ELSE <<>>
  BY DEF Init
<1>3. DOMAIN scenarios = IF m = Single THEN {c} ELSE {}
  BY <1>1, <1>2 DEF With
<1>4. ModeHolds
  BY <1>2, <1>3 DEF ModeHolds, Single, Workspace, Multiple
<1>5. IsFiniteSet(workspaces) /\ IsFiniteSet(DOMAIN scenarios)
  <2>1. (workspaces = {} \/ workspaces = {w}) /\ (DOMAIN scenarios = {} \/ DOMAIN scenarios = {c})
    BY <1>2, <1>3
  <2>2. IsFiniteSet({}) /\ IsFiniteSet({w}) /\ IsFiniteSet({c})
    BY FS_EmptySet, FS_Singleton
  <2> QED BY <2>1, <2>2
<1>6. \A s \in Sessions : sessions[s] = None
  BY DEF Init
<1> QED BY <1>4, <1>5, <1>6 DEF ModeInv

\* A set with at most one element that has one has no other.
LEMMA AtMostOne ==
  ASSUME NEW S, IsFiniteSet(S), Cardinality(S) <= 1, NEW x \in S
  PROVE  S = {x}
<1> SUFFICES ASSUME NEW y \in S, y # x PROVE FALSE
  OBVIOUS
<1> DEFINE one == {x}
<1>1. IsFiniteSet(one) /\ Cardinality(one) = 1 /\ y \notin one /\ one \cup {y} \subseteq S
  BY FS_Singleton
<1> HIDE DEF one
<1>2. IsFiniteSet(one \cup {y}) /\ Cardinality(one \cup {y}) = Cardinality(one) + 1
  BY <1>1, FS_AddElement
<1>3. Cardinality(one \cup {y}) <= Cardinality(S)
  BY <1>1, FS_Subset
<1>4. Cardinality(S) \in Nat
  BY FS_CardinalityType
<1> QED BY <1>1, <1>2, <1>3, <1>4

\* A session that has been the only one leaves no other.
LEMMA LastSession ==
  ASSUME CoreInv, OneAtATime, NEW s \in Sessions, Commit(s)
  PROVE  \A t \in Sessions : sessions'[t] = None
BY DEF CoreInv, TypeOK, OneAtATime, Commit

\* The mode is set, with what it needs.
LEMMA SetModeSetsUp ==
  ASSUME CoreInv, ModeInv, OneAtATime, NEW s \in Sessions,
         NEW new \in {Single, Workspace, Multiple}, SetMode(s, new)
  PROVE  ModeInv'
<1>1. /\ sessions[s] # None /\ \A t \in Sessions : sessions'[t] = None
      /\ sessions[s].mode = options.mode /\ new # options.mode
      /\ options.mode # Multiple => sessions[s].workspace = options.workspace
  BY LastSession DEF SetMode, Commit, ModeInv
<1>2. options \in OptionsRow /\ ModeHolds /\ IsFiniteSet(workspaces) /\ IsFiniteSet(DOMAIN scenarios)
  BY DEF CoreInv, TypeOK, ModeInv
<1>3. CASE new = Multiple
  <2>1. UNCHANGED <<workspaces, scenarios>> /\ options'.mode = Multiple /\ options'.workspace = None
        /\ options'.scenario = IF options.mode = Single THEN None ELSE options.scenario
    BY <1>1, <1>2, <1>3 DEF SetMode, OptionsRow, Single, Workspace, Multiple
  <2>2. ModeHolds'
    BY <1>1, <1>2, <1>3, <2>1 DEF ModeHolds, OptionsRow, Single, Workspace, Multiple
  <2> QED BY <1>1, <1>2, <2>1, <2>2 DEF ModeInv
<1>4. CASE new = Workspace /\ options.mode = Single
  <2>1. UNCHANGED <<workspaces, scenarios>> /\ options'.mode = Workspace /\ options'.workspace = options.workspace
        /\ options'.scenario = None
    BY <1>1, <1>2, <1>4 DEF SetMode, OptionsRow, Single, Workspace, Multiple
  <2>2. ModeHolds'
    BY <1>1, <1>2, <1>4, <2>1 DEF ModeHolds, OptionsRow, Single, Workspace, Multiple
  <2> QED BY <1>1, <1>2, <2>1, <2>2 DEF ModeInv
<1>5. CASE new = Workspace /\ options.mode = Multiple
  <2>1. PICK w \in WorkspaceIds :
             /\ OnlyWorkspace(w)
             /\ options' = [options EXCEPT !.mode = new, !.workspace = w]
             /\ workspaces' = workspaces \cup {w}
             /\ UNCHANGED scenarios
    BY <1>1, <1>5 DEF SetMode, Single, Workspace, Multiple
  <2>2. workspaces' = {w}
    BY <1>2, <2>1, AtMostOne DEF OnlyWorkspace
  <2>3. options'.mode = Workspace /\ options'.workspace = w /\ options'.scenario = None
    BY <1>2, <1>5, <2>1 DEF ModeHolds, OptionsRow
  <2>4. ModeHolds'
    BY <2>2, <2>3 DEF ModeHolds, Single, Workspace, Multiple
  <2>5. IsFiniteSet(workspaces')
    BY <2>2, FS_Singleton
  <2> QED BY <1>1, <1>2, <2>1, <2>4, <2>5 DEF ModeInv
<1>6. CASE new = Single
  <2>1. PICK w \in WorkspaceIds, c \in ScenarioIds :
             /\ IF options.mode = Multiple THEN OnlyWorkspace(w) ELSE w = sessions[s].workspace /\ w \in workspaces
             /\ OnlyScenario(w, c)
             /\ options' = [options EXCEPT !.mode = new, !.scenario = c,
                              !.workspace = IF options.mode = Multiple THEN w ELSE options.workspace]
             /\ workspaces' = workspaces \cup {w}
             /\ scenarios' = IF c \in DOMAIN scenarios THEN scenarios
                             ELSE With(scenarios, c,
                                       [workspace |-> w, datasets |-> {}, models |-> {}])
    BY <1>1, <1>6 DEF SetMode, Single, Workspace, Multiple
  <2>2. workspaces' = {w}
    <3>1. CASE options.mode = Multiple
      BY <1>2, <2>1, <3>1, AtMostOne DEF OnlyWorkspace
    <3>2. CASE options.mode = Workspace
      BY <1>1, <1>2, <2>1, <3>2 DEF ModeHolds, Single, Workspace, Multiple
    <3> QED BY <1>1, <1>2, <1>6, <3>1, <3>2 DEF OptionsRow
  <2>3. options'.mode = Single /\ options'.scenario = c /\ options'.workspace = w
    BY <1>1, <1>2, <1>6, <2>1 DEF OptionsRow, Single, Workspace, Multiple
  <2>4. ScenariosOf({w}) = DOMAIN scenarios
    <3>1. workspaces \subseteq {w}
      BY <2>1, <2>2
    <3> QED BY <3>1 DEF ScenariosOf, CoreInv, TypeOK, ScenarioRowsHold
  <2>5. DOMAIN scenarios' = {c}
    <3>1. CASE DOMAIN scenarios = {}
      BY <2>1, <3>1 DEF With
    <3>2. CASE DOMAIN scenarios # {}
      <4>1. c \in DOMAIN scenarios /\ Cardinality(DOMAIN scenarios) <= 1
        BY <2>1, <2>4, <3>2 DEF OnlyScenario
      <4>2. DOMAIN scenarios = {c}
        BY <1>2, <4>1, AtMostOne
      <4> QED BY <2>1, <4>2
    <3> QED BY <3>1, <3>2
  <2>6. ModeHolds'
    BY <2>2, <2>3, <2>5 DEF ModeHolds, Single, Workspace, Multiple
  <2>7. IsFiniteSet(workspaces') /\ IsFiniteSet(DOMAIN scenarios')
    BY <2>2, <2>5, FS_Singleton
  <2> QED BY <1>1, <2>6, <2>7 DEF ModeInv
<1> QED BY <1>1, <1>2, <1>3, <1>4, <1>5, <1>6 DEF OptionsRow

\* Every other operation of a session that ends with it; it leaves what the mode needs.
LEMMA OperationsKeepMode ==
  ASSUME CoreInv, ModeInv, OneAtATime, NEW s \in Sessions, Operation(s),
         ~ \E m \in {Single, Workspace, Multiple} : SetMode(s, m)
  PROVE  ModeInv'
<1>1. /\ sessions[s] # None /\ \A t \in Sessions : sessions'[t] = None
      /\ sessions[s].mode = options.mode
      /\ options.mode = Single => DOMAIN scenarios = {options.scenario}
  <2>1. Commit(s)
    BY DEF Operation, RollBack, CreateWorkspace, DeleteWorkspace, SetOptions, DeleteAttributeType,
         CreateAttributeType, ChangeAttributeType, DeleteDatasetType, CreateDatasetType, CreateDataset,
         UploadEntityData, UploadRawData, CreateScenario, UpdateScenario, DeleteScenario, CreateUpdate,
         DeleteUpdates, RenameDataset, DeleteDatasetData, DeleteDataset, CreateModelType, DeleteModelType,
         RenameModelType
  <2> QED BY <2>1, LastSession DEF Commit, ModeInv, ModeHolds
<1>2. options \in OptionsRow /\ ModeHolds /\ IsFiniteSet(workspaces) /\ IsFiniteSet(DOMAIN scenarios)
  BY DEF CoreInv, TypeOK, ModeInv
<1>3. /\ options'.mode = options.mode /\ options'.workspace = options.workspace
      /\ options'.scenario = options.scenario
      /\ \/ UNCHANGED <<workspaces, scenarios>>
         \/ /\ options.mode = Multiple
            /\ \/ \E w : workspaces' = workspaces \cup {w} /\ UNCHANGED scenarios
               \/ \E w, C : workspaces' = workspaces \ {w} /\ scenarios' = Without(scenarios, C)
         \/ /\ UNCHANGED workspaces
            /\ \E c, row : /\ scenarios' = With(scenarios, c, row)
                           /\ options.mode = Single => c \in DOMAIN scenarios
         \/ /\ UNCHANGED workspaces /\ options.mode # Single
            /\ \E C : scenarios' = Without(scenarios, C)
         \/ UNCHANGED workspaces /\ DOMAIN scenarios' = DOMAIN scenarios
  <2>1. CASE \/ RollBack(s) \/ DeleteUpdates(s)
             \/ \E a \in AttributeNames : DeleteAttributeType(s, a)
             \/ \E a \in AttributeNames, dt \in DataTypes :
                  CreateAttributeType(s, a, dt) \/ ChangeAttributeType(s, a, dt)
             \/ \E n \in TypeNames : DeleteDatasetType(s, n)
             \/ \E n \in TypeNames, f \in Formats : CreateDatasetType(s, n, f)
             \/ \E d \in DatasetIds, n \in Names, ty \in TypeNames, f \in Formats :
                  CreateDataset(s, d, n, ty, f)
             \/ \E d \in DatasetIds, n \in Names : RenameDataset(s, d, n) \/ UploadRawData(s, d, n)
             \/ \E d \in DatasetIds, n \in Names, data \in EntityData : UploadEntityData(s, d, n, data)
             \/ \E d \in DatasetIds : DeleteDatasetData(s, d) \/ DeleteDataset(s, d)
             \/ \E m \in ModelTypes : CreateModelType(s, m) \/ DeleteModelType(s, m)
             \/ \E u \in UpdateIds, d \in DatasetIds, m \in ModelTypes, data \in EntityData :
                  CreateUpdate(s, u, d, m, data)
    BY <2>1 DEF RollBack, DeleteAttributeType, tables,
         CreateAttributeType, ChangeAttributeType, DeleteDatasetType, CreateDatasetType, CreateDataset,
         UploadEntityData, UploadRawData, CreateUpdate, DeleteUpdates, RenameDataset, DeleteDatasetData,
         DeleteDataset, CreateModelType, DeleteModelType
  <2>2. CASE \E strict \in StrictSets : SetOptions(s, strict)
    BY <1>2, <2>2 DEF SetOptions, tables, OptionsRow
  <2>3. CASE \E w \in WorkspaceIds : CreateWorkspace(s, w)
    BY <1>1, <2>3 DEF CreateWorkspace
  <2>4. CASE \E w \in WorkspaceIds : DeleteWorkspace(s, w)
    BY <1>1, <2>4 DEF DeleteWorkspace
  <2>5. CASE \E names \in SUBSET Names, ty \in TypeNames, M \in SUBSET ModelTypes, D \in SUBSET DatasetIds,
                c \in ScenarioIds : CreateScenario(s, c, names, ty, M, D)
    BY <1>1, <2>5 DEF CreateScenario, StoreDetails
  <2>6. CASE \E names \in SUBSET Names, ty \in TypeNames, M \in SUBSET ModelTypes, D \in SUBSET DatasetIds :
                UpdateScenario(s, names, ty, M, D)
    BY <1>1, <2>6 DEF UpdateScenario, StoreDetails
  <2>7. CASE DeleteScenario(s)
    BY <1>1, <2>7 DEF DeleteScenario
  <2>8. CASE \E m, new \in ModelTypes : RenameModelType(s, m, new)
    BY <2>8 DEF RenameModelType
  <2> QED BY <2>1, <2>2, <2>3, <2>4, <2>5, <2>6, <2>7, <2>8 DEF Operation
<1>4. /\ IsFiniteSet(workspaces') /\ IsFiniteSet(DOMAIN scenarios')
      /\ options.mode # Multiple => workspaces' = workspaces
      /\ options.mode = Single => DOMAIN scenarios' = DOMAIN scenarios
  <2>1. CASE UNCHANGED <<workspaces, scenarios>>
    BY <1>2, <2>1
  <2>2. ASSUME options.mode = Multiple, NEW w, workspaces' = workspaces \cup {w}, UNCHANGED scenarios
        PROVE  /\ IsFiniteSet(workspaces') /\ IsFiniteSet(DOMAIN scenarios')
    BY <1>2, <2>2, FS_AddElement
  <2>3. ASSUME options.mode = Multiple, NEW w, NEW C, workspaces' = workspaces \ {w}, scenarios' = Without(scenarios, C)
        PROVE  /\ IsFiniteSet(workspaces') /\ IsFiniteSet(DOMAIN scenarios')
    <3>1. DOMAIN scenarios' = DOMAIN scenarios \ C
      BY <2>3 DEF Without, Restrict
    <3> QED BY <1>2, <2>3, <3>1, FS_Subset
  <2>4. ASSUME NEW c, NEW row, scenarios' = With(scenarios, c, row)
        PROVE  IsFiniteSet(DOMAIN scenarios') /\ DOMAIN scenarios' = DOMAIN scenarios \cup {c}
    <3>1. DOMAIN scenarios' = DOMAIN scenarios \cup {c}
      BY <2>4 DEF With
    <3> QED BY <1>2, <3>1, FS_AddElement
  <2>5. ASSUME NEW C, scenarios' = Without(scenarios, C)
        PROVE  IsFiniteSet(DOMAIN scenarios')
    <3>1. DOMAIN scenarios' = DOMAIN scenarios \ C
      BY <2>5 DEF Without, Restrict
    <3> QED BY <1>2, <3>1, FS_Subset
  <2>6. Single # Multiple
    BY DEF Single, Multiple
  <2>7. CASE UNCHANGED workspaces /\ DOMAIN scenarios' = DOMAIN scenarios
    BY <1>2, <2>7
  <2> QED BY <1>2, <1>3, <2>7, <2>1, <2>2, <2>3, <2>4, <2>5, <2>6
<1>5. ModeHolds'
  BY <1>2, <1>3, <1>4 DEF ModeHolds, Single, Workspace, Multiple
<1> QED BY <1>1, <1>4, <1>5 DEF ModeInv

\* Every step leaves what the mode says, if no other session is open.
LEMMA NextKeepsMode ==
  ASSUME CoreInv, ModeInv, OneAtATime, OneAtATime', [Next]_vars
  PROVE  ModeInv'
<1>1. CASE UNCHANGED vars
  BY <1>1 DEF vars, tables, ModeInv, ModeHolds
<1>2. ASSUME NEW s \in Sessions, Begin(s)
      PROVE  ModeInv'
  <2>1. PICK w \in workspaces \cup {None}, c \in DOMAIN scenarios \cup {None} :
          /\ options.mode # Multiple => w = options.workspace
          /\ sessions' = [sessions EXCEPT ![s] = [mode |-> options.mode, strict |-> options.strict,
                                                  workspace |-> w, scenario |-> c]]
    BY <1>2 DEF Begin
  <2>2. sessions \in [Sessions -> Backend \cup {None}] /\ UNCHANGED <<options, tables>>
    BY <1>2 DEF Begin, CoreInv, TypeOK
  <2>3. \A t \in Sessions : sessions'[t] # None =>
          /\ sessions'[t].mode = options.mode
          /\ options.mode # Multiple => sessions'[t].workspace = options.workspace
    BY <2>1, <2>2 DEF ModeInv
  <2> QED BY <2>2, <2>3 DEF ModeInv, ModeHolds, tables
<1>3. ASSUME NEW s \in Sessions, Operation(s)
      PROVE  ModeInv'
  BY <1>3, SetModeSetsUp, OperationsKeepMode
<1> QED BY <1>1, <1>2, <1>3 DEF Next

\* When requests do not overlap, a database in a mode with one workspace or one scenario
\* has exactly that, whatever the requests are and however often the mode changes.
THEOREM ModeIsKept == ConstantsAssumption /\ Spec /\ []OneAtATime => []ModeHolds
<1> SUFFICES ASSUME ConstantsAssumption PROVE Spec /\ []OneAtATime => []ModeHolds
  OBVIOUS
<1>1. Init => CoreInv /\ ModeInv
  BY InitCore, InitMode
<1>2. CoreInv /\ ModeInv /\ OneAtATime /\ OneAtATime' /\ [Next]_vars => CoreInv' /\ ModeInv'
  BY NextKeeps, NextKeepsMode
<1>3. ModeInv => ModeHolds
  BY DEF ModeInv
<1> QED BY <1>1, <1>2, <1>3, PTL DEF Spec
=============================================================================
