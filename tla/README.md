# Verification of movici-simulation-core

This directory holds TLA+ modules that model Movici: how a simulation of several
models is kept on one clock, how their results reach each other, how the
simulation ends, how results are stored and read back, and what the models that
come with it do with their inputs over time. TLC checks the modules on small
instances (`*.cfg`); TLAPS checks the theorems for every value of the constants.
Paths below are relative to
`src/packages/simulation-core/src/movici_simulation_core/`, or to the package that is
named.

To check: `tlc -config Orchestrator_order.cfg MCOrchestrator` (and so on, see
"Runs"), and `tlapm OrchestratorSafety.tla`.

## 1. Inventory of the system

A simulation is a set of *models* that compute on shared data sets along a
discrete timeline, and *services* they use. In a distributed simulation every
model and service is a process and they talk over ZeroMQ; in an in-process
simulation one thread calls them in turn.

    models  --(Registration, Acknowledge, Result, Error)-->  orchestrator
    models  <--(NewTime, Update, UpdateSeries, Quit)-------  orchestrator
    models  --(Clear, Put, Get)--> update data service --(Acknowledge, Data, Error)--> models
    models  --(Get)--> init data service --(Path)--> models

A model is called by an adapter (`base_models`), which keeps the *tracked state* of
the attributes the model subscribes to and publishes. The data collector is a
model that stores what others publish; `postprocessing` and the data core read it
back. The dataset creator makes the data sets before a simulation.

| Component | State it keeps | Operations | What is hard | What makes it correct |
|---|---|---|---|---|
| Orchestrator (`services/orchestrator`) | its FSM; the timeline's current time; per model an FSM, `next_time`, queued updates, queued Quit, `failed`; who publishes to whom | handle a response; start a timestamp; broker updates; shut down | many small FSMs that call each other; waiting for dependencies, also in cycles; failure while others wait | one exchange per model; updates at their own timestamp; no request skipped; nobody is left waiting; ends and reports failures |
| Model connector (`model_connector/connector.py`) | counter of keys, data mask | NEW_TIME, UPDATE(_SERIES), QUIT; Clear, Get, Put | other processes run between its requests | every update can be read until it has been read |
| Update data service (`services/update_data`) | the store | clear, get, put | keys of many models in one store | data of a model is deleted by that model only; no result overwrites another |
| Networking and messages (`networking`, `messages.py`) | sockets | send, receive, request/reply | ordering per channel, blocking | - |
| Distributed runner (`simulation/distributed.py`) | processes | start, wait, report exceptions | failure of a process at any point | a failure is reported to the orchestrator |
| In-process runner (`simulation/in_process.py`) | whose turn it is, one pending command per model, shared store | the loop over the models | the shared store is wiped at every NEW_TIME | the same as the distributed one |
| Model adapters (`base_models`) | whether the model is initialized, `TrackedState`, pending `next_time` | initialize, update, new_time, close | models that are not ready yet at t = 0 | not ready at t > 0 is an error; no update lost before readiness |
| Tracked state, arrays, CSR (`core/state.py`, `core/attribute.py`, `core/arrays.py`, `csr.py`) | attribute values, change flags, rows of any length | receive, generate and reset updates, resize | in-place changes and flags must stay together; a row that grows moves all rows after it | an update holds what changed; each entity keeps its own row |
| Index (`core/index.py`) | ids in blocks | set, add, query | gaps, unknown ids | agrees with a lookup |
| Data masks (`utils/data_mask.py`) | - | overlap, filter, validate | `None` and missing levels | overlap is true if filtering can give data |
| Timeline and series (`core/moment.py`, `models/common/time_series.py`) | start, duration; a list of timed items | seconds from and to timestamps; next time, pop until | rounding, equal times | a timestamp is not before its moment; no item is skipped |
| Data collector (`models/data_collector`) | futures, thread pool | store, flush, close | exceptions and order of threads; two collectors in one database | everything submitted is stored, or an error recorded; a database holds one run |
| Results (`postprocessing/results.py`) | one state, a position in the updates per entity group | move in time, slice by time, attribute, entity | undoing updates; slices that move some groups only | shows what the updates up to the moment make of the initial data |
| Players (`models/tape_player`, `csv_player`, `netcdf_player`) | position in a series | proceed to a time | equal times, calls at moments of other models | the latest values at a time |
| Time window status (`models/time_window_status`) | schedule of window events, counts | initialize, update | windows that overlap or touch | status = some window is open |
| Rules (`models/rules`) | the rules, entities they refer to | evaluate, next trigger | thresholds past midnight or between timestamps; sources without a value | targets show the last rule that decides |
| Traffic models (`models/common/network.py`, `shortest_path`, `traffic_demand_calculation`, `traffic_kpi`, `generalized_journey_time`) | graph, cached paths; demand matrix, tapes | update at every change | caches, closed nodes, relative changes that accumulate, skipped updates, two tapes | answers are cheapest paths; every change counts once |
| Spatial and status models (`overlap_status`, `area_aggregation`, `opportunities`, `operational_status`, ...) | published overlaps; previous values of integrals | update | indices and masks of different lengths; several calls at a moment | the active overlaps are shown; integrals are those of the source |
| UDF and unit conversion models | - | compile, convert | - | pure functions of their input |
| Transport assignment (package `transport-assignment`) | an aequilibrae project, a graph | update columns, rebuild, assign | orders of links and zones; which change calls for what | assigns the present network and demand |
| Drinking water (package `drinking-water`) | a paused WNTR simulation | apply changes, run to a moment | moments between hydraulic steps | a change that the solver is told of acts from its moment on |
| Urban drainage (package `urban-drainage`) | the one SWMM engine of the process, snapshots; an input file | start, checkpoint, rollback, advance; synthesise and import | owners that fail or close; time and inputs after a rollback | one owner; the engine follows its model; importing inverts writing |
| Data core (package `data-core`) | a database in one of three modes | requests on workspaces, datasets, scenarios, updates, types | types that change while data of them exists; cascades | a database has what its mode says, and data that fits its types |
| Dataset creator (`preprocessing`) | a dataset in the making | a pipeline of operations | passes that refer to what earlier ones made | a dataset says what its sources say |
| Init data service, setup, schema, validation | configuration, files | lookups, conversion | - | - |

`PROJECT.json` lists every component with its source files, its status and the
reason when it is not modelled, and under "hazards" what is hard to test in this
code, at its line, with the properties that cover it.

## 2. Plan

Done:

1. `SimulationClock`, `Orchestrator`, `OrchestratorSafety` - the clock and the
   brokering, the centre of the system.
2. `Distributed` - the connectors and the update data service, composed with
   the orchestrator; `InProcess` - the same in one thread.
3. `TrackedState`, `ModelAdapter`, `ModelAdapterProofs`, `CsrAttribute` - what a model
   knows and publishes, its readiness and its wake-ups.
4. `DataCollector`, `Archive`, `Results`, `DataCore` - what is stored and read back.
5. `TimeSeries`, `Tapes`, `TimeWindows`, `Rules` - schedules along the timeline.
6. `Network`, `TrafficDemand`, `TrafficKpi`, `TrafficAssignment`, `OverlapStatus`,
   `AreaAggregation` - models that calculate from what they remember.
7. `DrinkingWater`, `Drainage`, `SwmmInp` - models around an external engine.
8. `DatasetCreator` - making a dataset.

9. The proofs of section 6: all of what the runs check about the simulation except
   liveness, the invariants and action properties of `ModelAdapter`, and the invariants of
   `DataCollector`, `Archive`, `DataCore`, `TrafficKpi`, `Drainage`, `DrinkingWater` (the
   first of its two), `Tapes` and `TimeWindows`.

Left, in this order:

1. Proofs about the other models without recursive operators: `OverlapStatus`, and the
   columns of the results in `DrinkingWater`.
2. `Convergence` - adapters composed with `InProcess`: between two timestamps all
   models agree on what they share. `UpdateConverges`, `StateFollowsTheUpdates` and
   `PublishesEverything` (section 6) are its central steps.
3. Data masks (`masks_overlap` against `filter_data`), the generalized journey time
   model, the tape file, and the compiler of user defined functions.

## 3. Modules and how they correspond to the code

### The simulation

**`SimulationClock`** - the abstract specification. The models work on a
timestamp and owe each other updates until nobody works and nobody is owed
anything; then the clock jumps to the earliest wish. It says nothing of who
waits for whom.

**`Orchestrator`** - `context.py`, `fsm.py`, `states.py`, `service.py`, with the
models as processes joined by ordered channels. One action is one `run` of a
transient state (`StartInitializingPhase`, `StartRunningPhase`, `AdvanceTime` and
`RepeatTime` for `NewTime`, `StartFinalizingPhase`, `EndFinalizingPhase`) or the
handling of one response (`ReceiveRegistration` ... `ReceiveInvalid`).
- The FSM per model (`MODEL_FSM_CONFIG`) is `mstate`; the transitions out of a
  busy state are `AfterResponse`, those of the orchestrator's own FSM `AfterEvent`
  and `AfterQuits`.
- A response that is passed on to several subscribers reaches their FSMs one by
  one, each of which may go to `Updating` and so be busy for the next. That
  cascade is one step of the code and one step here: `IsWoken` characterises the
  set of subscribers that start, as the only solution of an equation over the
  order of the settings. The sets of `publishes_to` are iterated in that order.
- `busy` is not a variable: between two events it is a function of `mstate`.
- `update_series` is an `UpdateCommand` with more than one update.
- A crash sends an `ErrorMessage` and ends the process (`Fail`); a model that
  answers with the wrong message is `Misbehave`.

**`Distributed`** - extends `Orchestrator` and splits each handler of a model at
its requests to the update data service: `StartNewTime`/`FinishNewTime`,
`RequestData`/`TakeData`/`FailToRead` for every update,
`PutData`/`FinishWithData` or `FinishWithoutData`. `ServeClear`, `ServeGet` and
`ServePut` are the service. `call` is what is on the wire between a model and the
service (a REQ socket has one request or one reply). The content of data is the
time it was computed at.

**`InProcess`** - extends `Orchestrator` with `turn`. A model's handler is one
step, the orchestrator's handling of the response the next, and nothing else
happens in between. The store and the counter of the keys are shared by all.

### Adapters and attributes

**`TrackedState`** - `core/arrays.py`, `core/attribute.py` and the `EntityDataHandler`
of `core/state.py`, as operators. An array is its data and `curr`, the copy that
`TrackedArray` makes of it on first access after a reset; `Changed` compares the
two. `SetItem`, `Resize`, `Reset`, `ApplyUpdate`, `ReceiveUpdate`, `Initialize`,
`GenerateUpdate`, `ResetTrackedChanges` and `IsFilled` are the methods of these names
(`is_initialized` for the last).

**`ModelAdapter`** - `base_models/tracked_model.py`, over `TrackedState`. An action
is one call of the adapter: `InitializeModel`, `NewTime`, `UpdateSeries` (which
`update` is a case of), `Close`; `TryInitialize`, `ProcessSeries` and `Calculate` are
the methods these call. The orchestrator is here as the commands that it may send:
no new time beyond the model's own request, a time update before other updates at that
time. The model's own code may set any published values, ask for any time, and
refuse to initialize. `world`, `seen`, `sent` and `wish` record what the model was
told, what of that it has looked at, what it has told others, and when it wanted
to be woken.

**`CsrAttribute`** - `csr.py`, `TrackedCSRArray` and `CSRAttribute`: the rows of all
entities one after the other (`data`) and where each begins (`row_ptr`). `UpdateCsr`
is `update_csr_array`, with its two ways for rows of equal and of other lengths;
`GenerateUpdate` slices out the changed rows and `StripUndefined` drops rows that say
nothing. A publisher (`own`) writes, resizes and publishes; a subscriber (`other`)
knows the same entities in another order.

### Storage

**`DataCollector`** - `models/data_collector`, one action per step of the model's
thread (submit, add a callback of the pool and one of the futures, wait, close) and of the
pool's threads (take, store, run callbacks, release): a job may be done before, between and
after its callbacks are added (`AddRelease`, `AddRecord`). Files and tables are abstracted to
the key that a stored update is found under (`Key`); `Replay` is what reading the results gives.

**`Archive`** - the sqlite strategy: `Start` picks or is given a database, initial
datasets go in first (`StoreInitial`, refused when another run has stored them), then
updates in any order (`Store`). `Read` is what opening it as results gives.

**`Results`** - `postprocessing/results.py`. `Load` sorts the updates and merges those of
one timestamp; `Move` goes forward or back through a group's stream, where applying
an update records how to undo it (`ReverseUpdate`, `Revert`). `SliceTimestamp`,
`SliceAttribute`, `SliceEntity` and `SliceEntityByKey` are the four ways to look.

**`DataCore`** - package `data-core`: `database/model.py` with its repositories and
services. A request is `Begin`, one operation, and `Commit` or `RollBack`: what it read of
the options at its beginning decides what it does. Cascades of the foreign keys are
part of the operation. A dataset is named by its workspace and name, and an upload names it
again (`Named`); scenarios and updates refer to model types by name here, so that renaming
one renames it in them (`RenameModelType`).

### Models along the timeline

In all of these `now` is the moment, `wake` the next time the model asked for, and
time passes to `wake` at most: a model can be called at moments of other models,
and is not called at others.

**`TimeSeries`** - `Stamp` is the rounding of `TimelineInfo.seconds_to_timestamp`;
`NextTime`, `Due` and `Remaining` are `TimeSeries` of `models/common/time_series.py`. The
stable sort is said by the place that each item gets (`Place`), and the loop of `pop_until`
by the number of items it leaves (`Left`). **`Tapes`** - the three players; `Receive` is what
the entries that are due leave of each key, the last one that has it. **`TimeWindows`** - the
schedule of window events and the counts per target; `Process` adds what the starts that are
due bring and takes what the ends do, which is the loop over `process_event`.

**`Rules`** - `models/rules`: loading and merging of rules (`LoadSpecs`, `FromSpec`), the
search of entities by id or reference, evaluation of expression trees against
attributes, simulation time and clock time (`Evaluate`), and `NextTrigger`, which finds
the next threshold, tomorrow's included.

**`Network`** - `models/common/network.py` and the calculations of the shortest path
model. `BuildGraph` is the compressed graph over all nodes; `Opened` is
`set_source_node`; `Trees` gives the shortest path trees that the external search may
return (any one when there are several); `Walk`, `SumOver` and `AverageOver` read
them. A closed link is a link with infinite cost: a node behind one is infinitely far, and
has a predecessor all the same (`Reached`).

**`TrafficDemand`** - the demand matrix with its contributors: scenario parameters,
local parameters, route costs and investments. Quantities are powers of two, held by
their exponents, so that multiplication is exact. `Skip` is an update beyond `max_iterations`;
`seen` records the rows that the tape was at in an update. **`TrafficKpi`** - the sums over
vehicle kinds with coefficients and scenario parameters of two tapes.
**`TrafficAssignment`** - package `transport-assignment`: which changes of attributes
are passed on to which columns of the project, in which order, and the link, node and
zone orders (aequilibrae is external), for the five modalities: `GetDemands` says whose
demand is assigned on tracks of their own.

**`OverlapStatus`** - connections, their status, and the overlap entities they are given
the first time they are active. **`AreaAggregation`** - weights of entities in several
areas, extremes, averages and integrals over time.

**`DrinkingWater`** - package `drinking-water`: the paused simulation, the inputs that are
passed on (`ProcessChanges`), the run to the moment in hydraulic steps (`RunSimulation`) and
the columns of the results (`ColumnOf`). `missed` records what the first update brought and
did not pass on. **`Drainage`** - package `urban-drainage`: claim,
start, release, checkpoint and rollback of the one engine per process, the inputs and the
time it is advanced to. **`SwmmInp`** - the rows of the input file, section by section
(`JunctionRows`, `PumpRows`, ...), and the records that `swmm_source.py` makes of them
(`JunctionRecord`, `PumpRecord`, ...).

**`DatasetCreator`** - `preprocessing/dataset_creator.py`: one action per operation of the
pipeline, in its order.

### Instances

**`MC*`** give values to the constants. Each has the behaviours of several systems: `part`
names the one that a behaviour is of, and the property of a component is about the behaviours
of its part. `MCOrchestrator` extends `Orchestrator`, and instantiates it once more without
keys (`messages`) and `Distributed` (`data`), so that the properties of `Orchestrator` are
checked in both. `MCFailures` extends `Distributed`, with names of which one is a prefix of
another (`names`), and instantiates `Orchestrator` (`messages`) and `InProcess`
(`in_process`), all with models that fail. `MCStorage` and `MCModels` (with its inputs in
`MCModelsInputs`) instantiate components that share no state: `u1`, `u2`, ... stand for the
variables of the part, and those it has no use for stay `None`.

The proofs are in modules named after what they are about: `OrchestratorSafety`,
`DistributedProofs`, `InProcessProofs`, `ModelAdapterProofs` (with `TrackedState`),
`DataCollectorProofs`, `ArchiveProofs`, `DataCoreProofs` and `ModelsProofs` (`TrafficKpi`, and
as instances `Drainage`, `DrinkingWater`, `Tapes` and `TimeWindows`).

## 4. Runs

| Run | Checks | Instance |
|---|---|---|
| `order` | `TypeOK`, `UpdatesAreCurrent`, `NoRequestSkipped`, `QuiescentBetweenTimes`, `NobodyIsLeftBehind`, `UpdatesAreKept` (`DTypeOK`, `UpdatesCanBeRead`, `KeysAreFresh`, `StoreIsCleared`), `KeepsTheClock` (refinement of `SimulationClock`), `KeepsProtocol` (refinement of `Orchestrator` by `Distributed`) | 3 models; `messages`: all 64 pub/sub relations, next times from before the start to after the end, all may repeat a timestamp; `data`, with the update data service: all acyclic relations, up to three results per model and time |
| `failures` | `OneExchange`, `NoCommandRefused`, `ExitCodeIsTruthful`, `UpdatesAreSafe` (`PTypeOK`, `NobodyClearsNewData`, `UpdatesCanBeRead`), `NothingAfterQuit`, and under fairness `OrchestratorStops`, `UpdatesAreDelivered`, `ReadersTerminate`, `Returns` | 3 models; `messages`: all may crash at any point, one answers wrongly; `names`: one name is a prefix of another, and the reader of that data may crash; `in_process`: all may raise exceptions, next times up to beyond the end |
| `stranded` | `EveryModelIsEnded` is violated | a third model fails while the first two are in NEW_TIME |
| `prefix_doc` | `OnlyOwnDataDeleted` is violated | one name is a prefix of another |
| `storage` | `CollectorIsComplete`, `HistoryIsReplayed`, `ArchiveTellsOneRun`, `StoredDataIsConsistent`, `NothingIsOverwritten` | `collector`: 2 threads, 2 datasets, 2 timestamps of at most 2 iterations; `failing_collector`: 1 dataset, stores that may fail; `results`: 2 groups with 3 updates; `archive`: 2 collectors with one or two databases; `core`: the data core in its three modes |
| `models` | `EverythingIsPublished`, `AdapterFollows`, `ChangesArePassedOn`, `RowsAreKept`, and one invariant per component, see below | `growth`: 2 entities that appear in any update, a subscribed attribute that is optional; `series`: a model that only subscribes, 1 entity, an INIT and a SUB attribute, up to 2 updates in one command, 3 timestamps; both with a model that may refuse to initialize; `csr`: 3 entities, rows of 0 to 2 values; and 13 components |
| `adapter_republish` | `OnlyChangesArePublished` is violated | `growth` |
| `overlaps` | `OverlapsAreShown` is violated | the overlap status model with undefined statuses |
| `water` | `ChangesActFromTheirMoment` is violated | the first update of the drinking water model brings a change |
| `drainage_latency` | `InputsGovernTheStepAfterThem` is violated | an input arrives at the end of a step |
| `rules_undefined` | `RulesWithoutSourcesAreSkipped` is violated | a rule with an else value and a source without a value |
| `network_paths` | `EveryAnswerIsAPath` is violated | a target behind another virtual node |

What the invariants of `models` say: players show the latest row of their file
(`PlayersShowTheMoment`); a status is on exactly while a window is open
(`WindowsAreShown`); the solver ran every moment with what its model asked for, but for
elements whose last change came with the first update, and results are of the right link and
moment (`WaterFollowsItsInputs`); the engine has one owner, its time is that of its state,
and its steps ran with all inputs that are defined at their end, after a rollback too
(`DrainageHasOneEngine`); what is imported from an input file is what it was written for
(`ImportInvertsSynthesis`); targets of rules show the last rule that decides, also at
moments the model sleeps through, for targets of which all rules have their sources
(`RulesAreCurrent`); sums, averages and distances belong to one cheapest path, for virtual
nodes that are connected and averages that are not from the cache (`AnswersArePaths`); the
matrix is the initial one times every change, each once, and times the multiplier of each
row at which the model was updated, which are all rows unless an update was skipped
(`DemandFollowsParameters`); an assignment uses the present network
and demand (`AssignmentIsCurrent`); KPIs are the sums of the present rows and flows
(`KpisAreCurrent`); overlap entities are those of the active pairs, one each
(`OverlapsAreTheirOwn`); integrals are those of the source over time, and an entity in two
areas counts once (`AggregatesFollowTheSource`); ids are unique, and values, enumerations
and links say what the sources say (`DatasetTellsTheSources`). Each is checked against
a definition that looks at the inputs only: at the file, the windows, the rules, the
steps of time since the start, all ways through the network.

**Bounds.** Three models are the fewest with a chain of dependencies, a model that is
unrelated to a failing one, a publisher with two subscribers and a subscriber with two
publishers, and cycles of two and three. Two timestamps show the passage from one to the next
and the cut-off at the end; `order` has models that repeat a timestamp. `failures` is about
models that may do anything wrong. Its `messages` takes the 4 relations in which all three
models take part and publish to later ones only: every acyclic relation that leaves none out
is one of them with the models renamed (the model that may answer wrongly is the first of
them). In `in_process` names matter, as they give the turns: it has all acyclic relations of
two pairs. `Keys` is the set of numbers in keys that a model may use before its counter is
reset: with none left it sends results without data. `MaxPending` bounds the queue of a
subscriber: a model sends no data while `MaxPending` updates wait for one of its subscribers.
`Repeating` are the models that may ask for the time they are at; without it runs about
termination would only show that a model can keep a timestamp for ever (section 7). In
`ModelAdapter` one entity group with two entities shows an entity that is new next to one that
is not, two values show a change that is not the first one, and `MaxSeries` bounds the updates
in one command: two are enough for one that is not the first. The state of the model is
finite, so commands need no bound. Entities, values, threads and names are alike (symmetry).
In `DataCollector` two threads are the fewest that store in another order than the updates
came. `Results` has updates of two groups with the same and other timestamps, so that groups
are at places of their own; `MaxUpdates` bounds the number of stored updates there and in
`Archive`. `DataCore` has one session: see section 7. In the models along the timeline,
moments are small numbers: `End` is the last, `Scale` the number of seconds per timestamp, so
that seconds fall between two timestamps. Files have up to three entries (`MaxLength`) or are
those of `MCModelsInputs`, which has an element of every kind of the input file with its
optional values defined, undefined and out of range, rules with thresholds on both sides of
midnight, networks with parallel, reversed and virtual links, tapes that begin late. In
`DrinkingWater` other models change the inputs of one element, which may be undefined at
first; those of the others are defined (`WaterBound`). `MaxIterations` is the model's own
parameter in `TrafficDemand` and bounds the updates of one timestamp in `DataCollector`;
`MaxChanges` bounds the changes between two assignments.

`CHECK_DEADLOCK FALSE`: a simulation that has stopped has no further step, and neither
has a model at the end of its timeline; that a simulation does not stop earlier is
`ReadersTerminate`, `OrchestratorStops` and `Returns`.

What some of the properties do not say: `UpdatesAreDelivered` says that queues get empty
again; that what leaves a queue reaches its model, and at its time, is `OneExchange` and
`UpdatesAreCurrent`. `NoRequestSkipped` is about the stored `next_time`: of a valid wish that
the validation itself would drop it says nothing. `RulesAreCurrent`, `AnswersArePaths`,
`WaterFollowsItsInputs`, `DrainageHasOneEngine` and `OverlapsAreTheirOwn` are what holds; each
leaves out a case in which the code does not do what its documentation says, and that case is
a property of its own with a run that refutes it (section 5). Of `DemandFollowsParameters` the
case is that of skipped updates: an update beyond `max_iterations` returns no next time
(`traffic_demand_calculation/model.py:277-278`), which takes back the one asked for before.
When no other model updates this one until the row after the next, the multipliers of the next
row are never applied. The documentation does not say what such an update is to do, so that
this is stated as part of the property: the rows that count are those the model was updated
at, which are all unless an update was skipped.

**Fairness.** The orchestrator is one thread in a loop that blocks on a ROUTER
socket, which takes the messages of its peers in turn: weak fairness of its
transient states and of receiving from each model. A model process that has a
command handles it and answers, and so does the update data service: weak fairness
of each. This assumes that model code returns; the code has no timeout that
would act otherwise. In `InProcess` only the single thread is assumed to go on. `DataCollector`
needs no fairness: `CallsGoOn` says that while a call is under way some thread can
go on, and a call has a bounded number of jobs, so that it ends if threads do. The
components of `MCModels` do nothing by themselves: the orchestrator calls them, and
their invariants say that they asked to be called in time.

## 5. Findings

- **A model can be left behind at the end** (`stranded`). When a model
  acknowledges NEW_TIME while updates are queued for it, its subscribers are not
  notified (`context.py:284`), because it will run, and notify them, soon. If a
  Quit has been queued meanwhile it goes to `Finalizing` and `Done` instead, and
  its subscribers in `PendingMoreUpdates` are never notified. They are not busy,
  so the orchestrator stops without sending them Quit, though
  `communication.rst` says that END must be sent to all models that have not
  failed. The processes of those models keep waiting for a command, and the
  runner joins them without a timeout. `failures` therefore does not check that every
  model exits when one has failed: `OrchestratorStops` says that the orchestrator stops, and
  that without a failure all models have exited.
- **A model's CLEAR can delete the data of another** (`prefix_doc`). CLEAR
  deletes all keys that start with the model's name (`service.py:83`). With models
  `water` and `water_supply`, a late CLEAR of `water` deletes what
  `water_supply` has put at that time, and a subscriber's GET fails. `failures`
  shows that everything ends all the same (`ReadersTerminate`). `order` checks
  `UpdatesCanBeRead` for names of which none is a prefix of another.
- **Growth publishes everything again** (`adapter_republish`). When entities are added
  to a group, each attribute gets a new array of undefined values, into which the old
  values are written while changes are tracked (`attribute.py:334`). The old copy
  is carried over if there is one, but after a reset there is none, so that all
  old values count as changed. A model that publishes an attribute of that group
  publishes all its values once more, though `simulations.rst` says that the
  framework omits values that have not changed. `models` shows that growth
  loses nothing (`EverythingIsPublished`), and that without it only changes are
  published (`ChangesArePassedOn`).
- **An undefined status shifts overlaps** (`overlaps`). To publish overlaps that have
  become active the overlap status model cuts the mask of new overlaps down to the
  connections whose status is defined (`overlap_status.py:221-223`), and then takes
  positions in this shorter mask for indices of connections (line 103). With an
  undefined status before a new active one, the entity is given to another
  connection, and the active one is not shown. `test_unit.py:242` has undefined statuses
  for the step before, and `test_overlap_status.py:715` has statuses that all become
  known at once. `OverlapsAreTheirOwn` holds as long as no update sees an
  undefined status.
- **The first change of the drinking water model is lost** (`water`). `update` passes
  changes on only if there was an update before (`model.py:204`) and resets them either
  way. The first update is excepted as `initialize` has read the initial data already, but
  it also brings what other models published at the first moment; that is never passed on
  unless it changes again. The comment at `model.py:181-183` says that a change at t=x takes
  effect from then on. `WaterFollowsItsInputs` says so of every element whose last change
  was passed on.
- **Inputs of the drainage model act on the step before them** (`drainage_latency`). The
  inputs that arrived at a moment are set before the engine is advanced to that moment
  (`model.py:183-186`), so that they govern the step that ends there;
  `urban_drainage_model.rst:60-62` says that they govern the step from then on.
- **Rules with undefined sources are evaluated** (`rules_undefined`). The test for data
  (`models/rules/model.py:404`) is about the array of the attribute, which exists when the
  entities are known. A comparison with an undefined value is false, so that the else value
  is written. The comment at line 401 says "skip rule if any are undefined", and
  `rules_model.rst:28-29` that the rule is skipped entirely.
- **Ways through closed nodes** (`network_paths`). The links of closed virtual nodes are in the
  matrix, with infinite costs, and have predecessors. The calculations take a negative
  predecessor for a missing path (`network.py:697-701`), so that a target which can be reached
  only through another virtual node gets the sum over that way, or an average that is not a
  number, instead of `no_path_found`. `EveryAnswerIsAPath` also covers averages of which the path
  comes from the cache: paths are cached per source, and the links of a source are opened
  when its paths are calculated, so that an average with a path from the cache
  (`network.py:246-247`) weighs the first link with infinity when another source was opened
  since, and is not a number.

## 6. Theorems

Which runs show a property, and which theorem has it for every value of the constants:

| Property | Run | Theorem |
|---|---|---|
| `TypeOK` | `order` | `OrchestratorSafety!TypeCorrect` |
| `OneExchange` | `failures` | `OrchestratorSafety!OneExchangeAtATime` |
| `UpdatesAreCurrent` | `order` | `OrchestratorSafety!UpdatesStayCurrent` |
| `NoRequestSkipped` | `order` | `OrchestratorSafety!RequestsAreServed` |
| `QuiescentBetweenTimes` | `order` | `OrchestratorSafety!Quiescence` |
| `NobodyIsLeftBehind` | `order` | `OrchestratorSafety!NobodyLeftBehind` |
| `NoCommandRefused` | `failures` | `OrchestratorSafety!CommandsAreAccepted` |
| `ExitCodeIsTruthful` | `failures` | `OrchestratorSafety!ExitCodeTruth` |
| `NothingAfterQuit` | `failures` | `OrchestratorSafety!QuitIsTheLastCommand` |
| `KeepsTheClock` | `order` | `OrchestratorSafety!ImplementsTheClock` |
| `UpdatesAreKept` | `order` | `DistributedProofs!UpdatesStayReadable` |
| `KeepsProtocol` | `order` | `DistributedProofs!ImplementsOrchestrator` |
| `UpdatesAreSafe` | `failures` | `InProcessProofs!UpdatesSurvive` |
| `AdapterFollows` | `models` | `ModelAdapterProofs!StateFollowsTheUpdates`, `WakesUp`, `FailsForAReason` |
| `EverythingIsPublished` | `models` | `ModelAdapterProofs!TypeCorrect`, `PublishesEverything` |
| `ChangesArePassedOn` | `models` | `ModelAdapterProofs!ShowsEveryChange`, `RepublishesOnlyAfterGrowth` |
| `CollectorIsComplete` | `storage` | `DataCollectorProofs!SubmissionIsLimited`, `ClosedMeansDone`, `ResultsTellTheHistory` |
| `NothingIsOverwritten` | `storage` | `DataCollectorProofs!NoResultIsOverwritten` |
| `ArchiveTellsOneRun` | `storage` | `ArchiveProofs!ArchivesTellOneRun` |
| `StoredDataIsConsistent` | `storage` | `DataCoreProofs!TablesAreConsistent`, `StoredDataFits`, `ModeIsKept` |
| `KpisAreCurrent` | `models` | `ModelsProofs!KpisStayCurrent` |
| `DrainageHasOneEngine` | `models` | `ModelsProofs!OneEngineAtATime`, `EnginesFollow` |
| `WaterFollowsItsInputs` | `models` | `ModelsProofs!WaterActsInTime` (the inputs; not the results) |
| `PlayersShowTheMoment` | `models` | `ModelsProofs!PlayersAreCurrent` |
| `WindowsAreShown` | `models` | `ModelsProofs!StatusesAreTrue` |

The properties of the runs `storage` and `models`, and those of `Distributed` and `InProcess`,
are those of a component in a module with several. The theorem is about the component's own
definitions, of which the run's property is made, and about all its behaviours.

### The orchestrator

Everything about `Orchestrator` is proved for every number of models, timeline, set of
requests, pub/sub relation and set of failing, misbehaving and repeating models, from the
ASSUMEs of `Orchestrator` (`Start <= End`, `None` is no integer, no model is related to
itself, the sets of models are sets of models, `Keys` are naturals). First, in
`OrchestratorSafety`:

- `TypeCorrect == Spec => []TypeOK`. It holds more than types: every stored
  `next_time` lies in the timeline, whatever the models ask for, and the channels
  hold only messages of the protocol. `TypeOK` is inductive. The lemmas follow the
  code: `ValidatedNextTime` returns a time or None, the earliest request is a time
  when there is one, and `Handle` and the transient states keep every variable's
  type.
- `OneExchangeAtATime == Spec => []OneExchange`. A model has a command or a
  response under way exactly while its FSM is busy, and never two; nothing is
  sent to a process that has exited or crashed. `OneExchange` is not inductive: an
  FSM that is `Finalizing` because of a Quit and one that got an invalid response
  look alike to it, and it must know that a process that has exited is not sent
  another command. `LifeCycle` ties the life of each process to its FSM: an
  `exited` process is `Finalizing` or `Done`, a `crashed` one is `Done` or its
  Error is still to be read, a Quit under way means `Finalizing`. Their
  conjunction `ExchangeInv`, with `TypeOK`, is inductive. The proof treats one
  model at a time (`Exchange`): what a step does to a model's FSM and channels,
  for the model whose response is handled, for one that is woken, and for others.

The others follow from one inductive invariant, `SafetyInv`. None of the properties
is inductive by itself: that an update is read at its time depends on no model being left
with an update when the time moves on, which depends on who waits for whom, which depends
on what the phase of the simulation lets happen. Its parts, beside `TypeOK` and
`ExchangeInv`:

- `Phases`: where the FSMs of the models are in every state of the orchestrator's own.
  Outside of the finalizing phase nothing has failed and nobody is asked to quit; when
  the orderly finalizing phase begins every model is idle and wishes nothing.
- `ModelStatus`: nothing is queued for an idle model, a failed one is not spoken to, and a
  dead process is known to have failed once nothing more is expected of it.
- `Currency`: what is queued and under way is of the current time, and a model that is
  taken to be at that time is.
- `NobodyWaitsForNothing`: no set of waiting models only waits for idle ones and for
  each other: some chain of dependencies ends in a busy model. This is the safety part of
  the orchestrator's progress. A model that goes on waiting after a response has found a busy
  dependency in that step, or did not wait for the model that responded
  (`ReceptionWaits`).

`Effect` puts what the handling of a response does in one form, for the model whose
response it is, for those that it wakes, and for others; `HandleEffect` is proved once and
used for every response. `NobodyLeftBehind` has the hypothesis `Fragile = {} /\ Faulty =
{}`, no model raises or answers wrongly. Without it the property is not true (section 5,
first finding).

From the same invariant, every step of `Orchestrator` is a step of `SimulationClock`, under the
mapping in `KeepsTheClock`, or leaves the clock as it is. The steps that matter are
`AdvanceTime`, for which `SafetyInv` says that nobody works or is owed anything, and the
handling of a response, which is one abstract step however many models it wakes.

### The two runners

- `DistributedProofs`, with `PrefixOf = {}`: no model's name is a prefix of another's
  (without that it is not true, section 5, second finding). `DInv` says for each model what its
  call to the update data service can be, given where its FSM and its channels are
  (`CallFits`), for each key in the store that it is of the time that its model is at, and
  lower than its model's counter (`KeyFits`); that a model is told only of data that is in the store
  until it has read it (`ToldIsKept`, `ResultsAreStored`); and that a model which is still
  to handle a new time has put nothing of it (`NewTimeIsNew`), so that its CLEAR deletes only data of
  the time before. `ImplementsOrchestrator` shows that each step of `Distributed` is one of
  `Orchestrator` or changes none of its variables. With it, `SimulationIsSafe` carries the
  theorems of `OrchestratorSafety` over. `DataIsDeletedByItsOwner` is the statement of
  `communication.rst` that the run `prefix_doc` refutes without the hypothesis.
- `InProcessProofs`, without any hypothesis. `PInv` has where the turn is
  (`TurnOrder`, `Answers`, `Alive`), the age of the store (`StoreAge`), keys below the counter
  (`KeysAreBelow`) and that what models are told is stored (`ToldIsStored`). Models take
  a new time in turn, and `StoreAge` says that the data in the store is of the current time and
  everybody has seen that, or it is older and nobody has: the first to take a new time
  purges the store, when by `SafetyInv` nobody has anything left to read. The actions of
  `InProcess` are actions of `Orchestrator` with a turn, so that it implements `Orchestrator` by its
  definition; that is a lemma, for `SimulationIsSafe`.

### Attributes

In the first part of `ModelAdapterProofs`, about the operators of `TrackedState`, for every
set of entities, attributes and values:

- `UpdateConverges`. A receiver that knows a publisher's attributes as they were at
  its last reset, and receives the update that the publisher generates, knows them
  as they are. The receiver may know other attributes, and fewer entities: new
  ones are added by the update. The assumption `CanBeTold` is needed, and real: a value
  that a model makes undefined reaches no one, since an undefined value in an update
  means "no change". The other assumption says that `None` is not an array. The
  argument goes by array: an entity that is not flagged still has its value of the last
  reset (`UnchangedIsBaseline`), resizing keeps values (`ResizedValue`), and the
  update has exactly the flagged ones (`ArrayConverges`, `ArrayStays`). What the
  receiver knew before is the result of the same theorem for the update before it.

### The adapter of a model

`ModelAdapterProofs`, from `ConstantsAssumption` (evaluated by `MCModels`; an attribute is not
both subscribed to and published, required ones are subscribed to, `None` is neither an array
nor a time): for any entities, values, attributes, initial datasets, number of updates in a
command, and end.

The properties are about what the arrays say, and the flags are computed from arrays and
copies, so the invariant `AdapterInv` has to say what a copy remembers. `Reported` is what an
attribute was when its changes were last reset: for a subscribed one, what the world was when
the model last updated, and for a published one, what others know. `Tracks(array, I, k)` says
that the array tells all that differs from `k`: there is no copy and the array is `k`; or the
copy is `k`, except that it may have lost values which the array still has, since growth after
a reset starts with an empty copy. That exception is what lets values be published once more
(section 5); `Exact` excludes it, and is kept as long as no entity is added. An entity that
`k` knows does not become undefined, since updates and models only set values, and that is why
a lost copy loses no change.

- Arrays: `ResizedTracks`, `SetTracks`, `ResetTracks` say that growth, writing and
  resetting keep `Tracks`, and `ChangesAreFlagged` that what it allows to differ is
  flagged. Groups: `AppliedGroup`, `ReceivedGroup`, `ResetGroup`, `InitialGroup`.
- Commands: the items of a command are processed one after the other (`ProcessedItems`,
  `ToldItems`), each of them keeps the group and the world the same, so the whole series
  does (`SeriesKeeps`, by induction along the items).
- `Calculated` has the branches of `try_calculate`: the model waits, an array that it is
  to publish does not exist, or there is a result, for which `ResultKeeps` shows that what is
  published, what is known, and what is reset fit each other.
- `Starting`, `Waking` and `Trying` are the rest of the invariant: a model that has not started
  knows nothing, a wish is `nextTime` and belongs to an initialized model, and a model
  that has had its time update and is not ready has a reason. The last is what
  `FailsForAReason` needs: a time update comes at t = 0 for every model, so that no model
  is failed at t > 0 without having been tried.

### The data collector

`DataCollectorProofs`, from `ConstantsAssumption` (the ASSUME of `MCStorage` for the instance
that the run checks; the sets of datasets and threads are finite, timestamps are naturals,
`None` and `Unset` are no others). `CInv` says which jobs are where (`Places`), which
callbacks a job still has (`Callbacks`), that permits, jobs that are with the pool and futures
that have not released add up to the number of threads (`Permits`), that two jobs of one
timestamp have different iterations (`Numbers`), and how far the history has been told
(`Progress`). The last is the argument of `ResultsTellTheHistory`: `LastIs(J, d, t, v)` says
that the last of the jobs `J` for dataset `d` until `t` has the value `v`, whatever order they
are stored in. It holds of the history of past times already when they are over, long before
the jobs have run, and of the present time for what was reported, or, during a flush, of the
state for the datasets the flush has dealt with. That reading sorts the stored keys by time
and iteration then gives the history.

### The archive of a run

`ArchiveProofs`, from `ConstantsAssumption` (evaluated by `MCStorage`: there are finitely many
datasets, and `None` is no path, format or database). `ArchivesTellOneRun` has two halves:

- A database holds the updates of one run. Collectors may be given one database, and nothing in
  a row says whose it is. What separates two runs is that each of them stores the initial
  datasets first and that the name of a dataset is unique: `InitialsFit` says that of two
  collectors with one database at most one has stored a dataset, and `Lives` that a collector
  records nothing before it has stored all of them. So when one has closed, another one with its
  database has recorded nothing (`ClosedAlone`), if there is initial data at all - the
  hypothesis under which the property is stated.
- Reading gives back the history. Threads store rows in any order; `Recordings` says that
  what was recorded is in the database or yet to be stored, and that nothing else is in
  it, and `Ordered` that what is recorded later has a later time or iteration. A sorted list
  of the rows of a dataset is then the list of what was recorded, in its order
  (`SortedIsInOrder`: the rows are taken at increasing places, which exist by counting,
  `InOrder`).

### The data core

`DataCoreProofs`, from `ConstantsAssumption` (evaluated by `MCStorage`: ids of datasets and
updates are told apart, `None` is no id, and the options may be none or all).

- `TablesAreConsistent` and `StoredDataFits`, for every number of sessions that are open at
  once. The backend of a session may be out of date, so that a request can act under an option
  that is no longer set; but it looks up the rows that it refers to in the statement that adds
  its own, so that what it adds refers to what exists. Each kind of row has its part of the
  invariant (`DatasetRowsHold`, `ScenarioRowsHold`, `UpdateRowsHold`, `AttributeRowsHold`);
  `DeletionKeeps` is the lemma for all deletions: rows are deleted together with those that
  refer to them. That a type does not change while data of it exists is `AttributeTypesKeep`
  and `DatasetTypesKeep`, and that new data fits the types which it brings along itself is
  `StoredRows`.
- `ModeIsKept`, for sessions of which at most one is open at a time (`OneAtATime`, a
  hypothesis over the behaviour). Here the backend has to be up to date: `ModeInv` says that
  an open session knows the mode of the database, and its workspace when the mode has one.

### The traffic KPI model

`ModelsProofs`, from `ConstantsAssumption` (evaluated by `MCModels`; the rows of a tape are in
the order of their times, which `set_timeline` enforces). `KpiInv` says that a model which has
been called is at the rows of the moment and has asked for the next row of each tape or an
earlier one (`AtTheirRows`), and that what it shows is for the rows that it is at and the
present flows unless one has changed since (`Calculated`). The model calculates only when
something has changed, so the second part must survive the calls in which nothing has, and the
first one the times at which it is not called: `PositionStays` says that a tape which has no
row between two times is at the same row at both, and `NextTimeIsEarliest` that the wish
leaves no room for a row. `PositionIs` is about counting: as many rows have begun as the
position says, and they are the first ones.

### The drainage engine

In `ModelsProofs`, from the `ConstantsAssumption` of `Drainage` (evaluated by `MCModels`).
`EngineInv` says of every wrapper that it is the owner from before its engine is opened until
it is closed (`Owning`), that the engine's own clock and the offset that a rollback leaves add
up to the time of its state (`Timing`), and that its steps had the inputs of the model
(`Following`).

### The drinking water model

In `ModelsProofs`, from the `ConstantsAssumption` of `DrinkingWater`, for any dataset that has
what is required (`Required`; `drinking_water_model.rst` requires the power of power pumps)
and any data in the first update. `PassedOnChangesActInTime` is about the elements whose last
change was passed on; `missed` has the others, those that changed with the first update and
not since (section 5). `WaterInv` says that after an update the solver has simulated exactly
the time up to the moment of that update, that its elements are as the state asks for if they
were told (`Told`), and that all time which it has not simulated yet was known to have these
settings (`Fed`). `ChangesReachTheSolver` is the lemma that `process_changes`, which writes
only what has changed, leaves the same settings as writing everything would: an update writes
the power of a pump without the default that its creation has, so the power has to stay
defined (`PowerStays`).

### The players

In `ModelsProofs`, from the `ConstantsAssumption` of `Tapes` (times are integers, `None` is
not). First lemmas about `TimeSeries`: `PlacesInOrder` says that in a finite total order the
members have each a place of their own and leave none free, from which `SortedIs` gets that
the sorted list has every item once and descends, and `LeftIs` that the items which
`pop_until` leaves are the first ones. With those, `PlayerInv` says that a tape player's
timeline is a beginning of the whole one, that all later items are due, that the next one is
what the player asked for, and that of every key it shows the item that was popped last
(`AtItsPlace`, `IsShown`); for a csv or netcdf player that it is at the row of the moment and
asked for the next one (`AtItsRow`). The invariant has to speak of the time that passes
without a call: nothing becomes due in it, because no player asks for a later time than that
of its next item.

### The time window status model

In `ModelsProofs`, from the `ConstantsAssumption` of `TimeWindows` (any finite set of sources).
`ScheduleIs` says that the schedule has the begin and the end of every window exactly once,
in descending order; `WindowsInv` that the model is at a place in it, as the tape player, and
that each target's count is the number of starts less the number of ends that are behind this
place (`AtItsEvents`, `Over`). `OverOfSources` then counts the sources instead: as many
windows have begun, or ended, as such events are over. As those that have ended are among
those that have begun, the count is positive exactly when one is open; this is where windows
that end before they begin are excluded.

### Only model-checked

- Liveness under fairness: `ReadersTerminate`, `OrchestratorStops`, `UpdatesAreDelivered`, `Returns`; and
  `CallsGoOn` of `DataCollector`, which is about ENABLED. They are outside of what the prover
  supports.
- The properties of components with recursive operators (`Network`, `TrafficAssignment`, `Rules`).
- What folds over a list or a set make of it, where the property tells the result: `CsrAttribute`,
  `TrafficDemand` (products of all changes since the start), `AreaAggregation` (sums by area against
  one sum), `Results` (undoing a series of updates), `DatasetCreator` and `SwmmInp`. Their
  invariants need induction along data.
- `OverlapStatus`, and `ResultsAreOfTheMoment` of `DrinkingWater`: see the plan.

## 7. Not modelled

Of the simulation:

- Data masks as such: `Topologies` gives the relations that masks can lead to,
  each chosen when `determine_interdependency` runs. A model is not related to
  itself, as in the code.
- Stopwatches, logging, the interconnectivity matrix, and the encoding of messages.
- Custom FSM configurations: the default ones are modelled.
- A process that is killed without sending its Error, a lost connection, and a
  model that does not return: the code has no timeout or retry for them, so the
  simulation waits.
- Models that ask for the time they are at without end: the code repeats the
  timestamp. `order` includes the repetition; `failures`, which checks that the simulation ends,
  excludes it.
- In-process: filtering returns the stored data itself, which a receiver may
  change; the content of data is not modelled.
- Tracked state: tolerances (a value that drifts by less than the
  tolerance in each update is never published), `track_unknown`, `process_undefined`,
  the general section, `auto_reset` other than the default. Entity groups and datasets
  do not affect each other, so there is one.

Of storage:

- The layout of files and tables, the encoding of arrays, and the contents of
  updates in `DataCollector`.
- Updates in results with entities that the initial data does not have.
- Two collectors without initial datasets that are given one database: nothing
  tells their updates apart.
- Other names for entity, attribute and dataset types in the data core: rows refer to them by id.
- Requests to the data core that overlap. Both the check of a mode and what is
  done with it are statements of one session, but of different ones; with two sessions
  at a time both can pass the check. Whether that can happen depends on the
  isolation of the database that is used, which is not part of the code.

Of the models:

- What engines calculate: the hydraulics of WNTR and SWMM and the assignment of
  aequilibrae stand for themselves; the models record what they are given.
- `Network`: the properties are about networks whose link ids increase with the index; in others
  the bisection does not find links.
- `TrafficKpi`: configurations without a scenario tape, for which the update raises an
  error at its second call. Constants and lengths of segments.
- `AreaAggregation`: sources that become undefined (the integral then is, for ever),
  averages of areas without entities.
- `DrinkingWater`: two interruptions within one hydraulic time step; validation of the
  network; options.
- `Drainage`: time series of rain, the options section, results.
- `SwmmInp`: the number of barrels is written, and not read by the import.
- `DatasetCreator`: links by position that are negative or out of range are in the module
  (`Found`, `Tried`) and not in the instance, where positions are those of the points of a grid,
  as its source makes them.
- The generalized journey time, opportunities, operational status, evacuation, user
  defined function and unit conversion models: they
  calculate with arrays, and keep nothing between updates but what is modelled elsewhere
  (the network with its cached paths, the tracked state).
- The tape file, reading of source formats, validation and setup.

The other components with status `not_modelled` are in `PROJECT.json`, with the reasons.
