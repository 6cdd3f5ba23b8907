------------------------------- MODULE Archive -------------------------------
(***************************************************************************)
(* The sqlite storage of data collectors: a database per run that holds    *)
(* the initial datasets and every update, written by the worker threads of *)
(* a collector in any order and read back as a history of results.         *)
(* Collectors of runs that overlap or follow each other may be given one   *)
(* database.                                                               *)
(***************************************************************************)
EXTENDS Naturals, Sequences, FiniteSets, SequencesExt

CONSTANTS
  Collectors, Datasets,
  Fixed,          \* the path of model_config["database_path"]
  DataDirs,       \* init data directories: for every dataset the files it has
  End, MaxUpdates, None

VARIABLES
  dir,            \* the files of data_dir, None when the settings have none
  second,         \* datetime.now(), in the resolution of a database's name
  db,             \* per path: [initial, updates], None while there is no file
  col,            \* the collectors
  sent            \* what every collector has been asked to record, in order

vars == <<dir, second, db, col, sent>>

Paths == {Fixed} \cup (0..1)        \* simulation_results_{timestamp}.db
Formats == {"unstructured", "entity_based", "binary"}
Updates == [timestamp : Nat, iteration : Nat, name : Datasets, data : Collectors \X Nat]
Databases == [initial : [Datasets -> Formats \cup {None}], updates : Seq(Updates)]

\* None is neither a path, nor a format, nor a database.
ConstantsAssumption ==
  IsFiniteSet(Datasets) /\ None \notin Paths /\ None \notin Formats /\ None \notin Databases

Names == SetToSeq(Datasets)         \* the order of settings.datasets

NoCollector == [phase |-> "off", path |-> None, todo |-> <<>>, time |-> 0, iteration |-> 0, jobs |-> {}]

Init ==
  /\ dir \in DataDirs \cup {None} /\ second = 0
  /\ db = [p \in Paths |-> None]
  /\ col = [c \in Collectors |-> NoCollector]
  /\ sent = [c \in Collectors |-> <<>>]

ClockTicks == second = 0 /\ second' = 1 /\ UNCHANGED <<dir, db, col, sent>>

\* SimulationDatabase.initialize: create_all leaves existing tables alone.
Created(d) == IF d = None THEN [initial |-> [n \in Datasets |-> None], updates |-> <<>>] ELSE d

\* choose and the first part of initialize
Started(path) ==
  [phase |-> IF dir = None THEN "running" ELSE "initializing", path |-> path,
   todo |-> IF dir = None THEN <<>> ELSE Names, time |-> 0, iteration |-> 0, jobs |-> {}]
Start(c) ==
  /\ col[c].phase = "off"
  /\ \E path \in {Fixed, second} :
       /\ db' = [db EXCEPT ![path] = Created(@)]
       /\ col' = [col EXCEPT ![c] = Started(path)]
  /\ UNCHANGED <<dir, second, sent>>

\* _store_initial_datasets: <name>.json, else a file without a suffix or with any other;
\* _detect_format tells whether the json is made of entity groups.  A dataset without a
\* file is left out.
Json == {"unstructured", "entity_based"}
FileOf(name) ==
  IF dir[name] \cap Json # {} THEN CHOOSE f \in dir[name] : f \in Json
  ELSE IF dir[name] = {} THEN None ELSE "binary"

\* store_initial_dataset: the name is unique in the database.
StoreInitial(d, name) == IF d.initial[name] = None THEN [d EXCEPT !.initial[name] = FileOf(name)] ELSE None

\* One round of the loop over the datasets; an IntegrityError ends the collector.
StoreNext(c) ==
  /\ col[c].phase = "initializing"
  /\ IF col[c].todo = <<>>
     THEN col' = [col EXCEPT ![c].phase = "running"] /\ UNCHANGED db
     ELSE LET name == Head(col[c].todo)
              stored == IF FileOf(name) = None THEN db[col[c].path] ELSE StoreInitial(db[col[c].path], name)
          IN IF stored = None
             THEN col' = [col EXCEPT ![c].phase = "failed"] /\ UNCHANGED db
             ELSE /\ db' = [db EXCEPT ![col[c].path] = stored]
                  /\ col' = [col EXCEPT ![c].todo = Tail(@)]
  /\ UNCHANGED <<dir, second, sent>>

\* DataCollector.flush for one dataset: a job for a worker thread.
Flush(c, name) ==
  /\ col[c].phase = "running" /\ Len(sent[c]) < MaxUpdates
  /\ LET info == [timestamp |-> col[c].time, iteration |-> col[c].iteration,
                  name |-> name, data |-> <<c, Len(sent[c])>>]
     IN /\ col' = [col EXCEPT ![c].iteration = @ + 1, ![c].jobs = @ \cup {info}]
        /\ sent' = [sent EXCEPT ![c] = Append(@, info)]
  /\ UNCHANGED <<dir, second, db>>

\* new_time and reset_iterations
NewTime(c) ==
  /\ col[c].phase = "running" /\ col[c].time < End
  /\ col' = [col EXCEPT ![c].time = @ + 1, ![c].iteration = 0]
  /\ UNCHANGED <<dir, second, db, sent>>

\* store_update by a worker: one transaction, which the unique key may refuse; the
\* exception stops the collector at its next call.
Key(u) == <<u.timestamp, u.iteration, u.name>>
Refuses(d, info) == \E k \in DOMAIN d.updates : Key(d.updates[k]) = Key(info)
Store(c) ==
  /\ col[c].phase = "running"
  /\ \E info \in col[c].jobs :
       IF Refuses(db[col[c].path], info)
       THEN col' = [col EXCEPT ![c].phase = "failed"] /\ UNCHANGED db
       ELSE /\ db' = [db EXCEPT ![col[c].path].updates = Append(@, info)]
            /\ col' = [col EXCEPT ![c].jobs = @ \ {info}]
  /\ UNCHANGED <<dir, second, sent>>

\* close waits for the jobs.
Close(c) ==
  /\ col[c].phase = "running" /\ col[c].jobs = {}
  /\ col' = [col EXCEPT ![c].phase = "closed"]
  /\ UNCHANGED <<dir, second, db, sent>>

Next ==
  \/ ClockTicks
  \/ \E c \in Collectors : \/ Start(c) \/ StoreNext(c) \/ NewTime(c) \/ Store(c) \/ Close(c)
                           \/ \E name \in Datasets : Flush(c, name)

Spec == Init /\ [][Next]_vars

-----------------------------------------------------------------------------
\* get_dataset_updates: in the order of time and iteration, whatever the rows' order.
Earlier(u, v) == u.timestamp < v.timestamp \/ (u.timestamp = v.timestamp /\ u.iteration < v.iteration)
DatasetUpdates_Stored(d, name) == SelectSeq(d.updates, LAMBDA u : u.name = name)
OrderBy(rows) ==
  CHOOSE s \in [1..Cardinality(rows) -> rows] : \A i, j \in DOMAIN s : i < j => Earlier(s[i], s[j])
DatasetUpdates(d, name) ==
  OrderBy({d.updates[k] : k \in {j \in DOMAIN d.updates : d.updates[j].name = name}})

\* SQLiteSimulationResults._build_init_data_index: the database's datasets if it has any,
\* else the files of the directory; get_dataset fails for a name that is not among them.
Opens(d, name) ==
  IF \E n \in Datasets : d.initial[n] # None
  THEN d.initial[name] = "unstructured"
  ELSE dir # None /\ dir[name] \cap Json # {}
Read(d, name) == IF Opens(d, name) THEN DatasetUpdates(d, name) ELSE None

\* s has the items of a list at some places, in their order.
Takes(s, list, places) ==
  \E at \in [DOMAIN s -> DOMAIN list] :
     /\ \A i, j \in DOMAIN s : i < j => at[i] < at[j]
     /\ {at[i] : i \in DOMAIN s} = places
     /\ \A i \in DOMAIN s : s[i] = list[at[i]]
Recorded(s, c, name) == Takes(s, sent[c], {k \in DOMAIN sent[c] : sent[c][k].name = name})
Shares(c) == \E e \in Collectors \ {c} : col[e].path = col[c].path
Protected == dir # None /\ \E n \in Datasets : FileOf(n) # None

\* The database of a collector that has closed holds the whole history of that run and
\* nothing else, each dataset's updates in the order they were made although threads
\* stored them in any order.  A second collector with the same database, because the path
\* was given or because both started in one second, does not mix its results with it as
\* long as the initial datasets are stored too: it fails before it has written anything.
ArchiveTellsOneRun ==
  \A c \in Collectors : col[c].phase = "closed" /\ (Shares(c) => Protected) =>
      \A n \in Datasets :
        /\ Opens(db[col[c].path], n) => Recorded(Read(db[col[c].path], n), c, n)
        /\ dir # None => db[col[c].path].initial[n] = FileOf(n)
=============================================================================
