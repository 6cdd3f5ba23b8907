---------------------------- MODULE ModelAdapter ----------------------------
(***************************************************************************)
(* A model between the orchestrator and its TrackedModelAdapter: the state *)
(* is kept for it, its initialize and update are called when the data they *)
(* need is there, and what it changes is published. The rest of the        *)
(* simulation is here as the commands it may send, and as what it knows:   *)
(* the world state the model is told of and the one it has published.      *)
(***************************************************************************)
EXTENDS Naturals, Sequences, TrackedState

CONSTANTS
  Ids, Values,
  InitAttributes,      \* INIT attributes of the model: needed to initialize
  RequiredAttributes,  \* INIT and SUB attributes: needed to update
  SubAttributes,       \* INIT, SUB and OPT attributes
  PubAttributes,
  InitialIds,      \* the sets of entities an initial dataset may have, None for a
                   \* dataset that is not found
  MayRefuse,       \* whether the model's initialize may raise NotReady
  MaxSeries,       \* bound: updates in an UpdateSeries
  End              \* bound: the last timestamp

Maybe == Values \cup {Undefined}

\* What the values of the constants are assumed to be, where they are given.
ConstantsAssumption ==
  /\ Undefined \notin Values /\ None \notin Nat /\ End \in Nat
  /\ \A I \in SUBSET Ids :
       /\ None \notin [I -> Maybe]
       /\ None \notin [data : [I -> Maybe], curr : [I -> Maybe] \cup {None}]
  /\ None # NoRows
  /\ InitAttributes \subseteq RequiredAttributes /\ RequiredAttributes \subseteq SubAttributes
  /\ SubAttributes \cap PubAttributes = {}
  /\ InitialIds \subseteq (SUBSET Ids) \cup {None} /\ MayRefuse \in BOOLEAN /\ MaxSeries \in Nat \ {0}

Attributes == SubAttributes \cup PubAttributes
Times == 0 .. End

VARIABLES
  group,              \* the tracked state, of one entity group
  latched,            \* attributes that remember to be initialized
  modelInitialized, modelReadyForUpdate, nextTime,
  status,             \* of the model's process
  now,                \* the time of the last NewTime, None before it
  request, due,       \* the orchestrator's next_time for the model; whether
                      \* its time update is still to come
  result,             \* the update that the last command gave, None if it gave none
  shown,              \* what was flagged as changed when the last command called
                      \* the model's update, None if it did not
  wish,               \* the next time that the model's own update asked for
  grown,              \* whether entities were added since the last result
  refused,            \* whether the model's last initialize raised NotReady
  world,              \* what others have told: the last value of every attribute
  seen,               \* of those: what they were when the model last updated
  sent                \* what others know of the model's own attributes

adapterVars == <<group, latched, modelInitialized, modelReadyForUpdate, nextTime>>
orchestratorVars == <<now, request, due>>
ghostVars == <<wish, refused, grown, world, seen, sent>>
vars == <<adapterVars, status, orchestratorVars, result, shown, ghostVars>>

Arrays == UNION {[data : [I -> Maybe], curr : [I -> Maybe] \cup {None}] : I \in SUBSET Ids}
Known(A) == [A -> [Ids -> Maybe]]
Nothing(A) == [a \in A |-> [i \in Ids |-> Undefined]]

TypeOK ==
  /\ group.ids \subseteq Ids /\ DOMAIN group.attributes = Attributes
  /\ \A a \in Attributes : group.attributes[a] # None =>
       group.attributes[a] \in Arrays /\ Entities(group.attributes[a]) = group.ids
  /\ latched \subseteq RequiredAttributes
  /\ modelInitialized \in BOOLEAN /\ modelReadyForUpdate \in BOOLEAN
  /\ modelReadyForUpdate => modelInitialized
  /\ nextTime \in Times \cup {None} /\ request \in Times \cup {None}
  /\ now \in Times \cup {None} /\ due \in BOOLEAN
  /\ status \in {"starting", "running", "failed", "closed"}
  /\ wish \in Times \cup {None} /\ refused \in BOOLEAN /\ grown \in BOOLEAN
  /\ world \in Known(SubAttributes) /\ seen \in Known(SubAttributes)
  /\ sent \in Known(PubAttributes)

Init ==
  /\ group = [ids |-> {}, attributes |-> [a \in Attributes |-> None]]
  /\ latched = {} /\ modelInitialized = FALSE /\ modelReadyForUpdate = FALSE
  /\ nextTime = None /\ status = "starting" /\ now = None /\ request = None /\ due = FALSE
  /\ result = None /\ shown = None /\ wish = None /\ refused = FALSE /\ grown = FALSE
  /\ world = Nothing(SubAttributes) /\ seen = world /\ sent = Nothing(PubAttributes)

\* Updates: rows for some entities with values of some attributes.
Updates(I, A) == {Rows(I, v) : v \in [A -> [I -> Maybe]]}

\* What somebody knows after an update: undefined values tell nothing.
Told(knowledge, update) ==
  [a \in DOMAIN knowledge |->
     [i \in Ids |-> IF a \in DOMAIN update.data /\ i \in update.ids
                       /\ update.data[a][i] # Undefined
                    THEN update.data[a][i] ELSE knowledge[a][i]]]

\* The data of some attributes of the group, and what of it is flagged.
Data(A) == [a \in A |-> [i \in Ids |-> IF i \in Entities(group.attributes[a])
                                       THEN group.attributes[a].data[i] ELSE Undefined]]
Flagged(g, A) == {p \in A \X Ids : p[2] \in Changed(g.attributes[p[1]])}

-----------------------------------------------------------------------------
\* is_ready_for. `all` stops at the first attribute that is not initialized; those
\* that were asked, in whichever order they are registered, remember their answer.
IsReadyFor(F, g, latches) == \A a \in F : a \in latches \/ IsFilled(g.attributes[a])
Latches(F, g, latches) ==
  IF IsReadyFor(F, g, latches) THEN {latches \cup F}
  ELSE {latches \cup L : L \in SUBSET {a \in F : IsFilled(g.attributes[a])}}

\* What the model's own code does: it sets published attributes of some entities.
ModelSets(g) ==
  UNION {{ApplyUpdate(g, Rows(I, v), FALSE) : v \in [PubAttributes -> [I -> Values]]}
           : I \in SUBSET g.ids}

\* Whether initializing is still to be done.
StillToInitialize == ~modelInitialized

\* try_initialize: the outcomes, for the group g.
TryInitialize(g) ==
  LET unchanged == [group |-> g, latched |-> latched, initialized |-> modelInitialized,
                    refused |-> refused]
      outcome(h, L, done) == [group |-> h, latched |-> L, initialized |-> done,
                              refused |-> IsReadyFor(InitAttributes, g, latched) /\ ~done]
      L0 == Latches(InitAttributes, g, latched)
  IN IF ~StillToInitialize THEN {unchanged}
     ELSE IF ~IsReadyFor(InitAttributes, g, latched) THEN {outcome(g, L, FALSE) : L \in L0}
     ELSE {outcome(h, L, TRUE) : h \in ModelSets(g), L \in L0}
          \cup (IF MayRefuse THEN {outcome(g, L, FALSE) : L \in L0} ELSE {})

\* initialize: the initial dataset, if it is found, and the first attempt to
\* initialize the model. Others have read the same dataset.
InitializeModel ==
  /\ status = "starting" /\ status' = "running" /\ request' = 0
  /\ \E update \in UNION {IF I = None THEN {None} ELSE Updates(I, Attributes) : I \in InitialIds} :
       LET found == update # None
           g == IF found THEN Initialize(Attributes, update) ELSE group
       IN /\ world' = IF found THEN Told(world, update) ELSE world
          /\ sent' = IF found THEN Told(sent, update) ELSE sent
          /\ \E o \in TryInitialize(g) :
               /\ group' = o.group /\ latched' = o.latched
               /\ modelInitialized' = o.initialized /\ refused' = o.refused
  /\ seen' = world'
  /\ UNCHANGED <<modelReadyForUpdate, nextTime, now, due, result, shown, wish, grown>>

\* new_time, at the earliest request of all models, so at this model's own at the
\* latest. A model that is not ready when t = 0 is over fails.
NewTime(t) ==
  /\ status = "running" /\ ~due
  /\ (now = None => t = 0) /\ (now # None => now < t) /\ (request # None => t <= request)
  /\ now' = t /\ due' = (request = t)
  /\ status' = IF t > 0 /\ ~(modelInitialized /\ modelReadyForUpdate)
               THEN "failed" ELSE "running"
  /\ result' = None /\ shown' = None
  /\ UNCHANGED <<adapterVars, request, ghostVars>>

\* The model has asked for the time it is at: it is woken again without a NewTime.
RepeatTime ==
  /\ status = "running" /\ now # None /\ request = now /\ ~due
  /\ due' = TRUE /\ result' = None /\ shown' = None
  /\ UNCHANGED <<adapterVars, status, now, request, ghostVars>>

-----------------------------------------------------------------------------
\* The items of a command: None for a time update, data that the masks have
\* emptied, or data.
Items ==
  {None, NoRows}
    \cup UNION {Updates(I, A) : I \in (SUBSET Ids) \ {{}}, A \in SUBSET SubAttributes}
IsData(item) == item # None /\ item # NoRows

\* process_input for one item: its effect on the group, and its return value.
ProcessInput(g, item) == IF IsData(item) THEN ReceiveUpdate(g, item, FALSE) ELSE g
ShouldCalculate(item) == item # NoRows

\* The group after the first n items.
ProcessItems(items, n) ==
  LET processed[k \in 0 .. n] ==
        IF k = 0 THEN group ELSE ProcessInput(processed[k - 1], items[k])
  IN processed[n]

\* What others have told after the items.
WorldAfter(items) ==
  LET told[k \in 0 .. Len(items)] ==
        IF k = 0 THEN world
        ELSE IF IsData(items[k]) THEN Told(told[k - 1], items[k]) ELSE told[k - 1]
  IN told[Len(items)]

\* Mutant: any(...) of a generator, which stops at the first item that asks to calculate.
ProcessSeries_Lazily(items) ==
  LET stop == {k \in 1 .. Len(items) : ShouldCalculate(items[k])}
      last == IF stop = {} THEN Len(items) ELSE CHOOSE k \in stop : \A l \in stop : k <= l
  IN ProcessItems(items, last)
\* any([...]): all items are processed before the model is asked to calculate.
ProcessSeries(items) == ProcessItems(items, Len(items))

\* What is reset after a calculation.
ResetAfter(g, updated) ==
  ResetTrackedChanges(g, PubAttributes \cup IF updated THEN SubAttributes ELSE {})

\* The next time replied to the orchestrator when nothing is calculated.
NextTimeWithoutUpdate == nextTime

\* try_calculate for the group g, with what the model's update does to it. A
\* published attribute without any data raises an error in generate_update.
Calculate(g) ==
  \E o \in TryInitialize(g) :
    LET asked == o.initialized /\ ~modelReadyForUpdate
        ready == modelReadyForUpdate
                   \/ (asked /\ IsReadyFor(RequiredAttributes, o.group, o.latched))
    IN /\ latched' \in IF asked THEN Latches(RequiredAttributes, o.group, o.latched)
                       ELSE {o.latched}
       /\ modelInitialized' = o.initialized /\ refused' = o.refused
       /\ modelReadyForUpdate' = ready
       /\ IF ~o.initialized
          THEN /\ group' = o.group /\ request' = None
               /\ result' = None /\ shown' = None
               /\ UNCHANGED <<status, nextTime, wish, seen, sent>>
          ELSE \E h \in IF ready THEN ModelSets(o.group) ELSE {o.group},
                  t \in IF ready THEN {None} \cup now .. End ELSE {None} :
                 LET update == GenerateUpdate(h, PubAttributes) IN
                 IF \E a \in PubAttributes : h.attributes[a] = None
                 THEN /\ status' = "failed" /\ group' = h /\ result' = None
                      /\ shown' = None
                      /\ UNCHANGED <<nextTime, request, wish, seen, sent>>
                 ELSE /\ group' = ResetAfter(h, ready)
                      /\ result' = update /\ sent' = Told(sent, update)
                      /\ shown' = IF ready THEN Flagged(h, SubAttributes) ELSE None
                      /\ seen' = IF ready THEN world' ELSE seen
                      /\ nextTime' = t /\ request' = t /\ wish' = t
                      /\ UNCHANGED status

\* update and update_series: a time update is the first of the updates that wait for
\* the model, if it is due.
UpdateSeries(items) ==
  /\ status = "running" /\ now # None
  /\ (Head(items) = None) = due /\ \A k \in 2 .. Len(items) : items[k] # None
  /\ due' = FALSE
  /\ world' = WorldAfter(items)
  /\ LET g == ProcessSeries(items) IN
     IF \E k \in DOMAIN items : ShouldCalculate(items[k]) THEN Calculate(g)
     ELSE /\ group' = g /\ request' = NextTimeWithoutUpdate
          /\ result' = None /\ shown' = None
          /\ UNCHANGED <<latched, modelInitialized, modelReadyForUpdate, nextTime, status,
                         wish, refused, seen, sent>>
  /\ grown' = (result' = None /\ (grown \/ group'.ids # group.ids))
  /\ UNCHANGED now

\* close, when no model has a request left or because of a failure elsewhere.
Close(dueToFailure) ==
  /\ status = "running" /\ (dueToFailure \/ (now # None /\ request = None /\ ~due))
  /\ status' = IF ~dueToFailure /\ ~(modelInitialized /\ modelReadyForUpdate)
               THEN "failed" ELSE "closed"
  /\ result' = None /\ shown' = None
  /\ UNCHANGED <<adapterVars, orchestratorVars, ghostVars>>

Next ==
  \/ InitializeModel
  \/ \E t \in Times : NewTime(t)
  \/ RepeatTime
  \/ \E n \in 1 .. MaxSeries : \E items \in [1 .. n -> Items] : UpdateSeries(items)
  \/ \E dueToFailure \in BOOLEAN : Close(dueToFailure)

Spec == Init /\ [][Next]_vars

-----------------------------------------------------------------------------
(* Properties *)

\* The model's state is the world state: whatever it has been told, in however many
\* updates at once, before or after it was ready, is in the arrays.
StateIsCurrent == status = "running" => Data(SubAttributes) = world

\* What has changed since the model last updated (or was given its initial data) is
\* flagged when it updates, also what came while it could not update yet and what
\* came with new entities: models that look at changes only miss none.
ShowsChanges ==
  shown' # None =>
    \A a \in SubAttributes : \A i \in Ids : world'[a][i] # seen[a][i] => <<a, i>> \in shown'

\* Others know the model's own attributes, or what they do not know is flagged and
\* goes with the next result: nothing that the model sets is kept for itself.
EverythingIsPublished ==
  status = "running" =>
    /\ \A a \in PubAttributes : \A i \in Ids :
         Data(PubAttributes)[a][i] # sent[a][i] => i \in Changed(group.attributes[a])
    /\ result # None => Data(PubAttributes) = sent

\* A wake-up that the model has asked for is not lost when updates come before it
\* that hold no data for the model: the orchestrator keeps a request, or is about to
\* wake it.
WakeUpsAreKept == status = "running" /\ wish # None => due \/ request = wish

\* A model fails only for a reason: its own initialize refused, or it has never been
\* given all that it needs. What it needs may come with the initial dataset or in any
\* update at t = 0, in parts and in any order.
FailsOnlyIfNotReady ==
  status = "failed" =>
    \/ refused
    \/ \E a \in RequiredAttributes : ~IsFilled(group.attributes[a])
    \/ \E a \in PubAttributes : group.attributes[a] = None

\* What a result holds is different from what others know.
HoldsOnlyChanges(update) ==
  \A a \in DOMAIN update.data : \A i \in update.ids :
    update.data[a][i] # Undefined => update.data[a][i] # sent[a][i]

\* Nothing is published twice, unless entities were added since the last result: the
\* masks and the copies agree on what has changed, whatever the model sets and sets back.
RepublishesAfterGrowthOnly ==
  result' # None /\ ~grown /\ group'.ids = group.ids => HoldsOnlyChanges(result')

\* "These results should only contain the changes in common World State. Any values
\* that have not changed (significantly) should be omitted."
\* (docs/source/in_depth/simulations.rst:135) It does not hold: see RepublishesAfterGrowthOnly.
PublishesOnlyChanges == result' # None => HoldsOnlyChanges(result')
=============================================================================
