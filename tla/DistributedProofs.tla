-------------------------- MODULE DistributedProofs --------------------------
(* The models and the Update Data Service of Distributed keep the data of     *)
(* every update until all its subscribers have read it, whatever the order of *)
(* the requests, and no longer; and they implement Orchestrator.              *)
EXTENDS Distributed, OrchestratorSafety

\* The data of an update is in the store.
Kept(u) == Key(u) \in DOMAIN store /\ store[Key(u)] = u.time

\* UpdatesCanBeRead.
ToldIsKept ==
  \A m \in Models :
    /\ \A u \in Open(pendingUpdates[m]) : Kept(u)
    /\ Received(m, "Update") => \A i \in Unread(m) : Kept(Head(inbox[m]).updates[i])

\* What is on the wire between m and the service fits the command of m, and the
\* data of m in the store: there is none left when a CLEAR has been acknowledged,
\* and none yet under the key of a PUT until it has been.
CallFits(m) ==
  LET c == call[m] IN
  /\ c.type \in {"Get", "Data", "Put"} \/ taken[m] > 0 => Received(m, "Update")
  /\ c.type = "Clear" => Received(m, "NewTime")
  /\ c.type = "Acknowledge" => Received(m, "NewTime") \/ Received(m, "Update")
  /\ c.type # "Error"
  /\ Received(m, "Update") => taken[m] <= Len(Head(inbox[m]).updates)
  /\ c.type \in {"Get", "Data"} => Unread(m) # {}
  /\ c.type = "Get" => c.key = Key(Head(inbox[m]).updates[FirstUnread(m)])
  /\ c.type = "Put" =>
       /\ counter[m] - 1 \in Keys /\ c.key = <<m, counter[m] - 1>> /\ c.data = modelTime[m]
       /\ c.key \notin DOMAIN store
  /\ c.type = "Acknowledge" /\ Received(m, "Update") =>
       /\ counter[m] - 1 \in Keys
       /\ <<m, counter[m] - 1>> \in DOMAIN store /\ store[<<m, counter[m] - 1>>] = modelTime[m]
  /\ c.type = "Acknowledge" /\ Received(m, "NewTime") => \A k \in DOMAIN store : k[1] # m

\* The data under k is of the time that its model is at, under a number that the model
\* has used.
KeyFits(k) ==
  /\ proc[k[1]] # "starting"
  /\ k[2] < counter[k[1]]
  /\ proc[k[1]] \in {"running", "exited"} => store[k] = modelTime[k[1]]

\* A model that has a NEW_TIME before it is at another time.
NewTimeIsNew ==
  \A m \in Models :
    inbox[m] # <<>> /\ Head(inbox[m]).type = "NewTime" => modelTime[m] # currentTime

\* The data of a result is in the store.
ResultsAreStored ==
  \A m \in Models : outbox[m] # <<>> =>
    LET key == Head(outbox[m]).key IN
    key # None => <<m, key>> \in DOMAIN store /\ store[<<m, key>>] = currentTime

DataTypes ==
  /\ DOMAIN store \subseteq StoreKeys
  /\ \A k \in DOMAIN store : store[k] \in Times
  /\ call \in [Models -> [type : CallTypes, key : StoreKeys \cup {None}, data : Times \cup {None}]]
  /\ counter \in [Models -> Nat]
  /\ taken \in [Models -> Nat]

DInv ==
  /\ SafetyInv /\ DataTypes
  /\ \A m \in Models : CallFits(m)
  /\ \A k \in DOMAIN store : KeyFits(k)
  /\ ToldIsKept /\ NewTimeIsNew /\ ResultsAreStored

-----------------------------------------------------------------------------
(* Consequences of the invariant.                                          *)

\* The invariant says of every update that some model is told of that it can be read.
LEMMA DInvIsKept == DInv => UpdatesAreKept
<1> SUFFICES ASSUME DInv PROVE UpdatesAreKept
  OBVIOUS
<1>1. DTypeOK
  BY DEF DInv, SafetyInv, DataTypes, CallFits, DTypeOK
<1>2. UpdatesCanBeRead
  <2> SUFFICES ASSUME NEW m \in Models, NEW u \in ToRead(m) PROVE Kept(u)
    BY DEF UpdatesCanBeRead, Kept
  <2> QED BY DEF DInv, ToldIsKept, ToRead, Open
<1>3. KeysAreFresh
  BY DEF DInv, CallFits, KeysAreFresh
<1>4. StoreIsCleared
  BY DEF DInv, KeyFits, StoreIsCleared
<1> QED BY <1>1, <1>2, <1>3, <1>4 DEF UpdatesAreKept

\* There is a first update to read if there is one.
LEMMA FirstUnreadExists ==
  ASSUME TypeOK, NEW m \in Models, inbox[m] # <<>>, Unread(m) # {}
  PROVE  FirstUnread(m) \in Unread(m) /\ \A i \in Unread(m) : FirstUnread(m) <= i
<1>1. Head(inbox[m]).updates \in Seq(Update)
  <2>1. Head(inbox[m]) \in Commands
    BY HeadTailProperties DEF TypeOK
  <2> QED BY <2>1 DEF Commands
<1>2. Unread(m) \in SUBSET Nat
  BY <1>1 DEF Unread
<1>3. \E i \in Unread(m) : \A j \in Unread(m) : i <= j
  BY <1>2, LeastExists
<1> QED BY <1>3 DEF FirstUnread

\* A model that computes is at the current time, and what it was told of is of that time.
LEMMA UpdatingModel ==
  ASSUME DInv, NEW m \in Models, Received(m, "Update")
  PROVE  /\ mstate[m] = "Updating" /\ modelTime[m] = currentTime /\ currentTime \in Times
         /\ Head(inbox[m]).updates \in Seq(Update)
         /\ \A i \in Unread(m) : Head(inbox[m]).updates[i].time = currentTime
<1>1. inbox[m] # <<>> /\ Head(inbox[m]).type = "Update" /\ TypeOK /\ Currency /\ Phases
  BY DEF Received, DInv, SafetyInv
<1>2. Head(inbox[m]).updates \in Seq(Update)
  <2>1. Head(inbox[m]) \in Commands
    BY <1>1, HeadTailProperties DEF TypeOK
  <2> QED BY <2>1 DEF Commands
<1>3. mstate[m] = "Updating" /\ ProducedAt(currentTime, Head(inbox[m]).updates)
  BY <1>1 DEF Currency
<1> QED BY <1>1, <1>2, <1>3 DEF Currency, Phases, Deaf, TypeOK, ProducedAt, Unread

\* An idle wire.
LEMMA NothingOnTheWire ==
  ASSUME DInv, NEW m \in Models, ~Received(m, "NewTime"), ~Received(m, "Update")
  PROVE  call[m].type = "None" /\ taken[m] = 0
<1>1. call[m].type \in CallTypes /\ taken[m] \in Nat
  BY DEF DInv, DataTypes
<1>2. CallFits(m)
  BY DEF DInv
<1>3. call[m].type \notin {"Get", "Data", "Put", "Clear", "Acknowledge", "Error"} /\ ~(taken[m] > 0)
  BY <1>2 DEF CallFits
<1> QED BY <1>1, <1>3 DEF CallTypes, RequestTypes

\* CallFits only looks at the model itself and at its own keys.
LEMMA OtherCallFits ==
  ASSUME NEW m \in Models, CallFits(m), DOMAIN store \subseteq StoreKeys, DOMAIN store' \subseteq StoreKeys,
         call'[m] = call[m], counter'[m] = counter[m], taken'[m] = taken[m],
         inbox'[m] = inbox[m], proc'[m] = proc[m], modelTime'[m] = modelTime[m],
         \A k \in StoreKeys : k[1] = m => /\ k \in DOMAIN store' <=> k \in DOMAIN store
                                          /\ k \in DOMAIN store => store'[k] = store[k]
  PROVE  CallFits(m)'
<1>1. /\ Unread(m)' = Unread(m)
      /\ Received(m, "Update")' = Received(m, "Update") /\ Received(m, "NewTime")' = Received(m, "NewTime")
  BY DEF Unread, Received
<1>2. FirstUnread(m)' = FirstUnread(m)
  BY <1>1 DEF FirstUnread
<1>3. \A n \in Keys : <<m, n>> \in StoreKeys /\ <<m, n>>[1] = m
  BY DEF StoreKeys
<1>4. counter[m] - 1 \in Keys =>
        /\ <<m, counter[m] - 1>> \in DOMAIN store' <=> <<m, counter[m] - 1>> \in DOMAIN store
        /\ <<m, counter[m] - 1>> \in DOMAIN store =>
             store'[<<m, counter[m] - 1>>] = store[<<m, counter[m] - 1>>]
  BY <1>3
<1>5. (\A k \in DOMAIN store : k[1] # m) => \A k \in DOMAIN store' : k[1] # m
  OBVIOUS
<1>6. Head(inbox'[m]).updates = Head(inbox[m]).updates
  OBVIOUS
<1>7. call'[m].type = "Put" =>
        /\ counter'[m] - 1 \in Keys /\ call'[m].key = <<m, counter'[m] - 1>> /\ call'[m].data = modelTime'[m]
        /\ call'[m].key \notin DOMAIN store'
  BY <1>4 DEF CallFits
<1>8. call'[m].type = "Acknowledge" /\ Received(m, "Update")' =>
        /\ counter'[m] - 1 \in Keys
        /\ <<m, counter'[m] - 1>> \in DOMAIN store' /\ store'[<<m, counter'[m] - 1>>] = modelTime'[m]
  BY <1>1, <1>4 DEF CallFits
<1>9. call'[m].type = "Get" => call'[m].key = Key(Head(inbox'[m]).updates[FirstUnread(m)'])
  BY <1>2, <1>6 DEF CallFits
<1> QED BY <1>1, <1>2, <1>5, <1>6, <1>7, <1>8, <1>9 DEF CallFits

-----------------------------------------------------------------------------
(* Every step is one of Orchestrator's.                                    *)

\* The requests are hidden from the orchestrator, and a model fails only where
\* Orchestrator lets it fail: its updates can be read.
LEMMA DStepOfOrchestrator ==
  ASSUME DInv, [DNext]_<<vars, dataVars>>
  PROVE  [Next]_vars
<1>1. CASE UNCHANGED <<vars, dataVars>>
  BY <1>1
<1>2. CASE Brokering
  BY <1>2 DEF Brokering, Next
<1>3. ASSUME NEW m \in Models, Service(m) PROVE UNCHANGED vars
  BY <1>3 DEF Service, ServeClear, ServeGet, ServePut
<1>4. ASSUME NEW m \in Models, DModelStep(m) PROVE UNCHANGED vars \/ ModelStep(m)
  <2>1. CASE StartNewTime(m) \/ RequestData(m) \/ TakeData(m) \/ PutData(m)
    BY <2>1 DEF StartNewTime, RequestData, TakeData, PutData
  <2>2. CASE RegisterModel(m) \/ FinishNewTime(m) \/ Quit(m) \/ CrashModel(m)
    BY <2>2 DEF RegisterModel, FinishNewTime, Quit, CrashModel, ModelStep
  <2>3. CASE FailToRead(m)
    BY <2>3 DEF DInv, CallFits, FailToRead, Replied
  <2>4. CASE FinishWithoutData(m)
    <3>1. HandleUpdate(m)
      BY <2>4 DEF FinishWithoutData, HandleUpdate
    <3> QED BY <3>1 DEF ModelStep
  <2>5. CASE FinishWithData(m)
    <3>1. counter[m] - 1 \in Keys /\ Received(m, "Update")
      BY <2>5 DEF DInv, CallFits, FinishWithData, Replied
    <3>2. HandleUpdate(m)
      BY <2>5, <3>1 DEF FinishWithData, HandleUpdate
    <3> QED BY <3>2 DEF ModelStep
  <2> QED BY <1>4, <2>1, <2>2, <2>3, <2>4, <2>5 DEF DModelStep
<1> QED BY <1>1, <1>2, <1>3, <1>4 DEF DNext, Next

-----------------------------------------------------------------------------
(* The orchestrator's steps keep the invariant.                            *)

\* Before the first command nothing is stored, and nobody is told of anything.
LEMMA DInitInv == DInit => DInv
<1> SUFFICES ASSUME DInit PROVE DInv
  OBVIOUS
<1>1. SafetyInv
  BY InitSafety DEF DInit
<1>2. DOMAIN store = {}
  BY DEF DInit
<1>3. \A m \in Models : /\ outbox[m] = <<>> /\ inbox[m] = <<>> /\ pendingUpdates[m] = <<>>
                        /\ proc[m] = "starting" /\ call[m] = NoCall /\ counter[m] = 0 /\ taken[m] = 0
  BY DEF DInit, Init
<1>4. DataTypes
  <2>1. NoCall \in [type : CallTypes, key : StoreKeys \cup {None}, data : Times \cup {None}]
    BY DEF NoCall, CallTypes
  <2> QED BY <1>2, <2>1 DEF DataTypes, DInit
<1>5. \A m \in Models : CallFits(m)
  BY <1>3 DEF CallFits, NoCall, Received
<1>6. ToldIsKept
  BY <1>3, OpenQueues DEF ToldIsKept, Received
<1> QED BY <1>1, <1>2, <1>3, <1>4, <1>5, <1>6 DEF DInv, NewTimeIsNew, ResultsAreStored

\* A model that is told something, and nothing about data but what is kept, can read it.
LEMMA BrokeringKeepsCalls ==
  ASSUME DInv, SafetyInv', UNCHANGED dataVars, UNCHANGED <<proc, modelTime>>,
         NEW new, \A u \in new : Kept(u),
         \A m \in Models : ToldOnlyOf(m, new)
  PROVE  DataTypes' /\ (\A m \in Models : CallFits(m)') /\ (\A k \in DOMAIN store : KeyFits(k)') /\ ToldIsKept'
<1>1. UNCHANGED <<store, call, counter, taken>>
  BY DEF dataVars
<1>2. DataTypes'
  BY <1>1 DEF DInv, DataTypes
<1>3. \A k \in DOMAIN store : KeyFits(k)'
  BY <1>1 DEF DInv, KeyFits
<1>4. \A u : Kept(u)' <=> Kept(u)
  BY <1>1 DEF Kept, Key
<1>5. ASSUME NEW m \in Models, inbox'[m] = inbox[m]
      PROVE  /\ CallFits(m)'
             /\ Received(m, "Update")' => \A i \in Unread(m)' : Kept(Head(inbox'[m]).updates[i])
  <2>1. CallFits(m)'
    BY <1>1, <1>5, OtherCallFits DEF DInv, DataTypes
  <2>2. Received(m, "Update")' = Received(m, "Update") /\ Unread(m)' = Unread(m)
    BY <1>1, <1>5 DEF Received, Unread
  <2>3. Received(m, "Update") => \A i \in Unread(m) : Kept(Head(inbox[m]).updates[i])
    BY DEF DInv, ToldIsKept
  <2> QED BY <1>5, <2>1, <2>2, <2>3
<1>6. ASSUME NEW m \in Models, inbox'[m] # inbox[m]
      PROVE  /\ CallFits(m)'
             /\ Received(m, "Update")' => \A i \in Unread(m)' : Kept(Head(inbox'[m]).updates[i])
  <2>1. /\ inbox[m] = <<>> /\ inbox'[m] # <<>>
        /\ Open(Head(inbox'[m]).updates) \subseteq Open(pendingUpdates[m]) \cup new
    BY <1>6 DEF ToldOnlyOf
  <2>2. call'[m].type = "None" /\ taken'[m] = 0
    BY <1>1, <2>1, NothingOnTheWire DEF Received
  <2>3. Len(Head(inbox'[m]).updates) \in Nat
    <3>1. Head(inbox'[m]) \in Commands
      BY <2>1, HeadTailProperties DEF SafetyInv, TypeOK
    <3> QED BY <3>1 DEF Commands
  <2>4. CallFits(m)'
    <3>1. 0 <= Len(Head(inbox'[m]).updates) /\ ~(taken'[m] > 0)
      BY <2>2, <2>3
    <3> QED BY <2>2, <3>1, Zenon DEF CallFits
  <2>5. \A i \in Unread(m)' : Kept(Head(inbox'[m]).updates[i])
    <3>1. \A i \in Unread(m)' : Head(inbox'[m]).updates[i] \in Open(Head(inbox'[m]).updates)
      BY DEF Unread, Open
    <3>2. \A u \in Open(pendingUpdates[m]) \cup new : Kept(u)
      BY DEF DInv, ToldIsKept
    <3> QED BY <2>1, <3>1, <3>2, Zenon
  <2> QED BY <2>4, <2>5
<1>7. ToldIsKept'
  <2>1. ASSUME NEW m \in Models, NEW u \in Open(pendingUpdates[m])' PROVE Kept(u)'
    <3>1. u \in Open(pendingUpdates[m]) \cup new
      BY <2>1 DEF ToldOnlyOf, Open
    <3>2. Kept(u)
      BY <3>1 DEF DInv, ToldIsKept
    <3> QED BY <1>4, <3>2
  <2>2. ASSUME NEW m \in Models, Received(m, "Update")', NEW i \in Unread(m)'
        PROVE  Kept(Head(inbox[m]).updates[i])'
    <3>1. Kept(Head(inbox'[m]).updates[i])
      BY <1>5, <1>6, <2>2
    <3> QED BY <1>1, <3>1 DEF Kept, Key
  <2> QED BY <2>1, <2>2 DEF ToldIsKept
<1> QED BY <1>2, <1>3, <1>5, <1>6, <1>7

\* The orchestrator runs on between two responses: the models may be given updates, a time
\* or the order to quit, and no result leaves the services.
LEMMA RunKeeps ==
  ASSUME DInv, OrchestratorRun, UNCHANGED dataVars, SafetyInv'
  PROVE  DInv'
<1>1. /\ UNCHANGED <<outbox, proc, modelTime>>
      /\ \A s \in Models : ToldOnlyOf(s, {})
      /\ \/ /\ currentTime' = currentTime
            /\ \A s \in Models :
                 inbox'[s] # inbox[s] => Head(inbox'[s]).type \in {"Update", "Quit"}
         \/ /\ currentTime' \in Times
            /\ currentTime # None => currentTime < currentTime'
            /\ \A s \in Models : mstate[s] = "Idle"
  BY OrchestratorRunData DEF DInv
<1>2. DataTypes' /\ (\A m \in Models : CallFits(m)') /\ (\A k \in DOMAIN store : KeyFits(k)') /\ ToldIsKept'
  BY <1>1, BrokeringKeepsCalls
<1>3. store' = store
  BY DEF dataVars
<1>4. CASE /\ currentTime' = currentTime
           /\ \A s \in Models :
                inbox'[s] # inbox[s] => Head(inbox'[s]).type \in {"Update", "Quit"}
  <2>1. NewTimeIsNew'
    BY <1>1, <1>4 DEF DInv, NewTimeIsNew
  <2>2. ResultsAreStored'
    BY <1>1, <1>3, <1>4 DEF DInv, ResultsAreStored
  <2> QED BY <1>2, <1>3, <2>1, <2>2 DEF DInv
<1>5. CASE /\ currentTime' \in Times
           /\ currentTime # None => currentTime < currentTime'
           /\ \A s \in Models : mstate[s] = "Idle"
  <2>1. \A s \in Models : outbox[s] = <<>> /\ modelTime[s] = currentTime
    BY <1>5, FreeModel DEF DInv, SafetyInv, BusyStates, Currency
  <2>2. currentTime' # currentTime
    <3>1. currentTime \in Times \cup {None}
      BY DEF DInv, SafetyInv, TypeOK
    <3> QED BY <1>5, <3>1, TimelineAssumption, NoneAssumption DEF Times
  <2>3. NewTimeIsNew' /\ ResultsAreStored'
    BY <1>1, <2>1, <2>2 DEF NewTimeIsNew, ResultsAreStored
  <2> QED BY <1>2, <1>3, <2>3 DEF DInv
<1> QED BY <1>1, <1>4, <1>5

\* A response is handled: what it tells of is stored, and the models that depend on it are told.
LEMMA ReceiveKeeps ==
  ASSUME DInv, NEW m \in Models, Receive(m), UNCHANGED dataVars, SafetyInv'
  PROVE  DInv'
<1>1. /\ UNCHANGED <<currentTime, proc, modelTime>>
      /\ outbox[m] # <<>>
      /\ \A s \in Models :
           /\ outbox'[s] = IF s = m THEN <<>> ELSE outbox[s]
           /\ ToldOnlyOf(s, NewsOf(m))
           /\ inbox'[s] # inbox[s] => Head(inbox'[s]).type \in {"Update", "Quit"}
  BY ReceiveData DEF DInv
<1>2. \A u \in NewsOf(m) : Kept(u)
  <2> SUFFICES ASSUME Head(outbox[m]).key # None PROVE Kept(DataUpdate(m, Head(outbox[m]).key))
    BY DEF NewsOf
  <2>1. LET key == Head(outbox[m]).key IN
        <<m, key>> \in DOMAIN store /\ store[<<m, key>>] = currentTime
    BY <1>1 DEF DInv, ResultsAreStored
  <2>2. LET u == DataUpdate(m, Head(outbox[m]).key) IN
        u.key = Head(outbox[m]).key /\ u.origin = m /\ u.time = currentTime
    BY DEF DataUpdate
  <2> QED BY <2>1, <2>2 DEF Kept, Key
<1>3. DataTypes' /\ (\A s \in Models : CallFits(s)') /\ (\A k \in DOMAIN store : KeyFits(k)') /\ ToldIsKept'
  BY <1>1, <1>2, BrokeringKeepsCalls
<1>4. store' = store
  BY DEF dataVars
<1>5. NewTimeIsNew' /\ ResultsAreStored'
  BY <1>1, <1>4 DEF DInv, NewTimeIsNew, ResultsAreStored
<1> QED BY <1>3, <1>4, <1>5 DEF DInv

-----------------------------------------------------------------------------
(* The service's steps keep the invariant, and so do the requests.         *)

\* The updates that are told of are of the current time.
LEMMA ToldIsCurrent ==
  ASSUME DInv, NEW m \in Models
  PROVE  /\ \A u \in Open(pendingUpdates[m]) : Kept(u) /\ u.time = currentTime
         /\ Received(m, "Update") =>
              \A i \in Unread(m) : Kept(Head(inbox[m]).updates[i]) /\ Head(inbox[m]).updates[i].time = currentTime
<1>1. \A u \in Open(pendingUpdates[m]) : u.time = currentTime
  BY DEF DInv, SafetyInv, Currency, ProducedAt, Open
<1> QED BY <1>1, UpdatingModel DEF DInv, ToldIsKept

\* When the data of the current time stays in the store, and nobody is told of anything
\* more, everybody can still read what they were told of.
LEMMA ReadersAreSafe ==
  ASSUME DInv, UNCHANGED <<currentTime, pendingUpdates>>,
         \A s \in Models : inbox'[s] # <<>> =>
           /\ inbox'[s] = inbox[s] /\ proc'[s] = proc[s] /\ modelTime'[s] = modelTime[s]
           /\ Unread(s)' \subseteq Unread(s),
         \A k \in DOMAIN store : store[k] = currentTime => k \in DOMAIN store' /\ store'[k] = store[k]
  PROVE  ToldIsKept' /\ NewTimeIsNew'
<1>1. ASSUME NEW u, Kept(u), u.time = currentTime PROVE Kept(u)'
  BY <1>1 DEF Kept, Key
<1>2. ASSUME NEW m \in Models, NEW u \in Open(pendingUpdates[m])' PROVE Kept(u)'
  <2>1. u \in Open(pendingUpdates[m])
    BY <1>2 DEF Open
  <2> QED BY <1>1, <2>1, ToldIsCurrent
<1>3. ASSUME NEW m \in Models, Received(m, "Update")', NEW i \in Unread(m)'
      PROVE  Kept(Head(inbox[m]).updates[i])'
  <2>1. inbox'[m] = inbox[m] /\ Received(m, "Update") /\ i \in Unread(m)
    BY <1>3 DEF Received
  <2>2. Kept(Head(inbox[m]).updates[i]) /\ Head(inbox[m]).updates[i].time = currentTime
    BY <2>1, ToldIsCurrent
  <2> QED BY <2>1, <2>2 DEF Kept, Key
<1>4. NewTimeIsNew'
  BY DEF DInv, NewTimeIsNew
<1> QED BY <1>2, <1>3, <1>4 DEF ToldIsKept

\* What a request or a reply changes: only what is on the wire of m, the number of the
\* next key of m, or what m has read.
LEMMA WireKeeps ==
  ASSUME DInv, NEW m \in Models, UNCHANGED vars, DataTypes', CallFits(m)',
         \A s \in Models \ {m} :
           call'[s] = call[s] /\ counter'[s] = counter[s] /\ taken'[s] = taken[s],
         \A k \in StoreKeys : k[1] # m => /\ k \in DOMAIN store' <=> k \in DOMAIN store
                                          /\ k \in DOMAIN store => store'[k] = store[k],
         \A k \in DOMAIN store : store[k] = currentTime => k \in DOMAIN store' /\ store'[k] = store[k],
         \A k \in DOMAIN store' : k[1] = m => KeyFits(k)',
         taken[m] <= taken'[m]
  PROVE  DInv'
<1>1. /\ UNCHANGED <<currentTime, pendingUpdates, inbox, outbox, proc, modelTime>>
      /\ DOMAIN store \subseteq StoreKeys /\ DOMAIN store' \subseteq StoreKeys
  BY DEF vars, orchestratorVars, connectedVars, modelVars, DInv, DataTypes
<1>2. SafetyInv'
  BY NextSafety DEF DInv
<1>3. \A s \in Models : CallFits(s)'
  <2> SUFFICES ASSUME NEW s \in Models \ {m} PROVE CallFits(s)'
    OBVIOUS
  <2>1. CallFits(s)
    BY DEF DInv
  <2>2. call'[s] = call[s] /\ counter'[s] = counter[s] /\ taken'[s] = taken[s]
    OBVIOUS
  <2>3. inbox'[s] = inbox[s] /\ proc'[s] = proc[s] /\ modelTime'[s] = modelTime[s]
    BY <1>1
  <2> QED BY <1>1, <2>1, <2>2, <2>3, OtherCallFits
<1>4. \A k \in DOMAIN store' : KeyFits(k)'
  <2> SUFFICES ASSUME NEW k \in DOMAIN store', k[1] # m PROVE KeyFits(k)'
    OBVIOUS
  <2>1. k \in DOMAIN store /\ store'[k] = store[k] /\ k[1] \in Models
    BY <1>1 DEF StoreKeys
  <2>2. KeyFits(k)
    BY <2>1 DEF DInv
  <2> QED BY <1>1, <2>1, <2>2 DEF KeyFits
<1>5. ASSUME NEW s \in Models, inbox[s] # <<>> PROVE Unread(s)' \subseteq Unread(s)
  <2>1. taken[s] <= taken'[s] /\ taken[s] \in Nat /\ taken'[s] \in Nat
    BY DEF DInv, DataTypes
  <2>2. DOMAIN Head(inbox[s]).updates \subseteq Nat
    <3>1. Head(inbox[s]) \in Commands
      BY <1>5, HeadTailProperties DEF DInv, SafetyInv, TypeOK
    <3> QED BY <3>1 DEF Commands
  <2>3. inbox'[s] = inbox[s]
    BY <1>1
  <2> QED BY <2>1, <2>2, <2>3 DEF Unread
<1>6. ToldIsKept' /\ NewTimeIsNew'
  BY <1>1, <1>5, ReadersAreSafe
<1>7. ResultsAreStored'
  BY <1>1 DEF DInv, ResultsAreStored
<1> QED BY <1>2, <1>3, <1>4, <1>6, <1>7 DEF DInv

\* A CLEAR deletes the data of its sender and of nobody else, when no name is a prefix
\* of another; and that data is of a time that is over.
LEMMA ServeClearKeeps ==
  ASSUME DInv, PrefixOf = {}, NEW m \in Models, ServeClear(m)
  PROVE  DInv'
<1>1. /\ UNCHANGED vars /\ counter' = counter /\ taken' = taken
      /\ call[m].type = "Clear" /\ call' = [call EXCEPT ![m] = Acknowledge]
      /\ store' = [k \in {k \in DOMAIN store : ~HasPrefix(k, m)} |-> store[k]]
  BY DEF ServeClear, Reply
<1>2. \A k \in StoreKeys : HasPrefix(k, m) <=> k[1] = m
  BY DEF HasPrefix
<1>3. /\ DOMAIN store \subseteq StoreKeys
      /\ DOMAIN store' = {k \in DOMAIN store : k[1] # m}
      /\ \A k \in DOMAIN store' : store'[k] = store[k]
  <2>1. DOMAIN store \subseteq StoreKeys
    BY DEF DInv, DataTypes
  <2> QED BY <1>1, <1>2, <2>1
<1>4. Received(m, "NewTime") /\ ~Received(m, "Update") /\ taken[m] = 0
  <2>1. CallFits(m) /\ taken[m] \in Nat
    BY DEF DInv, DataTypes
  <2>2. Received(m, "NewTime")
    BY <1>1, <2>1 DEF CallFits
  <2>3. ~Received(m, "Update")
    BY <2>2 DEF Received
  <2> QED BY <2>1, <2>2, <2>3 DEF CallFits
<1>5. DataTypes'
  <2>1. Acknowledge \in [type : CallTypes, key : StoreKeys \cup {None}, data : Times \cup {None}]
    BY DEF Acknowledge, CallTypes
  <2> QED BY <1>1, <1>3, <2>1 DEF DInv, DataTypes
<1>6. Received(m, "NewTime")' /\ ~Received(m, "Update")'
  BY <1>1, <1>4 DEF Received, vars, modelVars
<1>7. CallFits(m)'
  <2>1. call'[m].type = "Acknowledge"
    BY <1>1 DEF DInv, DataTypes, Acknowledge
  <2>2. taken'[m] = 0 /\ ~(0 > 0)
    BY <1>1, <1>4
  <2> QED BY <1>3, <1>6, <2>1, <2>2 DEF CallFits
<1>8. \A k \in DOMAIN store : store[k] = currentTime => k[1] # m
  <2> SUFFICES ASSUME NEW k \in DOMAIN store, k[1] = m PROVE store[k] # currentTime
    OBVIOUS
  <2>1. KeyFits(k) /\ proc[m] = "running"
    BY <1>4 DEF DInv, Received
  <2>2. modelTime[m] # currentTime
    BY <1>4 DEF DInv, NewTimeIsNew, Received
  <2> QED BY <2>1, <2>2 DEF KeyFits
<1>9. \A s \in Models \ {m} :
        call'[s] = call[s] /\ counter'[s] = counter[s] /\ taken'[s] = taken[s]
  BY <1>1 DEF DInv, DataTypes
<1>10. \A k \in StoreKeys : k[1] # m => /\ k \in DOMAIN store' <=> k \in DOMAIN store
                                        /\ k \in DOMAIN store => store'[k] = store[k]
  BY <1>3
<1>11. taken[m] <= taken'[m]
  BY <1>1, <1>4
<1> QED BY <1>1, <1>3, <1>5, <1>7, <1>8, <1>9, <1>10, <1>11, WireKeeps

\* What a model asks for is there.
LEMMA ServeGetKeeps ==
  ASSUME DInv, NEW m \in Models, ServeGet(m)
  PROVE  DInv'
<1>1. /\ UNCHANGED vars /\ store' = store /\ counter' = counter /\ taken' = taken
      /\ call[m].type = "Get"
      /\ call' = [call EXCEPT ![m] = IF call[m].key \in DOMAIN store THEN Data(store[call[m].key]) ELSE Error]
  BY DEF ServeGet, Reply
<1>2. CallFits(m)
  BY DEF DInv
<1>3. /\ Received(m, "Update") /\ Unread(m) # {} /\ taken[m] <= Len(Head(inbox[m]).updates)
      /\ call[m].key = Key(Head(inbox[m]).updates[FirstUnread(m)])
  BY <1>1, <1>2 DEF CallFits
<1>4. FirstUnread(m) \in Unread(m)
  BY <1>3, FirstUnreadExists DEF DInv, SafetyInv, Received
<1>5. call[m].key \in DOMAIN store
  BY <1>3, <1>4, ToldIsCurrent DEF Kept
<1>6. call' = [call EXCEPT ![m] = Data(store[call[m].key])]
  BY <1>1, <1>5
<1>7. DataTypes'
  <2>1. Data(store[call[m].key]) \in [type : CallTypes, key : StoreKeys \cup {None}, data : Times \cup {None}]
    BY <1>5 DEF Data, CallTypes, DInv, DataTypes
  <2> QED BY <1>1, <1>6, <2>1 DEF DInv, DataTypes
<1>8. Received(m, "Update")' /\ ~Received(m, "NewTime")' /\ Unread(m)' = Unread(m) /\ inbox'[m] = inbox[m]
  BY <1>1, <1>3 DEF Received, Unread, vars, modelVars
<1>9. CallFits(m)'
  <2>1. call'[m].type = "Data"
    BY <1>6 DEF DInv, DataTypes, Data
  <2> QED BY <1>1, <1>3, <1>8, <2>1 DEF CallFits
<1>10. \A s \in Models \ {m} :
        call'[s] = call[s] /\ counter'[s] = counter[s] /\ taken'[s] = taken[s]
  BY <1>1 DEF DInv, DataTypes
<1>11. \A k \in DOMAIN store' : KeyFits(k)'
  BY <1>1 DEF DInv, KeyFits, vars, modelVars
<1>12. taken[m] <= taken'[m]
  BY <1>1 DEF DInv, DataTypes
<1> QED BY <1>1, <1>7, <1>9, <1>10, <1>11, <1>12, WireKeeps

\* A PUT stores its data under a key that was free.
LEMMA ServePutKeeps ==
  ASSUME DInv, NEW m \in Models, ServePut(m)
  PROVE  DInv'
<1>1. /\ UNCHANGED vars /\ counter' = counter /\ taken' = taken
      /\ call[m].type = "Put" /\ call' = [call EXCEPT ![m] = Acknowledge]
      /\ store' = [k \in DOMAIN store \cup {call[m].key} |->
                     IF k = call[m].key THEN call[m].data ELSE store[k]]
  BY DEF ServePut, Reply
<1>2. CallFits(m)
  BY DEF DInv
<1>3. /\ Received(m, "Update") /\ taken[m] <= Len(Head(inbox[m]).updates)
      /\ counter[m] - 1 \in Keys /\ call[m].key = <<m, counter[m] - 1>>
      /\ call[m].data = modelTime[m] /\ call[m].key \notin DOMAIN store
  BY <1>1, <1>2 DEF CallFits
<1>4. modelTime[m] \in Times
  BY <1>3, UpdatingModel
<1>5. PICK key \in StoreKeys : key = <<m, counter[m] - 1>> /\ key[1] = m /\ key[2] = counter[m] - 1
  BY <1>3 DEF StoreKeys
<1>6. /\ DOMAIN store' = DOMAIN store \cup {key}
      /\ store'[key] = modelTime[m]
      /\ \A k \in DOMAIN store : store'[k] = store[k]
  BY <1>1, <1>3, <1>5
<1>7. DataTypes'
  <2>1. Acknowledge \in [type : CallTypes, key : StoreKeys \cup {None}, data : Times \cup {None}]
    BY DEF Acknowledge, CallTypes
  <2>2. call' \in [Models -> [type : CallTypes, key : StoreKeys \cup {None}, data : Times \cup {None}]]
    BY <1>1, <2>1 DEF DInv, DataTypes
  <2>3. DOMAIN store' \subseteq StoreKeys /\ \A k \in DOMAIN store' : store'[k] \in Times
    BY <1>4, <1>5, <1>6 DEF DInv, DataTypes
  <2> QED BY <1>1, <2>2, <2>3 DEF DInv, DataTypes
<1>8. /\ Received(m, "Update")' /\ ~Received(m, "NewTime")'
      /\ inbox'[m] = inbox[m] /\ modelTime'[m] = modelTime[m] /\ proc'[m] = "running"
  BY <1>1, <1>3 DEF Received, vars, modelVars
<1>9. CallFits(m)'
  <2>1. call'[m].type = "Acknowledge"
    BY <1>1 DEF DInv, DataTypes, Acknowledge
  <2>2. key = <<m, counter'[m] - 1>>
    BY <1>1, <1>5
  <2>3. taken'[m] <= Len(Head(inbox'[m]).updates) /\ counter'[m] - 1 \in Keys
    BY <1>1, <1>3, <1>8
  <2>4. <<m, counter'[m] - 1>> \in DOMAIN store' /\ store'[<<m, counter'[m] - 1>>] = modelTime'[m]
    BY <1>6, <1>8, <2>2
  <2> QED BY <1>8, <2>1, <2>3, <2>4 DEF CallFits
<1>10. \A s \in Models \ {m} :
        call'[s] = call[s] /\ counter'[s] = counter[s] /\ taken'[s] = taken[s]
  BY <1>1 DEF DInv, DataTypes
<1>11. \A k \in DOMAIN store' : k[1] = m => KeyFits(k)'
  <2>1. KeyFits(key)'
    BY <1>1, <1>5, <1>6, <1>8 DEF KeyFits, DInv, DataTypes
  <2>2. ASSUME NEW k \in DOMAIN store PROVE KeyFits(k)'
    BY <1>1, <1>6 DEF DInv, KeyFits, vars, modelVars
  <2> QED BY <1>6, <2>1, <2>2
<1>12. taken[m] <= taken'[m]
  BY <1>1 DEF DInv, DataTypes
<1>13. /\ \A k \in StoreKeys : k[1] # m => /\ k \in DOMAIN store' <=> k \in DOMAIN store
                                           /\ k \in DOMAIN store => store'[k] = store[k]
       /\ \A k \in DOMAIN store : store[k] = currentTime => k \in DOMAIN store' /\ store'[k] = store[k]
  BY <1>5, <1>6
<1> QED BY <1>1, <1>7, <1>9, <1>10, <1>11, <1>12, <1>13, WireKeeps

\* A model sends its CLEAR, or takes what it asked for: the store is as it was.
LEMMA RequestsKeep ==
  ASSUME DInv, NEW m \in Models, StartNewTime(m) \/ RequestData(m) \/ TakeData(m)
  PROVE  DInv'
<1>1. UNCHANGED vars /\ store' = store /\ counter' = counter
  BY DEF StartNewTime, RequestData, TakeData
<1>2. CallFits(m) /\ taken[m] \in Nat /\ counter \in [Models -> Nat]
  BY DEF DInv, DataTypes
<1>3. /\ Received(m, "NewTime")' = Received(m, "NewTime") /\ Received(m, "Update")' = Received(m, "Update")
      /\ inbox'[m] = inbox[m]
  BY <1>1 DEF Received, vars, modelVars
<1>4. DataTypes' /\ CallFits(m)' /\ taken[m] <= taken'[m]
  <2>1. CASE StartNewTime(m)
    <3>1. Received(m, "NewTime") /\ ~Received(m, "Update") /\ taken' = taken
          /\ call' = [call EXCEPT ![m] = Clear]
      BY <2>1 DEF StartNewTime, Received, Send
    <3>2. Clear \in [type : CallTypes, key : StoreKeys \cup {None}, data : Times \cup {None}]
      BY DEF Clear, CallTypes, RequestTypes
    <3>3. DataTypes'
      BY <1>1, <3>1, <3>2 DEF DInv, DataTypes
    <3>4. call'[m].type = "Clear"
      BY <3>1 DEF DInv, DataTypes, Clear
    <3>5. CallFits(m)'
      BY <1>2, <1>3, <3>1, <3>4 DEF CallFits
    <3> QED BY <1>2, <3>1, <3>3, <3>5
  <2>2. CASE RequestData(m)
    <3> DEFINE key == Key(Head(inbox[m]).updates[FirstUnread(m)])
    <3>1. Received(m, "Update") /\ ~Received(m, "NewTime") /\ Unread(m) # {} /\ taken' = taken
          /\ call' = [call EXCEPT ![m] = Get(key)]
      BY <2>2 DEF RequestData, Received, Send
    <3>2. FirstUnread(m) \in Unread(m)
      BY <3>1, FirstUnreadExists DEF DInv, SafetyInv, Received
    <3>3. key \in StoreKeys
      BY <3>1, <3>2, ToldIsCurrent DEF Kept, DInv, DataTypes
    <3> HIDE DEF key
    <3>4. Get(key) \in [type : CallTypes, key : StoreKeys \cup {None}, data : Times \cup {None}]
      BY <3>3 DEF Get, CallTypes, RequestTypes
    <3>5. DataTypes'
      BY <1>1, <3>1, <3>4 DEF DInv, DataTypes
    <3>6. call'[m].type = "Get" /\ call'[m].key = key
      BY <3>1 DEF DInv, DataTypes, Get
    <3>7. Unread(m)' = Unread(m)
      BY <1>3, <3>1 DEF Unread
    <3>8. FirstUnread(m)' = FirstUnread(m)
      BY <3>7 DEF FirstUnread
    <3>9. call'[m].key = Key(Head(inbox'[m]).updates[FirstUnread(m)'])
      BY <1>3, <3>6, <3>8 DEF key
    <3>10. CallFits(m)'
      BY <1>2, <1>3, <3>1, <3>6, <3>7, <3>9 DEF CallFits
    <3> QED BY <1>2, <3>1, <3>5, <3>10
  <2>3. CASE TakeData(m)
    <3>1. /\ Received(m, "Update") /\ ~Received(m, "NewTime")
          /\ call[m].type = "Data" /\ call' = [call EXCEPT ![m] = NoCall]
          /\ taken' = [taken EXCEPT ![m] = FirstUnread(m)]
      BY <2>3 DEF TakeData, Received, Replied
    <3>2. Unread(m) # {}
      BY <1>2, <3>1 DEF CallFits
    <3>3. FirstUnread(m) \in Unread(m)
      BY <3>1, <3>2, FirstUnreadExists DEF DInv, SafetyInv, Received
    <3>4. Head(inbox[m]).updates \in Seq(Update)
      BY <3>1, UpdatingModel
    <3>5. FirstUnread(m) \in Nat /\ taken[m] <= FirstUnread(m) /\ FirstUnread(m) <= Len(Head(inbox[m]).updates)
      BY <1>2, <3>3, <3>4 DEF Unread
    <3>6. taken'[m] = FirstUnread(m)
      BY <3>1 DEF DInv, DataTypes
    <3>7. NoCall \in [type : CallTypes, key : StoreKeys \cup {None}, data : Times \cup {None}]
      BY DEF NoCall, CallTypes
    <3>8. DataTypes'
      BY <1>1, <3>1, <3>5, <3>7 DEF DInv, DataTypes
    <3>9. call'[m].type = "None"
      BY <3>1 DEF DInv, DataTypes, NoCall
    <3>10. CallFits(m)'
      BY <1>3, <3>1, <3>5, <3>6, <3>9 DEF CallFits
    <3> QED BY <3>5, <3>6, <3>8, <3>10
  <2> QED BY <2>1, <2>2, <2>3
<1>5. \A s \in Models \ {m} :
        call'[s] = call[s] /\ counter'[s] = counter[s] /\ taken'[s] = taken[s]
  BY <1>1 DEF DInv, DataTypes, StartNewTime, RequestData, TakeData, Send, Replied
<1>6. \A k \in DOMAIN store' : KeyFits(k)'
  BY <1>1 DEF DInv, KeyFits, vars, modelVars
<1> QED BY <1>1, <1>4, <1>5, <1>6, WireKeeps

\* The number of the next key has not been used.
LEMMA PutDataKeeps ==
  ASSUME DInv, NEW m \in Models, PutData(m)
  PROVE  DInv'
<1>1. /\ UNCHANGED vars /\ store' = store /\ taken' = taken
      /\ Received(m, "Update") /\ ~Received(m, "NewTime") /\ counter[m] \in Keys
      /\ call' = [call EXCEPT ![m] = Put(<<m, counter[m]>>, modelTime[m])]
      /\ counter' = [counter EXCEPT ![m] = counter[m] + 1]
  BY DEF PutData, Received, Send
<1>2. CallFits(m) /\ counter[m] \in Nat /\ counter'[m] = counter[m] + 1 /\ taken[m] \in Nat
  BY <1>1 DEF DInv, DataTypes
<1>3. modelTime[m] \in Times
  BY <1>1, UpdatingModel
<1>4. Received(m, "Update")' /\ ~Received(m, "NewTime")' /\ inbox'[m] = inbox[m] /\ modelTime'[m] = modelTime[m]
  BY <1>1 DEF Received, vars, modelVars
<1>5. PICK key \in StoreKeys : key = <<m, counter[m]>> /\ key[1] = m /\ key[2] = counter[m]
  BY <1>1 DEF StoreKeys
<1>6. key \notin DOMAIN store
  BY <1>2, <1>5 DEF DInv, KeyFits
<1>7. Put(key, modelTime[m]) \in [type : CallTypes, key : StoreKeys \cup {None}, data : Times \cup {None}]
  BY <1>3 DEF Put, CallTypes, RequestTypes
<1>8. DataTypes'
  <2>1. call' = [call EXCEPT ![m] = Put(key, modelTime[m])]
    BY <1>1, <1>5
  <2>2. counter' \in [Models -> Nat]
    BY <1>1, <1>2 DEF DInv, DataTypes
  <2> QED BY <1>1, <1>7, <2>1, <2>2 DEF DInv, DataTypes
<1>9. call'[m].type = "Put" /\ call'[m].key = key /\ call'[m].data = modelTime[m]
  BY <1>1, <1>5 DEF DInv, DataTypes, Put
<1>10. CallFits(m)'
  <2>1. counter'[m] - 1 = counter[m]
    BY <1>2
  <2>2. key = <<m, counter'[m] - 1>> /\ counter'[m] - 1 \in Keys
    BY <1>1, <1>5, <2>1
  <2>3. taken'[m] <= Len(Head(inbox'[m]).updates)
    BY <1>1, <1>2, <1>4 DEF CallFits
  <2> QED BY <1>1, <1>4, <1>6, <1>9, <2>2, <2>3 DEF CallFits
<1>11. \A s \in Models \ {m} :
        call'[s] = call[s] /\ counter'[s] = counter[s] /\ taken'[s] = taken[s]
  BY <1>1 DEF DInv, DataTypes
<1>12. \A k \in DOMAIN store' : k[1] = m => KeyFits(k)'
  <2> SUFFICES ASSUME NEW k \in DOMAIN store, k[1] = m PROVE KeyFits(k)'
    BY <1>1
  <2>1. KeyFits(k) /\ k[2] \in Nat
    BY KeysAssumption DEF DInv, DataTypes, StoreKeys
  <2> QED BY <1>1, <1>2, <2>1 DEF KeyFits, vars, modelVars
<1>13. taken[m] <= taken'[m]
  BY <1>1, <1>2
<1> QED BY <1>1, <1>8, <1>10, <1>11, <1>12, <1>13, WireKeeps

-----------------------------------------------------------------------------
(* The models' answers to the orchestrator keep the invariant.             *)

\* A model that answers has nothing left on the wire, and the data of its result is in
\* the store.
LEMMA AnswerKeeps ==
  ASSUME DInv, NEW m \in Models, ModelStep(m), UNCHANGED store,
         call' = call \/ call' = [call EXCEPT ![m] = NoCall], call'[m].type = "None",
         taken' = taken \/ taken' = [taken EXCEPT ![m] = 0], taken'[m] = 0,
         counter' = counter \/ counter' = [counter EXCEPT ![m] = 0],
         \A k \in DOMAIN store : k[1] = m => KeyFits(k)',
         NEW key \in Keys \cup {None}, Head(outbox'[m]).key = key,
         key # None => <<m, key>> \in DOMAIN store /\ store[<<m, key>>] = currentTime
  PROVE  DInv'
<1>1. TypeOK /\ ExchangeInv /\ CallFits(m) /\ DataTypes
  BY DEF DInv, SafetyInv
<1>2. /\ UNCHANGED <<currentTime, pendingUpdates>>
      /\ \A s \in Models \ {m} :
           /\ inbox'[s] = inbox[s] /\ outbox'[s] = outbox[s]
           /\ proc'[s] = proc[s] /\ modelTime'[s] = modelTime[s]
      /\ inbox'[m] = <<>>
  BY <1>1, ModelStepEffect DEF orchestratorVars, connectedVars
<1>3. SafetyInv'
  BY NextSafety DEF DInv, Next
<1>4. DataTypes'
  <2>1. NoCall \in [type : CallTypes, key : StoreKeys \cup {None}, data : Times \cup {None}]
    BY DEF NoCall, CallTypes
  <2>2. call' \in [Models -> [type : CallTypes, key : StoreKeys \cup {None}, data : Times \cup {None}]]
    BY <1>1, <2>1 DEF DataTypes
  <2>3. counter' \in [Models -> Nat] /\ taken' \in [Models -> Nat]
    BY <1>1 DEF DataTypes
  <2> QED BY <1>1, <2>2, <2>3 DEF DataTypes
<1>5. \A s \in Models \ {m} :
        call'[s] = call[s] /\ counter'[s] = counter[s] /\ taken'[s] = taken[s]
  BY <1>1 DEF DataTypes
<1>6. CallFits(m)'
  <2>1. ~Received(m, "Update")' /\ ~Received(m, "NewTime")'
    BY <1>2 DEF Received
  <2> QED BY <2>1 DEF CallFits
<1>7. \A s \in Models : CallFits(s)'
  <2> SUFFICES ASSUME NEW s \in Models \ {m} PROVE CallFits(s)'
    BY <1>6
  <2>1. CallFits(s) /\ DOMAIN store \subseteq StoreKeys
    BY DEF DInv, DataTypes
  <2>2. call'[s] = call[s] /\ counter'[s] = counter[s] /\ taken'[s] = taken[s]
    BY <1>5
  <2>3. inbox'[s] = inbox[s] /\ proc'[s] = proc[s] /\ modelTime'[s] = modelTime[s]
    BY <1>2
  <2> QED BY <2>1, <2>2, <2>3, OtherCallFits
<1>8. \A k \in DOMAIN store' : KeyFits(k)'
  <2> SUFFICES ASSUME NEW k \in DOMAIN store, k[1] # m PROVE KeyFits(k)'
    OBVIOUS
  <2>1. KeyFits(k) /\ k[1] \in Models \ {m}
    BY DEF DInv, DataTypes, StoreKeys
  <2> QED BY <1>2, <1>5, <2>1 DEF KeyFits
<1>9. ASSUME NEW s \in Models, inbox'[s] # <<>>
      PROVE  /\ inbox'[s] = inbox[s] /\ proc'[s] = proc[s] /\ modelTime'[s] = modelTime[s]
             /\ Unread(s)' \subseteq Unread(s)
  <2>1. s \in Models \ {m}
    BY <1>2, <1>9
  <2> QED BY <1>2, <1>5, <2>1 DEF Unread
<1>10. ToldIsKept' /\ NewTimeIsNew'
  BY <1>2, <1>9, ReadersAreSafe
<1>11. ResultsAreStored'
  <2> SUFFICES ASSUME NEW s \in Models, outbox'[s] # <<>>, Head(outbox'[s]).key # None
               PROVE  /\ <<s, Head(outbox'[s]).key>> \in DOMAIN store
                      /\ store[<<s, Head(outbox'[s]).key>>] = currentTime
    BY <1>2 DEF ResultsAreStored
  <2> QED BY <1>2 DEF DInv, ResultsAreStored
<1> QED BY <1>3, <1>4, <1>7, <1>8, <1>10, <1>11 DEF DInv

\* What a model answers.
LEMMA OnlyAnswer ==
  ASSUME TypeOK, ExchangeInv, NEW m \in Models, ModelStep(m), NEW r, Answer(m, r)
  PROVE  Head(outbox'[m]) = r
<1>1. outbox[m] = <<>>
  BY ModelStepEffect
<1>2. outbox'[m] = Append(<<>>, r)
  BY <1>1 DEF Answer, TypeOK
<1> QED BY <1>2

\* A model that starts, ends or fails has no request under way.
LEMMA LifeKeeps ==
  ASSUME DInv, NEW m \in Models, RegisterModel(m) \/ Quit(m) \/ CrashModel(m)
  PROVE  DInv'
<1>1. /\ ModelStep(m) /\ store' = store /\ counter' = counter
      /\ modelTime' = modelTime /\ proc[m] \in {"starting", "running"}
      /\ proc'[m] \in {"running", "exited", "crashed"}
      /\ proc'[m] = "running" => proc[m] = "starting"
      /\ proc'[m] = "exited" => proc[m] = "running"
  BY DEF RegisterModel, Quit, CrashModel, ModelStep, Register, HandleQuit, Crash, Fail, Received,
         dataVars, DInv, SafetyInv, TypeOK
<1>2. Head(outbox'[m]).key = None
  <2>1. PICK type : Answer(m, Response(type))
    BY DEF RegisterModel, Quit, CrashModel, Register, HandleQuit, Crash, Fail
  <2>2. Head(outbox'[m]) = Response(type)
    BY <1>1, <2>1, OnlyAnswer DEF DInv, SafetyInv
  <2> QED BY <2>2 DEF Response
<1>3. /\ call' = call \/ call' = [call EXCEPT ![m] = NoCall]
      /\ call'[m].type = "None"
      /\ taken' = taken \/ taken' = [taken EXCEPT ![m] = 0]
      /\ taken'[m] = 0
  <2>1. CASE RegisterModel(m) \/ Quit(m)
    <3>1. ~Received(m, "NewTime") /\ ~Received(m, "Update")
      BY <2>1 DEF RegisterModel, Quit, Register, HandleQuit, Received
    <3> QED BY <2>1, <3>1, NothingOnTheWire DEF RegisterModel, Quit, dataVars
  <2>2. CASE CrashModel(m)
    <3>1. call' = [call EXCEPT ![m] = NoCall] /\ taken' = [taken EXCEPT ![m] = 0]
      BY <2>2 DEF CrashModel
    <3> QED BY <3>1 DEF NoCall, DInv, DataTypes
  <2> QED BY <2>1, <2>2
<1>4. ASSUME NEW k \in DOMAIN store, k[1] = m PROVE KeyFits(k)'
  <2>1. KeyFits(k)
    BY DEF DInv
  <2> QED BY <1>1, <1>4, <2>1 DEF KeyFits
<1> QED BY <1>1, <1>2, <1>3, <1>4, AnswerKeeps

\* A model only goes to the new time, and starts its numbers over, when its data is gone.
LEMMA FinishNewTimeKeeps ==
  ASSUME DInv, NEW m \in Models, FinishNewTime(m)
  PROVE  DInv'
<1>1. /\ ModelStep(m) /\ store' = store /\ taken' = taken
      /\ Received(m, "NewTime") /\ call[m].type = "Acknowledge"
      /\ call' = [call EXCEPT ![m] = NoCall] /\ counter' = [counter EXCEPT ![m] = 0]
      /\ Answer(m, Response("Acknowledge"))
  BY DEF FinishNewTime, ModelStep, Replied, HandleNewTime
<1>2. CallFits(m) /\ taken[m] \in Nat
  BY DEF DInv, DataTypes
<1>3. \A k \in DOMAIN store : k[1] # m
  BY <1>1, <1>2 DEF CallFits
<1>4. taken'[m] = 0
  BY <1>1, <1>2 DEF CallFits, Received
<1>5. call'[m].type = "None"
  BY <1>1 DEF NoCall, DInv, DataTypes
<1>6. Head(outbox'[m]).key = None
  BY <1>1, OnlyAnswer DEF DInv, SafetyInv, Response
<1> QED BY <1>1, <1>3, <1>4, <1>5, <1>6, AnswerKeeps

\* The data of a result has been acknowledged by the service.
LEMMA FinishUpdateKeeps ==
  ASSUME DInv, NEW m \in Models, FinishWithoutData(m) \/ FinishWithData(m)
  PROVE  DInv'
<1>1. /\ store' = store /\ counter' = counter /\ taken' = [taken EXCEPT ![m] = 0]
      /\ Received(m, "Update") /\ UNCHANGED modelVars
      /\ call' = call \/ call' = [call EXCEPT ![m] = NoCall]
  BY DEF FinishWithoutData, FinishWithData, SendResult, Replied
<1>2. call'[m].type = "None" /\ taken'[m] = 0
  BY <1>1 DEF FinishWithoutData, FinishWithData, Replied, NoCall, DInv, DataTypes
<1>3. \E t \in Requests, key \in Keys \cup {None} :
        /\ SendResult(m, t, key)
        /\ key # None => <<m, key>> \in DOMAIN store /\ store[<<m, key>>] = currentTime
  <2>1. CASE FinishWithoutData(m)
    BY <2>1 DEF FinishWithoutData
  <2>2. CASE FinishWithData(m)
    <3>1. CallFits(m) /\ call[m].type = "Acknowledge" /\ Received(m, "Update")
      BY <2>2 DEF DInv, FinishWithData, Replied
    <3>2. /\ counter[m] - 1 \in Keys
          /\ <<m, counter[m] - 1>> \in DOMAIN store /\ store[<<m, counter[m] - 1>>] = modelTime[m]
      BY <3>1 DEF CallFits
    <3>3. modelTime[m] = currentTime
      BY <3>1, UpdatingModel
    <3> QED BY <2>2, <3>2, <3>3 DEF FinishWithData
  <2> QED BY <2>1, <2>2
<1>4. PICK t \in Requests, key \in Keys \cup {None} :
        /\ SendResult(m, t, key)
        /\ key # None => <<m, key>> \in DOMAIN store /\ store[<<m, key>>] = currentTime
  BY <1>3
<1>5. ModelStep(m)
  <2>1. HandleUpdate(m)
    BY <1>1, <1>4 DEF HandleUpdate
  <2> QED BY <2>1 DEF ModelStep
<1>6. Head(outbox'[m]).key = key
  <2>1. Answer(m, Result(t, key))
    BY <1>4 DEF SendResult
  <2>2. Head(outbox'[m]) = Result(t, key)
    BY <1>5, <2>1, OnlyAnswer DEF DInv, SafetyInv
  <2> QED BY <2>2 DEF Result
<1>7. \A k \in DOMAIN store : k[1] = m => KeyFits(k)'
  BY <1>1 DEF DInv, KeyFits, modelVars
<1> QED BY <1>1, <1>2, <1>4, <1>5, <1>6, <1>7, AnswerKeeps

-----------------------------------------------------------------------------
(* The invariant, and what follows from it.                                *)

\* Every step keeps the invariant.
LEMMA DNextInv == ASSUME PrefixOf = {}, DInv, [DNext]_<<vars, dataVars>> PROVE DInv'
<1>1. SafetyInv'
  BY DStepOfOrchestrator, NextSafety DEF DInv
<1>2. CASE UNCHANGED <<vars, dataVars>>
  <2>1. ASSUME NEW m \in Models PROVE CallFits(m)'
    <3>1. CallFits(m) /\ DOMAIN store \subseteq StoreKeys
      BY DEF DInv, DataTypes
    <3>2. UNCHANGED <<store, call, counter, taken, inbox, proc, modelTime>>
      BY <1>2 DEF vars, dataVars, modelVars
    <3> QED BY <3>1, <3>2, OtherCallFits
  <2>2. ToldIsKept'
    BY <1>2 DEF DInv, ToldIsKept, Kept, Key, Open, Received, Unread, vars, dataVars, connectedVars, modelVars
  <2> QED BY <1>1, <1>2, <2>1, <2>2
          DEF DInv, DataTypes, KeyFits, NewTimeIsNew, ResultsAreStored, vars, dataVars, orchestratorVars, modelVars
<1>3. CASE Brokering
  <2>1. CASE OrchestratorRun
    BY <1>1, <1>3, <2>1, RunKeeps DEF Brokering
  <2>2. ASSUME NEW m \in Models, Receive(m) PROVE DInv'
    BY <1>1, <1>3, <2>2, ReceiveKeeps DEF Brokering
  <2> QED BY <1>3, <2>1, <2>2 DEF Brokering
<1>4. ASSUME NEW m \in Models, Service(m) PROVE DInv'
  BY <1>4, ServeClearKeeps, ServeGetKeeps, ServePutKeeps DEF Service
<1>5. ASSUME NEW m \in Models, DModelStep(m) PROVE DInv'
  <2>1. ~FailToRead(m)
    BY DEF DInv, CallFits, FailToRead, Replied
  <2> QED BY <1>5, <2>1, LifeKeeps, FinishNewTimeKeeps, FinishUpdateKeeps, RequestsKeep, PutDataKeeps
          DEF DModelStep
<1> QED BY <1>2, <1>3, <1>4, <1>5 DEF DNext

\* The invariant holds in every state.
LEMMA DInvariant == ASSUME PrefixOf = {} PROVE DSpec => []DInv
<1>1. DInv /\ [DNext]_<<vars, dataVars>> => DInv'
  BY DNextInv
<1> QED BY DInitInv, <1>1, PTL DEF DSpec

\* When no model's name is a prefix of another's, what the models put in the Update Data
\* Service is there, under a key of its own, until everybody who was told of it has read
\* it, and only until the time moves on.
THEOREM UpdatesStayReadable == ASSUME PrefixOf = {} PROVE DSpec => []UpdatesAreKept
BY DInvariant, DInvIsKept, PTL

\* When no model's name is a prefix of another's, the orchestrator cannot tell the models
\* that exchange their data through the service from the models of Orchestrator: so
\* everything that is proved of Orchestrator holds for a distributed simulation.
THEOREM ImplementsOrchestrator == ASSUME PrefixOf = {} PROVE DSpec => KeepsProtocol
<1>1. DInit => Init
  BY DEF DInit
<1>2. DInv /\ [DNext]_<<vars, dataVars>> => [Next]_vars
  BY DStepOfOrchestrator
<1> QED BY DInvariant, <1>1, <1>2, PTL DEF DSpec, KeepsProtocol, Spec

\* When no model's name is a prefix of another's, the documentation is right to say that every
\* model manages its own keys: data is deleted by a CLEAR of the model that has put it.
THEOREM DataIsDeletedByItsOwner == ASSUME PrefixOf = {} PROVE DSpec => OnlyOwnDataDeleted
<1>1. ASSUME [DNext]_<<vars, dataVars>>
      PROVE  [\A k \in DOMAIN store \ DOMAIN store' : call[k[1]].type = "Clear"]_<<vars, dataVars>>
  <2>1. CASE \E m \in Models : ServeClear(m)
    <3>1. PICK m \in Models : ServeClear(m)
      BY <2>1
    <3>2. \A k \in DOMAIN store \ DOMAIN store' : k[1] = m
      BY <3>1 DEF ServeClear, HasPrefix
    <3> QED BY <3>1, <3>2 DEF ServeClear
  <2>2. CASE \E m \in Models : ServePut(m)
    <3>1. DOMAIN store \ DOMAIN store' = {}
      BY <2>2 DEF ServePut
    <3> QED BY <3>1
  <2>3. CASE ~ \E m \in Models : ServeClear(m) \/ ServePut(m)
    <3>1. store' = store
      BY <1>1, <2>3 DEF DNext, Brokering, Service, DModelStep, ServeGet, RegisterModel, StartNewTime,
           FinishNewTime, RequestData, TakeData, FailToRead, FinishWithoutData, PutData, FinishWithData,
           Quit, CrashModel, dataVars
    <3> QED BY <3>1
  <2> QED BY <2>1, <2>2, <2>3
<1> QED BY <1>1, PTL DEF DSpec, OnlyOwnDataDeleted

\* A distributed simulation has the safety of the protocol: updates are read at their time, no
\* request is passed over, no command refused, and the exit code is right.
COROLLARY SimulationIsSafe ==
  ASSUME PrefixOf = {}
  PROVE  DSpec => [](UpdatesAreCurrent /\ NoRequestSkipped /\ QuiescentBetweenTimes
                       /\ NoCommandRefused /\ ExitCodeIsTruthful)
BY ImplementsOrchestrator, UpdatesStayCurrent, RequestsAreServed, Quiescence, CommandsAreAccepted,
   ExitCodeTruth, PTL DEF KeepsProtocol
=============================================================================
