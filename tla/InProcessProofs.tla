--------------------------- MODULE InProcessProofs ---------------------------
(* The single thread of InProcess keeps the data of every update until it has *)
(* been read, although all models share one store that every NEW_TIME clears, *)
(* and it is one of the schedules of Orchestrator.                            *)
EXTENDS InProcess, OrchestratorSafety

\* The models that have a NEW_TIME before them.
Unaware == {m \in Models : inbox[m] # <<>> /\ Head(inbox[m]).type = "NewTime"}

\* The models from the one that has the turn to x, in the order of the turns.
Until(x) == {y \in Models : \/ turn <= y /\ y <= x
                            \/ x < turn /\ (turn <= y \/ y <= x)}

\* The models take their NEW_TIME in turn: before a model that has yet to take it
\* there is none that has gone on to anything else.
TurnOrder ==
  \A x \in Unaware : \A y \in Until(x) : y \in Unaware \/ (y = turn /\ outbox[turn] # <<>>)

\* A response is one that is waited for; that of a model that quits is its last, and the
\* data of a result is in the store.
Answers ==
  \A m \in Models : outbox[m] # <<>> =>
    LET r == Head(outbox[m]) IN
    /\ r.type \in ValidResponses(mstate[m])
    /\ r.type = "Error" => proc[m] = "crashed"
    /\ mstate[m] = "Finalizing" /\ r.type = "Acknowledge" => proc[m] = "exited"
    /\ r.key # None =>
         r.key \in DOMAIN store /\ store[r.key] = [origin |-> m, time |-> currentTime]

\* A model that runs until it has quit knows the last time it was to be told.
Alive ==
  \A m \in Models : proc[m] = "running" =>
    /\ mstate[m] = "Finalizing" => modelTime[m] = currentTime
    /\ mstate[m] # "Done"

\* The data in the store is of the current time, and then nobody will clear it, or it
\* is older, and then nobody has yet seen the current time.
StoreAge ==
  \/ DOMAIN store = {}
  \/ Unaware = {} /\ \A k \in DOMAIN store : store[k].time = currentTime
  \/ Unaware = Models /\ \A k \in DOMAIN store : store[k].time < currentTime

\* The key of the next data is not in use.
KeysAreBelow == \A k \in DOMAIN store : k < counter

Stored(u) == u.key \in DOMAIN store /\ store[u.key] = [origin |-> u.origin, time |-> u.time]

\* UpdatesCanBeRead, with the one command that a model has at most.
ToldIsStored ==
  \A m \in Models :
    /\ \A u \in Open(pendingUpdates[m]) : Stored(u)
    /\ inbox[m] # <<>> =>
         /\ \A u \in Open(Head(inbox[m]).updates) : Stored(u)
         /\ Head(inbox[m]).type # "Update" => Open(Head(inbox[m]).updates) = {}

PInv ==
  /\ SafetyInv /\ PTypeOK
  /\ TurnOrder /\ Answers /\ Alive /\ StoreAge /\ KeysAreBelow /\ ToldIsStored

-----------------------------------------------------------------------------
(* Consequences of the invariant.                                          *)

\* A command that is under way is the only one.
LEMMA OneCommand ==
  ASSUME TypeOK, ExchangeInv, NEW m \in Models
  PROVE  \/ inbox[m] = <<>> /\ DOMAIN inbox[m] = {}
         \/ /\ inbox[m] # <<>> /\ DOMAIN inbox[m] = {1} /\ Head(inbox[m]) = inbox[m][1]
            /\ Head(inbox[m]) \in Commands
<1>1. inbox[m] = <<>> \/ Len(inbox[m]) = 1
  BY DEF ExchangeInv, OneExchange
<1>2. inbox[m] \in Seq(Commands)
  BY DEF TypeOK
<1> QED BY <1>1, <1>2

\* What the models were told of can be read.
LEMMA ToldCanBeRead ==
  ASSUME TypeOK, ExchangeInv, ToldIsStored
  PROVE  UpdatesCanBeRead
<1> SUFFICES ASSUME NEW m \in Models,
                    NEW u \in Open(pendingUpdates[m]) \cup
                              UNION {Open(inbox[m][i].updates) : i \in DOMAIN inbox[m]}
             PROVE  Stored(u)
  BY DEF UpdatesCanBeRead, Open, Stored
<1>1. CASE u \in Open(pendingUpdates[m])
  BY <1>1 DEF ToldIsStored
<1>2. CASE u \in UNION {Open(inbox[m][i].updates) : i \in DOMAIN inbox[m]}
  <2>1. inbox[m] # <<>> /\ u \in Open(Head(inbox[m]).updates)
    BY <1>2, OneCommand
  <2> QED BY <2>1 DEF ToldIsStored
<1> QED BY <1>1, <1>2

\* A command can only be refused by the model itself, never by the store.
LEMMA CommandCanBeRead ==
  ASSUME PInv, NEW m \in Models, inbox[m] # <<>>
  PROVE  CanRead(m)
<1>1. \A u \in Open(Head(inbox[m]).updates) : u.key \in DOMAIN store
  BY DEF PInv, ToldIsStored, Stored
<1> QED BY <1>1 DEF CanRead, KeysOf, Open

\* When the model that has the turn has neither a NEW_TIME nor a response, nobody
\* has a NEW_TIME.
LEMMA QuietTurn ==
  ASSUME PInv, turn \notin Unaware, outbox[turn] = <<>>
  PROVE  Unaware = {}
<1>1. turn \in Nat /\ \A x \in Models : x \in Nat
  BY NAssumption DEF PInv, PTypeOK, Models
<1>2. \A x \in Models : turn \in Until(x)
  BY <1>1 DEF PInv, PTypeOK, Until
<1> QED BY <1>2 DEF PInv, TurnOrder, Unaware

\* The order of the turns goes on from the next model.
LEMMA NextUntil ==
  ASSUME turn \in Models, turn' = NextTurn, NEW x \in Models, x # turn, NEW y \in Until(x)'
  PROVE  y \in Until(x) /\ y # turn
<1>1. N \in Nat \ {0} /\ turn \in 1..N /\ x \in 1..N /\ y \in 1..N
  BY NAssumption DEF Models, Until
<1> QED BY <1>1 DEF Until, NextTurn, Models

\* A store that may be cleared holds nothing that is still to be read.
LEMMA NothingToRead ==
  ASSUME PInv, Unaware # {}, NEW m \in Models
  PROVE  /\ Open(pendingUpdates[m]) = {}
         /\ inbox[m] # <<>> => Open(Head(inbox[m]).updates) = {}
<1>1. DOMAIN store = {} \/ \A k \in DOMAIN store : store[k].time # currentTime
  <2>1. \A k \in DOMAIN store : store[k].time \in Int
    BY TimelineAssumption DEF PInv, PTypeOK, Times
  <2>2. currentTime \in Int \cup {None}
    BY TimelineAssumption DEF PInv, SafetyInv, TypeOK, Times
  <2>3. DOMAIN store = {} \/ \A k \in DOMAIN store : store[k].time < currentTime
    BY DEF PInv, StoreAge
  <2> QED BY <2>1, <2>2, <2>3
<1>2. ASSUME NEW u, Stored(u) PROVE u.time # currentTime
  BY <1>1, <1>2 DEF Stored
<1>3. ASSUME NEW u \in Open(pendingUpdates[m]) PROVE FALSE
  BY <1>2 DEF PInv, ToldIsStored, SafetyInv, Currency, ProducedAt, Open
<1>4. ASSUME inbox[m] # <<>>, NEW u \in Open(Head(inbox[m]).updates) PROVE FALSE
  <2>1. Head(inbox[m]).type = "Update" /\ Stored(u)
    BY <1>4 DEF PInv, ToldIsStored
  <2>2. ProducedAt(currentTime, Head(inbox[m]).updates)
    BY <1>4, <2>1 DEF PInv, SafetyInv, Currency
  <2> QED BY <1>2, <2>1, <2>2 DEF ProducedAt, Open
<1> QED BY <1>3, <1>4

\* No NEW_TIME can clear data of its own time.
LEMMA StoreIsSafe ==
  ASSUME PInv
  PROVE  NobodyClearsNewData
<1> SUFFICES ASSUME NEW k \in DOMAIN store, store[k].time = currentTime
             PROVE  /\ \A m \in Models : proc[m] = "running" => modelTime[m] = currentTime
                    /\ \A j \in DOMAIN store : store[j].time = currentTime
  BY DEF NobodyClearsNewData
<1>1. Unaware = {} /\ \A j \in DOMAIN store : store[j].time = currentTime
  <2>1. store[k].time \in Int
    BY TimelineAssumption DEF PInv, PTypeOK, Times
  <2> QED BY <2>1 DEF PInv, StoreAge
<1>2. ASSUME NEW m \in Models, proc[m] = "running" PROVE modelTime[m] = currentTime
  <2>1. /\ TypeOK /\ ExchangeInv /\ Currency /\ Answers /\ Alive
        /\ mstate[m] \in ModelStates
    BY DEF PInv, SafetyInv, TypeOK
  <2>2. CASE mstate[m] \in {"Registration", "Idle", "PendingMoreUpdates", "Updating"}
    BY <2>1, <2>2 DEF Currency
  <2>3. CASE mstate[m] \in {"Finalizing", "Done"}
    BY <1>2, <2>1, <2>3 DEF Alive
  <2>4. CASE mstate[m] = "NewTime"
    <3>1. inbox[m] = <<>>
      <4> SUFFICES ASSUME inbox[m] # <<>> PROVE FALSE
        OBVIOUS
      <4>1. Head(inbox[m]).type \in {"NewTime", "Update", "Quit"}
        BY <2>1, OneCommand DEF Commands
      <4> QED BY <1>1, <2>1, <2>4, <4>1 DEF Unaware, Currency, ExchangeInv, LifeCycle
    <3>2. outbox[m] # <<>>
      BY <1>2, <2>1, <2>4, <3>1 DEF ExchangeInv, OneExchange, BusyStates
    <3>3. Head(outbox[m]).type \in {"Acknowledge", "Error"}
      BY <2>1, <2>4, <3>2 DEF Answers, ValidResponses
    <3> QED BY <1>2, <2>1, <2>4, <3>2, <3>3 DEF Answers, Currency
  <2> QED BY <2>1, <2>2, <2>3, <2>4 DEF ModelStates, BusyStates
<1> QED BY <1>1, <1>2

-----------------------------------------------------------------------------
(* Every step is one of Orchestrator's.                                    *)

\* The runner only chooses whose turn it is, and an update can be read, so that a model
\* fails only where Orchestrator lets it fail.
LEMMA StepOfOrchestrator ==
  ASSUME PInv, [PNext]_<<vars, runnerVars>>
  PROVE  [Next]_vars
<1>1. turn \in Models
  BY DEF PInv, PTypeOK
<1>2. CASE UNCHANGED <<vars, runnerVars>>
  BY <1>2
<1>3. CASE RunOrchestrator
  BY <1>3 DEF RunOrchestrator, Next
<1>4. CASE HandleResponse
  BY <1>1, <1>4 DEF HandleResponse, Next
<1>5. CASE NoCommand \/ InitializeRaises
  BY <1>5 DEF NoCommand, InitializeRaises
<1>6. CASE Initialize \/ TakeNewTime \/ TakeQuit
  BY <1>1, <1>6 DEF Initialize, TakeNewTime, TakeQuit, Next, ModelStep
<1>7. CASE UpdateWithoutData
  <2>1. HandleUpdate(turn)
    BY <1>7 DEF UpdateWithoutData, HandleUpdate
  <2> QED BY <1>1, <2>1 DEF Next, ModelStep
<1>8. CASE UpdateWithData
  <2>1. HandleUpdate(turn)
    BY <1>8 DEF UpdateWithData, HandleUpdate
  <2> QED BY <1>1, <2>1 DEF Next, ModelStep
<1>9. CASE HandlerRaises
  <2>1. turn \in Fragile
    BY <1>1, <1>9, CommandCanBeRead DEF HandlerRaises, Received
  <2> QED BY <1>1, <1>9, <2>1 DEF HandlerRaises, Crash, Next, ModelStep
<1> QED BY <1>2, <1>3, <1>4, <1>5, <1>6, <1>7, <1>8, <1>9 DEF PNext, Turn

-----------------------------------------------------------------------------
(* The steps keep the invariant.                                           *)

\* Before the first turn nothing is stored, and nobody is told of anything.
LEMMA PInitInv == PInit => PInv
<1> SUFFICES ASSUME PInit PROVE PInv
  OBVIOUS
<1>1. SafetyInv /\ Init
  BY InitSafety DEF PInit
<1>2. DOMAIN store = {} /\ Unaware = {}
  BY DEF PInit, Init, Unaware
<1>3. \A m \in Models : outbox[m] = <<>> /\ inbox[m] = <<>> /\ Open(pendingUpdates[m]) = {}
                        /\ proc[m] = "starting"
  BY OpenQueues DEF PInit, Init
<1>4. PTypeOK
  <2>1. turn = 1 /\ counter = 0 /\ aborted \in BOOLEAN
    BY Zenon DEF PInit
  <2>2. turn \in Models /\ counter \in Nat
    BY <2>1, NAssumption DEF Models
  <2> QED BY <1>1, <1>2, <1>3, <2>1, <2>2 DEF PTypeOK, SafetyInv
<1> QED BY <1>1, <1>2, <1>3, <1>4
        DEF PInv, TurnOrder, Answers, Alive, StoreAge, KeysAreBelow, ToldIsStored

\* What is handed on can be read if what there was can, and what is new.
LEMMA ToldStaysStored ==
  ASSUME ToldIsStored, store' = store, NEW new, \A u \in new : Stored(u),
         \A m \in Models : ToldOnlyOf(m, new)
  PROVE  ToldIsStored'
<1>1. \A u : Stored(u)' <=> Stored(u)
  BY DEF Stored
<1> SUFFICES ASSUME NEW m \in Models
             PROVE  /\ \A u \in Open(pendingUpdates'[m]) : Stored(u)'
                    /\ inbox'[m] # <<>> =>
                         /\ \A u \in Open(Head(inbox'[m]).updates) : Stored(u)'
                         /\ Head(inbox'[m]).type # "Update" => Open(Head(inbox'[m]).updates) = {}
  BY DEF ToldIsStored
<1>2. \A u \in Open(pendingUpdates[m]) \cup new : Stored(u)
  BY DEF ToldIsStored
<1>3. CASE inbox'[m] = inbox[m]
  BY <1>1, <1>2, <1>3 DEF ToldOnlyOf, ToldIsStored
<1>4. CASE inbox'[m] # inbox[m]
  BY <1>1, <1>2, <1>4 DEF ToldOnlyOf
<1> QED BY <1>3, <1>4

\* The orchestrator runs on between two responses: no store is touched.
LEMMA RunOrchestratorKeeps ==
  ASSUME PInv, RunOrchestrator, SafetyInv'
  PROVE  PInv'
<1>1. SafetyInv /\ OrchestratorRun /\ UNCHANGED runnerVars
  BY DEF PInv, RunOrchestrator
<1>2. /\ UNCHANGED <<outbox, proc, modelTime>>
      /\ \A s \in Models :
              /\ ToldOnlyOf(s, {})
              /\ mstate[s] \in BusyStates => mstate'[s] = mstate[s] /\ inbox'[s] = inbox[s]
              /\ mstate'[s] = "Finalizing" => mstate[s] \in {"Idle", "Finalizing"}
              /\ mstate'[s] = "Done" => mstate[s] = "Done"
  BY <1>1, OrchestratorRunData
<1>3. \/ /\ currentTime' = currentTime
         /\ \A s \in Models :
              inbox'[s] # inbox[s] => Head(inbox'[s]).type \in {"Update", "Quit"}
      \/ /\ currentTime' \in Times
         /\ currentTime # None => currentTime < currentTime'
         /\ \A s \in Models :
              /\ mstate[s] = "Idle" /\ mstate'[s] = "NewTime"
              /\ inbox'[s] # <<>> /\ Head(inbox'[s]).type = "NewTime"
  BY <1>1, OrchestratorRunData
<1>4. store' = store /\ counter' = counter /\ turn' = turn /\ aborted' = aborted
  BY <1>1 DEF runnerVars
<1>5. PTypeOK'
  BY <1>2, <1>4 DEF PInv, PTypeOK, SafetyInv
<1>6. KeysAreBelow'
  BY <1>4 DEF PInv, KeysAreBelow
<1>7. ToldIsStored'
  BY <1>2, <1>4, ToldStaysStored DEF PInv
<1>8. CASE /\ currentTime' = currentTime
           /\ \A s \in Models :
                inbox'[s] # inbox[s] => Head(inbox'[s]).type \in {"Update", "Quit"}
  <2>1. Unaware' = Unaware
    BY <1>2, <1>8 DEF Unaware, ToldOnlyOf
  <2>2. TurnOrder' /\ StoreAge'
    BY <1>2, <1>4, <1>8, <2>1 DEF PInv, TurnOrder, StoreAge, Until
  <2>3. Answers'
    <3>1. \A s \in Models : outbox[s] # <<>> => mstate'[s] = mstate[s]
      BY <1>1, <1>2, RespondingModel DEF SafetyInv
    <3> QED BY <1>2, <1>4, <1>8, <3>1 DEF PInv, Answers
  <2>4. Alive'
    BY <1>2, <1>8 DEF PInv, Alive, SafetyInv, Currency
  <2> QED BY <1>5, <1>6, <1>7, <2>2, <2>3, <2>4 DEF PInv
<1>9. CASE /\ currentTime' \in Times
           /\ currentTime # None => currentTime < currentTime'
           /\ \A s \in Models :
                /\ mstate[s] = "Idle" /\ mstate'[s] = "NewTime"
                /\ inbox'[s] # <<>> /\ Head(inbox'[s]).type = "NewTime"
  <2>1. \A s \in Models : inbox[s] = <<>> /\ outbox[s] = <<>>
    BY <1>1, <1>9, FreeModel DEF SafetyInv, BusyStates
  <2>2. Unaware = {} /\ Unaware' = Models /\ Models # {}
    BY <1>9, <2>1 DEF Unaware, PInv, PTypeOK
  <2>3. StoreAge'
    <3>1. \A k \in DOMAIN store : store[k].time = currentTime
      BY <2>2 DEF PInv, StoreAge
    <3>2. \A k \in DOMAIN store : store[k].time \in Times
      BY DEF PInv, PTypeOK
    <3>3. \A k \in DOMAIN store : store[k].time < currentTime'
      BY <1>9, <3>1, <3>2, NoneAssumption DEF Times
    <3> QED BY <1>4, <2>2, <3>3 DEF StoreAge
  <2>4. TurnOrder'
    BY <2>2 DEF TurnOrder, Until
  <2>5. Answers' /\ Alive'
    BY <1>2, <1>9, <2>1 DEF Answers, Alive
  <2> QED BY <1>5, <1>6, <1>7, <2>3, <2>4, <2>5 DEF PInv
<1> QED BY <1>3, <1>8, <1>9

\* The model that has the turn may leave it unused, or end the run.
LEMMA IdleTurnKeeps ==
  ASSUME PInv, NoCommand \/ InitializeRaises, SafetyInv'
  PROVE  PInv'
<1>1. UNCHANGED vars /\ store' = store /\ counter' = counter /\ turn \in Models
  BY DEF NoCommand, InitializeRaises, PInv, PTypeOK
<1>2. UNCHANGED <<currentTime, mstate, pendingUpdates, inbox, outbox, proc, modelTime>>
  BY <1>1 DEF vars, orchestratorVars, connectedVars, modelVars
<1>3. Unaware' = Unaware
  BY <1>2 DEF Unaware
<1>4. Answers' /\ Alive' /\ StoreAge' /\ KeysAreBelow' /\ ToldIsStored'
  BY <1>1, <1>2, <1>3 DEF PInv, Answers, Alive, StoreAge, KeysAreBelow, ToldIsStored, Stored
<1>5. CASE NoCommand
  <2>1. inbox[turn] = <<>> /\ outbox[turn] = <<>> /\ turn' = NextTurn /\ aborted' = aborted
    BY <1>5 DEF NoCommand
  <2>2. Unaware = {}
    BY <2>1, QuietTurn DEF Unaware
  <2>3. TurnOrder'
    BY <1>3, <2>2 DEF TurnOrder
  <2>4. \A m \in Models : outbox[m] = <<>>
    BY <2>1 DEF PInv, PTypeOK
  <2>5. turn' \in Models
    BY <1>1, <2>1, NAssumption DEF NextTurn, Models
  <2>6. PTypeOK'
    BY <1>1, <1>2, <2>1, <2>4, <2>5 DEF PInv, PTypeOK, SafetyInv
  <2> QED BY <1>4, <2>3, <2>6 DEF PInv
<1>6. CASE InitializeRaises
  <2>1. turn' = turn /\ aborted' \in BOOLEAN
    BY <1>6, Zenon DEF InitializeRaises
  <2>2. TurnOrder'
    BY <1>2, <1>3, <2>1 DEF PInv, TurnOrder, Until
  <2>3. PTypeOK'
    BY <1>1, <1>2, <2>1 DEF PInv, PTypeOK, SafetyInv
  <2> QED BY <1>4, <2>2, <2>3 DEF PInv
<1> QED BY <1>5, <1>6

\* A model that has quit has sent its last response, and a model that is told to quit
\* knows the time: no response is out of place.
LEMMA ReceiveKeepsAlive ==
  ASSUME PInv, Receive(turn)
  PROVE  Alive'
<1>1. /\ TypeOK /\ ExchangeInv /\ ModelStatus /\ Currency /\ turn \in Models
      /\ Alive /\ Answers
  BY DEF PInv, SafetyInv, PTypeOK
<1>2. /\ UNCHANGED <<currentTime, overlaps, proc, modelTime>>
      /\ outbox[turn] # <<>>
      /\ \A s \in Models \ {turn} :
           \/ mstate'[s] = mstate[s]
           \/ mstate'[s] \in {"Updating", "PendingMoreUpdates"}
  BY <1>1, ReceiveData DEF PInv
<1>3. PICK notified, news, updates, quit, hasFailed, C, W, own :
        Reception(turn, notified, news, updates, quit, hasFailed, C, W, own)
  BY <1>1, ReceiveEffect
<1>4. /\ Handling(turn, notified, news, updates, quit, hasFailed)
      /\ mstate'[turn] = own
      /\ own \in {"Idle", "PendingMoreUpdates", "Done", "Updating", "Finalizing"}
      /\ \E waiting : own = AfterResponse(mstate[turn], quit, hasFailed, updates, waiting)
  BY <1>1, <1>3 DEF Reception, Effect
<1>5. ASSUME proc[turn] = "running"
      PROVE  own # "Done" /\ (own = "Finalizing" => modelTime[turn] = currentTime)
  <2>1. Head(outbox[turn]).type \in ValidResponses(mstate[turn]) \ {"Error"}
    BY <1>1, <1>2, <1>5 DEF Answers
  <2>2. /\ hasFailed = failed[turn]
        /\ \/ mstate[turn] \in {"Registration", "Updating"}
           \/ mstate[turn] \in {"NewTime", "Finalizing"} /\ Head(outbox[turn]).type = "Acknowledge"
    BY <1>4, <2>1 DEF Handling
  <2>3. mstate[turn] # "Finalizing"
    BY <1>1, <1>2, <1>5, <2>2 DEF Answers
  <2>4. ~hasFailed
    BY <1>1, <2>2, <2>3 DEF ModelStatus, Deaf
  <2>5. own # "Done"
    BY <1>4, <2>3, <2>4 DEF AfterResponse
  <2> QED BY <1>1, <1>2, <2>2, <2>3, <2>5 DEF Currency
<1> QED BY <1>1, <1>2, <1>4, <1>5 DEF Alive

\* The orchestrator handles the response of the model whose turn it was, and the next one
\* has its turn.
LEMMA HandleResponseKeeps ==
  ASSUME PInv, HandleResponse, SafetyInv'
  PROVE  PInv'
<1>1. /\ Receive(turn) /\ turn \in Models /\ turn' = NextTurn
      /\ store' = store /\ counter' = counter /\ aborted' = aborted
  BY DEF PInv, PTypeOK, HandleResponse
<1>2. /\ currentTime' = currentTime
      /\ outbox[turn] # <<>>
      /\ \A s \in Models :
           /\ outbox'[s] = IF s = turn THEN <<>> ELSE outbox[s]
           /\ ToldOnlyOf(s, NewsOf(turn))
           /\ inbox'[s] # inbox[s] => Head(inbox'[s]).type \in {"Update", "Quit"}
  BY <1>1, ReceiveData DEF PInv
<1>3. \A s \in Models : outbox'[s] = <<>>
  BY <1>1, <1>2 DEF PInv, PTypeOK
<1>4. Unaware' = Unaware /\ turn \notin Unaware
  <2>1. inbox[turn] = <<>>
    BY <1>1, <1>2, RespondingModel DEF PInv, SafetyInv
  <2> QED BY <1>2, <2>1 DEF Unaware, ToldOnlyOf
<1>5. PTypeOK'
  <2>1. turn' \in Models
    BY <1>1, NAssumption DEF NextTurn, Models
  <2> QED BY <1>1, <1>3, <2>1 DEF PInv, PTypeOK, SafetyInv
<1>6. TurnOrder'
  <2> SUFFICES ASSUME NEW x \in Unaware, NEW y \in Until(x)' PROVE y \in Unaware
    BY <1>4 DEF TurnOrder
  <2>1. x \in Models /\ x # turn
    BY <1>4 DEF Unaware
  <2>2. y \in Until(x) /\ y # turn
    BY <1>1, <2>1, NextUntil
  <2> QED BY <2>2 DEF PInv, TurnOrder
<1>7. StoreAge' /\ KeysAreBelow' /\ Answers'
  BY <1>1, <1>2, <1>3, <1>4 DEF PInv, StoreAge, KeysAreBelow, Answers
<1>8. \A u \in NewsOf(turn) : Stored(u)
  <2>1. CASE Head(outbox[turn]).key = None
    BY <2>1 DEF NewsOf
  <2>2. CASE Head(outbox[turn]).key # None
    <3>1. LET key == Head(outbox[turn]).key IN
          key \in DOMAIN store /\ store[key] = [origin |-> turn, time |-> currentTime]
      BY <1>1, <1>2, <2>2 DEF PInv, Answers
    <3>2. LET u == DataUpdate(turn, Head(outbox[turn]).key) IN
          u.key = Head(outbox[turn]).key /\ u.origin = turn /\ u.time = currentTime
      BY DEF DataUpdate
    <3> QED BY <2>2, <3>1, <3>2 DEF NewsOf, Stored
  <2> QED BY <2>1, <2>2
<1>9. ToldIsStored'
  BY <1>1, <1>2, <1>8, ToldStaysStored DEF PInv
<1>10. Alive'
  BY <1>1, ReceiveKeepsAlive
<1> QED BY <1>5, <1>6, <1>7, <1>9, <1>10 DEF PInv

\* A step of the model that has the turn: it has taken its command and has answered.
LEMMA TurnEffect ==
  ASSUME PInv, ModelStep(turn), turn' = turn
  PROVE  /\ turn \in Models
         /\ UNCHANGED <<currentTime, mstate, pendingUpdates>>
         /\ outbox[turn] = <<>> /\ outbox'[turn] # <<>>
         /\ inbox'[turn] = <<>>
         /\ \A s \in Models \ {turn} :
              /\ inbox'[s] = inbox[s] /\ outbox[s] = <<>> /\ outbox'[s] = <<>>
              /\ proc'[s] = proc[s] /\ modelTime'[s] = modelTime[s]
         /\ mstate[turn] \in BusyStates
         /\ (proc[turn] = "starting" /\ mstate[turn] = "Registration")
            \/ (proc[turn] = "running" /\ inbox[turn] # <<>>)
         /\ Unaware' = Unaware \ {turn}
         /\ TurnOrder'
         /\ Alive'
<1>1. TypeOK /\ ExchangeInv /\ turn \in Models
  BY DEF PInv, SafetyInv, PTypeOK
<1>2. /\ UNCHANGED <<orchestratorVars, connectedVars>>
      /\ \A s \in Models \ {turn} :
           /\ inbox'[s] = inbox[s] /\ outbox'[s] = outbox[s]
           /\ proc'[s] = proc[s] /\ modelTime'[s] = modelTime[s]
      /\ mstate[turn] \in BusyStates
      /\ inbox'[turn] = <<>> /\ outbox[turn] = <<>>
      /\ \/ proc[turn] = "starting" /\ inbox[turn] = <<>>
         \/ proc[turn] = "running" /\ inbox[turn] # <<>>
      /\ \E r \in Responses : outbox'[turn] = Append(<<>>, r)
  BY <1>1, ModelStepEffect
<1>3. UNCHANGED <<currentTime, mstate, pendingUpdates>>
  BY <1>2 DEF orchestratorVars, connectedVars
<1>4. outbox'[turn] # <<>> /\ \A s \in Models \ {turn} : outbox[s] = <<>>
  BY <1>2, SingleMessage DEF PInv, PTypeOK
<1>5. Unaware' = Unaware \ {turn}
  BY <1>1, <1>2 DEF Unaware
<1>6. TurnOrder'
  BY <1>4, <1>5 DEF PInv, TurnOrder, Until
<1>7. proc[turn] = "starting" => mstate[turn] = "Registration"
  BY <1>1 DEF ExchangeInv, LifeCycle
<1>8. Alive'
  <2>1. mstate[turn] = "Finalizing" => modelTime'[turn] = modelTime[turn]
    <3>1. CASE HandleNewTime(turn)
      BY <1>1, <3>1 DEF HandleNewTime, Received, PInv, SafetyInv, Currency
    <3>2. CASE ModelStep(turn) /\ ~HandleNewTime(turn)
      BY <3>2 DEF ModelStep, Register, HandleUpdate, SendResult, HandleQuit, Crash, Fail, Misbehave, modelVars
    <3> QED BY <3>1, <3>2
  <2>2. mstate[turn] # "Done" /\ (mstate[turn] = "Finalizing" => proc[turn] = "running")
    BY <1>2, <1>7 DEF BusyStates
  <2> QED BY <1>1, <1>2, <1>3, <2>1, <2>2 DEF PInv, Alive
<1> QED BY <1>1, <1>2, <1>3, <1>4, <1>5, <1>6, <1>7, <1>8

\* An exception of a model is its own: what it was told to read can be read.
LEMMA RaisesIsCrash ==
  ASSUME PInv, HandlerRaises
  PROVE  Crash(turn) /\ turn \in Models /\ inbox[turn] # <<>>
<1>1. turn \in Models /\ inbox[turn] # <<>> /\ Fail(turn)
  BY DEF PInv, PTypeOK, HandlerRaises
<1>2. turn \in Fragile
  BY <1>1, CommandCanBeRead DEF HandlerRaises
<1> QED BY <1>1, <1>2 DEF Crash

\* The type of the command that a model has fits the state of its state machine.
LEMMA CommandFits ==
  ASSUME PInv, NEW m \in Models, inbox[m] # <<>>
  PROVE  /\ Head(inbox[m]).type = "NewTime" => mstate[m] = "NewTime"
         /\ Head(inbox[m]).type = "Update" => mstate[m] = "Updating"
         /\ Head(inbox[m]).type = "Quit" => mstate[m] = "Finalizing"
BY DEF PInv, SafetyInv, Currency, ExchangeInv, LifeCycle

\* The first response of an empty channel.
LEMMA AnswerSent ==
  ASSUME TypeOK, NEW m \in Models, NEW r \in Responses, outbox[m] = <<>>, Answer(m, r)
  PROVE  Head(outbox'[m]) = r
<1>1. outbox'[m] = Append(<<>>, r)
  BY DEF Answer, TypeOK
<1> QED BY <1>1, SingleMessage

\* A turn that leaves the store alone and is not a NEW_TIME.
LEMMA StoreUntouched ==
  ASSUME PInv, ModelStep(turn), turn' = turn, turn \notin Unaware,
         store' = store, counter' = counter, aborted' = aborted, SafetyInv'
  PROVE  PTypeOK' /\ StoreAge' /\ KeysAreBelow' /\ ToldIsStored'
<1>1. /\ turn \in Models
      /\ UNCHANGED <<currentTime, mstate, pendingUpdates>>
      /\ outbox[turn] = <<>> /\ inbox'[turn] = <<>>
      /\ \A s \in Models \ {turn} : inbox'[s] = inbox[s] /\ outbox'[s] = <<>>
      /\ Unaware' = Unaware \ {turn}
  BY TurnEffect
<1>2. Unaware = {} /\ Unaware' = {}
  BY <1>1, QuietTurn
<1>3. PTypeOK'
  BY <1>1 DEF PInv, PTypeOK, SafetyInv
<1>4. StoreAge' /\ KeysAreBelow'
  BY <1>1, <1>2 DEF PInv, StoreAge, KeysAreBelow
<1>5. ToldIsStored'
  BY <1>1 DEF PInv, ToldIsStored, Stored
<1> QED BY <1>3, <1>4, <1>5

\* A turn in which a NEW_TIME clears the store: no model was told of data in it.
LEMMA StoreCleared ==
  ASSUME PInv, ModelStep(turn), turn' = turn, turn \in Unaware,
         store' = <<>>, counter' = 0, aborted' = aborted, SafetyInv'
  PROVE  PTypeOK' /\ StoreAge' /\ KeysAreBelow' /\ ToldIsStored'
<1>1. /\ turn \in Models
      /\ UNCHANGED <<currentTime, mstate, pendingUpdates>>
      /\ inbox'[turn] = <<>>
      /\ \A s \in Models \ {turn} : inbox'[s] = inbox[s] /\ outbox'[s] = <<>>
  BY TurnEffect
<1>2. DOMAIN store' = {} /\ counter' \in Nat
  OBVIOUS
<1>3. PTypeOK'
  BY <1>1, <1>2 DEF PInv, PTypeOK, SafetyInv
<1>4. StoreAge' /\ KeysAreBelow'
  BY <1>2 DEF StoreAge, KeysAreBelow
<1>5. \A m \in Models :
        /\ Open(pendingUpdates[m]) = {}
        /\ inbox[m] # <<>> => Open(Head(inbox[m]).updates) = {}
  BY NothingToRead
<1>6. ToldIsStored'
  BY <1>1, <1>5 DEF ToldIsStored
<1> QED BY <1>3, <1>4, <1>6

\* A turn in which data is put in the store, under a key of its own.
LEMMA StoreExtended ==
  ASSUME PInv, UpdateWithData, ModelStep(turn), SafetyInv'
  PROVE  PTypeOK' /\ StoreAge' /\ KeysAreBelow' /\ ToldIsStored'
         /\ counter \in DOMAIN store' /\ store'[counter] = [origin |-> turn, time |-> currentTime]
<1>1. /\ turn' = turn /\ aborted' = aborted /\ counter' = counter + 1
      /\ counter \in Keys /\ counter \in Nat
      /\ store' = [k \in DOMAIN store \cup {counter} |->
                     IF k = counter THEN [origin |-> turn, time |-> modelTime[turn]] ELSE store[k]]
      /\ inbox[turn] # <<>> /\ Head(inbox[turn]).type = "Update"
  BY DEF UpdateWithData, Received, PInv, PTypeOK
<1>2. /\ turn \in Models
      /\ UNCHANGED <<currentTime, mstate, pendingUpdates>>
      /\ outbox[turn] = <<>> /\ inbox'[turn] = <<>>
      /\ \A s \in Models \ {turn} : inbox'[s] = inbox[s] /\ outbox'[s] = <<>>
      /\ Unaware' = Unaware \ {turn}
  BY <1>1, TurnEffect
<1>3. Unaware = {} /\ Unaware' = {}
  BY <1>1, <1>2, QuietTurn DEF Unaware
<1>4. mstate[turn] = "Updating" /\ modelTime[turn] = currentTime /\ currentTime \in Times
  <2>1. mstate[turn] = "Updating"
    BY <1>1, <1>2, CommandFits
  <2> QED BY <1>2, <2>1 DEF PInv, SafetyInv, Currency, Phases, Deaf, TypeOK
<1>5. counter \notin DOMAIN store
  BY <1>1 DEF PInv, KeysAreBelow
<1>6. /\ DOMAIN store' = DOMAIN store \cup {counter}
      /\ store'[counter] = [origin |-> turn, time |-> currentTime]
      /\ \A k \in DOMAIN store : store'[k] = store[k]
  BY <1>1, <1>4, <1>5
<1>7. PTypeOK'
  <2>1. \A k \in DOMAIN store' : k \in Keys /\ store'[k] \in [origin : Models, time : Times]
    BY <1>1, <1>2, <1>4, <1>6 DEF PInv, PTypeOK
  <2>2. turn' \in Models /\ counter' \in Nat /\ aborted' \in BOOLEAN
    BY <1>1, <1>2 DEF PInv, PTypeOK
  <2>3. \A m \in Models : outbox'[m] # <<>> => m = turn'
    BY <1>1, <1>2
  <2>4. TypeOK'
    BY DEF SafetyInv
  <2> HIDE DEF Models
  <2> QED BY <2>1, <2>2, <2>3, <2>4 DEF PTypeOK
<1>8. StoreAge'
  <2>1. \A k \in DOMAIN store : store[k].time = currentTime
    BY <1>2, <1>3 DEF PInv, StoreAge
  <2> QED BY <1>2, <1>3, <1>6, <2>1 DEF StoreAge
<1>9. KeysAreBelow'
  <2>1. \A k \in DOMAIN store : k \in Nat /\ k < counter
    BY KeysAssumption DEF PInv, PTypeOK, KeysAreBelow
  <2> QED BY <1>1, <1>6, <2>1 DEF KeysAreBelow
<1>10. ToldIsStored'
  <2>1. \A u : Stored(u) => Stored(u)'
    BY <1>6 DEF Stored
  <2> SUFFICES ASSUME NEW m \in Models
               PROVE  /\ \A u \in Open(pendingUpdates'[m]) : Stored(u)'
                      /\ inbox'[m] # <<>> =>
                           /\ \A u \in Open(Head(inbox'[m]).updates) : Stored(u)'
                           /\ Head(inbox'[m]).type # "Update" => Open(Head(inbox'[m]).updates) = {}
    BY DEF ToldIsStored
  <2>2. pendingUpdates'[m] = pendingUpdates[m] /\ (inbox'[m] # <<>> => inbox'[m] = inbox[m])
    BY <1>2
  <2>3. /\ \A u \in Open(pendingUpdates[m]) : Stored(u)
        /\ inbox[m] # <<>> =>
             /\ \A u \in Open(Head(inbox[m]).updates) : Stored(u)
             /\ Head(inbox[m]).type # "Update" => Open(Head(inbox[m]).updates) = {}
    BY DEF PInv, ToldIsStored
  <2> QED BY <2>1, <2>2, <2>3
<1> QED BY <1>6, <1>7, <1>8, <1>9, <1>10

\* A model takes a command: it reads what it is told of, purges its store when a time is new,
\* and stores its own result.
LEMMA ModelTurnKeeps ==
  ASSUME PInv, Initialize \/ TakeNewTime \/ UpdateWithoutData \/ UpdateWithData \/ TakeQuit \/ HandlerRaises,
         SafetyInv'
  PROVE  PInv'
<1>1. turn' = turn /\ aborted' = aborted /\ turn \in Models /\ TypeOK
  BY DEF Initialize, TakeNewTime, UpdateWithoutData, UpdateWithData, TakeQuit, HandlerRaises, runnerVars,
         PInv, PTypeOK
<1>2. ModelStep(turn)
  <2>1. HandlerRaises => Crash(turn)
    BY RaisesIsCrash
  <2>2. UpdateWithoutData \/ UpdateWithData => HandleUpdate(turn)
    BY DEF UpdateWithoutData, UpdateWithData, HandleUpdate
  <2> QED BY <2>1, <2>2 DEF Initialize, TakeNewTime, TakeQuit, ModelStep
<1>3. /\ UNCHANGED <<currentTime, mstate, pendingUpdates>>
      /\ outbox[turn] = <<>>
      /\ \A s \in Models \ {turn} : outbox'[s] = <<>>
      /\ mstate[turn] \in BusyStates
      /\ (proc[turn] = "starting" /\ mstate[turn] = "Registration")
            \/ (proc[turn] = "running" /\ inbox[turn] # <<>>)
      /\ TurnOrder' /\ Alive'
  BY <1>1, <1>2, TurnEffect
<1>4. SUFFICES /\ PTypeOK' /\ StoreAge' /\ KeysAreBelow' /\ ToldIsStored'
               /\ LET r == Head(outbox'[turn]) IN
                  /\ r.type \in ValidResponses(mstate[turn])
                  /\ r.type = "Error" => proc'[turn] = "crashed"
                  /\ mstate[turn] = "Finalizing" /\ r.type = "Acknowledge" => proc'[turn] = "exited"
                  /\ r.key # None =>
                       r.key \in DOMAIN store' /\ store'[r.key] = [origin |-> turn, time |-> currentTime]
  BY <1>3 DEF PInv, Answers
<1>5. \A type \in ResponseTypes :
        /\ Answer(turn, Response(type)) => Head(outbox'[turn]) = Response(type)
        /\ Response(type).type = type /\ Response(type).key = None
  BY <1>1, <1>3, AnswerSent, ResponseTypesOK DEF Response
<1>6. \A t \in Requests, key \in Keys \cup {None} :
        /\ Answer(turn, Result(t, key)) => Head(outbox'[turn]) = Result(t, key)
        /\ Result(t, key).type = "Result" /\ Result(t, key).key = key
  BY <1>1, <1>3, AnswerSent, ResponseTypesOK DEF Result
<1>7. CASE Initialize
  <2>1. proc[turn] = "starting" /\ Answer(turn, Response("Registration")) /\ store' = store /\ counter' = counter
    BY <1>7 DEF Initialize, Register, runnerVars
  <2>2. mstate[turn] = "Registration" /\ turn \notin Unaware
    BY <1>3, <2>1, CommandFits DEF Unaware, PInv, SafetyInv, ExchangeInv, LifeCycle
  <2>3. PTypeOK' /\ StoreAge' /\ KeysAreBelow' /\ ToldIsStored'
    BY <1>1, <1>2, <2>1, <2>2, StoreUntouched
  <2> QED BY <1>5, <2>1, <2>2, <2>3 DEF ValidResponses, ResponseTypes
<1>8. CASE TakeNewTime
  <2>1. /\ inbox[turn] # <<>> /\ Head(inbox[turn]).type = "NewTime"
        /\ Answer(turn, Response("Acknowledge")) /\ store' = <<>> /\ counter' = 0
    BY <1>8 DEF TakeNewTime, HandleNewTime, Received
  <2>2. mstate[turn] = "NewTime" /\ turn \in Unaware
    BY <1>1, <2>1, CommandFits DEF Unaware
  <2>3. PTypeOK' /\ StoreAge' /\ KeysAreBelow' /\ ToldIsStored'
    BY <1>1, <1>2, <2>1, <2>2, StoreCleared
  <2> QED BY <1>5, <2>1, <2>2, <2>3 DEF ValidResponses, ResponseTypes
<1>9. CASE UpdateWithoutData
  <2>1. PICK t \in Requests : Answer(turn, Result(t, None))
    BY <1>9 DEF UpdateWithoutData, SendResult
  <2>2. /\ inbox[turn] # <<>> /\ Head(inbox[turn]).type = "Update"
        /\ store' = store /\ counter' = counter
    BY <1>9 DEF UpdateWithoutData, Received, runnerVars
  <2>3. mstate[turn] = "Updating" /\ turn \notin Unaware
    BY <1>1, <2>2, CommandFits DEF Unaware
  <2>4. PTypeOK' /\ StoreAge' /\ KeysAreBelow' /\ ToldIsStored'
    BY <1>1, <1>2, <2>2, <2>3, StoreUntouched
  <2> QED BY <1>6, <2>1, <2>3, <2>4 DEF ValidResponses
<1>10. CASE UpdateWithData
  <2>1. PICK t \in Requests : Answer(turn, Result(t, counter))
    BY <1>10 DEF UpdateWithData, SendResult
  <2>2. inbox[turn] # <<>> /\ Head(inbox[turn]).type = "Update" /\ counter \in Keys
    BY <1>10 DEF UpdateWithData, Received
  <2>3. mstate[turn] = "Updating"
    BY <1>1, <2>2, CommandFits
  <2>4. /\ PTypeOK' /\ StoreAge' /\ KeysAreBelow' /\ ToldIsStored'
        /\ counter \in DOMAIN store' /\ store'[counter] = [origin |-> turn, time |-> currentTime]
    BY <1>2, <1>10, StoreExtended
  <2> QED BY <1>6, <2>1, <2>2, <2>3, <2>4 DEF ValidResponses
<1>11. CASE TakeQuit
  <2>1. /\ inbox[turn] # <<>> /\ Head(inbox[turn]).type = "Quit"
        /\ Answer(turn, Response("Acknowledge")) /\ store' = store /\ counter' = counter
        /\ proc'[turn] = "exited"
    BY <1>1, <1>11 DEF TakeQuit, HandleQuit, Received, runnerVars, TypeOK
  <2>2. mstate[turn] = "Finalizing" /\ turn \notin Unaware
    BY <1>1, <2>1, CommandFits DEF Unaware
  <2>3. PTypeOK' /\ StoreAge' /\ KeysAreBelow' /\ ToldIsStored'
    BY <1>1, <1>2, <2>1, <2>2, StoreUntouched
  <2> QED BY <1>5, <2>1, <2>2, <2>3 DEF ValidResponses, ResponseTypes
<1>12. CASE HandlerRaises
  <2>1. /\ inbox[turn] # <<>> /\ Answer(turn, Response("Error")) /\ proc'[turn] = "crashed"
        /\ proc[turn] = "running"
        /\ IF turn \in Unaware THEN store' = <<>> /\ counter' = 0
                               ELSE store' = store /\ counter' = counter
    BY <1>1, <1>12 DEF HandlerRaises, Fail, Received, Unaware, TypeOK
  <2>2. "Error" \in ValidResponses(mstate[turn])
    BY <1>3 DEF ValidResponses, BusyStates
  <2>3. PTypeOK' /\ StoreAge' /\ KeysAreBelow' /\ ToldIsStored'
    BY <1>1, <1>2, <2>1, StoreUntouched, StoreCleared
  <2> QED BY <1>5, <2>1, <2>2, <2>3 DEF ResponseTypes
<1> QED BY <1>7, <1>8, <1>9, <1>10, <1>11, <1>12

\* Every step of the runner keeps the invariant.
LEMMA PNextInv == PInv /\ [PNext]_<<vars, runnerVars>> => PInv'
<1> SUFFICES ASSUME PInv, [PNext]_<<vars, runnerVars>> PROVE PInv'
  OBVIOUS
<1>1. SafetyInv'
  BY StepOfOrchestrator, NextSafety DEF PInv
<1>2. CASE UNCHANGED <<vars, runnerVars>>
  <2>1. /\ UNCHANGED <<currentTime, mstate, pendingUpdates, inbox, outbox, proc, modelTime>>
        /\ turn' = turn /\ store' = store /\ counter' = counter /\ aborted' = aborted
    BY <1>2 DEF vars, orchestratorVars, connectedVars, modelVars, runnerVars
  <2>2. Unaware' = Unaware
    BY <2>1 DEF Unaware
  <2>3. PTypeOK'
    BY <1>1, <2>1 DEF PInv, PTypeOK, SafetyInv
  <2> QED BY <1>1, <2>1, <2>2, <2>3
          DEF PInv, TurnOrder, Until, Answers, Alive, StoreAge, KeysAreBelow, ToldIsStored, Stored
<1>3. CASE PNext
  BY <1>1, <1>3, RunOrchestratorKeeps, HandleResponseKeeps, IdleTurnKeeps, ModelTurnKeeps DEF PNext, Turn
<1> QED BY <1>2, <1>3

-----------------------------------------------------------------------------
\* In a simulation in one process no update is lost: data that a model was told to
\* read is in the shared store until it has read it, no NEW_TIME clears data of its
\* own time, and only the model that has the turn is ever between its command and
\* its response.
THEOREM UpdatesSurvive == PSpec => []UpdatesAreSafe
<1>1. PInv => UpdatesAreSafe
  BY StoreIsSafe, ToldCanBeRead DEF PInv, SafetyInv, UpdatesAreSafe
<1> QED BY <1>1, PInitInv, PNextInv, PTL DEF PSpec

\* The single thread implements the orchestrator and its models: every theorem about
\* Orchestrator holds for a simulation in one process.
LEMMA ImplementsOrchestrator == PSpec => Spec
<1>1. PInit => Init
  BY DEF PInit
<1> QED BY <1>1, PInitInv, PNextInv, StepOfOrchestrator, PTL DEF PSpec, Spec

\* A simulation in one process has the safety of the protocol: updates are read at their time, no
\* request is passed over, no command refused, and the exit code is right.
COROLLARY SimulationIsSafe ==
  PSpec => [](UpdatesAreCurrent /\ NoRequestSkipped /\ QuiescentBetweenTimes
                 /\ NoCommandRefused /\ ExitCodeIsTruthful)
BY ImplementsOrchestrator, UpdatesStayCurrent, RequestsAreServed, Quiescence, CommandsAreAccepted,
   ExitCodeTruth, PTL
=============================================================================
