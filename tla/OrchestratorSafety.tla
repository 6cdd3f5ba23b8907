------------------------- MODULE OrchestratorSafety -------------------------
(***************************************************************************)
(* Theorems about Orchestrator, for every number of models, every          *)
(* timeline, every set of pub/sub relations and every choice of failing    *)
(* models: first the types and the exchanges of messages, then the         *)
(* inductive invariant behind the other safety properties, and the         *)
(* theorems that follow from it.                                           *)
(***************************************************************************)
EXTENDS Orchestrator, TLAPS, SequenceTheorems, WellFoundedInduction

\* A non-empty set of timestamps has an earliest one: queue_models_for_next_time
\* finds the time it moves to.
LEMMA EarliestRequestExists ==
  ASSUME nextTime \in [Models -> Times \cup {None}], Requested # {}
  PROVE  /\ EarliestRequest \in Requested
         /\ \A u \in Requested : EarliestRequest <= u
         /\ EarliestRequest \in Times
<1>1. Requested \subseteq Times
  BY DEF Requested
<1>2. Requested \subseteq Int
  BY <1>1, TimelineAssumption DEF Times
<1> DEFINE Offsets == {t - Start : t \in Requested}
<1>3. Offsets \subseteq Nat /\ Offsets # {}
  <2>1. \A t \in Requested : t - Start \in Nat
    <3> SUFFICES ASSUME NEW t \in Requested PROVE t - Start \in Nat
      OBVIOUS
    <3>1. t \in Times
      BY <1>1
    <3> QED BY <3>1, TimelineAssumption DEF Times
  <2>2. PICK t \in Requested : TRUE
    OBVIOUS
  <2>3. t - Start \in Offsets
    OBVIOUS
  <2> QED BY <2>1, <2>3
<1>4. PICK x \in Offsets : \A y \in Offsets : ~ (<<y, x>> \in OpToRel(<, Nat))
  <2> HIDE DEF Offsets
  <2> QED BY <1>3, NatLessThanWellFounded, WFMin, Zenon
<1>5. \A y \in Offsets : x <= y
  <2> SUFFICES ASSUME NEW y \in Offsets PROVE x <= y
    OBVIOUS
  <2> HIDE DEF Offsets
  <2>1. <<y, x>> \notin OpToRel(<, Nat)
    BY <1>4
  <2>2. x \in Nat /\ y \in Nat
    BY <1>3
  <2>3. ~(y < x)
    BY <2>1, <2>2 DEF OpToRel
  <2> QED BY <2>2, <2>3
<1>6. PICK t \in Requested : x = t - Start
  OBVIOUS
<1>7. \A u \in Requested : t <= u
  <2> TAKE u \in Requested
  <2>1. u - Start \in Offsets
    OBVIOUS
  <2>2. x <= u - Start
    BY <1>5, <2>1
  <2>3. t \in Int /\ u \in Int /\ Start \in Int
    BY <1>2, TimelineAssumption
  <2> QED
    <3> HIDE DEF Offsets
    <3> QED BY <1>6, <2>2, <2>3
<1>8. EarliestRequest \in Requested /\ \A u \in Requested : EarliestRequest <= u
  BY <1>7 DEF EarliestRequest
<1> QED BY <1>1, <1>8

\* A next_time accepted from a model is a timestamp of the simulation.
LEMMA ValidatedNextTimeType ==
  ASSUME currentTime \in Times \cup {None}, NEW t \in Int \cup {None}
  PROVE  ValidatedNextTime(t) \in Times \cup {None}
<1>1. CASE t = None
  BY <1>1 DEF ValidatedNextTime
<1>2. CASE t \in Int /\ currentTime = None
  BY <1>2, TimelineAssumption, NoneAssumption DEF ValidatedNextTime, Times
<1>3. CASE t \in Int /\ currentTime \in Times
  <2>1. currentTime \in Int /\ currentTime # None /\ Start <= currentTime
    BY <1>3, TimelineAssumption, NoneAssumption DEF Times
  <2> QED BY <1>3, <2>1, TimelineAssumption, NoneAssumption DEF ValidatedNextTime, Times
<1> QED BY <1>1, <1>2, <1>3

\* What the orchestrator sends is a command.
LEMMA CommandTypes ==
  /\ \A t \in Times : NewTimeCommand(t) \in Commands
  /\ \A us \in Seq(Update) : UpdateCommand(us) \in Commands
  /\ QuitCommand \in Commands
BY DEF NewTimeCommand, UpdateCommand, QuitCommand, Commands

\* What a model answers is a response.
LEMMA ResponseTypesOK ==
  /\ \A type \in ResponseTypes : Response(type) \in Responses
  /\ \A t \in Requests, key \in Keys \cup {None} : Result(t, key) \in Responses
BY RequestsAssumption DEF Response, Result, Responses, ResponseTypes

\* What a result tells the subscribers is a sequence of updates.
LEMMA NewsType ==
  ASSUME TypeOK, NEW m \in Models, NEW r \in Responses
  PROVE  (IF r.key = None THEN <<>> ELSE <<DataUpdate(m, r.key)>>) \in Seq(Update)
<1>1. CASE r.key \in Keys
  <2>1. DataUpdate(m, r.key) \in Update
    BY <1>1, NAssumption DEF DataUpdate, Update, Models, TypeOK
  <2> QED BY <1>1, <2>1
<1>2. CASE r.key = None
  BY <1>2
<1> QED BY <1>1, <1>2 DEF Responses

\* Handling a response keeps the type of all it touches.
LEMMA HandleType ==
  ASSUME TypeOK, NEW m \in Models, NEW notified \in SUBSET Models,
         NEW news \in Seq(Update), NEW updates \in Seq(Update),
         NEW quit \in BOOLEAN, NEW hasFailed \in BOOLEAN,
         ostate \in Waiting, outbox[m] # <<>>,
         nextTime' \in [Models -> Times \cup {None}],
         Handle(m, notified, news, updates, quit, hasFailed)
  PROVE  TypeOK'
<1> DEFINE listening == {s \in notified : mstate[s] \notin Deaf}
           queued == [s \in Models |-> IF s = m THEN updates
                                       ELSE IF s \in listening THEN pendingUpdates[s] \o news
                                       ELSE pendingUpdates[s]]
           candidates == {s \in listening : \/ mstate[s] = "PendingMoreUpdates"
                                            \/ mstate[s] = "Idle" /\ news # <<>>}
           running == Busy \ {m}
<1>1. PICK W \in SUBSET candidates :
        /\ LET waiting == Dependencies(m) \cap (running \cup W) # {}
               own == AfterResponse(mstate[m], quit, hasFailed, updates, waiting)
               updated == W \cup (IF own = "Updating" THEN {m} ELSE {})
           IN /\ mstate' = [s \in Models |-> IF s = m THEN own
                                             ELSE IF s \in W THEN "Updating"
                                             ELSE IF s \in candidates THEN "PendingMoreUpdates"
                                             ELSE mstate[s]]
              /\ inbox' = [s \in Models |->
                             IF s \in updated THEN Append(inbox[s], UpdateCommand(queued[s]))
                             ELSE IF s = m /\ own = "Finalizing" THEN Append(inbox[s], QuitCommand)
                             ELSE inbox[s]]
              /\ pendingUpdates' = [s \in Models |-> IF s \in updated THEN <<>> ELSE queued[s]]
        /\ pendingQuit' = [pendingQuit EXCEPT ![m] = quit]
        /\ failed' = [failed EXCEPT ![m] = hasFailed]
        /\ commandRefused' = (commandRefused \/ \E s \in listening : mstate[s] = "Registration")
        /\ outbox' = [outbox EXCEPT ![m] = Tail(@)]
        /\ ostate' = AfterEvent
        /\ UNCHANGED <<currentTime, overlaps, modelVars>>
  BY Zenon DEF Handle
<1> DEFINE own == AfterResponse(mstate[m], quit, hasFailed, updates,
                                Dependencies(m) \cap (running \cup W) # {})
<1>2. own \in ModelStates
  BY DEF AfterResponse, ModelStates, BusyStates
<1>3. queued \in [Models -> Seq(Update)]
  BY ConcatProperties DEF TypeOK
<1>4. mstate' \in [Models -> ModelStates]
  <2> HIDE DEF candidates
  <2>1. mstate' = [s \in Models |-> IF s = m THEN own
                                    ELSE IF s \in W THEN "Updating"
                                    ELSE IF s \in candidates THEN "PendingMoreUpdates"
                                    ELSE mstate[s]]
    BY <1>1
  <2> HIDE DEF own
  <2> QED BY <2>1, <1>2 DEF TypeOK, ModelStates, BusyStates
<1>5. pendingUpdates' \in [Models -> Seq(Update)]
  <2> HIDE DEF queued
  <2> QED BY <1>1, <1>3
<1>6. inbox' \in [Models -> Seq(Commands)]
  <2> DEFINE updated == W \cup (IF own = "Updating" THEN {m} ELSE {})
  <2>1. inbox' = [s \in Models |->
                    IF s \in updated THEN Append(inbox[s], UpdateCommand(queued[s]))
                    ELSE IF s = m /\ own = "Finalizing" THEN Append(inbox[s], QuitCommand)
                    ELSE inbox[s]]
    BY <1>1
  <2>2. \A s \in Models : UpdateCommand(queued[s]) \in Commands
    <3> HIDE DEF queued
    <3> QED BY <1>3, CommandTypes
  <2>3. \A s \in Models : inbox[s] \in Seq(Commands)
    BY DEF TypeOK
  <2> HIDE DEF queued, updated, own
  <2> QED BY <2>1, <2>2, <2>3, CommandTypes
<1>7. outbox' \in [Models -> Seq(Responses)]
  BY <1>1, HeadTailProperties DEF TypeOK
<1>8. ostate' \in OrchestratorStates
  BY <1>1 DEF AfterEvent, Waiting, OrchestratorStates
<1> QED
  BY <1>1, <1>4, <1>5, <1>6, <1>7, <1>8 DEF TypeOK, modelVars

\* The variables have their types before the first message.
LEMMA InitTypeOK == Init => TypeOK
<1> SUFFICES ASSUME Init PROVE TypeOK
  OBVIOUS
<1>1. /\ ostate \in OrchestratorStates
      /\ mstate \in [Models -> ModelStates]
      /\ currentTime \in Times \cup {None}
      /\ overlaps \subseteq Models \X Models
  BY DEF Init, OrchestratorStates, ModelStates, BusyStates
<1>2. /\ nextTime \in [Models -> Times \cup {None}]
      /\ modelTime \in [Models -> Times \cup {None}]
  BY DEF Init
<1>3. /\ pendingUpdates \in [Models -> Seq(Update)]
      /\ inbox \in [Models -> Seq(Commands)]
      /\ outbox \in [Models -> Seq(Responses)]
  BY DEF Init
<1>4. /\ commandRefused \in BOOLEAN
      /\ failed \in [Models -> BOOLEAN]
      /\ pendingQuit \in [Models -> BOOLEAN]
      /\ proc \in [Models -> {"starting", "running", "exited", "crashed"}]
  BY DEF Init
<1> QED BY <1>1, <1>2, <1>3, <1>4 DEF TypeOK

\* Every handler of a response keeps the types.
LEMMA ReceiveTypeOK ==
  ASSUME TypeOK, NEW m \in Models, Receive(m)
  PROVE  TypeOK'
<1>1. /\ pendingUpdates[m] \in Seq(Update) /\ <<>> \in Seq(Update)
      /\ pendingQuit[m] \in BOOLEAN /\ failed[m] \in BOOLEAN
      /\ nextTime \in [Models -> Times \cup {None}]
      /\ {} \in SUBSET Models /\ Subscribers(m) \in SUBSET Models
  BY DEF TypeOK, Subscribers
<1>2. ostate \in Waiting /\ outbox[m] # <<>>
  BY DEF Receive, ReceiveRegistration, ReceiveAcknowledge, ReceiveResult, ReceiveError,
         ReceiveInvalid, Receives
<1>3. CASE ReceiveRegistration(m)
  <2>1. nextTime' \in [Models -> Times \cup {None}]
    BY <1>1, <1>3, TimelineAssumption DEF ReceiveRegistration, Times
  <2>2. Handle(m, {}, <<>>, pendingUpdates[m], pendingQuit[m], failed[m])
    BY <1>3 DEF ReceiveRegistration
  <2> QED BY <1>1, <1>2, <2>1, <2>2, HandleType
<1>4. CASE ReceiveAcknowledge(m)
  <2> DEFINE notified == IF pendingUpdates[m] = <<>> THEN Subscribers(m) ELSE {}
  <2>1. notified \in SUBSET Models
    BY <1>1
  <2>2. /\ Handle(m, notified, <<>>, pendingUpdates[m], pendingQuit[m], failed[m])
        /\ nextTime' = nextTime
    BY <1>4 DEF ReceiveAcknowledge
  <2> HIDE DEF notified
  <2> QED BY <1>1, <1>2, <2>1, <2>2, HandleType
<1>5. CASE ReceiveResult(m)
  <2> DEFINE r == Head(outbox[m])
             news == IF r.key = None THEN <<>> ELSE <<DataUpdate(m, r.key)>>
  <2>1. r \in Responses
    BY <1>2, HeadTailProperties DEF TypeOK
  <2>2. news \in Seq(Update)
    BY <2>1, NewsType
  <2>3. ValidatedNextTime(r.nextTime) \in Times \cup {None}
    BY <2>1, ValidatedNextTimeType DEF Responses, TypeOK
  <2>4. nextTime' \in [Models -> Times \cup {None}]
    BY <1>1, <1>5, <2>3 DEF ReceiveResult
  <2>5. Handle(m, Subscribers(m), news, pendingUpdates[m], pendingQuit[m], failed[m])
    BY <1>5 DEF ReceiveResult
  <2> HIDE DEF news
  <2> QED BY <1>1, <1>2, <2>2, <2>4, <2>5, HandleType
<1>6. CASE ReceiveError(m)
  <2>1. Handle(m, {}, <<>>, <<>>, FALSE, TRUE) /\ nextTime' = nextTime
    BY <1>6 DEF ReceiveError
  <2> QED BY <1>1, <1>2, <2>1, HandleType
<1>7. CASE ReceiveInvalid(m)
  <2> DEFINE updates == IF pendingQuit[m] THEN pendingUpdates[m] ELSE <<>>
  <2>1. updates \in Seq(Update)
    BY <1>1
  <2>2. Handle(m, {}, <<>>, updates, TRUE, TRUE) /\ nextTime' = nextTime
    BY <1>7 DEF ReceiveInvalid
  <2> HIDE DEF updates
  <2> QED BY <1>1, <1>2, <2>1, <2>2, HandleType
<1> QED BY <1>3, <1>4, <1>5, <1>6, <1>7 DEF Receive

\* The orchestrator's own steps keep the types.
LEMMA OrchestratorRunTypeOK ==
  ASSUME TypeOK, OrchestratorRun
  PROVE  TypeOK'
<1> USE DEF TypeOK, modelVars, connectedVars
<1>1. CASE StartInitializingPhase
  BY <1>1 DEF StartInitializingPhase, OrchestratorStates
<1>2. CASE StartRunningPhase
  BY <1>2, TopologiesAssumption DEF StartRunningPhase, OrchestratorStates
<1>3. CASE AdvanceTime
  <2> DEFINE t == EarliestRequest
  <2>1. t \in Times
    BY <1>3, EarliestRequestExists DEF AdvanceTime
  <2>2. TimeUpdate(t) \in Update
    BY <2>1, NAssumption DEF TimeUpdate, Update
  <2>3. NewTimeCommand(t) \in Commands
    BY <2>1, CommandTypes
  <2>4. mstate' \in [Models -> ModelStates]
    BY <1>3 DEF AdvanceTime, ModelStates, BusyStates
  <2>5. inbox' \in [Models -> Seq(Commands)]
    BY <1>3, <2>3 DEF AdvanceTime
  <2>6. pendingUpdates' \in [Models -> Seq(Update)]
    BY <1>3, <2>2 DEF AdvanceTime
  <2>7. currentTime' \in Times /\ ostate' \in OrchestratorStates /\ commandRefused' \in BOOLEAN
    BY <1>3, <2>1 DEF AdvanceTime, OrchestratorStates
  <2> QED BY <1>3, <2>4, <2>5, <2>6, <2>7 DEF AdvanceTime
<1>4. CASE RepeatTime
  <2> DEFINE due == {m \in Models : nextTime[m] = currentTime /\ mstate[m] \notin Deaf}
             queued == [m \in Models |->
                          IF m \in due
                          THEN Append(pendingUpdates[m], TimeUpdate(currentTime))
                          ELSE pendingUpdates[m]]
             candidates == {m \in due : mstate[m] \in {"Idle", "PendingMoreUpdates"}}
  <2>1. PICK W \in SUBSET candidates :
          /\ mstate' = [m \in Models |-> IF m \in W THEN "Updating"
                                         ELSE IF m \in candidates THEN "PendingMoreUpdates"
                                         ELSE mstate[m]]
          /\ inbox' = [m \in Models |-> IF m \in W
                                        THEN Append(inbox[m], UpdateCommand(queued[m]))
                                        ELSE inbox[m]]
          /\ pendingUpdates' = [m \in Models |-> IF m \in W THEN <<>> ELSE queued[m]]
          /\ commandRefused' = (commandRefused \/ \E m \in due : mstate[m] = "Registration")
    BY <1>4, Zenon DEF RepeatTime
  <2>2. queued \in [Models -> Seq(Update)]
    <3>1. TimeUpdate(currentTime) \in Update
      BY NAssumption DEF TimeUpdate, Update
    <3> QED BY <3>1
  <2>3. \A m \in Models : UpdateCommand(queued[m]) \in Commands
    <3> HIDE DEF queued
    <3> QED BY <2>2, CommandTypes
  <2>4. mstate' \in [Models -> ModelStates]
    BY <2>1 DEF ModelStates, BusyStates
  <2>5. inbox' \in [Models -> Seq(Commands)]
    <3> HIDE DEF queued
    <3> QED BY <2>1, <2>3
  <2>6. pendingUpdates' \in [Models -> Seq(Update)]
    <3> HIDE DEF queued
    <3> QED BY <2>1, <2>2
  <2>7. ostate' \in OrchestratorStates /\ commandRefused' \in BOOLEAN
    BY <1>4, <2>1 DEF RepeatTime, OrchestratorStates
  <2> QED BY <1>4, <2>4, <2>5, <2>6, <2>7 DEF RepeatTime
<1>5. CASE StartFinalizingPhase
  <2>1. PICK W \in SUBSET InState("PendingMoreUpdates") :
          /\ mstate' = [m \in Models |-> IF m \in InState("Idle") THEN "Finalizing"
                                         ELSE IF m \in W THEN "Updating" ELSE mstate[m]]
          /\ inbox' = [m \in Models |->
                         IF m \in InState("Idle") THEN Append(inbox[m], QuitCommand)
                         ELSE IF m \in W THEN Append(inbox[m], UpdateCommand(pendingUpdates[m]))
                         ELSE inbox[m]]
          /\ pendingUpdates' = [m \in Models |-> IF m \in W THEN <<>> ELSE pendingUpdates[m]]
    BY <1>5, Zenon DEF StartFinalizingPhase
  <2>2. mstate' \in [Models -> ModelStates]
    BY <2>1 DEF ModelStates, BusyStates
  <2>3. inbox' \in [Models -> Seq(Commands)]
    BY <2>1, CommandTypes
  <2>4. pendingUpdates' \in [Models -> Seq(Update)]
    BY <2>1
  <2>5. ostate' \in OrchestratorStates /\ pendingQuit' \in [Models -> BOOLEAN]
    BY <1>5 DEF StartFinalizingPhase, AfterQuits, OrchestratorStates
  <2> QED BY <1>5, <2>2, <2>3, <2>4, <2>5 DEF StartFinalizingPhase
<1>6. CASE EndFinalizingPhase
  BY <1>6 DEF EndFinalizingPhase, OrchestratorStates
<1> QED BY <1>1, <1>2, <1>3, <1>4, <1>5, <1>6 DEF OrchestratorRun

\* The models' steps keep the types.
LEMMA ModelStepTypeOK ==
  ASSUME TypeOK, NEW m \in Models, ModelStep(m)
  PROVE  TypeOK'
<1> USE DEF TypeOK, orchestratorVars, connectedVars, modelVars, Answer, Consume, Received
<1>1. \A type \in ResponseTypes : Append(outbox[m], Response(type)) \in Seq(Responses)
  BY ResponseTypesOK
<1>2. CASE Register(m)
  BY <1>1, <1>2 DEF Register, ResponseTypes
<1>3. CASE HandleNewTime(m)
  <2>1. Head(inbox[m]) \in Commands /\ Tail(inbox[m]) \in Seq(Commands)
    BY <1>3, HeadTailProperties DEF HandleNewTime
  <2>2. Head(inbox[m]).time \in Times \cup {None}
    BY <2>1 DEF Commands
  <2> QED BY <1>1, <1>3, <2>1, <2>2 DEF HandleNewTime, ResponseTypes
<1>4. CASE HandleUpdate(m)
  <2>1. Tail(inbox[m]) \in Seq(Commands)
    BY <1>4, HeadTailProperties DEF HandleUpdate, SendResult
  <2>2. PICK t \in Requests, key \in Keys \cup {None} : Answer(m, Result(t, key))
    BY <1>4 DEF HandleUpdate, SendResult
  <2>3. Append(outbox[m], Result(t, key)) \in Seq(Responses)
    BY ResponseTypesOK
  <2> QED BY <1>4, <2>1, <2>2, <2>3 DEF HandleUpdate, SendResult
<1>5. CASE HandleQuit(m)
  <2>1. Tail(inbox[m]) \in Seq(Commands)
    BY <1>5, HeadTailProperties DEF HandleQuit
  <2> QED BY <1>1, <1>5, <2>1 DEF HandleQuit, ResponseTypes
<1>6. CASE Crash(m)
  <2>1. (IF inbox[m] = <<>> THEN inbox[m] ELSE Tail(inbox[m])) \in Seq(Commands)
    BY HeadTailProperties
  <2> QED BY <1>1, <1>6, <2>1 DEF Crash, Fail, ResponseTypes
<1>7. CASE Misbehave(m)
  <2>1. Tail(inbox[m]) \in Seq(Commands)
    BY <1>7, HeadTailProperties DEF Misbehave
  <2> QED BY <1>1, <1>7, <2>1 DEF Misbehave, ResponseTypes
<1> QED BY <1>2, <1>3, <1>4, <1>5, <1>6, <1>7 DEF ModelStep

\* Every step keeps the types.
LEMMA NextTypeOK == TypeOK /\ [Next]_vars => TypeOK'
<1> SUFFICES ASSUME TypeOK, [Next]_vars PROVE TypeOK'
  OBVIOUS
<1>1. CASE UNCHANGED vars
  BY <1>1 DEF TypeOK, vars, orchestratorVars, connectedVars, modelVars
<1>2. CASE OrchestratorRun
  BY <1>2, OrchestratorRunTypeOK
<1>3. ASSUME NEW m \in Models, Receive(m) PROVE TypeOK'
  BY <1>3, ReceiveTypeOK
<1>4. ASSUME NEW m \in Models, ModelStep(m) PROVE TypeOK'
  BY <1>4, ModelStepTypeOK
<1> QED BY <1>1, <1>2, <1>3, <1>4 DEF Next

\* Type correctness: in particular no next_time outside the simulation's
\* timeline is ever stored, whatever the models ask for.
THEOREM TypeCorrect == Spec => []TypeOK
<1>1. Init => TypeOK
  BY InitTypeOK
<1>2. TypeOK /\ [Next]_vars => TypeOK'
  BY NextTypeOK
<1> QED BY <1>1, <1>2, PTL DEF Spec

-----------------------------------------------------------------------------
(* One exchange at a time.                                                 *)

\* A channel that holds one message, or has given up its only one.
LEMMA SingleMessage ==
  ASSUME NEW S, NEW e \in S
  PROVE  /\ Len(Append(<<>>, e)) = 1 /\ Append(<<>>, e) # <<>>
         /\ Head(Append(<<>>, e)) = e
OBVIOUS

\* A queue with one message is empty without it.
LEMMA LastMessage ==
  ASSUME NEW S, NEW q \in Seq(S), Len(q) = 1
  PROVE  q # <<>> /\ Tail(q) = <<>>
<1>1. q # <<>>
  OBVIOUS
<1>2. Tail(q) \in Seq(S) /\ Len(Tail(q)) = 0
  BY <1>1, HeadTailProperties
<1> QED BY <1>1, <1>2, EmptySeq

\* The invariant for one model, as a formula about the values of its variables.
Exchange(ms, in, out, p) ==
  /\ ms \notin BusyStates => in = <<>> /\ out = <<>> /\ p # "starting"
  /\ ms \in BusyStates =>
       \/ in = <<>> /\ out = <<>> /\ p = "starting"
       \/ Len(in) = 1 /\ out = <<>> /\ p = "running"
       \/ in = <<>> /\ Len(out) = 1 /\ p # "starting"
  /\ p = "starting" => ms = "Registration"
  /\ ms = "Registration" => in = <<>>
  /\ p = "exited" => ms \in Deaf
  /\ p = "crashed" => ms = "Done" \/ (out # <<>> /\ Head(out).type = "Error")
  /\ in # <<>> /\ Head(in).type = "Quit" => ms = "Finalizing"

\* The invariant of the exchanges speaks of every model on its own.
LEMMA ExchangePerModel ==
  /\ ExchangeInv <=> \A m \in Models : Exchange(mstate[m], inbox[m], outbox[m], proc[m])
  /\ ExchangeInv' <=> \A m \in Models : Exchange(mstate'[m], inbox'[m], outbox'[m], proc'[m])
BY DEF ExchangeInv, OneExchange, LifeCycle, Exchange

\* A state machine that does not wait for its model has no exchange with it, and
\* the model's process is alive unless the state machine is Done.
LEMMA FreeModel ==
  ASSUME TypeOK, ExchangeInv, NEW s \in Models, mstate[s] \notin BusyStates
  PROVE  /\ inbox[s] = <<>> /\ outbox[s] = <<>>
         /\ mstate[s] \in {"Idle", "PendingMoreUpdates"} => proc[s] = "running"
<1>1. inbox[s] = <<>> /\ outbox[s] = <<>> /\ proc[s] # "starting"
  BY DEF ExchangeInv, OneExchange
<1>2. proc[s] \in {"starting", "running", "exited", "crashed"}
  BY DEF TypeOK
<1> QED BY <1>1, <1>2 DEF ExchangeInv, LifeCycle, Deaf

\* A state machine about to handle a response is busy, and its model has no
\* other message under way.
LEMMA RespondingModel ==
  ASSUME TypeOK, ExchangeInv, NEW m \in Models, outbox[m] # <<>>
  PROVE  /\ mstate[m] \in BusyStates
         /\ inbox[m] = <<>> /\ Tail(outbox[m]) = <<>>
         /\ proc[m] \in {"running", "exited", "crashed"}
         /\ proc[m] = "exited" => mstate[m] = "Finalizing"
         /\ proc[m] = "crashed" => Head(outbox[m]).type = "Error"
<1>1. mstate[m] \in BusyStates /\ inbox[m] = <<>> /\ Len(outbox[m]) = 1 /\ proc[m] # "starting"
  BY DEF ExchangeInv, OneExchange
<1>2. Tail(outbox[m]) = <<>>
  BY <1>1, LastMessage DEF TypeOK
<1>3. proc[m] \in {"starting", "running", "exited", "crashed"}
  BY DEF TypeOK
<1> QED BY <1>1, <1>2, <1>3 DEF ExchangeInv, LifeCycle, Deaf, BusyStates

\* A model that has a command is running and its state machine is busy.
LEMMA CommandedModel ==
  ASSUME TypeOK, ExchangeInv, NEW m \in Models, inbox[m] # <<>>
  PROVE  /\ mstate[m] \in BusyStates \ {"Registration"}
         /\ outbox[m] = <<>> /\ Tail(inbox[m]) = <<>>
         /\ proc[m] = "running"
<1>1. mstate[m] \in BusyStates /\ Len(inbox[m]) = 1 /\ outbox[m] = <<>> /\ proc[m] = "running"
  BY DEF ExchangeInv, OneExchange
<1>2. Tail(inbox[m]) = <<>>
  BY <1>1, LastMessage DEF TypeOK
<1> QED BY <1>1, <1>2 DEF ExchangeInv, LifeCycle

\* A free model may be sent a command, when its state machine becomes busy.
LEMMA CommandSent ==
  ASSUME NEW c \in Commands, NEW ms \in {"NewTime", "Updating", "Finalizing"},
         c.type = "Quit" => ms = "Finalizing"
  PROVE  Exchange(ms, Append(<<>>, c), <<>>, "running")
<1>1. Len(Append(<<>>, c)) = 1 /\ Append(<<>>, c) # <<>> /\ Head(Append(<<>>, c)) = c
  BY SingleMessage
<1> QED BY <1>1 DEF Exchange, BusyStates

\* Nothing under way with a model that is waited for no longer.
LEMMA NothingSent ==
  ASSUME NEW ms \in {"Idle", "PendingMoreUpdates", "Done"},
         NEW p \in {"running", "exited", "crashed"},
         p # "running" => ms = "Done"
  PROVE  Exchange(ms, <<>>, <<>>, p)
BY DEF Exchange, BusyStates, Deaf

\* Before the first message every model owes its registration.
LEMMA InitExchange == Init => ExchangeInv
BY DEF Init, ExchangeInv, OneExchange, LifeCycle, BusyStates

\* Handling a response: the model that sent it and every subscriber that is
\* woken have one exchange, or none, with the orchestrator afterwards.
LEMMA HandleExchange ==
  ASSUME TypeOK, ExchangeInv, NEW m \in Models, NEW notified \in SUBSET Models,
         NEW news \in Seq(Update), NEW updates \in Seq(Update),
         NEW quit \in BOOLEAN, NEW hasFailed \in BOOLEAN,
         outbox[m] # <<>>,
         Head(outbox[m]).type = "Error" => ~quit /\ hasFailed,
         Handle(m, notified, news, updates, quit, hasFailed)
  PROVE  ExchangeInv'
<1> DEFINE listening == {s \in notified : mstate[s] \notin Deaf}
           queued == [s \in Models |-> IF s = m THEN updates
                                       ELSE IF s \in listening THEN pendingUpdates[s] \o news
                                       ELSE pendingUpdates[s]]
           candidates == {s \in listening : \/ mstate[s] = "PendingMoreUpdates"
                                            \/ mstate[s] = "Idle" /\ news # <<>>}
           running == Busy \ {m}
<1>1. PICK W \in SUBSET candidates :
        /\ LET waiting == Dependencies(m) \cap (running \cup W) # {}
               own == AfterResponse(mstate[m], quit, hasFailed, updates, waiting)
               updated == W \cup (IF own = "Updating" THEN {m} ELSE {})
           IN /\ mstate' = [s \in Models |-> IF s = m THEN own
                                             ELSE IF s \in W THEN "Updating"
                                             ELSE IF s \in candidates THEN "PendingMoreUpdates"
                                             ELSE mstate[s]]
              /\ inbox' = [s \in Models |->
                             IF s \in updated THEN Append(inbox[s], UpdateCommand(queued[s]))
                             ELSE IF s = m /\ own = "Finalizing" THEN Append(inbox[s], QuitCommand)
                             ELSE inbox[s]]
        /\ outbox' = [outbox EXCEPT ![m] = Tail(@)]
        /\ UNCHANGED modelVars
  BY Zenon DEF Handle
<1> DEFINE own == AfterResponse(mstate[m], quit, hasFailed, updates,
                                Dependencies(m) \cap (running \cup W) # {})
           updated == W \cup (IF own = "Updating" THEN {m} ELSE {})
<1>2. /\ mstate[m] \in BusyStates /\ inbox[m] = <<>> /\ Tail(outbox[m]) = <<>>
      /\ proc[m] \in {"running", "exited", "crashed"}
      /\ proc[m] = "exited" => mstate[m] = "Finalizing"
      /\ proc[m] = "crashed" => ~quit /\ hasFailed
  BY RespondingModel
<1>3. /\ own \in {"Idle", "PendingMoreUpdates", "Done", "Updating", "Finalizing"}
      /\ proc[m] # "running" => own = "Done"
  BY <1>2 DEF AfterResponse
<1>4. \A s \in Models : UpdateCommand(queued[s]) \in Commands /\ UpdateCommand(queued[s]).type = "Update"
  <2>1. queued \in [Models -> Seq(Update)]
    BY ConcatProperties DEF TypeOK
  <2> HIDE DEF queued
  <2> QED BY <2>1, CommandTypes DEF UpdateCommand
<1>5. \A s \in candidates : s \in Models /\ mstate[s] \in {"Idle", "PendingMoreUpdates"}
  OBVIOUS
<1>6. \A s \in candidates \ {m} : inbox[s] = <<>> /\ outbox[s] = <<>> /\ proc[s] = "running"
  BY <1>5, FreeModel DEF BusyStates
<1>7. m \notin candidates
  BY <1>2 DEF BusyStates
<1>8. proc' = proc /\ \A s \in Models : outbox'[s] = IF s = m THEN <<>> ELSE outbox[s]
  BY <1>1, <1>2 DEF modelVars, TypeOK
<1>9. \A s \in Models :
        /\ mstate'[s] = IF s = m THEN own
                        ELSE IF s \in W THEN "Updating"
                        ELSE IF s \in candidates THEN "PendingMoreUpdates" ELSE mstate[s]
        /\ inbox'[s] = IF s \in updated THEN Append(inbox[s], UpdateCommand(queued[s]))
                       ELSE IF s = m /\ own = "Finalizing" THEN Append(inbox[s], QuitCommand)
                       ELSE inbox[s]
  BY <1>1
<1> HIDE DEF own, queued, candidates
<1>10. SUFFICES ASSUME NEW s \in Models
                PROVE  Exchange(mstate'[s], inbox'[s], outbox'[s], proc'[s])
  BY ExchangePerModel
<1>11. CASE s \in W
  <2>1. /\ mstate'[s] = "Updating" /\ outbox'[s] = <<>> /\ proc'[s] = "running"
        /\ inbox'[s] = Append(<<>>, UpdateCommand(queued[s]))
    BY <1>6, <1>7, <1>8, <1>9, <1>11
  <2> QED BY <1>4, <2>1, CommandSent
<1>12. CASE s = m
  <2>1. outbox'[s] = <<>> /\ mstate'[s] = own /\ proc'[s] = proc[m]
    BY <1>8, <1>9, <1>12
  <2>2. s \notin W
    BY <1>7, <1>12
  <2>3. CASE own = "Updating"
    <3>1. proc[m] = "running" /\ inbox'[s] = Append(<<>>, UpdateCommand(queued[s]))
      BY <1>2, <1>3, <1>9, <1>12, <2>3
    <3> QED BY <1>4, <2>1, <2>3, <3>1, CommandSent
  <2>4. CASE own = "Finalizing"
    <3>1. proc[m] = "running" /\ inbox'[s] = Append(<<>>, QuitCommand)
      BY <1>2, <1>3, <1>9, <1>12, <2>2, <2>4
    <3> QED BY <2>1, <2>4, <3>1, CommandSent, CommandTypes
  <2>5. CASE own \in {"Idle", "PendingMoreUpdates", "Done"}
    <3>1. inbox'[s] = <<>>
      BY <1>2, <1>9, <1>12, <2>2, <2>5
    <3> QED BY <1>2, <1>3, <2>1, <2>5, <3>1, NothingSent
  <2> QED BY <1>3, <2>3, <2>4, <2>5
<1>13. CASE s \in candidates \ W
  <2>1. /\ mstate'[s] = "PendingMoreUpdates" /\ outbox'[s] = <<>> /\ proc'[s] = "running"
        /\ inbox'[s] = <<>>
    BY <1>6, <1>7, <1>8, <1>9, <1>13
  <2> QED BY <2>1, NothingSent
<1>14. CASE s \notin candidates /\ s # m
  <2>1. mstate'[s] = mstate[s] /\ inbox'[s] = inbox[s] /\ outbox'[s] = outbox[s] /\ proc'[s] = proc[s]
    BY <1>8, <1>9, <1>14
  <2> QED BY <2>1, ExchangePerModel
<1> QED BY <1>11, <1>12, <1>13, <1>14

\* Every handler of a response meets the conditions of HandleExchange.
LEMMA ReceiveExchange ==
  ASSUME TypeOK, ExchangeInv, NEW m \in Models, Receive(m)
  PROVE  ExchangeInv'
<1>1. /\ pendingUpdates[m] \in Seq(Update) /\ <<>> \in Seq(Update)
      /\ pendingQuit[m] \in BOOLEAN /\ failed[m] \in BOOLEAN
      /\ {} \in SUBSET Models /\ Subscribers(m) \in SUBSET Models
  BY DEF TypeOK, Subscribers
<1>2. outbox[m] # <<>>
  BY DEF Receive, ReceiveRegistration, ReceiveAcknowledge, ReceiveResult, ReceiveError,
         ReceiveInvalid, Receives
<1>3. CASE ReceiveRegistration(m)
  <2>1. /\ Handle(m, {}, <<>>, pendingUpdates[m], pendingQuit[m], failed[m])
        /\ Head(outbox[m]).type # "Error"
    BY <1>3 DEF ReceiveRegistration, Receives
  <2> QED BY <1>1, <1>2, <2>1, HandleExchange
<1>4. CASE ReceiveAcknowledge(m)
  <2> DEFINE notified == IF pendingUpdates[m] = <<>> THEN Subscribers(m) ELSE {}
  <2>1. notified \in SUBSET Models
    BY <1>1
  <2>2. /\ Handle(m, notified, <<>>, pendingUpdates[m], pendingQuit[m], failed[m])
        /\ Head(outbox[m]).type # "Error"
    BY <1>4 DEF ReceiveAcknowledge, Receives
  <2> HIDE DEF notified
  <2> QED BY <1>1, <1>2, <2>1, <2>2, HandleExchange
<1>5. CASE ReceiveResult(m)
  <2> DEFINE r == Head(outbox[m])
             news == IF r.key = None THEN <<>> ELSE <<DataUpdate(m, r.key)>>
  <2>0. r \in Responses
    BY <1>5, HeadTailProperties DEF ReceiveResult, Receives, TypeOK
  <2>1. news \in Seq(Update)
    BY <2>0, NewsType
  <2>2. /\ Handle(m, Subscribers(m), news, pendingUpdates[m], pendingQuit[m], failed[m])
        /\ Head(outbox[m]).type # "Error"
    BY <1>5 DEF ReceiveResult, Receives
  <2> HIDE DEF news
  <2> QED BY <1>1, <1>2, <2>1, <2>2, HandleExchange
<1>6. CASE ReceiveError(m)
  <2>1. Handle(m, {}, <<>>, <<>>, FALSE, TRUE)
    BY <1>6 DEF ReceiveError
  <2> QED BY <1>1, <1>2, <2>1, HandleExchange
<1>7. CASE ReceiveInvalid(m)
  <2> DEFINE updates == IF pendingQuit[m] THEN pendingUpdates[m] ELSE <<>>
  <2>1. updates \in Seq(Update)
    BY <1>1
  <2>2. Handle(m, {}, <<>>, updates, TRUE, TRUE)
    BY <1>7 DEF ReceiveInvalid
  <2>3. Head(outbox[m]).type # "Error"
    BY <1>7 DEF ReceiveInvalid, Receives, ValidResponses, BusyStates
  <2> HIDE DEF updates
  <2> QED BY <1>1, <1>2, <2>1, <2>2, <2>3, HandleExchange
<1> QED BY <1>3, <1>4, <1>5, <1>6, <1>7 DEF Receive

\* The orchestrator sends commands only to models it is not waiting for.
LEMMA OrchestratorRunExchange ==
  ASSUME TypeOK, ExchangeInv, OrchestratorRun
  PROVE  ExchangeInv'
<1>1. CASE StartInitializingPhase \/ StartRunningPhase \/ EndFinalizingPhase
  BY <1>1 DEF StartInitializingPhase, StartRunningPhase, EndFinalizingPhase, connectedVars,
              modelVars, ExchangeInv, OneExchange, LifeCycle
<1>2. SUFFICES ASSUME AdvanceTime \/ RepeatTime \/ StartFinalizingPhase, NEW m \in Models
               PROVE  Exchange(mstate'[m], inbox'[m], outbox'[m], proc'[m])
  BY <1>1, ExchangePerModel DEF OrchestratorRun
<1>3. Exchange(mstate[m], inbox[m], outbox[m], proc[m])
  BY ExchangePerModel
<1>4. proc' = proc /\ outbox' = outbox
  BY <1>2 DEF AdvanceTime, RepeatTime, StartFinalizingPhase, modelVars
<1>5. mstate[m] \in {"Idle", "PendingMoreUpdates"} =>
        inbox[m] = <<>> /\ outbox[m] = <<>> /\ proc[m] = "running"
  BY FreeModel DEF BusyStates
<1>6. CASE AdvanceTime
  <2>1. NewTimeCommand(EarliestRequest) \in Commands
    BY <1>6, EarliestRequestExists, CommandTypes DEF AdvanceTime, TypeOK
  <2>2. CASE mstate[m] = "Idle"
    <3>1. mstate'[m] = "NewTime" /\ inbox'[m] = Append(<<>>, NewTimeCommand(EarliestRequest))
      BY <1>5, <1>6, <2>2 DEF AdvanceTime
    <3> QED BY <1>4, <1>5, <2>1, <2>2, <3>1, CommandSent DEF NewTimeCommand
  <2>3. CASE mstate[m] # "Idle"
    <3>1. mstate'[m] = mstate[m] /\ inbox'[m] = inbox[m]
      BY <1>6, <2>3 DEF AdvanceTime
    <3> QED BY <1>3, <1>4, <3>1
  <2> QED BY <2>2, <2>3
<1>7. CASE RepeatTime
  <2> DEFINE due == {k \in Models : nextTime[k] = currentTime /\ mstate[k] \notin Deaf}
             queued == [k \in Models |->
                          IF k \in due
                          THEN Append(pendingUpdates[k], TimeUpdate(currentTime))
                          ELSE pendingUpdates[k]]
             candidates == {k \in due : mstate[k] \in {"Idle", "PendingMoreUpdates"}}
  <2>1. PICK W \in SUBSET candidates :
          /\ mstate' = [k \in Models |-> IF k \in W THEN "Updating"
                                         ELSE IF k \in candidates THEN "PendingMoreUpdates"
                                         ELSE mstate[k]]
          /\ inbox' = [k \in Models |-> IF k \in W
                                        THEN Append(inbox[k], UpdateCommand(queued[k]))
                                        ELSE inbox[k]]
    BY <1>7, Zenon DEF RepeatTime
  <2>2. UpdateCommand(queued[m]) \in Commands /\ UpdateCommand(queued[m]).type = "Update"
    <3>1. queued[m] \in Seq(Update)
      <4>1. TimeUpdate(currentTime) \in Update
        BY NAssumption DEF TimeUpdate, Update, TypeOK
      <4> QED BY <4>1 DEF TypeOK
    <3> HIDE DEF queued
    <3> QED BY <3>1, CommandTypes DEF UpdateCommand
  <2>3. m \in candidates => mstate[m] \in {"Idle", "PendingMoreUpdates"}
    OBVIOUS
  <2> HIDE DEF queued, candidates
  <2>4. CASE m \in W
    <3>1. mstate'[m] = "Updating" /\ inbox'[m] = Append(<<>>, UpdateCommand(queued[m]))
      BY <1>5, <2>1, <2>3, <2>4
    <3> QED BY <1>4, <1>5, <2>2, <2>3, <2>4, <3>1, CommandSent
  <2>5. CASE m \in candidates \ W
    <3>1. mstate'[m] = "PendingMoreUpdates" /\ inbox'[m] = <<>>
      BY <1>5, <2>1, <2>3, <2>5
    <3> QED BY <1>4, <1>5, <2>3, <2>5, <3>1, NothingSent
  <2>6. CASE m \notin candidates
    <3>1. mstate'[m] = mstate[m] /\ inbox'[m] = inbox[m]
      BY <2>1, <2>6
    <3> QED BY <1>3, <1>4, <3>1
  <2> QED BY <2>4, <2>5, <2>6
<1>8. CASE StartFinalizingPhase
  <2>1. PICK W \in SUBSET InState("PendingMoreUpdates") :
          /\ mstate' = [k \in Models |-> IF k \in InState("Idle") THEN "Finalizing"
                                         ELSE IF k \in W THEN "Updating" ELSE mstate[k]]
          /\ inbox' = [k \in Models |->
                         IF k \in InState("Idle") THEN Append(inbox[k], QuitCommand)
                         ELSE IF k \in W THEN Append(inbox[k], UpdateCommand(pendingUpdates[k]))
                         ELSE inbox[k]]
    BY <1>8, Zenon DEF StartFinalizingPhase
  <2>2. CASE mstate[m] = "Idle"
    <3>1. mstate'[m] = "Finalizing" /\ inbox'[m] = Append(<<>>, QuitCommand)
      BY <1>5, <2>1, <2>2 DEF InState
    <3> QED BY <1>4, <1>5, <2>2, <3>1, CommandSent, CommandTypes
  <2>3. CASE m \in W
    <3>1. mstate[m] = "PendingMoreUpdates"
      BY <2>3 DEF InState
    <3>2. mstate'[m] = "Updating" /\ inbox'[m] = Append(<<>>, UpdateCommand(pendingUpdates[m]))
      BY <1>5, <2>1, <2>3, <3>1 DEF InState
    <3>3. /\ UpdateCommand(pendingUpdates[m]) \in Commands
          /\ UpdateCommand(pendingUpdates[m]).type = "Update"
      BY CommandTypes DEF TypeOK, UpdateCommand
    <3> QED BY <1>4, <1>5, <3>1, <3>2, <3>3, CommandSent
  <2>4. CASE mstate[m] # "Idle" /\ m \notin W
    <3>1. mstate'[m] = mstate[m] /\ inbox'[m] = inbox[m]
      BY <2>1, <2>4 DEF InState
    <3> QED BY <1>3, <1>4, <3>1
  <2> QED BY <2>2, <2>3, <2>4
<1> QED BY <1>2, <1>6, <1>7, <1>8

\* A model answers a command it has, or registers, with exactly one response.
LEMMA ModelStepExchange ==
  ASSUME TypeOK, ExchangeInv, NEW m \in Models, ModelStep(m)
  PROVE  ExchangeInv'
<1>1. SUFFICES ASSUME NEW s \in Models
               PROVE  Exchange(mstate'[s], inbox'[s], outbox'[s], proc'[s])
  BY ExchangePerModel
<1>2. Exchange(mstate[s], inbox[s], outbox[s], proc[s])
  BY ExchangePerModel
<1>3. mstate' = mstate
  BY DEF ModelStep, Register, HandleNewTime, HandleUpdate, SendResult, HandleQuit, Crash, Fail, Misbehave,
         connectedVars
<1>4. CASE s # m
  <2>1. inbox'[s] = inbox[s] /\ outbox'[s] = outbox[s] /\ proc'[s] = proc[s]
    BY <1>4 DEF ModelStep, Register, HandleNewTime, HandleUpdate, SendResult, HandleQuit, Crash, Fail,
                Misbehave, Answer, Consume, modelVars, TypeOK
  <2> QED BY <1>2, <1>3, <2>1
<1>5. CASE s = m /\ proc[m] = "starting"
  <2>1. /\ mstate[m] = "Registration" /\ inbox[m] = <<>> /\ outbox[m] = <<>>
    BY <1>2, <1>5 DEF Exchange
  <2>2. PICK r \in Responses : outbox'[m] = Append(<<>>, r) /\
          \/ proc'[m] = "running"
          \/ proc'[m] = "crashed" /\ r.type = "Error"
    BY <1>5, <2>1, ResponseTypesOK
       DEF ModelStep, Register, HandleNewTime, HandleUpdate, SendResult, HandleQuit, Crash, Fail, Misbehave,
           Answer, Received, TypeOK, ResponseTypes, Response
  <2>3. inbox'[m] = <<>>
    BY <1>5, <2>1 DEF ModelStep, Register, HandleNewTime, HandleUpdate, SendResult, HandleQuit, Crash, Fail,
                      Misbehave, Received, TypeOK
  <2> QED BY <1>3, <1>5, <2>1, <2>2, <2>3, SingleMessage DEF Exchange, BusyStates
<1>6. CASE s = m /\ proc[m] # "starting"
  <2>1. inbox[m] # <<>>
    BY <1>6 DEF ModelStep, Register, HandleNewTime, HandleUpdate, SendResult, HandleQuit, Crash, Fail,
                Misbehave, Received
  <2>2. /\ mstate[m] \in BusyStates \ {"Registration"}
        /\ outbox[m] = <<>> /\ Tail(inbox[m]) = <<>> /\ proc[m] = "running"
    BY <2>1, CommandedModel
  <2>3. inbox'[m] = <<>>
    BY <2>1, <2>2, <1>6 DEF ModelStep, Register, HandleNewTime, HandleUpdate, SendResult, HandleQuit, Crash, Fail,
                Misbehave, Consume, TypeOK
  <2>4. PICK r \in Responses : outbox'[m] = Append(<<>>, r) /\
          \/ proc'[m] = "running"
          \/ proc'[m] = "exited" /\ Head(inbox[m]).type = "Quit"
          \/ proc'[m] = "crashed" /\ r.type = "Error"
    <3>1. CASE HandleNewTime(m)
      BY <2>2, <3>1, ResponseTypesOK
         DEF HandleNewTime, Answer, Received, TypeOK, ResponseTypes, modelVars
    <3>2. CASE HandleUpdate(m)
      BY <2>2, <3>2, ResponseTypesOK DEF HandleUpdate, SendResult, Answer, TypeOK, modelVars
    <3>3. CASE HandleQuit(m)
      BY <2>2, <3>3, ResponseTypesOK
         DEF HandleQuit, Answer, Received, TypeOK, ResponseTypes
    <3>4. CASE Crash(m)
      <4>1. Response("Error") \in Responses /\ Response("Error").type = "Error"
        BY ResponseTypesOK DEF ResponseTypes, Response
      <4> QED BY <2>2, <3>4, <4>1 DEF Crash, Fail, Answer, TypeOK
    <3>5. CASE Misbehave(m)
      <4>1. PICK type \in ResponseTypes : Answer(m, Response(type))
        BY <3>5 DEF Misbehave, ResponseTypes
      <4>2. Response(type) \in Responses
        BY ResponseTypesOK
      <4> QED BY <2>2, <3>5, <4>1, <4>2 DEF Misbehave, Answer, TypeOK, modelVars
    <3> QED BY <1>6, <3>1, <3>2, <3>3, <3>4, <3>5 DEF ModelStep, Register
  <2>5. Head(inbox[m]).type = "Quit" => mstate[m] = "Finalizing"
    BY <1>2, <1>6, <2>1 DEF Exchange
  <2>6. /\ Len(outbox'[m]) = 1 /\ outbox'[m] # <<>>
        /\ proc'[m] \in {"running", "exited", "crashed"}
        /\ proc'[m] = "exited" => mstate[m] = "Finalizing"
        /\ proc'[m] = "crashed" => Head(outbox'[m]).type = "Error"
    BY <2>4, <2>5, SingleMessage
  <2> QED BY <1>3, <1>6, <2>2, <2>3, <2>6 DEF Exchange, BusyStates, Deaf
<1> QED BY <1>4, <1>5, <1>6

\* Every step keeps the exchanges in order.
LEMMA NextExchange == TypeOK /\ ExchangeInv /\ [Next]_vars => ExchangeInv'
<1> SUFFICES ASSUME TypeOK, ExchangeInv, [Next]_vars PROVE ExchangeInv'
  OBVIOUS
<1>1. CASE UNCHANGED vars
  BY <1>1 DEF ExchangeInv, OneExchange, LifeCycle, vars, connectedVars, modelVars
<1>2. CASE OrchestratorRun
  BY <1>2, OrchestratorRunExchange
<1>3. ASSUME NEW m \in Models, Receive(m) PROVE ExchangeInv'
  BY <1>3, ReceiveExchange
<1>4. ASSUME NEW m \in Models, ModelStep(m) PROVE ExchangeInv'
  BY <1>4, ModelStepExchange
<1> QED BY <1>1, <1>2, <1>3, <1>4 DEF Next

\* Whatever the order in which models answer, fail or misbehave: one exchange at
\* a time per model, and no command to a process that has ended.
THEOREM OneExchangeAtATime == Spec => []OneExchange
<1>1. Init => TypeOK /\ ExchangeInv
  BY InitTypeOK, InitExchange
<1>2. TypeOK /\ ExchangeInv /\ [Next]_vars => (TypeOK /\ ExchangeInv)'
  BY NextTypeOK, NextExchange
<1>3. ExchangeInv => OneExchange
  BY DEF ExchangeInv
<1> QED BY <1>1, <1>2, <1>3, PTL DEF Spec

-----------------------------------------------------------------------------
(* The inductive invariant of the other properties.                        *)

Closing == {"StartFinalizingPhase", "FinalizingWaitForModels", "EndFinalizingPhase", "Stopped"}

\* Where the state machines of the models are in every state of the orchestrator's.
\* Outside the finalizing phase nothing has failed and nobody was asked to quit;
\* an orderly finalizing phase begins when every model is idle and wishes nothing.
Phases ==
  /\ ~commandRefused
  /\ ostate \in {"StartInitializingPhase", "ModelsRegistration"} =>
       overlaps = {} /\ currentTime = None /\ \A m \in Models : mstate[m] \in {"Registration", "Idle"}
  /\ ostate \in {"StartRunningPhase", "NewTime"} => \A m \in Models : mstate[m] = "Idle"
  /\ ostate = "WaitForResults" =>
       \A m \in Models : mstate[m] \in {"Idle", "NewTime", "Updating", "PendingMoreUpdates"}
  /\ ostate \notin Closing => \A m \in Models : ~failed[m] /\ ~pendingQuit[m]
  /\ ostate \in {"EndFinalizingPhase", "Stopped"} => Busy = {}
  /\ ostate \in Closing /\ Failed = {} =>
       /\ Requested = {}
       /\ \A m \in Models :
            /\ pendingUpdates[m] = <<>>
            /\ mstate[m] \in IF ostate = "StartFinalizingPhase" THEN {"Idle"} ELSE Deaf
  /\ \A m \in Models : mstate[m] = "Registration" =>
       overlaps = {} /\ currentTime = None
         /\ ostate \notin {"StartRunningPhase", "NewTime", "WaitForResults"}
  /\ currentTime = None => \A m \in Models : mstate[m] \in {"Registration", "Idle"} \cup Deaf

\* What a state machine says about its model: nothing is queued for an idle one, a
\* failed one is spoken to no longer, and a process that died is known to have failed
\* when nothing more is expected of it.
ModelStatus ==
  \A m \in Models :
    /\ mstate[m] \in {"Registration", "Idle"} => pendingUpdates[m] = <<>>
    /\ failed[m] => mstate[m] \in Deaf
    /\ proc[m] = "crashed" /\ mstate[m] = "Done" => failed[m]

\* Every update in q was produced at t.
ProducedAt(t, q) == \A i \in DOMAIN q : q[i].time = t

\* What is queued and what is under way belongs to the current time, and only a
\* model that is at that time is taken to be.
Currency ==
  \A m \in Models :
    /\ ProducedAt(currentTime, pendingUpdates[m])
    /\ mstate[m] \in {"Registration", "Idle", "PendingMoreUpdates", "Updating"} => modelTime[m] = currentTime
    /\ mstate[m] = "NewTime" /\ outbox[m] # <<>> /\ Head(outbox[m]).type = "Acknowledge" =>
         modelTime[m] = currentTime
    /\ inbox[m] # <<>> =>
         LET c == Head(inbox[m]) IN
         /\ c.type = "NewTime" => mstate[m] = "NewTime" /\ c.time = currentTime
         /\ c.type = "Update" => mstate[m] = "Updating" /\ ProducedAt(currentTime, c.updates)

SafetyInv ==
  TypeOK /\ ExchangeInv /\ Phases /\ ModelStatus /\ Currency /\ NoRequestSkipped /\ NobodyWaitsForNothing

\* An update of the time may join those of the time.
LEMMA ProducedAtAppend ==
  ASSUME NEW t, NEW q \in Seq(Update), NEW u \in Update, ProducedAt(t, q), u.time = t
  PROVE  ProducedAt(t, Append(q, u))
BY AppendProperties DEF ProducedAt

\* Updates of one time are together updates of that time.
LEMMA ProducedAtConcat ==
  ASSUME NEW t, NEW q \in Seq(Update), NEW r \in Seq(Update), ProducedAt(t, q), ProducedAt(t, r)
  PROVE  ProducedAt(t, q \o r)
BY ConcatProperties DEF ProducedAt

-----------------------------------------------------------------------------
(* What the handling of a response does, model by model.                   *)

\* Handle, with the candidates C, the models W it wakes and the state `own` that
\* m goes to: the form in which the proofs use it.
Effect(m, notified, news, updates, quit, hasFailed, C, W, own) ==
  /\ C = {s \in notified : \/ mstate[s] = "PendingMoreUpdates"
                           \/ mstate[s] = "Idle" /\ news # <<>>}
  /\ W \subseteq C
  /\ \A c \in C : c \in W <=> Dependencies(c) \cap ((Busy \ {m}) \cup {s \in W : s < c}) = {}
  /\ own = AfterResponse(mstate[m], quit, hasFailed, updates, Dependencies(m) \cap ((Busy \ {m}) \cup W) # {})
  /\ \A s \in Models :
       /\ mstate'[s] = IF s = m THEN own
                       ELSE IF s \in W THEN "Updating"
                       ELSE IF s \in C THEN "PendingMoreUpdates" ELSE mstate[s]
       /\ pendingUpdates'[s] =
            IF s \in W \/ (s = m /\ own = "Updating") THEN <<>>
            ELSE IF s = m THEN updates
            ELSE IF s \in notified /\ mstate[s] \notin Deaf THEN pendingUpdates[s] \o news
            ELSE pendingUpdates[s]
       /\ inbox'[s] =
            IF s \in W THEN Append(<<>>, UpdateCommand(pendingUpdates[s] \o news))
            ELSE IF s = m /\ own = "Updating" THEN Append(<<>>, UpdateCommand(updates))
            ELSE IF s = m /\ own = "Finalizing" THEN Append(<<>>, QuitCommand)
            ELSE inbox[s]
       /\ outbox'[s] = IF s = m THEN <<>> ELSE outbox[s]
       /\ pendingQuit'[s] = IF s = m THEN quit ELSE pendingQuit[s]
       /\ failed'[s] = IF s = m THEN hasFailed ELSE failed[s]
  /\ commandRefused' =
       (commandRefused \/ \E s \in notified : mstate[s] = "Registration")
  /\ ostate' = AfterEvent
  /\ UNCHANGED <<currentTime, overlaps, proc, modelTime>>

\* Handle has that effect, and m is none of the models it wakes.
LEMMA HandleEffect ==
  ASSUME TypeOK, ExchangeInv, NEW m \in Models, NEW notified \in SUBSET Models,
         NEW news \in Seq(Update), NEW updates \in Seq(Update),
         NEW quit \in BOOLEAN, NEW hasFailed \in BOOLEAN,
         outbox[m] # <<>>,
         Handle(m, notified, news, updates, quit, hasFailed)
  PROVE  \E C, W \in SUBSET Models :
           \E own \in {"Idle", "PendingMoreUpdates", "Done", "Updating", "Finalizing"} :
             m \notin C /\ Effect(m, notified, news, updates, quit, hasFailed, C, W, own)
<1> DEFINE listening == {s \in notified : mstate[s] \notin Deaf}
           queued == [s \in Models |-> IF s = m THEN updates
                                       ELSE IF s \in listening THEN pendingUpdates[s] \o news
                                       ELSE pendingUpdates[s]]
           C == {s \in listening : \/ mstate[s] = "PendingMoreUpdates"
                                   \/ mstate[s] = "Idle" /\ news # <<>>}
           running == Busy \ {m}
<1>1. PICK W \in SUBSET C :
        /\ IsWoken(W, C, running, {})
        /\ LET waiting == Dependencies(m) \cap (running \cup W) # {}
               own == AfterResponse(mstate[m], quit, hasFailed, updates, waiting)
               updated == W \cup (IF own = "Updating" THEN {m} ELSE {})
           IN /\ mstate' = [s \in Models |-> IF s = m THEN own
                                             ELSE IF s \in W THEN "Updating"
                                             ELSE IF s \in C THEN "PendingMoreUpdates"
                                             ELSE mstate[s]]
              /\ inbox' = [s \in Models |->
                             IF s \in updated THEN Append(inbox[s], UpdateCommand(queued[s]))
                             ELSE IF s = m /\ own = "Finalizing" THEN Append(inbox[s], QuitCommand)
                             ELSE inbox[s]]
              /\ pendingUpdates' = [s \in Models |-> IF s \in updated THEN <<>> ELSE queued[s]]
        /\ pendingQuit' = [pendingQuit EXCEPT ![m] = quit]
        /\ failed' = [failed EXCEPT ![m] = hasFailed]
        /\ commandRefused' = (commandRefused \/ \E s \in listening : mstate[s] = "Registration")
        /\ outbox' = [outbox EXCEPT ![m] = Tail(@)]
        /\ ostate' = AfterEvent
        /\ UNCHANGED <<currentTime, overlaps, modelVars>>
  BY Zenon DEF Handle
<1> DEFINE own == AfterResponse(mstate[m], quit, hasFailed, updates, Dependencies(m) \cap (running \cup W) # {})
<1>2. /\ mstate[m] \in BusyStates /\ inbox[m] = <<>> /\ Tail(outbox[m]) = <<>>
  BY RespondingModel
<1>3. own \in {"Idle", "PendingMoreUpdates", "Done", "Updating", "Finalizing"}
  BY DEF AfterResponse
<1>4. C = {s \in notified : \/ mstate[s] = "PendingMoreUpdates"
                            \/ mstate[s] = "Idle" /\ news # <<>>}
  BY DEF Deaf
<1>5. m \notin C /\ \A s \in C : inbox[s] = <<>> /\ s \in listening
  <2>1. \A s \in C : s \in Models /\ mstate[s] \in {"Idle", "PendingMoreUpdates"}
    OBVIOUS
  <2> QED BY <1>2, <2>1, FreeModel DEF BusyStates
<1>6. \A c \in C : c \in W <=> Dependencies(c) \cap (running \cup {s \in W : s < c}) = {}
  <2>1. W = {c \in C : Dependencies(c) \cap (running \cup {s \in {} \cup W : s < c}) = {}}
    BY <1>1 DEF IsWoken
  <2>2. {} \cup W = W
    OBVIOUS
  <2> HIDE DEF C, running
  <2> QED BY <2>1, <2>2, Zenon
<1>7. \A s \in Models :
        /\ mstate'[s] = IF s = m THEN own
                        ELSE IF s \in W THEN "Updating"
                        ELSE IF s \in C THEN "PendingMoreUpdates" ELSE mstate[s]
        /\ outbox'[s] = IF s = m THEN <<>> ELSE outbox[s]
        /\ pendingQuit'[s] = IF s = m THEN quit ELSE pendingQuit[s]
        /\ failed'[s] = IF s = m THEN hasFailed ELSE failed[s]
  <2> HIDE DEF C, running
  <2> QED BY <1>1, <1>2 DEF TypeOK
<1>8. \A s \in Models : queued[s] = IF s = m THEN updates
                                    ELSE IF s \in listening THEN pendingUpdates[s] \o news
                                    ELSE pendingUpdates[s]
  OBVIOUS
<1>9. \A s \in Models :
        /\ pendingUpdates'[s] = IF s \in W \/ (s = m /\ own = "Updating") THEN <<>> ELSE queued[s]
        /\ inbox'[s] =
            IF s \in W \/ (s = m /\ own = "Updating") THEN Append(inbox[s], UpdateCommand(queued[s]))
            ELSE IF s = m /\ own = "Finalizing" THEN Append(inbox[s], QuitCommand)
            ELSE inbox[s]
  <2> HIDE DEF C, running, queued
  <2> QED BY <1>1
<1>10. /\ commandRefused' = (commandRefused \/ \E s \in notified : mstate[s] = "Registration")
       /\ ostate' = AfterEvent
       /\ UNCHANGED <<currentTime, overlaps, proc, modelTime>>
  BY <1>1 DEF Deaf, modelVars
<1> HIDE DEF own, queued
<1>11. \A s \in Models :
       /\ pendingUpdates'[s] =
            IF s \in W \/ (s = m /\ own = "Updating") THEN <<>>
            ELSE IF s = m THEN updates
            ELSE IF s \in notified /\ mstate[s] \notin Deaf THEN pendingUpdates[s] \o news
            ELSE pendingUpdates[s]
       /\ inbox'[s] =
            IF s \in W THEN Append(<<>>, UpdateCommand(pendingUpdates[s] \o news))
            ELSE IF s = m /\ own = "Updating" THEN Append(<<>>, UpdateCommand(updates))
            ELSE IF s = m /\ own = "Finalizing" THEN Append(<<>>, QuitCommand)
            ELSE inbox[s]
  <2> TAKE s \in Models
  <2>1. CASE s = m
    BY <2>1, <1>2, <1>5, <1>8, <1>9
  <2>2. CASE s # m /\ s \in W
    <3>1. inbox[s] = <<>> /\ s \in listening
      BY <1>5, <2>2
    <3> QED BY <2>2, <3>1, <1>8, <1>9
  <2>3. CASE s # m /\ s \notin W
    BY <2>3, <1>8, <1>9
  <2> QED BY <2>1, <2>2, <2>3
<1>12. Effect(m, notified, news, updates, quit, hasFailed, C, W, own)
  <2> HIDE DEF C, listening
  <2>1. own = AfterResponse(mstate[m], quit, hasFailed, updates, Dependencies(m) \cap ((Busy \ {m}) \cup W) # {})
    BY DEF own
  <2> QED BY <1>1, <1>4, <1>6, <1>7, <1>10, <1>11, <2>1 DEF Effect
<1>13. C \in SUBSET Models
  OBVIOUS
<1> QED
  <2> HIDE DEF C, listening
  <2> QED BY <1>1, <1>3, <1>5, <1>12, <1>13, Zenon

\* What the five handlers of a response have in common: the response is an error,
\* or not one that the state machine of m accepts, and m has failed; or it is the
\* one it waits for, and the fields of m are what they were but for its next_time.
Handling(m, notified, news, updates, quit, hasFailed) ==
  /\ ProducedAt(currentTime, news)
  /\ \A s \in Models \ {m} : nextTime'[s] = nextTime[s]
  /\ \/ /\ Head(outbox[m]).type \notin ValidResponses(mstate[m]) \ {"Error"}
        /\ hasFailed /\ nextTime' = nextTime
        /\ notified = {} /\ news = <<>> /\ updates \in {<<>>, pendingUpdates[m]}
     \/ /\ Head(outbox[m]).type # "Error"
        /\ hasFailed = failed[m] /\ quit = pendingQuit[m] /\ updates = pendingUpdates[m]
        /\ \/ /\ mstate[m] = "Registration"
              /\ nextTime'[m] = Start /\ notified = {} /\ news = <<>>
           \/ /\ mstate[m] \in {"NewTime", "Finalizing"} /\ Head(outbox[m]).type = "Acknowledge"
              /\ nextTime' = nextTime /\ news = <<>>
              /\ notified = IF pendingUpdates[m] = <<>> THEN Subscribers(m) ELSE {}
           \/ /\ mstate[m] = "Updating" /\ Head(outbox[m]).type = "Result"
              /\ nextTime'[m] = ValidatedNextTime(Head(outbox[m]).nextTime)
              /\ notified = Subscribers(m)
              /\ news = IF Head(outbox[m]).key = None THEN <<>>
                        ELSE <<DataUpdate(m, Head(outbox[m]).key)>>

\* The whole of a step that takes a response of m.
Reception(m, notified, news, updates, quit, hasFailed, C, W, own) ==
  /\ ostate \in Waiting /\ mstate[m] \in BusyStates
  /\ outbox[m] # <<>> /\ Head(outbox[m]) \in Responses
  /\ notified \in SUBSET Models /\ news \in Seq(Update) /\ updates \in Seq(Update)
  /\ quit \in BOOLEAN /\ hasFailed \in BOOLEAN
  /\ C \in SUBSET Models /\ m \notin C
  /\ own \in {"Idle", "PendingMoreUpdates", "Done", "Updating", "Finalizing"}
  /\ Handling(m, notified, news, updates, quit, hasFailed)
  /\ Effect(m, notified, news, updates, quit, hasFailed, C, W, own)

\* Every handler of a response is such a step.
LEMMA ReceiveEffect ==
  ASSUME TypeOK, ExchangeInv, NEW m \in Models, Receive(m)
  PROVE  \E notified, news, updates, quit, hasFailed, C, W, own :
           Reception(m, notified, news, updates, quit, hasFailed, C, W, own)
<1>1. /\ pendingUpdates[m] \in Seq(Update) /\ <<>> \in Seq(Update)
      /\ pendingQuit[m] \in BOOLEAN /\ failed[m] \in BOOLEAN
      /\ nextTime \in [Models -> Times \cup {None}]
      /\ {} \in SUBSET Models /\ Subscribers(m) \in SUBSET Models
  BY DEF TypeOK, Subscribers
<1>2. ostate \in Waiting /\ outbox[m] # <<>>
  BY DEF Receive, ReceiveRegistration, ReceiveAcknowledge, ReceiveResult, ReceiveError,
         ReceiveInvalid, Receives
<1>3. mstate[m] \in BusyStates /\ Head(outbox[m]) \in Responses
  BY <1>2, RespondingModel, HeadTailProperties DEF TypeOK
<1>4. SUFFICES \E notified \in SUBSET Models, news, updates \in Seq(Update), quit, hasFailed \in BOOLEAN :
                 /\ Handling(m, notified, news, updates, quit, hasFailed)
                 /\ Handle(m, notified, news, updates, quit, hasFailed)
  <2>1. PICK notified \in SUBSET Models, news \in Seq(Update), updates \in Seq(Update),
             quit \in BOOLEAN, hasFailed \in BOOLEAN :
                 /\ Handling(m, notified, news, updates, quit, hasFailed)
                 /\ Handle(m, notified, news, updates, quit, hasFailed)
    BY <1>4, Zenon
  <2>2. PICK C \in SUBSET Models, W \in SUBSET Models,
             own \in {"Idle", "PendingMoreUpdates", "Done", "Updating", "Finalizing"} :
             m \notin C /\ Effect(m, notified, news, updates, quit, hasFailed, C, W, own)
    BY <1>2, <2>1, HandleEffect
  <2>3. Reception(m, notified, news, updates, quit, hasFailed, C, W, own)
    BY <1>2, <1>3, <2>1, <2>2 DEF Reception
  <2> QED BY <2>3
<1>5. CASE ReceiveRegistration(m)
  <2>1. /\ Handle(m, {}, <<>>, pendingUpdates[m], pendingQuit[m], failed[m])
        /\ nextTime' = [nextTime EXCEPT ![m] = Start]
        /\ Head(outbox[m]).type = "Registration" /\ mstate[m] = "Registration"
    BY <1>5 DEF ReceiveRegistration, Receives, ValidResponses
  <2>2. Handling(m, {}, <<>>, pendingUpdates[m], pendingQuit[m], failed[m])
    BY <1>1, <2>1 DEF Handling, ProducedAt
  <2> QED BY <1>1, <2>1, <2>2, Zenon
<1>6. CASE ReceiveAcknowledge(m)
  <2> DEFINE notified == IF pendingUpdates[m] = <<>> THEN Subscribers(m) ELSE {}
  <2>1. /\ Handle(m, notified, <<>>, pendingUpdates[m], pendingQuit[m], failed[m])
        /\ nextTime' = nextTime
        /\ Head(outbox[m]).type = "Acknowledge" /\ mstate[m] \in {"NewTime", "Finalizing"}
    BY <1>6 DEF ReceiveAcknowledge, Receives, ValidResponses
  <2>2. Handling(m, notified, <<>>, pendingUpdates[m], pendingQuit[m], failed[m])
    BY <1>1, <2>1 DEF Handling, ProducedAt
  <2>3. notified \in SUBSET Models
    BY <1>1
  <2> HIDE DEF notified
  <2> QED BY <1>1, <2>1, <2>2, <2>3, Zenon
<1>7. CASE ReceiveResult(m)
  <2> DEFINE r == Head(outbox[m])
             news == IF r.key = None THEN <<>> ELSE <<DataUpdate(m, r.key)>>
  <2>1. news \in Seq(Update)
    BY <1>3, NewsType
  <2>2. /\ Handle(m, Subscribers(m), news, pendingUpdates[m], pendingQuit[m], failed[m])
        /\ nextTime' = [nextTime EXCEPT ![m] = ValidatedNextTime(r.nextTime)]
        /\ r.type = "Result" /\ mstate[m] = "Updating"
    BY <1>7 DEF ReceiveResult, Receives, ValidResponses
  <2>3. ProducedAt(currentTime, news)
    BY DEF DataUpdate, ProducedAt
  <2> HIDE DEF news
  <2>4. Handling(m, Subscribers(m), news, pendingUpdates[m], pendingQuit[m], failed[m])
    BY <1>1, <2>2, <2>3 DEF Handling, news
  <2> QED BY <1>1, <2>1, <2>2, <2>4, Zenon
<1>8. CASE ReceiveError(m)
  <2>1. /\ Handle(m, {}, <<>>, <<>>, FALSE, TRUE) /\ nextTime' = nextTime
        /\ Head(outbox[m]).type = "Error"
    BY <1>8 DEF ReceiveError, Receives
  <2>2. Handling(m, {}, <<>>, <<>>, FALSE, TRUE)
    BY <2>1 DEF Handling, ProducedAt
  <2> QED BY <1>1, <2>1, <2>2
<1>9. CASE ReceiveInvalid(m)
  <2> DEFINE updates == IF pendingQuit[m] THEN pendingUpdates[m] ELSE <<>>
  <2>1. updates \in Seq(Update) /\ updates \in {<<>>, pendingUpdates[m]}
    BY <1>1
  <2>2. /\ Handle(m, {}, <<>>, updates, TRUE, TRUE) /\ nextTime' = nextTime
        /\ Head(outbox[m]).type \notin ValidResponses(mstate[m])
    BY <1>9 DEF ReceiveInvalid, Receives
  <2> HIDE DEF updates
  <2>3. Handling(m, {}, <<>>, updates, TRUE, TRUE)
    BY <2>1, <2>2 DEF Handling, ProducedAt
  <2> QED BY <1>1, <2>1, <2>2, <2>3
<1> QED BY <1>5, <1>6, <1>7, <1>8, <1>9 DEF Receive

-----------------------------------------------------------------------------
(* Taking a response keeps the invariant.                                  *)

\* Nobody is notified while a model has yet to register, so nobody is refused.
LEMMA ReceptionOfRegistration ==
  ASSUME SafetyInv, NEW m \in Models, NEW notified, NEW news, NEW updates, NEW quit,
         NEW hasFailed, NEW C, NEW W, NEW own,
         Reception(m, notified, news, updates, quit, hasFailed, C, W, own)
  PROVE  /\ ~commandRefused'
         /\ (\E s \in Models : mstate[s] = "Registration") => notified = {} /\ C = {} /\ W = {}
<1>1. Phases /\ notified \in SUBSET Models /\ W \subseteq C
      /\ Handling(m, notified, news, updates, quit, hasFailed)
      /\ Effect(m, notified, news, updates, quit, hasFailed, C, W, own)
  BY DEF SafetyInv, Reception, Effect
<1>2. notified \in {{}, Subscribers(m)}
  BY <1>1 DEF Handling
<1>3. overlaps = {} => notified = {}
  BY <1>2 DEF Subscribers
<1>4. (\E s \in Models : mstate[s] = "Registration") => notified = {}
  BY <1>1, <1>3 DEF Phases
<1>5. C \subseteq notified
  BY <1>1 DEF Effect
<1>6. commandRefused' = (commandRefused \/ \E s \in notified : mstate[s] = "Registration")
  BY <1>1 DEF Effect
<1> QED BY <1>1, <1>4, <1>5, <1>6 DEF Phases

\* A step after which no model has failed: m has answered what it was asked.
LEMMA CalmReception ==
  ASSUME SafetyInv, NEW m \in Models, NEW notified, NEW news, NEW updates, NEW quit,
         NEW hasFailed, NEW C, NEW W, NEW own,
         Reception(m, notified, news, updates, quit, hasFailed, C, W, own),
         Failed' = {}
  PROVE  /\ Failed = {} /\ ~hasFailed /\ quit = pendingQuit[m] /\ updates = pendingUpdates[m]
         /\ \/ /\ mstate[m] = "Registration"
               /\ nextTime'[m] = Start /\ notified = {} /\ news = <<>>
            \/ /\ mstate[m] \in {"NewTime", "Finalizing"}
               /\ nextTime' = nextTime /\ news = <<>>
               /\ notified = IF pendingUpdates[m] = <<>> THEN Subscribers(m) ELSE {}
            \/ mstate[m] = "Updating" /\ notified = Subscribers(m)
<1>1. /\ Handling(m, notified, news, updates, quit, hasFailed)
      /\ Effect(m, notified, news, updates, quit, hasFailed, C, W, own)
  BY DEF Reception
<1>2. \A s \in Models : failed'[s] = IF s = m THEN hasFailed ELSE failed[s]
  BY <1>1 DEF Effect
<1>3. ~hasFailed /\ \A s \in Models \ {m} : ~failed[s]
  BY <1>2 DEF Failed
<1>4. /\ hasFailed = failed[m] /\ quit = pendingQuit[m] /\ updates = pendingUpdates[m]
      /\ \/ /\ mstate[m] = "Registration"
            /\ nextTime'[m] = Start /\ notified = {} /\ news = <<>>
         \/ /\ mstate[m] \in {"NewTime", "Finalizing"}
            /\ nextTime' = nextTime /\ news = <<>>
            /\ notified = IF pendingUpdates[m] = <<>> THEN Subscribers(m) ELSE {}
         \/ mstate[m] = "Updating" /\ notified = Subscribers(m)
  BY <1>1, <1>3 DEF Handling
<1> QED BY <1>3, <1>4 DEF Failed

\* Whoever waits after the step waits for something: those that looked at their
\* dependencies because of it found a busy one, and the others did not wait for m.
LEMMA ReceptionWaits ==
  ASSUME SafetyInv, NEW m \in Models, NEW notified, NEW news, NEW updates, NEW quit,
         NEW hasFailed, NEW C, NEW W, NEW own,
         Reception(m, notified, news, updates, quit, hasFailed, C, W, own)
  PROVE  NobodyWaitsForNothing'
<1> SUFFICES ASSUME Failed' = {}, NEW S \in SUBSET InState("PendingMoreUpdates")', S # {},
                    \A x \in S : \A d \in Dependencies(x)' :
                      d \notin Busy' /\ (mstate'[d] = "PendingMoreUpdates" => d \in S)
             PROVE  FALSE
  BY DEF NobodyWaitsForNothing
<1>1. /\ Failed = {} /\ ~hasFailed /\ quit = pendingQuit[m] /\ updates = pendingUpdates[m]
      /\ \/ /\ mstate[m] = "Registration" /\ notified = {} /\ news = <<>>
         \/ /\ mstate[m] \in {"NewTime", "Finalizing"} /\ news = <<>>
            /\ notified = IF pendingUpdates[m] = <<>> THEN Subscribers(m) ELSE {}
         \/ mstate[m] = "Updating" /\ notified = Subscribers(m)
  BY CalmReception
<1>2. /\ Effect(m, notified, news, updates, quit, hasFailed, C, W, own)
      /\ mstate[m] \in BusyStates /\ m \notin C /\ C \in SUBSET Models /\ notified \in SUBSET Models
      /\ own \in {"Idle", "PendingMoreUpdates", "Done", "Updating", "Finalizing"}
  BY DEF Reception
<1>3. /\ W \subseteq C /\ overlaps' = overlaps
      /\ C = {s \in notified : \/ mstate[s] = "PendingMoreUpdates"
                               \/ mstate[s] = "Idle" /\ news # <<>>}
      /\ \A c \in C : c \in W <=> Dependencies(c) \cap ((Busy \ {m}) \cup {s \in W : s < c}) = {}
      /\ own = AfterResponse(mstate[m], quit, hasFailed, updates, Dependencies(m) \cap ((Busy \ {m}) \cup W) # {})
      /\ \A s \in Models : mstate'[s] = IF s = m THEN own
                                        ELSE IF s \in W THEN "Updating"
                                        ELSE IF s \in C THEN "PendingMoreUpdates" ELSE mstate[s]
  BY <1>2 DEF Effect
<1>4. \A x \in Models : Dependencies(x)' = Dependencies(x)
  BY <1>3 DEF Dependencies
<1>5. S \subseteq Models /\ \A x \in S : mstate'[x] = "PendingMoreUpdates"
  BY DEF InState
<1>6. Busy \ {m} \subseteq Busy' /\ W \subseteq Busy'
  <2>1. \A s \in Busy \ {m} : s \in Models /\ s \notin C /\ mstate[s] \in BusyStates
    BY <1>3 DEF Busy, BusyStates
  <2>2. \A s \in Busy \ {m} : s \in Models /\ mstate'[s] \in BusyStates
    BY <1>3, <2>1
  <2>3. \A s \in W : s \in Models /\ mstate'[s] \in BusyStates
    BY <1>2, <1>3 DEF BusyStates
  <2> QED BY <2>2, <2>3 DEF Busy
<1>7. S \cap C = {}
  <2> SUFFICES ASSUME NEW x \in S, x \in C PROVE FALSE
    OBVIOUS
  <2>1. x \notin W
    BY <1>2, <1>3, <1>5
  <2>2. Dependencies(x) \cap ((Busy \ {m}) \cup {s \in W : s < x}) # {}
    BY <1>3, <2>1
  <2> QED BY <1>4, <1>5, <1>6, <2>2
<1>8. m \notin S
  <2> SUFFICES ASSUME m \in S PROVE FALSE
    OBVIOUS
  <2>1. own = "PendingMoreUpdates"
    BY <1>3, <1>5
  <2>2. Dependencies(m) \cap ((Busy \ {m}) \cup W) # {}
    BY <1>3, <2>1 DEF AfterResponse
  <2> QED BY <1>4, <1>6, <2>2
<1>9. S \subseteq InState("PendingMoreUpdates")
  BY <1>3, <1>5, <1>7, <1>8 DEF InState
<1>10. PICK x \in S : \E d \in Dependencies(x) :
                  d \in Busy \/ (mstate[d] = "PendingMoreUpdates" /\ d \notin S)
  BY <1>1, <1>9 DEF SafetyInv, NobodyWaitsForNothing
<1>11. PICK d \in Dependencies(x) : d \in Busy \/ (mstate[d] = "PendingMoreUpdates" /\ d \notin S)
  BY <1>10
<1>12. d \in Models /\ d \notin Busy' /\ (mstate'[d] = "PendingMoreUpdates" => d \in S)
  BY <1>4, <1>5 DEF Dependencies
<1>13. CASE mstate[d] = "PendingMoreUpdates" /\ d \notin S
  <2>1. d # m
    BY <1>2, <1>13 DEF BusyStates
  <2> QED BY <1>3, <1>6, <1>12, <1>13, <2>1
<1>14. CASE d \in Busy
  <2>1. d = m
    BY <1>6, <1>12, <1>14
  <2>2. x \in Subscribers(m) /\ x \in Models /\ mstate[x] = "PendingMoreUpdates"
    BY <1>5, <1>9, <2>1 DEF Subscribers, Dependencies, InState
  <2>3. x \notin notified
    BY <1>3, <1>7, <2>2
  <2>4. overlaps # {}
    BY <2>2 DEF Subscribers
  <2>5. mstate[m] # "Registration"
    BY <2>4 DEF SafetyInv, Phases
  <2>6. pendingUpdates[m] # <<>> /\ mstate[m] \in {"NewTime", "Finalizing"}
    BY <1>1, <2>2, <2>3, <2>5
  <2>7. CASE mstate[m] = "NewTime"
    <3>1. own \in {"Finalizing", "PendingMoreUpdates", "Updating"}
      BY <1>1, <1>3, <2>6, <2>7 DEF AfterResponse
    <3> QED BY <1>3, <1>8, <1>12, <2>1, <3>1 DEF Busy, BusyStates
  <2>8. CASE mstate[m] = "Finalizing"
    <3>1. ostate \in Closing
      BY <2>8 DEF SafetyInv, Phases, Closing, TypeOK, OrchestratorStates
    <3> QED BY <1>1, <2>6, <3>1 DEF SafetyInv, Phases
  <2> QED BY <2>6, <2>7, <2>8
<1> QED BY <1>11, <1>13, <1>14

\* A response keeps what is known of every single model: its own part changes with its new state,
\* the subscribers get a command or wait for one.
LEMMA ReceptionModelStatus ==
  ASSUME SafetyInv, NEW m \in Models, NEW notified, NEW news, NEW updates, NEW quit,
         NEW hasFailed, NEW C, NEW W, NEW own,
         Reception(m, notified, news, updates, quit, hasFailed, C, W, own)
  PROVE  ModelStatus'
<1>1. /\ Handling(m, notified, news, updates, quit, hasFailed)
      /\ Effect(m, notified, news, updates, quit, hasFailed, C, W, own)
      /\ mstate[m] \in BusyStates /\ m \notin C /\ C \in SUBSET Models /\ outbox[m] # <<>>
  BY DEF Reception
<1>2. /\ W \subseteq C /\ proc' = proc
      /\ C = {s \in notified : \/ mstate[s] = "PendingMoreUpdates"
                               \/ mstate[s] = "Idle" /\ news # <<>>}
      /\ own = AfterResponse(mstate[m], quit, hasFailed, updates, Dependencies(m) \cap ((Busy \ {m}) \cup W) # {})
  BY <1>1 DEF Effect
<1>3. \A s \in Models :
        /\ mstate'[s] = IF s = m THEN own
                        ELSE IF s \in W THEN "Updating"
                        ELSE IF s \in C THEN "PendingMoreUpdates" ELSE mstate[s]
        /\ failed'[s] = IF s = m THEN hasFailed ELSE failed[s]
        /\ pendingUpdates'[s] =
            IF s \in W \/ (s = m /\ own = "Updating") THEN <<>>
            ELSE IF s = m THEN updates
            ELSE IF s \in notified /\ mstate[s] \notin Deaf THEN pendingUpdates[s] \o news
            ELSE pendingUpdates[s]
  BY <1>1 DEF Effect
<1>4. ModelStatus
  BY DEF SafetyInv
<1> SUFFICES ASSUME NEW s \in Models
             PROVE  /\ mstate'[s] \in {"Registration", "Idle"} => pendingUpdates'[s] = <<>>
                    /\ failed'[s] => mstate'[s] \in Deaf
                    /\ proc'[s] = "crashed" /\ mstate'[s] = "Done" => failed'[s]
  BY DEF ModelStatus
<1>5. CASE s = m
  <2>1. /\ mstate'[s] = own /\ failed'[s] = hasFailed /\ proc'[s] = proc[m]
        /\ pendingUpdates'[s] = IF own = "Updating" THEN <<>> ELSE updates
    BY <1>1, <1>2, <1>3, <1>5
  <2>2. hasFailed => own \in Deaf
    BY <1>2 DEF AfterResponse, Deaf
  <2>3. own # "Registration" /\ (own = "Idle" => updates = <<>>)
    BY <1>2 DEF AfterResponse
  <2>4. proc[m] = "crashed" => hasFailed
    <3>1. proc[m] = "crashed" => Head(outbox[m]).type = "Error"
      BY <1>1, RespondingModel DEF SafetyInv
    <3> QED BY <1>1, <3>1 DEF Handling
  <2> QED BY <2>1, <2>2, <2>3, <2>4
<1>6. CASE s # m /\ s \in C
  <2>1. mstate'[s] \in {"Updating", "PendingMoreUpdates"} /\ failed'[s] = failed[s]
    BY <1>2, <1>3, <1>6
  <2>2. ~failed[s]
    BY <1>2, <1>4, <1>6 DEF ModelStatus, Deaf
  <2> QED BY <2>1, <2>2
<1>7. CASE s # m /\ s \notin C
  <2>1. mstate'[s] = mstate[s] /\ failed'[s] = failed[s] /\ proc'[s] = proc[s]
    BY <1>2, <1>3, <1>7
  <2>2. CASE mstate[s] \in {"Registration", "Idle"}
    <3>1. pendingUpdates[s] = <<>>
      BY <1>4, <2>2 DEF ModelStatus
    <3>2. s \in notified => news = <<>>
      <4>1. mstate[s] = "Registration" => notified = {}
        BY ReceptionOfRegistration
      <4> QED BY <1>2, <1>7, <2>2, <4>1
    <3>3. <<>> \o <<>> = <<>>
      BY <<>> \in Seq(Update), ConcatEmptySeq
    <3>4. pendingUpdates'[s] = <<>>
      BY <1>2, <1>3, <1>7, <3>1, <3>2, <3>3
    <3> QED BY <1>4, <2>1, <3>4 DEF ModelStatus
  <2> QED BY <1>4, <2>1, <2>2 DEF ModelStatus
<1> QED BY <1>5, <1>6, <1>7

\* The time is not moved past a request: a model that has yet to register asks for
\* the first timestamp before there is a current one, and a wish in the past is dropped.
LEMMA ReceptionRequests ==
  ASSUME SafetyInv, NEW m \in Models, NEW notified, NEW news, NEW updates, NEW quit,
         NEW hasFailed, NEW C, NEW W, NEW own,
         Reception(m, notified, news, updates, quit, hasFailed, C, W, own)
  PROVE  NoRequestSkipped'
<1>1. /\ Handling(m, notified, news, updates, quit, hasFailed)
      /\ Effect(m, notified, news, updates, quit, hasFailed, C, W, own)
      /\ Head(outbox[m]) \in Responses
  BY DEF Reception
<1>2. currentTime' = currentTime /\ NoRequestSkipped /\ currentTime \in Times \cup {None}
  BY <1>1 DEF Effect, SafetyInv, TypeOK
<1> SUFFICES ASSUME NEW s \in Models, nextTime'[s] # None, currentTime # None
             PROVE  currentTime <= nextTime'[s]
  BY <1>2 DEF NoRequestSkipped
<1>3. CASE nextTime'[s] = nextTime[s]
  BY <1>2, <1>3 DEF NoRequestSkipped
<1>4. CASE s = m /\ mstate[m] = "Registration"
  BY <1>4 DEF SafetyInv, Phases
<1>5. CASE s = m /\ nextTime'[m] = ValidatedNextTime(Head(outbox[m]).nextTime)
  <2>1. Head(outbox[m]).nextTime \in Int \cup {None} /\ currentTime \in Int /\ currentTime <= End
    BY <1>1, <1>2, TimelineAssumption DEF Responses, Times
  <2> QED BY <1>5, <2>1, TimelineAssumption DEF ValidatedNextTime
<1> QED BY <1>1, <1>3, <1>4, <1>5 DEF Handling

\* A response keeps commands and pending updates at the current time: what it adds to them was
\* produced at that time.
LEMMA ReceptionCurrency ==
  ASSUME SafetyInv, NEW m \in Models, NEW notified, NEW news, NEW updates, NEW quit,
         NEW hasFailed, NEW C, NEW W, NEW own,
         Reception(m, notified, news, updates, quit, hasFailed, C, W, own)
  PROVE  Currency'
<1>1. /\ Handling(m, notified, news, updates, quit, hasFailed)
      /\ Effect(m, notified, news, updates, quit, hasFailed, C, W, own)
      /\ mstate[m] \in BusyStates /\ m \notin C /\ C \in SUBSET Models /\ outbox[m] # <<>>
      /\ news \in Seq(Update) /\ updates \in Seq(Update)
      /\ own \in {"Idle", "PendingMoreUpdates", "Done", "Updating", "Finalizing"}
  BY DEF Reception
<1>2. /\ W \subseteq C /\ modelTime' = modelTime /\ currentTime' = currentTime
      /\ C = {s \in notified : \/ mstate[s] = "PendingMoreUpdates"
                               \/ mstate[s] = "Idle" /\ news # <<>>}
      /\ own = AfterResponse(mstate[m], quit, hasFailed, updates, Dependencies(m) \cap ((Busy \ {m}) \cup W) # {})
  BY <1>1 DEF Effect
<1>3. \A s \in Models :
        /\ mstate'[s] = IF s = m THEN own
                        ELSE IF s \in W THEN "Updating"
                        ELSE IF s \in C THEN "PendingMoreUpdates" ELSE mstate[s]
        /\ outbox'[s] = IF s = m THEN <<>> ELSE outbox[s]
        /\ inbox'[s] =
            IF s \in W THEN Append(<<>>, UpdateCommand(pendingUpdates[s] \o news))
            ELSE IF s = m /\ own = "Updating" THEN Append(<<>>, UpdateCommand(updates))
            ELSE IF s = m /\ own = "Finalizing" THEN Append(<<>>, QuitCommand)
            ELSE inbox[s]
        /\ pendingUpdates'[s] =
            IF s \in W \/ (s = m /\ own = "Updating") THEN <<>>
            ELSE IF s = m THEN updates
            ELSE IF s \in notified /\ mstate[s] \notin Deaf THEN pendingUpdates[s] \o news
            ELSE pendingUpdates[s]
  BY <1>1 DEF Effect
<1>4. Currency /\ TypeOK /\ ExchangeInv
  BY DEF SafetyInv
<1>5. /\ ProducedAt(currentTime, news) /\ ProducedAt(currentTime, <<>>)
      /\ ProducedAt(currentTime, updates)
      /\ \A s \in Models : ProducedAt(currentTime, pendingUpdates[s])
  BY <1>1, <1>4 DEF Handling, Currency, ProducedAt
<1>6. \A s \in Models : ProducedAt(currentTime, pendingUpdates[s] \o news)
  BY <1>1, <1>4, <1>5, ProducedAtConcat DEF TypeOK
<1> SUFFICES ASSUME NEW s \in Models
             PROVE  /\ ProducedAt(currentTime, pendingUpdates'[s])
                    /\ mstate'[s] \in {"Registration", "Idle", "PendingMoreUpdates", "Updating"} =>
                         modelTime[s] = currentTime
                    /\ mstate'[s] = "NewTime" /\ outbox'[s] # <<>> /\ Head(outbox'[s]).type = "Acknowledge" =>
                         modelTime[s] = currentTime
                    /\ inbox'[s] # <<>> =>
                         LET c == Head(inbox'[s]) IN
                         /\ c.type = "NewTime" => mstate'[s] = "NewTime" /\ c.time = currentTime
                         /\ c.type = "Update" => mstate'[s] = "Updating" /\ ProducedAt(currentTime, c.updates)
  BY <1>2 DEF Currency
<1>7. ProducedAt(currentTime, pendingUpdates'[s])
  BY <1>3, <1>5, <1>6
<1>8. \A us \in Seq(Update) :
        /\ Head(Append(<<>>, UpdateCommand(us))) = UpdateCommand(us)
        /\ UpdateCommand(us).type = "Update" /\ UpdateCommand(us).updates = us
  BY CommandTypes, SingleMessage DEF UpdateCommand
<1>9. CASE s = m
  <2>1. mstate'[s] = own /\ outbox'[s] = <<>> /\ s \notin W
    BY <1>1, <1>2, <1>3, <1>9
  <2>2. own \in {"Idle", "PendingMoreUpdates", "Updating"} => modelTime[m] = currentTime
    <3> SUFFICES ASSUME own \in {"Idle", "PendingMoreUpdates", "Updating"}
                 PROVE  modelTime[m] = currentTime
      OBVIOUS
    <3>1. ~hasFailed /\ mstate[m] # "Finalizing"
      BY <1>2 DEF AfterResponse
    <3>2. \/ mstate[m] \in {"Registration", "Updating"}
          \/ mstate[m] = "NewTime" /\ Head(outbox[m]).type = "Acknowledge"
      BY <1>1, <3>1 DEF Handling
    <3> QED BY <1>1, <1>4, <3>2 DEF Currency
  <2>3. CASE own = "Updating"
    <3>1. inbox'[s] = Append(<<>>, UpdateCommand(updates))
      BY <1>3, <1>9, <2>1, <2>3
    <3> QED BY <1>1, <1>5, <1>7, <1>8, <1>9, <2>1, <2>2, <2>3, <3>1
  <2>4. CASE own = "Finalizing"
    <3>1. inbox'[s] = Append(<<>>, QuitCommand)
      BY <1>3, <1>9, <2>1, <2>4
    <3>2. Head(inbox'[s]).type = "Quit"
      BY <3>1, CommandTypes, SingleMessage DEF QuitCommand
    <3> QED BY <1>7, <2>1, <2>4, <3>2
  <2>5. CASE own \in {"Idle", "PendingMoreUpdates", "Done"}
    <3>1. inbox'[s] = <<>>
      BY <1>1, <1>3, <1>4, <1>9, <2>1, <2>5, RespondingModel
    <3> QED BY <1>7, <1>9, <2>1, <2>2, <2>5, <3>1
  <2> QED BY <1>1, <2>3, <2>4, <2>5
<1>10. CASE s # m /\ s \in C
  <2>1. mstate[s] \in {"Idle", "PendingMoreUpdates"} /\ modelTime[s] = currentTime
    BY <1>2, <1>4, <1>10 DEF Currency
  <2>2. mstate'[s] = IF s \in W THEN "Updating" ELSE "PendingMoreUpdates"
    BY <1>3, <1>10
  <2>3. CASE s \in W
    <3>1. /\ inbox'[s] = Append(<<>>, UpdateCommand(pendingUpdates[s] \o news))
          /\ pendingUpdates[s] \o news \in Seq(Update)
      BY <1>1, <1>3, <1>4, <2>3, ConcatProperties DEF TypeOK
    <3>2. /\ Head(inbox'[s]).type = "Update"
          /\ ProducedAt(currentTime, Head(inbox'[s]).updates)
      BY <1>6, <1>8, <3>1
    <3> QED BY <1>7, <2>1, <2>2, <2>3, <3>2
  <2>4. CASE s \notin W
    <3>1. inbox'[s] = <<>>
      BY <1>3, <1>4, <1>10, <2>1, <2>4, FreeModel DEF BusyStates
    <3> QED BY <1>7, <2>1, <2>2, <2>4, <3>1
  <2> QED BY <2>3, <2>4
<1>11. CASE s # m /\ s \notin C
  <2>1. mstate'[s] = mstate[s] /\ outbox'[s] = outbox[s] /\ inbox'[s] = inbox[s]
    BY <1>2, <1>3, <1>11
  <2> QED BY <1>4, <1>7, <2>1 DEF Currency
<1> QED BY <1>9, <1>10, <1>11

\* A response keeps the state of the orchestrator in line with those of the models: a phase ends
\* with the last response it waits for.
LEMMA ReceptionPhases ==
  ASSUME SafetyInv, NEW m \in Models, NEW notified, NEW news, NEW updates, NEW quit,
         NEW hasFailed, NEW C, NEW W, NEW own,
         Reception(m, notified, news, updates, quit, hasFailed, C, W, own),
         TypeOK', ModelStatus', NobodyWaitsForNothing'
  PROVE  Phases'
<1>1. /\ Effect(m, notified, news, updates, quit, hasFailed, C, W, own)
      /\ mstate[m] \in BusyStates /\ m \notin C /\ C \in SUBSET Models /\ ostate \in Waiting
      /\ notified \in SUBSET Models
      /\ own \in {"Idle", "PendingMoreUpdates", "Done", "Updating", "Finalizing"}
  BY DEF Reception
<1>2. /\ W \subseteq C /\ overlaps' = overlaps /\ currentTime' = currentTime /\ ostate' = AfterEvent
      /\ C = {s \in notified : \/ mstate[s] = "PendingMoreUpdates"
                               \/ mstate[s] = "Idle" /\ news # <<>>}
      /\ own = AfterResponse(mstate[m], quit, hasFailed, updates, Dependencies(m) \cap ((Busy \ {m}) \cup W) # {})
  BY <1>1 DEF Effect
<1>3. \A s \in Models :
        /\ mstate'[s] = IF s = m THEN own
                        ELSE IF s \in W THEN "Updating"
                        ELSE IF s \in C THEN "PendingMoreUpdates" ELSE mstate[s]
        /\ pendingQuit'[s] = IF s = m THEN quit ELSE pendingQuit[s]
        /\ pendingUpdates'[s] =
            IF s \in W \/ (s = m /\ own = "Updating") THEN <<>>
            ELSE IF s = m THEN updates
            ELSE IF s \in notified /\ mstate[s] \notin Deaf THEN pendingUpdates[s] \o news
            ELSE pendingUpdates[s]
  BY <1>1 DEF Effect
<1>4. Phases /\ ModelStatus /\ TypeOK
  BY DEF SafetyInv
<1>5. /\ ~commandRefused'
      /\ (\E s \in Models : mstate[s] = "Registration") => notified = {} /\ C = {} /\ W = {}
  BY ReceptionOfRegistration
<1>6. /\ ostate = "ModelsRegistration" =>
           ostate' = IF Failed' # {} THEN "StartFinalizingPhase"
                     ELSE IF Busy' = {} THEN "StartRunningPhase" ELSE ostate
      /\ ostate = "WaitForResults" =>
           ostate' = IF Failed' # {} \/ (Busy' = {} /\ Requested' = {}) THEN "StartFinalizingPhase"
                     ELSE IF Busy' = {} THEN "NewTime" ELSE ostate
      /\ ostate = "FinalizingWaitForModels" =>
           ostate' = IF Busy' = {} THEN "EndFinalizingPhase" ELSE ostate
  BY <1>2, <1>5 DEF AfterEvent
<1>7. ASSUME Failed' = {}
      PROVE  /\ Failed = {} /\ ~hasFailed /\ quit = pendingQuit[m] /\ updates = pendingUpdates[m]
             /\ mstate[m] = "Finalizing" => nextTime' = nextTime
  BY <1>7, CalmReception
\* Before the finalizing phase a model that has not failed stays in the states of its phase.
<1>8. ASSUME Failed' = {}, ostate = "ModelsRegistration"
      PROVE  \A s \in Models : mstate'[s] \in {"Registration", "Idle"}
  <2>1. mstate[m] = "Registration"
    BY <1>1, <1>4, <1>8 DEF Phases, BusyStates
  <2>2. C = {} /\ W = {}
    BY <1>2, <1>5, <2>1
  <2>3. ~pendingQuit[m] /\ pendingUpdates[m] = <<>>
    BY <1>4, <1>8, <2>1 DEF Phases, ModelStatus, Closing
  <2>4. own = "Idle"
    BY <1>2, <1>7, <1>8, <2>1, <2>3 DEF AfterResponse
  <2> QED BY <1>3, <1>4, <1>8, <2>2, <2>4 DEF Phases
<1>9. ASSUME Failed' = {}, ostate = "WaitForResults"
      PROVE  \A s \in Models : mstate'[s] \in {"Idle", "NewTime", "Updating", "PendingMoreUpdates"}
  <2>1. ~pendingQuit[m] /\ mstate[m] # "Finalizing"
    BY <1>4, <1>9 DEF Phases, Closing
  <2>2. own \in {"Idle", "Updating", "PendingMoreUpdates"}
    BY <1>2, <1>7, <1>9, <2>1 DEF AfterResponse
  <2> QED BY <1>1, <1>2, <1>3, <1>4, <1>9, <2>2 DEF Phases
\* When nobody is busy nobody waits.
<1>10. ASSUME Failed' = {}, Busy' = {}
       PROVE  \A s \in Models : mstate'[s] # "PendingMoreUpdates"
  <2> DEFINE S == InState("PendingMoreUpdates")'
  <2>1. S # {} => \E x \in S : \E d \in Dependencies(x)' :
                     d \in Busy' \/ (mstate'[d] = "PendingMoreUpdates" /\ d \notin S)
    BY <1>10, Zenon DEF NobodyWaitsForNothing
  <2>2. \A x \in S : Dependencies(x)' \subseteq Models
    BY DEF Dependencies
  <2> QED BY <1>10, <2>1, <2>2 DEF InState
<1>11. /\ ostate' \notin {"StartInitializingPhase", "Stopped"}
       /\ ostate' \in {"ModelsRegistration", "StartRunningPhase"} =>
            ostate = "ModelsRegistration" /\ Failed' = {}
       /\ ostate' \in {"NewTime", "WaitForResults"} => ostate = "WaitForResults" /\ Failed' = {}
       /\ ostate' \in {"StartRunningPhase", "NewTime", "EndFinalizingPhase"} => Busy' = {}
  BY <1>1, <1>6 DEF Waiting
<1>12. ostate' \in {"StartInitializingPhase", "ModelsRegistration"} =>
         overlaps' = {} /\ currentTime' = None /\ \A s \in Models : mstate'[s] \in {"Registration", "Idle"}
  BY <1>2, <1>4, <1>8, <1>11 DEF Phases
<1>13. ostate' \in {"StartRunningPhase", "NewTime"} => \A s \in Models : mstate'[s] = "Idle"
  <2> SUFFICES ASSUME ostate' \in {"StartRunningPhase", "NewTime"}, NEW s \in Models
               PROVE  mstate'[s] = "Idle"
    OBVIOUS
  <2>1. Failed' = {} /\ Busy' = {}
    BY <1>11
  <2>2. mstate'[s] \notin BusyStates
    BY <2>1 DEF Busy
  <2> QED BY <1>8, <1>9, <1>10, <1>11, <2>1, <2>2 DEF BusyStates
<1>14. ostate' = "WaitForResults" =>
         \A s \in Models : mstate'[s] \in {"Idle", "NewTime", "Updating", "PendingMoreUpdates"}
  BY <1>9, <1>11
<1>15. ostate' \notin Closing => \A s \in Models : ~failed'[s] /\ ~pendingQuit'[s]
  <2> SUFFICES ASSUME ostate' \notin Closing, NEW s \in Models
               PROVE  ~failed'[s] /\ ~pendingQuit'[s]
    OBVIOUS
  <2>1. Failed' = {} /\ ostate \notin Closing
    BY <1>1, <1>6 DEF Closing, Waiting
  <2> QED BY <1>3, <1>4, <1>7, <2>1 DEF Phases, Failed
<1>16. ostate' \in {"EndFinalizingPhase", "Stopped"} => Busy' = {}
  BY <1>11
<1>17. ostate' \in Closing /\ Failed' = {} =>
         /\ Requested' = {}
         /\ \A s \in Models :
              /\ pendingUpdates'[s] = <<>>
              /\ mstate'[s] \in IF ostate' = "StartFinalizingPhase" THEN {"Idle"} ELSE Deaf
  <2> SUFFICES ASSUME ostate' \in Closing, Failed' = {}
               PROVE  /\ Requested' = {}
                      /\ \A s \in Models :
                           /\ pendingUpdates'[s] = <<>>
                           /\ mstate'[s] \in IF ostate' = "StartFinalizingPhase" THEN {"Idle"} ELSE Deaf
    OBVIOUS
  <2>1. CASE ostate = "WaitForResults"
    <3>1. Busy' = {} /\ Requested' = {} /\ ostate' = "StartFinalizingPhase"
      BY <1>6, <2>1 DEF Closing
    <3>2. \A s \in Models : mstate'[s] = "Idle"
      BY <1>9, <1>10, <2>1, <3>1 DEF Busy, BusyStates
    <3> QED BY <3>1, <3>2 DEF ModelStatus
  <2>2. CASE ostate = "FinalizingWaitForModels"
    <3>1. Failed = {} /\ Requested = {} /\ \A s \in Models : pendingUpdates[s] = <<>> /\ mstate[s] \in Deaf
      BY <1>4, <1>7, <2>2 DEF Phases, Closing
    <3>2. mstate[m] = "Finalizing" /\ C = {} /\ W = {}
      BY <1>1, <1>2, <3>1 DEF Deaf, BusyStates
    <3>3. own = "Done" /\ updates = <<>> /\ nextTime' = nextTime
      BY <1>2, <1>7, <3>1, <3>2 DEF AfterResponse
    <3>4. \A s \in Models : mstate'[s] \in Deaf /\ pendingUpdates'[s] = <<>>
      BY <1>3, <3>1, <3>2, <3>3 DEF Deaf
    <3>5. Requested' = {} /\ ostate' # "StartFinalizingPhase"
      BY <1>6, <2>2, <3>1, <3>3 DEF Requested
    <3> QED BY <3>4, <3>5
  <2>3. CASE ostate = "ModelsRegistration"
    BY <1>6, <2>3 DEF Closing
  <2> QED BY <1>1, <2>1, <2>2, <2>3 DEF Waiting
<1>18. \A s \in Models : mstate'[s] = "Registration" =>
         overlaps' = {} /\ currentTime' = None
           /\ ostate' \notin {"StartRunningPhase", "NewTime", "WaitForResults"}
  <2> SUFFICES ASSUME NEW s \in Models, mstate'[s] = "Registration"
               PROVE  overlaps' = {} /\ currentTime' = None
                        /\ ostate' \notin {"StartRunningPhase", "NewTime", "WaitForResults"}
    OBVIOUS
  <2>1. mstate[s] = "Registration"
    BY <1>1, <1>2, <1>3
  <2>2. overlaps = {} /\ currentTime = None /\ ostate # "WaitForResults"
    BY <1>4, <2>1 DEF Phases
  <2>3. ostate' \notin {"StartRunningPhase", "NewTime"}
    BY <1>13
  <2> QED BY <1>2, <1>11, <2>2, <2>3
<1>19. currentTime' = None => \A s \in Models : mstate'[s] \in {"Registration", "Idle"} \cup Deaf
  <2> SUFFICES ASSUME currentTime = None, NEW s \in Models
               PROVE  mstate'[s] \in {"Registration", "Idle"} \cup Deaf
    BY <1>2
  <2>1. \A x \in Models : mstate[x] \in {"Registration", "Idle"} \cup Deaf
    BY <1>4 DEF Phases
  <2>2. mstate[m] \in {"Registration", "Finalizing"}
    BY <1>1, <2>1 DEF BusyStates, Deaf
  <2>3. news = <<>> /\ updates \in {<<>>, pendingUpdates[m]}
    BY <2>2 DEF Reception, Handling
  <2>4. C = {} /\ W = {}
    BY <1>1, <1>2, <2>1, <2>3 DEF Deaf
  <2>5. mstate[m] = "Registration" => updates = <<>>
    BY <1>4, <2>3 DEF ModelStatus
  <2>6. own \in {"Idle", "Finalizing", "Done"}
    BY <1>2, <2>2, <2>5 DEF AfterResponse
  <2> QED BY <1>3, <2>1, <2>4, <2>6 DEF Deaf
<1> QED
  BY <1>5, <1>12, <1>13, <1>14, <1>15, <1>16, <1>17, <1>18, <1>19 DEF Phases

\* A step that takes a response keeps the invariant.
LEMMA ReceiveSafety ==
  ASSUME SafetyInv, NEW m \in Models, Receive(m)
  PROVE  SafetyInv'
<1>1. TypeOK' /\ ExchangeInv'
  BY ReceiveTypeOK, ReceiveExchange DEF SafetyInv
<1>2. PICK notified, news, updates, quit, hasFailed, C, W, own :
        Reception(m, notified, news, updates, quit, hasFailed, C, W, own)
  BY ReceiveEffect DEF SafetyInv
<1>3. ModelStatus' /\ Currency' /\ NoRequestSkipped' /\ NobodyWaitsForNothing'
  BY <1>2, ReceptionModelStatus, ReceptionCurrency, ReceptionRequests, ReceptionWaits
<1>4. Phases'
  BY <1>1, <1>2, <1>3, ReceptionPhases
<1> QED BY <1>1, <1>3, <1>4 DEF SafetyInv

-----------------------------------------------------------------------------
(* The orchestrator's own steps keep the invariant.                        *)

\* The invariant holds before the first message.
LEMMA InitSafety == Init => SafetyInv
<1> SUFFICES ASSUME Init PROVE SafetyInv
  OBVIOUS
<1>1. TypeOK /\ ExchangeInv
  BY InitTypeOK, InitExchange
<1>2. Phases
  BY DEF Init, Phases, Closing
<1>3. ModelStatus
  BY DEF Init, ModelStatus
<1>4. Currency
  BY DEF Init, Currency, ProducedAt
<1>5. NoRequestSkipped
  BY DEF Init, NoRequestSkipped
<1>6. NobodyWaitsForNothing
  BY DEF Init, NobodyWaitsForNothing, InState
<1> QED BY <1>1, <1>2, <1>3, <1>4, <1>5, <1>6 DEF SafetyInv

\* Of some natural numbers one is the least: the first of some models, or of the
\* updates that are still to be read.
LEMMA LeastExists ==
  ASSUME NEW S \in SUBSET Nat, S # {}
  PROVE  \E m \in S : \A s \in S : m <= s
<1>1. PICK m \in S : \A s \in S : ~ (<<s, m>> \in OpToRel(<, Nat))
  BY NatLessThanWellFounded, WFMin, Zenon
<1>2. ASSUME NEW s \in S PROVE m <= s
  <2>1. <<s, m>> \notin OpToRel(<, Nat) /\ s \in Nat /\ m \in Nat
    BY <1>1
  <2> QED BY <2>1 DEF OpToRel
<1> QED BY <1>2

\* Every model is told the new time, and those that asked for it will be updated.
LEMMA AdvanceTimeEffect ==
  ASSUME SafetyInv, AdvanceTime
  PROVE  /\ ostate' = "WaitForResults" /\ ~commandRefused' /\ overlaps' = overlaps
         /\ currentTime' \in Requested /\ \A u \in Requested : currentTime' <= u
         /\ currentTime = None \/ currentTime < currentTime'
         /\ \A m \in Models :
              /\ mstate[m] = "Idle" /\ mstate'[m] = "NewTime" /\ pendingUpdates[m] = <<>>
              /\ inbox'[m] = Append(<<>>, NewTimeCommand(currentTime'))
              /\ outbox'[m] = <<>>
              /\ pendingUpdates'[m] = IF nextTime[m] = currentTime'
                                      THEN Append(<<>>, TimeUpdate(currentTime')) ELSE <<>>
         /\ UNCHANGED <<nextTime, failed, pendingQuit, proc, modelTime>>
<1>1. /\ TypeOK /\ ExchangeInv /\ NoRequestSkipped /\ ~commandRefused
      /\ \A m \in Models : mstate[m] = "Idle" /\ pendingUpdates[m] = <<>>
  BY DEF SafetyInv, AdvanceTime, Phases, ModelStatus
<1>2. \A m \in Models : inbox[m] = <<>> /\ outbox[m] = <<>>
  BY <1>1, FreeModel DEF BusyStates
<1>3. /\ EarliestRequest \in Requested /\ EarliestRequest \in Times
      /\ \A u \in Requested : EarliestRequest <= u
  BY <1>1, EarliestRequestExists DEF AdvanceTime, TypeOK
<1>4. currentTime' = EarliestRequest /\ EarliestRequest # currentTime
  BY DEF AdvanceTime
<1>5. currentTime = None \/ currentTime < EarliestRequest
  <2> SUFFICES ASSUME currentTime # None PROVE currentTime < EarliestRequest
    OBVIOUS
  <2>1. PICK m \in Models : EarliestRequest = nextTime[m] /\ nextTime[m] # None
    BY <1>3 DEF Requested
  <2>2. currentTime <= EarliestRequest
    BY <1>1, <2>1 DEF NoRequestSkipped
  <2>3. currentTime \in Int /\ EarliestRequest \in Int
    BY <1>1, <1>3, TimelineAssumption DEF TypeOK, Times
  <2> QED BY <1>4, <2>2, <2>3
<1>6. ~commandRefused'
  BY <1>1 DEF AdvanceTime
<1>7. \A m \in Models :
        /\ mstate'[m] = "NewTime"
        /\ inbox'[m] = Append(<<>>, NewTimeCommand(EarliestRequest))
        /\ outbox'[m] = <<>>
        /\ pendingUpdates'[m] = IF nextTime[m] = EarliestRequest
                                THEN Append(<<>>, TimeUpdate(EarliestRequest)) ELSE <<>>
  BY <1>1, <1>2 DEF AdvanceTime, Deaf
<1> QED BY <1>1, <1>3, <1>4, <1>5, <1>6, <1>7 DEF AdvanceTime, modelVars

\* The models that asked for the current time again are updated, at least one of
\* them at once, and the others after a model they depend on.
LEMMA RepeatTimeEffect ==
  ASSUME SafetyInv, RepeatTime
  PROVE  \E due, W \in SUBSET Models :
           /\ due = {m \in Models : nextTime[m] = currentTime}
           /\ W \subseteq due /\ W # {}
           /\ \A c \in due \ W : Dependencies(c) \cap W # {}
           /\ ostate' = "WaitForResults" /\ ~commandRefused'
           /\ currentTime \in Requested /\ \A u \in Requested : currentTime <= u
           /\ \A m \in Models :
                /\ mstate[m] = "Idle" /\ pendingUpdates[m] = <<>>
                /\ mstate'[m] = IF m \in W THEN "Updating"
                                ELSE IF m \in due THEN "PendingMoreUpdates" ELSE "Idle"
                /\ inbox'[m] = IF m \in W
                               THEN Append(<<>>, UpdateCommand(Append(<<>>, TimeUpdate(currentTime))))
                               ELSE <<>>
                /\ outbox'[m] = <<>>
                /\ pendingUpdates'[m] = IF m \in due \ W
                                        THEN Append(<<>>, TimeUpdate(currentTime)) ELSE <<>>
           /\ UNCHANGED <<currentTime, overlaps, nextTime, failed, pendingQuit, proc, modelTime>>
<1>1. /\ TypeOK /\ ExchangeInv /\ ~commandRefused
      /\ \A m \in Models : mstate[m] = "Idle" /\ pendingUpdates[m] = <<>>
  BY DEF SafetyInv, RepeatTime, Phases, ModelStatus
<1>2. \A m \in Models : inbox[m] = <<>> /\ outbox[m] = <<>>
  BY <1>1, FreeModel DEF BusyStates
<1>3. currentTime \in Requested /\ \A u \in Requested : currentTime <= u
  BY <1>1, EarliestRequestExists DEF RepeatTime, TypeOK
<1> DEFINE due == {m \in Models : nextTime[m] = currentTime /\ mstate[m] \notin Deaf}
           queued == [m \in Models |->
                        IF m \in due
                        THEN Append(pendingUpdates[m], TimeUpdate(currentTime))
                        ELSE pendingUpdates[m]]
           candidates == {m \in due : mstate[m] \in {"Idle", "PendingMoreUpdates"}}
<1>4. PICK W \in SUBSET candidates :
        /\ IsWoken(W, candidates, Busy, {})
        /\ mstate' = [m \in Models |-> IF m \in W THEN "Updating"
                                       ELSE IF m \in candidates THEN "PendingMoreUpdates"
                                       ELSE mstate[m]]
        /\ inbox' = [m \in Models |-> IF m \in W
                                      THEN Append(inbox[m], UpdateCommand(queued[m]))
                                      ELSE inbox[m]]
        /\ pendingUpdates' = [m \in Models |-> IF m \in W THEN <<>> ELSE queued[m]]
        /\ commandRefused' = (commandRefused \/ \E m \in due : mstate[m] = "Registration")
  BY Zenon DEF RepeatTime
<1>5. due = {m \in Models : nextTime[m] = currentTime} /\ candidates = due /\ Busy = {}
  BY <1>1 DEF Deaf, Busy, BusyStates
<1>6. \A m \in Models : queued[m] = IF m \in due THEN Append(<<>>, TimeUpdate(currentTime)) ELSE <<>>
  BY <1>1
<1>7. due \in SUBSET Models /\ due # {}
  BY <1>3, <1>5 DEF Requested
<1> HIDE DEF due, candidates, queued
<1>8. \A c \in due : c \in W <=> Dependencies(c) \cap {s \in W : s < c} = {}
  <2>1. W = {c \in candidates : Dependencies(c) \cap (Busy \cup {s \in {} \cup W : s < c}) = {}}
    BY <1>4 DEF IsWoken
  <2>2. \A c : Busy \cup {s \in {} \cup W : s < c} = {s \in W : s < c}
    BY <1>5
  <2> QED BY <1>5, <2>1, <2>2
<1>9. W # {}
  <2>1. PICK c \in due : \A s \in due : c <= s
    <3>1. due \in SUBSET Nat
      BY <1>7, NAssumption DEF Models
    <3> QED BY <1>7, <3>1, LeastExists
  <2>2. \A s \in W : s \in Int /\ c \in Int /\ c <= s
    BY <1>4, <1>5, <1>7, <2>1, NAssumption DEF Models
  <2>3. {s \in W : s < c} = {}
    BY <2>2
  <2> QED BY <1>8, <2>3
<1>10. \A m \in Models :
        /\ mstate'[m] = IF m \in W THEN "Updating"
                        ELSE IF m \in due THEN "PendingMoreUpdates" ELSE "Idle"
        /\ inbox'[m] = IF m \in W
                       THEN Append(<<>>, UpdateCommand(Append(<<>>, TimeUpdate(currentTime))))
                       ELSE <<>>
        /\ pendingUpdates'[m] = IF m \in due \ W
                                THEN Append(<<>>, TimeUpdate(currentTime)) ELSE <<>>
  <2> TAKE m \in Models
  <2>1. /\ mstate'[m] = IF m \in W THEN "Updating"
                        ELSE IF m \in due THEN "PendingMoreUpdates" ELSE "Idle"
        /\ inbox'[m] = IF m \in W THEN Append(<<>>, UpdateCommand(queued[m])) ELSE <<>>
        /\ pendingUpdates'[m] = IF m \in W THEN <<>> ELSE queued[m]
    BY <1>1, <1>2, <1>4, <1>5
  <2>2. W \subseteq due
    BY <1>4, <1>5
  <2> QED BY <1>6, <2>1, <2>2
<1>11. ~commandRefused'
  BY <1>1, <1>4, <1>5
<1>12. /\ UNCHANGED <<currentTime, overlaps, nextTime, failed, pendingQuit, proc, modelTime>>
       /\ ostate' = "WaitForResults" /\ outbox' = outbox
  BY DEF RepeatTime, modelVars
<1>13. W \subseteq due /\ W \in SUBSET Models /\ \A c \in due \ W : Dependencies(c) \cap W # {}
  BY <1>4, <1>5, <1>7, <1>8
<1> WITNESS due \in SUBSET Models, W \in SUBSET Models
<1> QED BY <1>1, <1>2, <1>3, <1>5, <1>7, <1>9, <1>10, <1>11, <1>12, <1>13

\* Every idle model is told to quit; of those that wait, some get their updates first.
LEMMA StartFinalizingEffect ==
  ASSUME SafetyInv, StartFinalizingPhase
  PROVE  \E W \in SUBSET InState("PendingMoreUpdates") :
           /\ ostate' = IF Busy' = {} THEN "EndFinalizingPhase" ELSE "FinalizingWaitForModels"
           /\ \A m \in Models :
                /\ mstate'[m] = IF mstate[m] = "Idle" THEN "Finalizing"
                                ELSE IF m \in W THEN "Updating" ELSE mstate[m]
                /\ inbox'[m] = IF mstate[m] = "Idle" THEN Append(<<>>, QuitCommand)
                               ELSE IF m \in W THEN Append(<<>>, UpdateCommand(pendingUpdates[m]))
                               ELSE inbox[m]
                /\ pendingUpdates'[m] = IF m \in W THEN <<>> ELSE pendingUpdates[m]
           /\ UNCHANGED <<currentTime, commandRefused, overlaps, nextTime, failed, outbox, proc, modelTime>>
<1>1. PICK W \in SUBSET InState("PendingMoreUpdates") :
        /\ mstate' = [m \in Models |-> IF m \in InState("Idle") THEN "Finalizing"
                                       ELSE IF m \in W THEN "Updating" ELSE mstate[m]]
        /\ inbox' = [m \in Models |->
                       IF m \in InState("Idle") THEN Append(inbox[m], QuitCommand)
                       ELSE IF m \in W THEN Append(inbox[m], UpdateCommand(pendingUpdates[m]))
                       ELSE inbox[m]]
        /\ pendingUpdates' = [m \in Models |-> IF m \in W THEN <<>> ELSE pendingUpdates[m]]
  BY Zenon DEF StartFinalizingPhase
<1>2. \A m \in Models : mstate[m] \in {"Idle", "PendingMoreUpdates"} => inbox[m] = <<>>
  BY FreeModel DEF SafetyInv, BusyStates
<1>3. \A m \in Models :
        /\ mstate'[m] = IF mstate[m] = "Idle" THEN "Finalizing"
                        ELSE IF m \in W THEN "Updating" ELSE mstate[m]
        /\ inbox'[m] = IF mstate[m] = "Idle" THEN Append(<<>>, QuitCommand)
                       ELSE IF m \in W THEN Append(<<>>, UpdateCommand(pendingUpdates[m]))
                       ELSE inbox[m]
        /\ pendingUpdates'[m] = IF m \in W THEN <<>> ELSE pendingUpdates[m]
  BY <1>1, <1>2 DEF InState
<1> QED BY <1>3 DEF StartFinalizingPhase, AfterQuits, modelVars

\* The invariant is kept when the models are told to quit.
LEMMA StartFinalizingSafety ==
  ASSUME SafetyInv, StartFinalizingPhase
  PROVE  Phases' /\ ModelStatus' /\ Currency' /\ NoRequestSkipped' /\ NobodyWaitsForNothing'
<1>1. PICK W \in SUBSET InState("PendingMoreUpdates") :
           /\ ostate' = IF Busy' = {} THEN "EndFinalizingPhase" ELSE "FinalizingWaitForModels"
           /\ \A m \in Models :
                /\ mstate'[m] = IF mstate[m] = "Idle" THEN "Finalizing"
                                ELSE IF m \in W THEN "Updating" ELSE mstate[m]
                /\ inbox'[m] = IF mstate[m] = "Idle" THEN Append(<<>>, QuitCommand)
                               ELSE IF m \in W THEN Append(<<>>, UpdateCommand(pendingUpdates[m]))
                               ELSE inbox[m]
                /\ pendingUpdates'[m] = IF m \in W THEN <<>> ELSE pendingUpdates[m]
           /\ UNCHANGED <<currentTime, commandRefused, overlaps, nextTime, failed, outbox, proc, modelTime>>
  BY StartFinalizingEffect
<1>2. /\ TypeOK /\ ExchangeInv /\ Phases /\ ModelStatus /\ Currency /\ NoRequestSkipped
      /\ ostate = "StartFinalizingPhase"
      /\ \A m \in W : m \in Models /\ mstate[m] = "PendingMoreUpdates"
  BY DEF SafetyInv, StartFinalizingPhase, InState
<1>3. Failed' = Failed /\ Requested' = Requested
  BY <1>1 DEF Failed, Requested
<1>4. Failed = {} =>
        Requested = {} /\ \A m \in Models : mstate[m] = "Idle" /\ pendingUpdates[m] = <<>>
  BY <1>2 DEF Phases, Closing
<1>5. Phases'
  <2>1. Failed' = {} =>
          Requested' = {} /\ \A m \in Models : pendingUpdates'[m] = <<>> /\ mstate'[m] = "Finalizing"
    BY <1>1, <1>3, <1>4
  <2>2. \A m \in Models : mstate'[m] = "Registration" => mstate[m] = "Registration"
    BY <1>1
  <2>3. ostate' \in {"EndFinalizingPhase", "FinalizingWaitForModels"}
        /\ (ostate' = "EndFinalizingPhase" => Busy' = {})
    BY <1>1
  <2> QED BY <1>1, <1>2, <2>1, <2>2, <2>3 DEF Phases, Closing, Deaf
<1>6. ModelStatus'
  BY <1>1, <1>2 DEF ModelStatus, Deaf
<1>7. Currency'
  <2> SUFFICES ASSUME NEW m \in Models
             PROVE  /\ ProducedAt(currentTime, pendingUpdates'[m])
                    /\ mstate'[m] \in {"Registration", "Idle", "PendingMoreUpdates", "Updating"} =>
                         modelTime[m] = currentTime
                    /\ mstate'[m] = "NewTime" /\ outbox[m] # <<>> /\ Head(outbox[m]).type = "Acknowledge" =>
                         modelTime[m] = currentTime
                    /\ inbox'[m] # <<>> =>
                         LET c == Head(inbox'[m]) IN
                         /\ c.type = "NewTime" => mstate'[m] = "NewTime" /\ c.time = currentTime
                         /\ c.type = "Update" => mstate'[m] = "Updating" /\ ProducedAt(currentTime, c.updates)
    BY <1>1 DEF Currency
  <2>1. ProducedAt(currentTime, pendingUpdates[m]) /\ ProducedAt(currentTime, <<>>)
    BY <1>2 DEF Currency, ProducedAt
  <2>2. CASE mstate[m] = "Idle"
    <3>1. /\ mstate'[m] = "Finalizing" /\ pendingUpdates'[m] = pendingUpdates[m]
          /\ inbox'[m] = Append(<<>>, QuitCommand)
      BY <1>1, <1>2, <2>2
    <3>2. Head(inbox'[m]).type = "Quit"
      BY <3>1, CommandTypes, SingleMessage DEF QuitCommand
    <3> QED BY <2>1, <3>1, <3>2
  <2>3. CASE m \in W
    <3>1. mstate'[m] = "Updating" /\ pendingUpdates'[m] = <<>> /\ modelTime[m] = currentTime
      BY <1>1, <1>2, <2>3 DEF Currency
    <3>2. /\ UpdateCommand(pendingUpdates[m]) \in Commands
          /\ inbox'[m] = Append(<<>>, UpdateCommand(pendingUpdates[m]))
      BY <1>1, <1>2, <2>3, CommandTypes DEF TypeOK
    <3>3. Head(inbox'[m]) = UpdateCommand(pendingUpdates[m])
      BY <3>2, SingleMessage
    <3> QED BY <2>1, <3>1, <3>3 DEF UpdateCommand
  <2>4. CASE mstate[m] # "Idle" /\ m \notin W
    <3>1. mstate'[m] = mstate[m] /\ pendingUpdates'[m] = pendingUpdates[m] /\ inbox'[m] = inbox[m]
      BY <1>1, <2>4
    <3> QED BY <1>2, <3>1 DEF Currency
  <2> QED BY <2>2, <2>3, <2>4
<1>8. NoRequestSkipped'
  BY <1>1, <1>2 DEF NoRequestSkipped
<1>9. NobodyWaitsForNothing'
  BY <1>1, <1>3, <1>4 DEF NobodyWaitsForNothing, InState
<1> QED BY <1>5, <1>6, <1>7, <1>8, <1>9

\* The invariant is kept when the orchestrator goes on to the earliest time that is asked for.
LEMMA AdvanceTimeSafety ==
  ASSUME SafetyInv, AdvanceTime, TypeOK'
  PROVE  Phases' /\ ModelStatus' /\ Currency' /\ NoRequestSkipped' /\ NobodyWaitsForNothing'
<1>1. /\ ostate' = "WaitForResults" /\ ~commandRefused' /\ overlaps' = overlaps
      /\ currentTime' \in Requested /\ \A u \in Requested : currentTime' <= u
      /\ \A m \in Models :
           /\ mstate'[m] = "NewTime"
           /\ inbox'[m] = Append(<<>>, NewTimeCommand(currentTime'))
           /\ outbox'[m] = <<>>
           /\ pendingUpdates'[m] = IF nextTime[m] = currentTime'
                                   THEN Append(<<>>, TimeUpdate(currentTime')) ELSE <<>>
      /\ UNCHANGED <<nextTime, failed, pendingQuit, proc, modelTime>>
  BY AdvanceTimeEffect
<1>2. \A m \in Models : ~failed[m] /\ ~pendingQuit[m]
  BY DEF SafetyInv, AdvanceTime, Phases, Closing
<1>3. currentTime' \in Times
  <2>1. nextTime \in [Models -> Times \cup {None}]
    BY DEF SafetyInv, TypeOK
  <2> QED BY <1>1, <2>1 DEF Requested
<1>4. Phases'
  BY <1>1, <1>2, <1>3, NoneAssumption DEF Phases, Closing, Times
<1>5. ModelStatus'
  BY <1>1, <1>2 DEF ModelStatus
<1>6. Currency'
  <2>1. /\ Head(Append(<<>>, NewTimeCommand(currentTime'))) = NewTimeCommand(currentTime')
        /\ NewTimeCommand(currentTime').type = "NewTime" /\ NewTimeCommand(currentTime').time = currentTime'
    BY <1>3, CommandTypes, SingleMessage DEF NewTimeCommand
  <2>2. TimeUpdate(currentTime') \in Update /\ TimeUpdate(currentTime').time = currentTime'
    BY <1>3, NAssumption DEF TimeUpdate, Update
  <2>3. /\ ProducedAt(currentTime', Append(<<>>, TimeUpdate(currentTime')))
        /\ ProducedAt(currentTime', <<>>)
    <3>1. ProducedAt(currentTime', <<>>)
      BY DEF ProducedAt
    <3>2. <<>> \in Seq(Update)
      OBVIOUS
    <3> QED BY <2>2, <3>1, <3>2, ProducedAtAppend
  <2>4. ASSUME NEW m \in Models
        PROVE  /\ mstate'[m] = "NewTime" /\ outbox'[m] = <<>>
               /\ ProducedAt(currentTime', pendingUpdates'[m])
               /\ Head(inbox'[m]).type = "NewTime" /\ Head(inbox'[m]).time = currentTime'
    BY <1>1, <2>1, <2>3
  <2> QED BY <2>4 DEF Currency
<1>7. NoRequestSkipped'
  BY <1>1 DEF NoRequestSkipped, Requested
<1>8. NobodyWaitsForNothing'
  BY <1>1 DEF NobodyWaitsForNothing, InState
<1> QED BY <1>4, <1>5, <1>6, <1>7, <1>8

\* The invariant is kept when models are woken again at the current time.
LEMMA RepeatTimeSafety ==
  ASSUME SafetyInv, RepeatTime
  PROVE  Phases' /\ ModelStatus' /\ Currency' /\ NoRequestSkipped' /\ NobodyWaitsForNothing'
<1>1. PICK due \in SUBSET Models, W \in SUBSET Models :
        /\ W \subseteq due
        /\ \A c \in due \ W : Dependencies(c) \cap W # {}
        /\ ostate' = "WaitForResults" /\ ~commandRefused'
        /\ currentTime \in Requested
        /\ \A m \in Models :
             /\ mstate[m] = "Idle"
             /\ mstate'[m] = IF m \in W THEN "Updating"
                             ELSE IF m \in due THEN "PendingMoreUpdates" ELSE "Idle"
             /\ inbox'[m] = IF m \in W
                            THEN Append(<<>>, UpdateCommand(Append(<<>>, TimeUpdate(currentTime))))
                            ELSE <<>>
             /\ outbox'[m] = <<>>
             /\ pendingUpdates'[m] = IF m \in due \ W
                                     THEN Append(<<>>, TimeUpdate(currentTime)) ELSE <<>>
        /\ UNCHANGED <<currentTime, overlaps, nextTime, failed, pendingQuit, proc, modelTime>>
  BY RepeatTimeEffect
<1>2. \A m \in Models : ~failed[m] /\ ~pendingQuit[m]
  BY DEF SafetyInv, RepeatTime, Phases, Closing
<1>3. currentTime \in Times /\ Currency /\ NoRequestSkipped
  <2>1. nextTime \in [Models -> Times \cup {None}]
    BY DEF SafetyInv, TypeOK
  <2> QED BY <1>1, <2>1 DEF Requested, SafetyInv
<1>4. Phases'
  BY <1>1, <1>2, <1>3, NoneAssumption DEF Phases, Closing, Times
<1>5. ModelStatus'
  BY <1>1, <1>2 DEF ModelStatus
<1>6. Currency'
  <2> DEFINE us == Append(<<>>, TimeUpdate(currentTime))
  <2>1. TimeUpdate(currentTime) \in Update /\ TimeUpdate(currentTime).time = currentTime
    BY <1>3, NAssumption DEF TimeUpdate, Update
  <2>2. ProducedAt(currentTime, us) /\ ProducedAt(currentTime, <<>>) /\ us \in Seq(Update)
    <3>1. ProducedAt(currentTime, <<>>)
      BY DEF ProducedAt
    <3>2. <<>> \in Seq(Update)
      OBVIOUS
    <3>3. ProducedAt(currentTime, us)
      BY <2>1, <3>1, <3>2, ProducedAtAppend
    <3>4. us \in Seq(Update)
      BY <2>1, <3>2, AppendProperties
    <3> QED BY <3>1, <3>3, <3>4
  <2> HIDE DEF us
  <2>3. /\ Head(Append(<<>>, UpdateCommand(us))) = UpdateCommand(us)
        /\ UpdateCommand(us).type = "Update" /\ UpdateCommand(us).updates = us
    BY <2>2, CommandTypes, SingleMessage DEF UpdateCommand
  <2>4. \A m \in Models : modelTime[m] = currentTime
    BY <1>1, <1>3 DEF Currency
  <2>5. \A m \in Models :
             /\ inbox'[m] = IF m \in W THEN Append(<<>>, UpdateCommand(us)) ELSE <<>>
             /\ pendingUpdates'[m] = IF m \in due \ W THEN us ELSE <<>>
    BY <1>1 DEF us
  <2>6. ASSUME NEW m \in Models
        PROVE  /\ mstate'[m] # "NewTime" /\ outbox'[m] = <<>>
               /\ ProducedAt(currentTime, pendingUpdates'[m])
               /\ modelTime'[m] = currentTime
    BY <1>1, <2>2, <2>4, <2>5
  <2>7. ASSUME NEW m \in Models, inbox'[m] # <<>>
        PROVE  /\ mstate'[m] = "Updating" /\ Head(inbox'[m]).type = "Update"
               /\ ProducedAt(currentTime, Head(inbox'[m]).updates)
    BY <1>1, <2>2, <2>3, <2>5, <2>7
  <2> QED BY <1>1, <2>6, <2>7 DEF Currency
<1>7. NoRequestSkipped'
  BY <1>1, <1>3 DEF NoRequestSkipped
<1>8. NobodyWaitsForNothing'
  <2> SUFFICES ASSUME NEW S \in SUBSET InState("PendingMoreUpdates")', S # {}
               PROVE  \E m \in S : \E d \in Dependencies(m)' : d \in Busy'
    BY DEF NobodyWaitsForNothing
  <2>1. PICK m \in S : TRUE
    OBVIOUS
  <2>2. m \in due \ W
    BY <1>1, <2>1 DEF InState
  <2>3. PICK d \in Dependencies(m) : d \in W
    BY <1>1, <2>2
  <2>4. d \in Busy' /\ d \in Dependencies(m)'
    BY <1>1, <2>3 DEF Busy, BusyStates, Dependencies
  <2> QED BY <2>4
<1> QED BY <1>4, <1>5, <1>6, <1>7, <1>8

\* The invariant is kept by what the orchestrator does between two responses.
LEMMA OrchestratorRunSafety ==
  ASSUME SafetyInv, OrchestratorRun
  PROVE  SafetyInv'
<1>1. TypeOK' /\ ExchangeInv'
  BY OrchestratorRunTypeOK, OrchestratorRunExchange DEF SafetyInv
<1>2. CASE AdvanceTime \/ RepeatTime \/ StartFinalizingPhase
  BY <1>1, <1>2, AdvanceTimeSafety, RepeatTimeSafety, StartFinalizingSafety DEF SafetyInv
<1>3. CASE StartInitializingPhase \/ StartRunningPhase \/ EndFinalizingPhase
  <2>1. /\ ~commandRefused /\ currentTime' = currentTime /\ commandRefused' = commandRefused
        /\ UNCHANGED <<mstate, nextTime, failed, pendingUpdates, pendingQuit, inbox, outbox, proc, modelTime>>
    BY <1>3 DEF SafetyInv, Phases, StartInitializingPhase, StartRunningPhase, EndFinalizingPhase,
                connectedVars, modelVars
  <2>2. ModelStatus' /\ Currency' /\ NoRequestSkipped'
    BY <2>1 DEF SafetyInv, ModelStatus, Currency, NoRequestSkipped
  <2>3. Busy' = Busy /\ Failed' = Failed /\ Requested' = Requested
        /\ InState("PendingMoreUpdates")' = InState("PendingMoreUpdates")
    BY <2>1 DEF Busy, Failed, Requested, InState
  <2>4. Phases'
    <3>1. CASE StartInitializingPhase
      BY <2>1, <2>3, <3>1 DEF SafetyInv, Phases, StartInitializingPhase, Closing
    <3>2. CASE StartRunningPhase
      BY <2>1, <2>3, <3>2 DEF SafetyInv, Phases, StartRunningPhase, Closing
    <3>3. CASE EndFinalizingPhase
      BY <2>1, <2>3, <3>3 DEF SafetyInv, Phases, EndFinalizingPhase, Closing
    <3> QED BY <1>3, <3>1, <3>2, <3>3
  <2>5. NobodyWaitsForNothing'
    <3>1. CASE StartRunningPhase
      <4>1. InState("PendingMoreUpdates") = {}
        BY <3>1 DEF SafetyInv, Phases, StartRunningPhase, InState
      <4> QED BY <2>3, <4>1 DEF NobodyWaitsForNothing
    <3>2. CASE StartInitializingPhase \/ EndFinalizingPhase
      <4>1. overlaps' = overlaps
        BY <3>2 DEF StartInitializingPhase, EndFinalizingPhase
      <4> QED BY <2>1, <2>3, <4>1 DEF SafetyInv, NobodyWaitsForNothing, Dependencies
    <3> QED BY <1>3, <3>1, <3>2
  <2> QED BY <1>1, <2>2, <2>4, <2>5 DEF SafetyInv
<1> QED BY <1>2, <1>3 DEF OrchestratorRun

-----------------------------------------------------------------------------
(* The models' steps keep the invariant.                                   *)

\* The parts of the invariant that do not look at the channels and the processes.
LEMMA UnchangedSafety ==
  ASSUME SafetyInv,
         UNCHANGED <<ostate, currentTime, commandRefused, overlaps>>,
         UNCHANGED <<mstate, nextTime, failed, pendingUpdates, pendingQuit>>
  PROVE  Phases' /\ NoRequestSkipped' /\ NobodyWaitsForNothing'
<1>1. Busy' = Busy /\ Failed' = Failed /\ Requested' = Requested
      /\ InState("PendingMoreUpdates")' = InState("PendingMoreUpdates")
  BY DEF Busy, Failed, Requested, InState
<1>2. \A m \in Models : Dependencies(m)' = Dependencies(m)
  BY DEF Dependencies
<1>3. Phases' /\ NoRequestSkipped'
  BY <1>1 DEF SafetyInv, Phases, NoRequestSkipped
<1>4. NobodyWaitsForNothing'
  BY <1>1, <1>2 DEF SafetyInv, NobodyWaitsForNothing, InState
<1> QED BY <1>3, <1>4

\* A model that takes a step takes the one command it has, or starts, and sends
\* one response; nothing else changes but its process.
LEMMA ModelStepEffect ==
  ASSUME TypeOK, ExchangeInv, NEW m \in Models, ModelStep(m)
  PROVE  /\ UNCHANGED <<orchestratorVars, connectedVars>>
         /\ \A s \in Models \ {m} :
              /\ inbox'[s] = inbox[s] /\ outbox'[s] = outbox[s]
              /\ proc'[s] = proc[s] /\ modelTime'[s] = modelTime[s]
         /\ mstate[m] \in BusyStates
         /\ inbox'[m] = <<>> /\ outbox[m] = <<>>
         /\ \/ proc[m] = "starting" /\ inbox[m] = <<>>
            \/ proc[m] = "running" /\ inbox[m] # <<>>
         /\ \E r \in Responses : outbox'[m] = Append(<<>>, r)
<1>1. UNCHANGED <<orchestratorVars, connectedVars>>
  BY DEF ModelStep, Register, HandleNewTime, HandleUpdate, SendResult, HandleQuit, Crash, Fail, Misbehave
<1>2. \A s \in Models \ {m} :
        /\ inbox'[s] = inbox[s] /\ outbox'[s] = outbox[s]
        /\ proc'[s] = proc[s] /\ modelTime'[s] = modelTime[s]
  BY DEF ModelStep, Register, HandleNewTime, HandleUpdate, SendResult, HandleQuit, Crash, Fail,
         Misbehave, Answer, Consume, modelVars, TypeOK
<1>3. \/ proc[m] = "starting"
      \/ proc[m] = "running" /\ inbox[m] # <<>>
  BY DEF ModelStep, Register, HandleNewTime, HandleUpdate, SendResult, HandleQuit, Crash, Fail, Misbehave, Received
<1>4. \E r \in Responses : outbox'[m] = Append(outbox[m], r)
  <2>1. CASE HandleUpdate(m)
    BY <2>1, ResponseTypesOK DEF HandleUpdate, SendResult, Answer, TypeOK
  <2>2. CASE ModelStep(m) /\ ~HandleUpdate(m)
    <3>1. PICK type \in ResponseTypes : Answer(m, Response(type))
      BY <2>2 DEF ModelStep, Register, HandleNewTime, HandleQuit, Crash, Fail, Misbehave, ResponseTypes
    <3> QED BY <3>1, ResponseTypesOK DEF Answer, TypeOK
  <2> QED BY <2>1, <2>2
<1>5. CASE proc[m] = "starting"
  <2>1. mstate[m] = "Registration" /\ inbox[m] = <<>>
    BY <1>5 DEF ExchangeInv, LifeCycle
  <2>2. outbox[m] = <<>>
    BY <1>5, <2>1 DEF ExchangeInv, OneExchange, BusyStates
  <2>3. inbox'[m] = <<>>
    BY <1>5, <2>1 DEF ModelStep, Register, HandleNewTime, HandleUpdate, SendResult, HandleQuit, Crash, Fail,
                      Misbehave, Received, TypeOK
  <2> QED BY <1>1, <1>2, <1>4, <1>5, <2>1, <2>2, <2>3 DEF BusyStates
<1>6. CASE proc[m] = "running" /\ inbox[m] # <<>>
  <2>1. mstate[m] \in BusyStates /\ outbox[m] = <<>> /\ Tail(inbox[m]) = <<>>
    BY <1>6, CommandedModel
  <2>2. inbox'[m] = <<>>
    BY <1>6, <2>1 DEF ModelStep, Register, HandleNewTime, HandleUpdate, SendResult, HandleQuit, Crash, Fail,
                      Misbehave, Consume, TypeOK
  <2> QED BY <1>1, <1>2, <1>4, <1>6, <2>1, <2>2
<1> QED BY <1>3, <1>5, <1>6

\* The invariant is kept by what a model does.
LEMMA ModelStepSafety ==
  ASSUME SafetyInv, NEW m \in Models, ModelStep(m)
  PROVE  SafetyInv'
<1>1. TypeOK /\ ExchangeInv /\ Phases /\ ModelStatus /\ Currency
  BY DEF SafetyInv
<1>2. TypeOK' /\ ExchangeInv'
  BY <1>1, ModelStepTypeOK, ModelStepExchange
<1>3. /\ UNCHANGED <<orchestratorVars, connectedVars>>
      /\ \A s \in Models \ {m} :
           /\ inbox'[s] = inbox[s] /\ outbox'[s] = outbox[s]
           /\ proc'[s] = proc[s] /\ modelTime'[s] = modelTime[s]
      /\ mstate[m] \in BusyStates
      /\ inbox'[m] = <<>> /\ outbox[m] = <<>>
      /\ (proc[m] = "starting" /\ inbox[m] = <<>>) \/ (proc[m] = "running" /\ inbox[m] # <<>>)
  BY <1>1, ModelStepEffect
<1>4. /\ UNCHANGED <<ostate, currentTime, commandRefused, overlaps>>
      /\ UNCHANGED <<mstate, nextTime, failed, pendingUpdates, pendingQuit>>
  BY <1>3 DEF orchestratorVars, connectedVars
<1>5. Phases' /\ NoRequestSkipped' /\ NobodyWaitsForNothing'
  BY <1>4, UnchangedSafety
<1>6. ModelStatus'
  <2>1. mstate[m] # "Done"
    BY <1>3 DEF BusyStates
  <2> QED BY <1>1, <1>3, <1>4, <2>1 DEF ModelStatus
<1>7. Currency'
  <2>1. /\ mstate[m] \in {"Registration", "Updating"} => modelTime'[m] = currentTime
        /\ mstate[m] = "NewTime" /\ Head(outbox'[m]).type = "Acknowledge" => modelTime'[m] = currentTime
    <3>1. CASE HandleNewTime(m)
      <4>1. inbox[m] # <<>> /\ Head(inbox[m]).type = "NewTime"
        BY <3>1 DEF HandleNewTime, Received
      <4>2. Head(inbox[m]).time = currentTime
        BY <1>1, <4>1 DEF Currency
      <4> QED BY <1>1, <3>1, <4>2 DEF HandleNewTime, TypeOK
    <3>2. CASE ModelStep(m) /\ ~HandleNewTime(m)
      <4>1. modelTime' = modelTime
        BY <3>2 DEF ModelStep, Register, HandleUpdate, SendResult, HandleQuit, Crash, Fail, Misbehave, modelVars
      <4>2. ASSUME mstate[m] = "NewTime" PROVE Head(outbox'[m]).type \in {"Error", "Result"}
        <5>1. inbox[m] # <<>> /\ Head(inbox[m]).type = "NewTime"
          <6>1. inbox[m] # <<>>
            BY <1>1, <1>3, <4>2 DEF ExchangeInv, LifeCycle
          <6>2. Head(inbox[m]).type \in {"NewTime", "Update", "Quit"}
            <7>1. Head(inbox[m]) \in Commands
              BY <1>1, <6>1, HeadTailProperties DEF TypeOK
            <7> QED BY <7>1 DEF Commands
          <6> QED BY <1>1, <4>2, <6>1, <6>2 DEF Currency, ExchangeInv, LifeCycle
        <5>2. PICK type \in {"Error", "Result"} : outbox'[m] = Append(<<>>, Response(type))
          BY <1>1, <1>3, <3>2, <5>1
             DEF ModelStep, Register, HandleUpdate, HandleQuit, Crash, Fail, Misbehave, Received, Answer, TypeOK
        <5>3. Head(Append(<<>>, Response(type))) = Response(type)
          BY SingleMessage, ResponseTypesOK DEF ResponseTypes
        <5> QED BY <5>2, <5>3 DEF Response
      <4> QED BY <1>1, <4>1, <4>2 DEF Currency
    <3> QED BY <3>1, <3>2
  <2> SUFFICES ASSUME NEW s \in Models
             PROVE  /\ ProducedAt(currentTime, pendingUpdates[s])
                    /\ mstate[s] \in {"Registration", "Idle", "PendingMoreUpdates", "Updating"} =>
                         modelTime'[s] = currentTime
                    /\ mstate[s] = "NewTime" /\ outbox'[s] # <<>> /\ Head(outbox'[s]).type = "Acknowledge" =>
                         modelTime'[s] = currentTime
                    /\ inbox'[s] # <<>> =>
                         LET c == Head(inbox'[s]) IN
                         /\ c.type = "NewTime" => mstate[s] = "NewTime" /\ c.time = currentTime
                         /\ c.type = "Update" => mstate[s] = "Updating" /\ ProducedAt(currentTime, c.updates)
    BY <1>4 DEF Currency
  <2>2. CASE s = m
    BY <1>1, <1>3, <2>1, <2>2 DEF Currency, BusyStates
  <2>3. CASE s # m
    BY <1>1, <1>3, <2>3 DEF Currency
  <2> QED BY <2>2, <2>3
<1> QED BY <1>2, <1>5, <1>6, <1>7 DEF SafetyInv

\* Every step keeps the invariant.
LEMMA NextSafety == SafetyInv /\ [Next]_vars => SafetyInv'
<1> SUFFICES ASSUME SafetyInv, [Next]_vars PROVE SafetyInv'
  OBVIOUS
<1>1. CASE UNCHANGED vars
  <2>1. TypeOK' /\ ExchangeInv'
    BY <1>1, NextTypeOK, NextExchange DEF SafetyInv
  <2>2. /\ UNCHANGED <<ostate, currentTime, commandRefused, overlaps>>
        /\ UNCHANGED <<mstate, nextTime, failed, pendingUpdates, pendingQuit>>
        /\ UNCHANGED <<inbox, outbox, proc, modelTime>>
    BY <1>1 DEF vars, orchestratorVars, connectedVars, modelVars
  <2>3. Phases' /\ NoRequestSkipped' /\ NobodyWaitsForNothing'
    BY <2>2, UnchangedSafety
  <2>4. ModelStatus' /\ Currency'
    BY <2>2 DEF SafetyInv, ModelStatus, Currency
  <2> QED BY <2>1, <2>3, <2>4 DEF SafetyInv
<1>2. CASE OrchestratorRun
  BY <1>2, OrchestratorRunSafety
<1>3. ASSUME NEW m \in Models, Receive(m) PROVE SafetyInv'
  BY <1>3, ReceiveSafety
<1>4. ASSUME NEW m \in Models, ModelStep(m) PROVE SafetyInv'
  BY <1>4, ModelStepSafety
<1> QED BY <1>1, <1>2, <1>3, <1>4 DEF Next

\* SafetyInv is an invariant of the orchestrator and its models.
LEMMA SafetyInvariant == Spec => []SafetyInv
BY InitSafety, NextSafety, PTL DEF Spec

-----------------------------------------------------------------------------
(* What the invariant says.                                                *)

\* An update is taken at the time it was produced at, by a model that is at that
\* time: whatever the models ask for and whichever of them fail, no update is left
\* behind when the clock moves on.
THEOREM UpdatesStayCurrent == Spec => []UpdatesAreCurrent
<1>1. SafetyInv => UpdatesAreCurrent
  BY DEF SafetyInv, Currency, UpdatesAreCurrent, ProducedAt
<1> QED BY <1>1, SafetyInvariant, PTL

\* The clock never passes a time that some model asked for.
THEOREM RequestsAreServed == Spec => []NoRequestSkipped
<1>1. SafetyInv => NoRequestSkipped
  BY DEF SafetyInv
<1> QED BY <1>1, SafetyInvariant, PTL

\* The orchestrator moves to a new time only when every model is idle and has
\* taken everything that was queued for it.
THEOREM Quiescence == Spec => []QuiescentBetweenTimes
<1>1. SafetyInv => QuiescentBetweenTimes
  <2> SUFFICES ASSUME SafetyInv, ostate = "NewTime", NEW m \in Models
               PROVE  mstate[m] = "Idle" /\ pendingUpdates[m] = <<>> /\ outbox[m] = <<>>
    BY DEF QuiescentBetweenTimes
  <2>1. mstate[m] = "Idle"
    BY DEF SafetyInv, Phases
  <2>2. outbox[m] = <<>>
    BY <2>1, FreeModel DEF SafetyInv, BusyStates
  <2> QED BY <2>1, <2>2 DEF SafetyInv, ModelStatus
<1> QED BY <1>1, SafetyInvariant, PTL

\* No state machine of a model is ever given a command that it does not accept.
THEOREM CommandsAreAccepted == Spec => []NoCommandRefused
<1>1. SafetyInv => NoCommandRefused
  BY DEF SafetyInv, Phases, NoCommandRefused
<1> QED BY <1>1, SafetyInvariant, PTL

\* When the orchestrator has stopped it knows of every model that crashed, and if
\* none has failed there is nothing left that a model asked for or was owed.
THEOREM ExitCodeTruth == Spec => []ExitCodeIsTruthful
<1>1. SafetyInv => ExitCodeIsTruthful
  <2> SUFFICES ASSUME SafetyInv, ostate = "Stopped" PROVE ExitCodeIsTruthful
    BY DEF ExitCodeIsTruthful
  <2>1. Busy = {}
    BY DEF SafetyInv, Phases
  <2>2. ASSUME NEW m \in Models, proc[m] = "crashed" PROVE failed[m]
    <3>1. outbox[m] = <<>>
      BY <2>1, FreeModel DEF SafetyInv, Busy
    <3>2. mstate[m] = "Done"
      BY <2>2, <3>1 DEF SafetyInv, ExchangeInv, LifeCycle
    <3> QED BY <2>2, <3>2 DEF SafetyInv, ModelStatus
  <2>3. Failed = {} => Requested = {} /\ \A m \in Models : pendingUpdates[m] = <<>>
    BY DEF SafetyInv, Phases, Closing
  <2> QED BY <2>2, <2>3 DEF ExitCodeIsTruthful
<1> QED BY <1>1, SafetyInvariant, PTL

\* A model that was sent a Quit is sent nothing after it, by any step.
THEOREM QuitIsTheLastCommand == Spec => NothingAfterQuit
<1> DEFINE Last == \A m \in Models : mstate[m] \in {"Finalizing", "Done"} =>
                     mstate'[m] \in {"Finalizing", "Done"} /\ Len(inbox'[m]) <= Len(inbox[m])
<1>1. SafetyInv /\ [Next]_vars => [Last]_vars
  <2> SUFFICES ASSUME SafetyInv, Next, NEW s \in Models, mstate[s] \in Deaf
               PROVE  mstate'[s] \in Deaf /\ Len(inbox'[s]) <= Len(inbox[s])
    BY DEF Deaf
  <2>1. TypeOK /\ ExchangeInv /\ Len(inbox[s]) \in Nat
    BY DEF SafetyInv, TypeOK
  <2>2. CASE OrchestratorRun
    <3>1. mstate'[s] = mstate[s] /\ inbox'[s] = inbox[s]
      <4>1. CASE AdvanceTime \/ RepeatTime
        BY <4>1 DEF SafetyInv, Phases, AdvanceTime, RepeatTime, Deaf
      <4>2. CASE StartFinalizingPhase
        BY <4>2, StartFinalizingEffect DEF InState, Deaf
      <4>3. CASE StartInitializingPhase \/ StartRunningPhase \/ EndFinalizingPhase
        BY <4>3 DEF StartInitializingPhase, StartRunningPhase, EndFinalizingPhase, connectedVars
      <4> QED BY <2>2, <4>1, <4>2, <4>3 DEF OrchestratorRun
    <3> QED BY <2>1, <3>1
  <2>3. ASSUME NEW m \in Models, Receive(m)
        PROVE  mstate'[s] \in Deaf /\ Len(inbox'[s]) <= Len(inbox[s])
    <3>1. PICK notified, news, updates, quit, hasFailed, C, W, own :
            Reception(m, notified, news, updates, quit, hasFailed, C, W, own)
      BY <2>1, <2>3, ReceiveEffect
    <3>2. /\ mstate[m] \in BusyStates /\ W \subseteq C
          /\ Effect(m, notified, news, updates, quit, hasFailed, C, W, own)
      BY <3>1 DEF Reception, Effect
    <3>3. s \notin C
      BY <3>2 DEF Effect, Deaf
    <3>4. s = m => own = "Done"
      BY <3>2 DEF Effect, Deaf, BusyStates, AfterResponse
    <3>5. mstate'[s] \in Deaf /\ inbox'[s] = inbox[s]
      BY <3>2, <3>3, <3>4 DEF Effect, Deaf
    <3> QED BY <2>1, <3>5
  <2>4. ASSUME NEW m \in Models, ModelStep(m)
        PROVE  mstate'[s] \in Deaf /\ Len(inbox'[s]) <= Len(inbox[s])
    <3>1. /\ mstate' = mstate
          /\ s # m => inbox'[s] = inbox[s]
          /\ s = m => inbox'[s] = <<>>
      BY <2>1, <2>4, ModelStepEffect DEF connectedVars
    <3> QED BY <2>1, <3>1
  <2> QED BY <2>2, <2>3, <2>4 DEF Next
<1> QED BY <1>1, SafetyInvariant, PTL DEF Spec, NothingAfterQuit

-----------------------------------------------------------------------------
(* A simulation without failures.                                          *)

\* No model fails, and every response under way is the one that is waited for.
Orderly ==
  \A m \in Models :
    /\ ~failed[m]
    /\ outbox[m] # <<>> => Head(outbox[m]).type \in ValidResponses(mstate[m]) \ {"Error"}

\* Without raising handlers and crashes no model fails: its answers are those that its command asks
\* for.
LEMMA NextOrderly ==
  ASSUME Fragile = {}, Faulty = {}, SafetyInv, Orderly, [Next]_vars
  PROVE  Orderly'
<1>1. TypeOK /\ ExchangeInv /\ Currency
  BY DEF SafetyInv
<1>2. CASE UNCHANGED vars
  BY <1>2 DEF Orderly, vars, connectedVars
<1>3. CASE OrchestratorRun
  <2>1. failed' = failed /\ outbox' = outbox
    BY <1>3 DEF OrchestratorRun, StartInitializingPhase, StartRunningPhase, AdvanceTime, RepeatTime,
                StartFinalizingPhase, EndFinalizingPhase, connectedVars
  <2>2. \A m \in Models : outbox[m] # <<>> => mstate'[m] = mstate[m]
    <3> SUFFICES ASSUME NEW m \in Models, outbox[m] # <<>> PROVE mstate'[m] = mstate[m]
      OBVIOUS
    <3>1. mstate[m] \in BusyStates
      BY <1>1, RespondingModel
    <3>2. CASE AdvanceTime \/ RepeatTime
      BY <3>1, <3>2 DEF SafetyInv, Phases, AdvanceTime, RepeatTime, BusyStates
    <3>3. CASE StartFinalizingPhase
      BY <3>1, <3>3, StartFinalizingEffect DEF InState, BusyStates
    <3>4. CASE StartInitializingPhase \/ StartRunningPhase \/ EndFinalizingPhase
      BY <3>4 DEF StartInitializingPhase, StartRunningPhase, EndFinalizingPhase, connectedVars
    <3> QED BY <1>3, <3>2, <3>3, <3>4 DEF OrchestratorRun
  <2> QED BY <2>1, <2>2 DEF Orderly
<1>4. ASSUME NEW m \in Models, Receive(m) PROVE Orderly'
  <2>1. PICK notified, news, updates, quit, hasFailed, C, W, own :
          Reception(m, notified, news, updates, quit, hasFailed, C, W, own)
    BY <1>1, <1>4, ReceiveEffect
  <2>2. /\ Handling(m, notified, news, updates, quit, hasFailed)
        /\ Effect(m, notified, news, updates, quit, hasFailed, C, W, own)
        /\ outbox[m] # <<>> /\ C \in SUBSET Models
    BY <2>1 DEF Reception
  <2>3. ~hasFailed
    BY <2>2 DEF Handling, Orderly
  <2>4. \A s \in C : outbox[s] = <<>>
    BY <1>1, <2>2, FreeModel DEF Effect, BusyStates
  <2>5. \A s \in Models :
          /\ failed'[s] = IF s = m THEN hasFailed ELSE failed[s]
          /\ outbox'[s] = IF s = m THEN <<>> ELSE outbox[s]
          /\ s # m /\ s \notin C => mstate'[s] = mstate[s]
    BY <2>2 DEF Effect
  <2> QED BY <2>3, <2>4, <2>5 DEF Orderly
<1>5. ASSUME NEW m \in Models, ModelStep(m) PROVE Orderly'
  <2>1. /\ UNCHANGED <<orchestratorVars, connectedVars>>
        /\ \A s \in Models \ {m} : outbox'[s] = outbox[s]
        /\ outbox[m] = <<>>
    BY <1>1, <1>5, ModelStepEffect
  <2>2. PICK r \in Responses : /\ outbox'[m] = Append(<<>>, r)
                               /\ r.type \in ValidResponses(mstate[m]) \ {"Error"}
    <3>1. CASE Register(m)
      <4>1. mstate[m] = "Registration"
        BY <1>1, <3>1 DEF Register, ExchangeInv, LifeCycle
      <4> QED BY <1>1, <2>1, <3>1, <4>1, ResponseTypesOK
              DEF Register, Answer, Response, ResponseTypes, ValidResponses, TypeOK
    <3>2. CASE HandleNewTime(m)
      <4>1. mstate[m] = "NewTime"
        BY <1>1, <3>2 DEF HandleNewTime, Received, Currency
      <4> QED BY <1>1, <2>1, <3>2, <4>1, ResponseTypesOK
              DEF HandleNewTime, Answer, Response, ResponseTypes, ValidResponses, TypeOK
    <3>3. CASE HandleUpdate(m)
      <4>1. mstate[m] = "Updating"
        BY <1>1, <3>3 DEF HandleUpdate, Received, Currency
      <4> QED BY <1>1, <2>1, <3>3, <4>1, ResponseTypesOK
              DEF HandleUpdate, SendResult, Answer, Result, ValidResponses, TypeOK
    <3>4. CASE HandleQuit(m)
      <4>1. mstate[m] = "Finalizing"
        BY <1>1, <3>4 DEF HandleQuit, Received, ExchangeInv, LifeCycle
      <4> QED BY <1>1, <2>1, <3>4, <4>1, ResponseTypesOK
              DEF HandleQuit, Answer, Response, ResponseTypes, ValidResponses, TypeOK
    <3> QED BY <1>5, <3>1, <3>2, <3>3, <3>4 DEF ModelStep, Crash, Misbehave
  <2>3. Head(outbox'[m]) = r
    BY <2>2, SingleMessage
  <2> QED BY <2>1, <2>2, <2>3 DEF Orderly, connectedVars
<1> QED BY <1>2, <1>3, <1>4, <1>5 DEF Next

\* If no model raises an exception or speaks the protocol wrongly, no model waits
\* for a dependency that will not return, and the orchestrator stops only after every
\* model has answered its Quit.
THEOREM NobodyLeftBehind ==
  ASSUME Fragile = {}, Faulty = {}
  PROVE  Spec => []NobodyIsLeftBehind
<1>1. Init => Orderly
  BY DEF Init, Orderly
<1>2. SafetyInv /\ Orderly /\ [Next]_vars => Orderly'
  BY NextOrderly
<1>3. SafetyInv /\ Orderly => NobodyIsLeftBehind
  <2> SUFFICES ASSUME SafetyInv, Orderly, ostate = "Stopped", NEW m \in Models
               PROVE  mstate[m] = "Done"
    BY DEF NobodyIsLeftBehind, EveryModelIsEnded, SafetyInv
  <2>1. Failed = {} /\ Busy = {}
    BY DEF Orderly, Failed, SafetyInv, Phases
  <2>2. mstate[m] \in Deaf /\ mstate[m] \notin BusyStates
    BY <2>1 DEF SafetyInv, Phases, Closing, Busy
  <2> QED BY <2>2 DEF Deaf, BusyStates
<1> QED BY <1>1, <1>2, <1>3, SafetyInvariant, PTL DEF Spec

-----------------------------------------------------------------------------
(* Which updates with data the steps of the orchestrator hand on: what the  *)
(* modules that add the data need to know of it.                            *)

\* The updates of a queue that have data.
Open(q) == {q[i] : i \in {j \in DOMAIN q : q[j].key # None}}

\* In this step s is told of nothing with data but what was queued for it and `new`.
ToldOnlyOf(s, new) ==
  /\ Open(pendingUpdates'[s]) \subseteq Open(pendingUpdates[s]) \cup new
  /\ inbox'[s] # inbox[s] =>
       /\ inbox[s] = <<>> /\ inbox'[s] # <<>>
       /\ Open(Head(inbox'[s]).updates) \subseteq Open(pendingUpdates[s]) \cup new
       /\ Head(inbox'[s]).type # "Update" => Open(Head(inbox'[s]).updates) = {}

\* The update that a response of m makes its subscribers look at.
NewsOf(m) ==
  IF Head(outbox[m]).key = None THEN {} ELSE {DataUpdate(m, Head(outbox[m]).key)}

\* The open updates of a concatenation, of an empty queue and of a single update.
LEMMA OpenQueues ==
  /\ \A q, r \in Seq(Update) : Open(q \o r) = Open(q) \cup Open(r)
  /\ Open(<<>>) = {}
  /\ \A u \in Update : Open(<<u>>) = IF u.key = None THEN {} ELSE {u}
  /\ \A u \in Update : Open(Append(<<>>, u)) = IF u.key = None THEN {} ELSE {u}
<1>1. ASSUME NEW q \in Seq(Update), NEW r \in Seq(Update) PROVE Open(q \o r) = Open(q) \cup Open(r)
  <2>1. /\ DOMAIN q = 1..Len(q) /\ DOMAIN r = 1..Len(r) /\ Len(q) \in Nat /\ Len(r) \in Nat
        /\ DOMAIN (q \o r) = 1..(Len(q) + Len(r))
        /\ \A i \in 1..(Len(q) + Len(r)) : (q \o r)[i] = IF i <= Len(q) THEN q[i] ELSE r[i - Len(q)]
    OBVIOUS
  <2>2. \A u : u \in Open(q \o r) <=> \E i \in DOMAIN (q \o r) : (q \o r)[i].key # None /\ u = (q \o r)[i]
    BY DEF Open
  <2>3. \A u : u \in Open(q) <=> \E i \in DOMAIN q : q[i].key # None /\ u = q[i]
    BY DEF Open
  <2>4. \A u : u \in Open(r) <=> \E i \in DOMAIN r : r[i].key # None /\ u = r[i]
    BY DEF Open
  <2>5. ASSUME NEW u \in Open(q \o r) PROVE u \in Open(q) \cup Open(r)
    <3>1. PICK i \in 1..(Len(q) + Len(r)) : (q \o r)[i].key # None /\ u = (q \o r)[i]
      BY <2>1, <2>2
    <3>2. CASE i <= Len(q)
      BY <2>1, <2>3, <3>1, <3>2
    <3>3. CASE ~(i <= Len(q))
      <4>1. i - Len(q) \in DOMAIN r
        BY <2>1, <3>3
      <4> QED BY <2>1, <2>4, <3>1, <3>3, <4>1
    <3> QED BY <3>2, <3>3
  <2>6. ASSUME NEW u \in Open(q) PROVE u \in Open(q \o r)
    BY <2>1, <2>2, <2>3
  <2>7. ASSUME NEW u \in Open(r) PROVE u \in Open(q \o r)
    <3>1. PICK j \in 1..Len(r) : r[j].key # None /\ u = r[j]
      BY <2>1, <2>4
    <3>2. /\ Len(q) + j \in 1..(Len(q) + Len(r)) /\ ~(Len(q) + j <= Len(q))
          /\ (Len(q) + j) - Len(q) = j
      BY <2>1
    <3> QED BY <2>1, <2>2, <3>1, <3>2
  <2> QED BY <2>5, <2>6, <2>7
<1>2. Open(<<>>) = {}
  BY DEF Open
<1>3. \A u \in Update : Open(<<u>>) = IF u.key = None THEN {} ELSE {u}
  BY DEF Open
<1>4. \A u \in Update : Append(<<>>, u) = <<u>>
  OBVIOUS
<1> QED BY <1>1, <1>2, <1>3, <1>4

\* A response is passed on to the subscribers, and to nobody else; no channel but
\* that of its sender is read.
LEMMA ReceiveData ==
  ASSUME SafetyInv, NEW m \in Models, Receive(m)
  PROVE  /\ UNCHANGED <<currentTime, overlaps, proc, modelTime>>
         /\ outbox[m] # <<>>
         /\ \A s \in Models :
              /\ outbox'[s] = IF s = m THEN <<>> ELSE outbox[s]
              /\ ToldOnlyOf(s, NewsOf(m))
              /\ inbox'[s] # inbox[s] => Head(inbox'[s]).type \in {"Update", "Quit"}
              /\ s # m => \/ mstate'[s] = mstate[s]
                          \/ mstate[s] \notin BusyStates /\ mstate'[s] \in {"Updating", "PendingMoreUpdates"}
<1>1. TypeOK /\ ExchangeInv
  BY DEF SafetyInv
<1>2. PICK notified, news, updates, quit, hasFailed, C, W, own :
        Reception(m, notified, news, updates, quit, hasFailed, C, W, own)
  BY <1>1, ReceiveEffect
<1>3. /\ Handling(m, notified, news, updates, quit, hasFailed)
      /\ Effect(m, notified, news, updates, quit, hasFailed, C, W, own)
      /\ mstate[m] \in BusyStates /\ m \notin C /\ C \in SUBSET Models /\ outbox[m] # <<>>
      /\ Head(outbox[m]) \in Responses
      /\ news \in Seq(Update) /\ updates \in Seq(Update)
  BY <1>2 DEF Reception
<1>4. /\ W \subseteq C /\ UNCHANGED <<currentTime, overlaps, proc, modelTime>>
      /\ C = {s \in notified : \/ mstate[s] = "PendingMoreUpdates"
                               \/ mstate[s] = "Idle" /\ news # <<>>}
  BY <1>3 DEF Effect
<1>5. \A s \in Models :
        /\ mstate'[s] = IF s = m THEN own
                        ELSE IF s \in W THEN "Updating"
                        ELSE IF s \in C THEN "PendingMoreUpdates" ELSE mstate[s]
        /\ outbox'[s] = IF s = m THEN <<>> ELSE outbox[s]
        /\ inbox'[s] =
            IF s \in W THEN Append(<<>>, UpdateCommand(pendingUpdates[s] \o news))
            ELSE IF s = m /\ own = "Updating" THEN Append(<<>>, UpdateCommand(updates))
            ELSE IF s = m /\ own = "Finalizing" THEN Append(<<>>, QuitCommand)
            ELSE inbox[s]
        /\ pendingUpdates'[s] =
            IF s \in W \/ (s = m /\ own = "Updating") THEN <<>>
            ELSE IF s = m THEN updates
            ELSE IF s \in notified /\ mstate[s] \notin Deaf THEN pendingUpdates[s] \o news
            ELSE pendingUpdates[s]
  BY <1>3 DEF Effect
<1>6. Open(news) \subseteq NewsOf(m) /\ Open(updates) \subseteq Open(pendingUpdates[m]) /\ Open(<<>>) = {}
  <2>1. updates \in {<<>>, pendingUpdates[m]}
    BY <1>3 DEF Handling
  <2>2. \/ news = <<>>
        \/ Head(outbox[m]).key # None /\ news = <<DataUpdate(m, Head(outbox[m]).key)>>
    BY <1>3 DEF Handling
  <2>3. ASSUME Head(outbox[m]).key # None PROVE DataUpdate(m, Head(outbox[m]).key) \in Update
    BY <1>1, <1>3, <2>3, NAssumption DEF Responses, DataUpdate, Update, Models, TypeOK
  <2>4. Open(news) \subseteq NewsOf(m)
    BY <2>2, <2>3, OpenQueues DEF NewsOf
  <2> QED BY <2>1, <2>4, OpenQueues
<1>7. \A s \in Models : Open(pendingUpdates[s] \o news) \subseteq Open(pendingUpdates[s]) \cup NewsOf(m)
  BY <1>1, <1>3, <1>6, OpenQueues DEF TypeOK
<1>8. \A us \in Seq(Update) :
        /\ Append(<<>>, UpdateCommand(us)) # <<>>
        /\ Head(Append(<<>>, UpdateCommand(us))) = UpdateCommand(us)
        /\ UpdateCommand(us).type = "Update" /\ UpdateCommand(us).updates = us
  BY CommandTypes, SingleMessage DEF UpdateCommand
<1>9. /\ Append(<<>>, QuitCommand) # <<>>
      /\ Head(Append(<<>>, QuitCommand)).type = "Quit"
      /\ Head(Append(<<>>, QuitCommand)).updates = <<>>
  BY CommandTypes, SingleMessage DEF QuitCommand
<1>10. inbox[m] = <<>> /\ \A s \in C : inbox[s] = <<>>
  BY <1>1, <1>3, <1>4, RespondingModel, FreeModel DEF BusyStates
<1>11. ASSUME NEW s \in Models
       PROVE  /\ ToldOnlyOf(s, NewsOf(m))
              /\ inbox'[s] # inbox[s] => Head(inbox'[s]).type \in {"Update", "Quit"}
  <2>1. Open(pendingUpdates'[s]) \subseteq Open(pendingUpdates[s]) \cup NewsOf(m)
    BY <1>5, <1>6, <1>7
  <2>2. CASE s \in W
    <3>1. pendingUpdates[s] \o news \in Seq(Update)
      BY <1>1, <1>3, ConcatProperties DEF TypeOK
    <3>2. inbox'[s] = Append(<<>>, UpdateCommand(pendingUpdates[s] \o news)) /\ inbox[s] = <<>>
      BY <1>4, <1>5, <1>10, <2>2
    <3>3. /\ inbox'[s] # <<>> /\ Head(inbox'[s]).type = "Update"
          /\ Head(inbox'[s]).updates = pendingUpdates[s] \o news
      BY <1>8, <3>1, <3>2, Zenon
    <3> QED BY <1>7, <2>1, <3>2, <3>3 DEF ToldOnlyOf
  <2>3. CASE s = m /\ own = "Updating"
    <3>1. inbox'[s] = Append(<<>>, UpdateCommand(updates)) /\ inbox[s] = <<>>
      BY <1>3, <1>4, <1>5, <1>10, <2>3
    <3> QED BY <1>3, <1>6, <1>8, <2>1, <2>3, <3>1 DEF ToldOnlyOf
  <2>4. CASE s = m /\ own = "Finalizing"
    <3>1. inbox'[s] = Append(<<>>, QuitCommand) /\ inbox[s] = <<>>
      BY <1>3, <1>4, <1>5, <1>10, <2>4
    <3> QED BY <1>6, <1>9, <2>1, <3>1 DEF ToldOnlyOf
  <2>5. CASE s \notin W /\ ~(s = m /\ own \in {"Updating", "Finalizing"})
    <3>1. inbox'[s] = inbox[s]
      BY <1>5, <2>5
    <3> QED BY <2>1, <3>1 DEF ToldOnlyOf
  <2> QED BY <2>2, <2>3, <2>4, <2>5
<1>12. ASSUME NEW s \in Models, s # m
       PROVE  \/ mstate'[s] = mstate[s]
              \/ mstate[s] \notin BusyStates /\ mstate'[s] \in {"Updating", "PendingMoreUpdates"}
  BY <1>4, <1>5, <1>12 DEF BusyStates
<1> QED BY <1>3, <1>4, <1>5, <1>11, <1>12

\* Between two responses the orchestrator tells nobody of new data; it sends a new time
\* to everybody or to nobody, and it does not touch a model that works.
LEMMA OrchestratorRunData ==
  ASSUME SafetyInv, OrchestratorRun
  PROVE  /\ UNCHANGED <<outbox, proc, modelTime>>
         /\ \A s \in Models :
              /\ ToldOnlyOf(s, {})
              /\ mstate[s] \in BusyStates => mstate'[s] = mstate[s] /\ inbox'[s] = inbox[s]
              /\ mstate'[s] = "Finalizing" => mstate[s] \in {"Idle", "Finalizing"}
              /\ mstate'[s] = "Done" => mstate[s] = "Done"
         /\ \/ /\ currentTime' = currentTime
               /\ \A s \in Models :
                    inbox'[s] # inbox[s] => Head(inbox'[s]).type \in {"Update", "Quit"}
            \/ /\ currentTime' \in Times
               /\ currentTime # None => currentTime < currentTime'
               /\ \A s \in Models :
                    /\ mstate[s] = "Idle" /\ mstate'[s] = "NewTime"
                    /\ inbox'[s] # <<>> /\ Head(inbox'[s]).type = "NewTime"
                    /\ Head(inbox'[s]).time = currentTime'
<1>1. TypeOK /\ ExchangeInv
  BY DEF SafetyInv
<1>2. /\ \A us \in Seq(Update) :
           /\ Append(<<>>, UpdateCommand(us)) # <<>>
           /\ Head(Append(<<>>, UpdateCommand(us))) = UpdateCommand(us)
           /\ UpdateCommand(us).type = "Update" /\ UpdateCommand(us).updates = us
      /\ Append(<<>>, QuitCommand) # <<>>
      /\ Head(Append(<<>>, QuitCommand)).type = "Quit"
      /\ Head(Append(<<>>, QuitCommand)).updates = <<>>
  BY CommandTypes, SingleMessage DEF UpdateCommand, QuitCommand
<1>3. /\ Open(<<>>) = {} /\ <<>> \in Seq(Update)
      /\ \A t \in Times : /\ Append(<<>>, TimeUpdate(t)) \in Seq(Update)
                          /\ Open(Append(<<>>, TimeUpdate(t))) = {}
  <2>1. \A t \in Times : TimeUpdate(t) \in Update /\ TimeUpdate(t).key = None
    BY NAssumption DEF TimeUpdate, Update
  <2>2. <<>> \in Seq(Update) /\ \A u \in Update : Append(<<>>, u) \in Seq(Update)
    OBVIOUS
  <2> QED BY <2>1, <2>2, OpenQueues
<1>4. CASE StartInitializingPhase \/ StartRunningPhase \/ EndFinalizingPhase
  BY <1>4 DEF StartInitializingPhase, StartRunningPhase, EndFinalizingPhase, connectedVars, modelVars, ToldOnlyOf
<1>5. CASE AdvanceTime
  <2>1. /\ currentTime' \in Requested
        /\ currentTime # None => currentTime < currentTime'
        /\ UNCHANGED <<nextTime, failed, pendingQuit, proc, modelTime>>
        /\ \A s \in Models :
             /\ mstate[s] = "Idle" /\ inbox[s] = <<>> /\ outbox[s] = <<>>
             /\ mstate'[s] = "NewTime"
             /\ inbox'[s] = Append(<<>>, NewTimeCommand(currentTime'))
             /\ pendingUpdates'[s] = IF nextTime[s] = currentTime'
                                     THEN Append(<<>>, TimeUpdate(currentTime')) ELSE <<>>
    BY <1>5, AdvanceTimeEffect, FreeModel, <1>1 DEF SafetyInv, Phases, AdvanceTime, BusyStates
  <2>2. currentTime' \in Times
    BY <1>1, <2>1 DEF Requested, TypeOK
  <2>3. LET c == NewTimeCommand(currentTime') IN
        /\ Append(<<>>, c) # <<>> /\ Head(Append(<<>>, c)) = c
        /\ c.type = "NewTime" /\ c.time = currentTime' /\ c.updates = <<>>
    BY <2>2, CommandTypes, SingleMessage DEF NewTimeCommand
  <2>4. outbox' = outbox
    BY <1>5 DEF AdvanceTime
  <2>5. ASSUME NEW s \in Models
        PROVE  /\ ToldOnlyOf(s, {})
               /\ mstate[s] = "Idle" /\ mstate'[s] = "NewTime"
               /\ inbox'[s] # <<>> /\ Head(inbox'[s]).type = "NewTime"
               /\ Head(inbox'[s]).time = currentTime'
    <3>1. Open(pendingUpdates'[s]) = {} /\ Open(Head(inbox'[s]).updates) = {}
      BY <1>3, <2>1, <2>2, <2>3
    <3> QED BY <2>1, <2>3, <3>1 DEF ToldOnlyOf
  <2> QED BY <2>1, <2>2, <2>4, <2>5 DEF BusyStates
<1>6. CASE RepeatTime
  <2>1. PICK due \in SUBSET Models, W \in SUBSET Models :
             /\ currentTime \in Requested
             /\ \A s \in Models :
                  /\ mstate[s] = "Idle"
                  /\ mstate'[s] = IF s \in W THEN "Updating"
                                  ELSE IF s \in due THEN "PendingMoreUpdates" ELSE "Idle"
                  /\ inbox'[s] = IF s \in W
                                 THEN Append(<<>>, UpdateCommand(Append(<<>>, TimeUpdate(currentTime))))
                                 ELSE <<>>
                  /\ pendingUpdates'[s] = IF s \in due \ W
                                          THEN Append(<<>>, TimeUpdate(currentTime)) ELSE <<>>
             /\ UNCHANGED <<currentTime, overlaps, nextTime, failed, pendingQuit, proc, modelTime>>
    BY <1>6, RepeatTimeEffect
  <2>2. currentTime \in Times
    BY <1>1, <2>1 DEF Requested, TypeOK
  <2>3. \A s \in Models : inbox[s] = <<>>
    BY <1>1, <2>1, FreeModel DEF BusyStates
  <2>4. outbox' = outbox
    BY <1>6 DEF RepeatTime
  <2>5. ASSUME NEW s \in Models
        PROVE  /\ ToldOnlyOf(s, {})
               /\ inbox'[s] # inbox[s] => Head(inbox'[s]).type \in {"Update", "Quit"}
    <3>1. Open(pendingUpdates'[s]) = {}
      BY <1>3, <2>1, <2>2
    <3>2. ASSUME inbox'[s] # inbox[s]
          PROVE  /\ inbox'[s] # <<>> /\ Head(inbox'[s]).type = "Update"
                 /\ Open(Head(inbox'[s]).updates) = {}
      <4> DEFINE us == Append(<<>>, TimeUpdate(currentTime))
      <4>1. us \in Seq(Update) /\ Open(us) = {}
        BY <1>3, <2>2
      <4>2. inbox'[s] = Append(<<>>, UpdateCommand(us))
        BY <2>1, <2>3, <3>2
      <4> HIDE DEF us
      <4> QED BY <1>2, <4>1, <4>2, Zenon
    <3> QED BY <2>3, <3>1, <3>2 DEF ToldOnlyOf
  <2> QED BY <2>1, <2>4, <2>5 DEF BusyStates
<1>7. CASE StartFinalizingPhase
  <2>1. PICK W \in SUBSET InState("PendingMoreUpdates") :
             /\ \A s \in Models :
                  /\ mstate'[s] = IF mstate[s] = "Idle" THEN "Finalizing"
                                  ELSE IF s \in W THEN "Updating" ELSE mstate[s]
                  /\ inbox'[s] = IF mstate[s] = "Idle" THEN Append(<<>>, QuitCommand)
                                 ELSE IF s \in W THEN Append(<<>>, UpdateCommand(pendingUpdates[s]))
                                 ELSE inbox[s]
                  /\ pendingUpdates'[s] = IF s \in W THEN <<>> ELSE pendingUpdates[s]
             /\ UNCHANGED <<currentTime, commandRefused, overlaps, nextTime, failed, outbox, proc, modelTime>>
    BY <1>7, StartFinalizingEffect
  <2>2. \A s \in W : s \in Models /\ mstate[s] = "PendingMoreUpdates"
    BY DEF InState
  <2>3. ASSUME NEW s \in Models
        PROVE  /\ ToldOnlyOf(s, {})
               /\ inbox'[s] # inbox[s] => Head(inbox'[s]).type \in {"Update", "Quit"}
               /\ mstate[s] \in BusyStates => mstate'[s] = mstate[s] /\ inbox'[s] = inbox[s]
               /\ mstate'[s] = "Finalizing" => mstate[s] \in {"Idle", "Finalizing"}
               /\ mstate'[s] = "Done" => mstate[s] = "Done"
    <3>1. CASE mstate[s] = "Idle"
      <4>1. inbox[s] = <<>> /\ inbox'[s] = Append(<<>>, QuitCommand) /\ s \notin W
        BY <1>1, <2>1, <2>2, <3>1, FreeModel DEF BusyStates
      <4> QED BY <1>2, <1>3, <2>1, <3>1, <4>1 DEF ToldOnlyOf, BusyStates
    <3>2. CASE s \in W
      <4>1. /\ inbox[s] = <<>> /\ mstate[s] = "PendingMoreUpdates"
            /\ inbox'[s] = Append(<<>>, UpdateCommand(pendingUpdates[s]))
            /\ pendingUpdates[s] \in Seq(Update)
        BY <1>1, <2>1, <2>2, <3>2, FreeModel DEF BusyStates, TypeOK
      <4> QED BY <1>2, <1>3, <2>1, <3>2, <4>1 DEF ToldOnlyOf, BusyStates
    <3>3. CASE mstate[s] # "Idle" /\ s \notin W
      BY <2>1, <3>3 DEF ToldOnlyOf
    <3> QED BY <3>1, <3>2, <3>3
  <2> QED BY <2>1, <2>3
<1> QED BY <1>4, <1>5, <1>6, <1>7 DEF OrchestratorRun
-----------------------------------------------------------------------------
(* The orchestrator implements SimulationClock: one lemma per action, each *)
(* from the inductive invariant.                                           *)

\* The simulation begins where a clock begins.
LEMMA ClockInit == Init => Clock!Init
<1> SUFFICES ASSUME Init PROVE Clock!Init
  OBVIOUS
<1>1. Busy = Models /\ Failed = {}
  BY DEF Init, Busy, Failed, BusyStates
<1>2. {m \in Models : pendingUpdates[m] # <<>>} = {}
  BY DEF Init
<1> QED BY <1>1, <1>2 DEF Init, Clock!Init

\* The wishes of the clock are the requests of the orchestrator.
LEMMA ClockWishes == Clock!Wishes = Requested /\ Clock!Wishes' = Requested'
BY DEF Clock!Wishes, Requested

\* Moving to the earliest request is a jump of the clock: nobody works and nobody
\* is owed an update before it, and everybody works after it.
LEMMA AdvanceTimeJumps ==
  ASSUME SafetyInv, AdvanceTime
  PROVE  Clock!Jump
<1>1. /\ ostate = "NewTime" /\ ostate' = "WaitForResults"
      /\ currentTime' \in Requested /\ \A u \in Requested : currentTime' <= u
      /\ currentTime = None \/ currentTime < currentTime'
      /\ \A m \in Models :
           /\ mstate[m] = "Idle" /\ mstate'[m] = "NewTime" /\ pendingUpdates[m] = <<>>
           /\ pendingUpdates'[m] = IF nextTime[m] = currentTime'
                                   THEN Append(<<>>, TimeUpdate(currentTime')) ELSE <<>>
      /\ UNCHANGED <<nextTime, failed>>
  BY AdvanceTimeEffect DEF AdvanceTime
<1>2. Busy = {} /\ Busy' = Models /\ Failed' = Failed
  BY <1>1 DEF Busy, Failed, BusyStates
<1>3. {m \in Models : pendingUpdates[m] # <<>>} = {}
  BY <1>1
<1>4. {m \in Models : pendingUpdates'[m] # <<>>} = {m \in Models : nextTime[m] = currentTime'}
  <2>1. Append(<<>>, TimeUpdate(currentTime')) # <<>>
    OBVIOUS
  <2> QED BY <1>1, <2>1
<1> QED BY <1>1, <1>2, <1>3, <1>4, ClockWishes DEF Clock!Jump, Clock!Agreed, Clock!Earliest

\* Staying at the current time for those that asked for it again.
LEMMA RepeatTimeIsAgain ==
  ASSUME SafetyInv, RepeatTime
  PROVE  Clock!Again
<1>1. ostate = "NewTime"
  BY DEF RepeatTime
<1>2. PICK due \in SUBSET Models, W \in SUBSET Models :
        /\ due = {m \in Models : nextTime[m] = currentTime}
        /\ W \subseteq due /\ W # {}
        /\ ostate' = "WaitForResults"
        /\ currentTime \in Requested /\ \A u \in Requested : currentTime <= u
        /\ \A m \in Models :
             /\ mstate[m] = "Idle" /\ pendingUpdates[m] = <<>>
             /\ mstate'[m] = IF m \in W THEN "Updating"
                             ELSE IF m \in due THEN "PendingMoreUpdates" ELSE "Idle"
             /\ pendingUpdates'[m] = IF m \in due \ W
                                     THEN Append(<<>>, TimeUpdate(currentTime)) ELSE <<>>
        /\ UNCHANGED <<currentTime, nextTime, failed>>
  BY RepeatTimeEffect
<1>3. Busy = {} /\ Busy' = W /\ Failed' = Failed
  BY <1>2 DEF Busy, Failed, BusyStates
<1>4. {m \in Models : pendingUpdates[m] # <<>>} = {}
  BY <1>2
<1>5. {m \in Models : pendingUpdates'[m] # <<>>} = due \ W
  <2>1. Append(<<>>, TimeUpdate(currentTime)) # <<>>
    OBVIOUS
  <2> QED BY <1>2, <2>1
<1> QED BY <1>1, <1>2, <1>3, <1>4, <1>5, ClockWishes DEF Clock!Again, Clock!Agreed, Clock!Earliest

\* Asking every model to quit takes nothing from those that work.
LEMMA StartFinalizingCloses ==
  ASSUME SafetyInv, StartFinalizingPhase
  PROVE  Clock!Close
<1>1. PICK W \in SUBSET InState("PendingMoreUpdates") :
        /\ ostate' = IF Busy' = {} THEN "EndFinalizingPhase" ELSE "FinalizingWaitForModels"
        /\ \A m \in Models :
             /\ mstate'[m] = IF mstate[m] = "Idle" THEN "Finalizing"
                             ELSE IF m \in W THEN "Updating" ELSE mstate[m]
             /\ pendingUpdates'[m] = IF m \in W THEN <<>> ELSE pendingUpdates[m]
        /\ UNCHANGED <<currentTime, nextTime, failed>>
  BY StartFinalizingEffect
<1>2. ostate = "StartFinalizingPhase"
  BY DEF StartFinalizingPhase
<1>3. Busy \subseteq Busy' /\ Failed' = Failed
  BY <1>1 DEF Busy, Failed, BusyStates
<1>4. {m \in Models : pendingUpdates'[m] # <<>>} \subseteq {m \in Models : pendingUpdates[m] # <<>>}
  BY <1>1
<1> QED BY <1>1, <1>2, <1>3, <1>4 DEF Clock!Close

\* A response is the return of the model that sent it, with a new wish or in failure.
LEMMA ReceiveIsReturn ==
  ASSUME SafetyInv, NEW m \in Models, Receive(m)
  PROVE  Clock!Return(m)
<1>1. TypeOK /\ ExchangeInv /\ Phases /\ NoRequestSkipped /\ SafetyInv'
  BY ReceiveSafety DEF SafetyInv
<1>2. PICK notified, news, updates, quit, hasFailed, C, W, own :
        Reception(m, notified, news, updates, quit, hasFailed, C, W, own)
  BY <1>1, ReceiveEffect
<1>3. /\ Handling(m, notified, news, updates, quit, hasFailed)
      /\ Effect(m, notified, news, updates, quit, hasFailed, C, W, own)
      /\ mstate[m] \in BusyStates /\ m \notin C /\ C \in SUBSET Models /\ ostate \in Waiting
      /\ Head(outbox[m]) \in Responses
      /\ hasFailed \in BOOLEAN
      /\ news \in Seq(Update)
  BY <1>2 DEF Reception
<1>4. /\ W \subseteq C /\ currentTime' = currentTime /\ ostate' = AfterEvent
      /\ C = {s \in notified : \/ mstate[s] = "PendingMoreUpdates"
                               \/ mstate[s] = "Idle" /\ news # <<>>}
      /\ \A s \in Models :
           /\ mstate'[s] = IF s = m THEN own
                           ELSE IF s \in W THEN "Updating"
                           ELSE IF s \in C THEN "PendingMoreUpdates" ELSE mstate[s]
           /\ failed'[s] = IF s = m THEN hasFailed ELSE failed[s]
           /\ pendingUpdates'[s] =
                IF s \in W \/ (s = m /\ own = "Updating") THEN <<>>
                ELSE IF s = m THEN updates
                ELSE IF s \in notified /\ mstate[s] \notin Deaf THEN pendingUpdates[s] \o news
                ELSE pendingUpdates[s]
  BY <1>3 DEF Effect
<1>5. m \in Busy
  BY <1>3 DEF Busy
<1>6. \/ hasFailed /\ nextTime' = nextTime
      \/ hasFailed = failed[m] /\ updates = pendingUpdates[m]
  BY <1>3 DEF Handling
\* The new wish.
<1>7. \/ Failed' = Failed /\ nextTime'[m] \in {None} \cup (IF currentTime = None THEN Start ELSE currentTime)..End
      \/ Failed' = Failed \cup {m} /\ nextTime' = nextTime
  <2>1. CASE hasFailed /\ nextTime' = nextTime
    BY <1>4, <2>1 DEF Failed
  <2>2. CASE hasFailed = failed[m]
    <3>1. Failed' = Failed
      BY <1>4, <2>2 DEF Failed
    <3>2. nextTime'[m] \in Times \cup {None} /\ NoRequestSkipped'
      BY <1>1 DEF SafetyInv, TypeOK
    <3>3. nextTime'[m] # None /\ currentTime # None => currentTime <= nextTime'[m]
      BY <1>4, <3>2 DEF NoRequestSkipped
    <3>4. currentTime \in Times \cup {None}
      BY <1>1 DEF TypeOK
    <3>5. nextTime'[m] \in {None} \cup (IF currentTime = None THEN Start ELSE currentTime)..End
      BY <3>2, <3>3, <3>4, TimelineAssumption DEF Times
    <3> QED BY <3>1, <3>5
  <2> QED BY <1>6, <2>1, <2>2
<1>8. \A x \in Models \ {m} : nextTime'[x] = nextTime[x]
  BY <1>3 DEF Handling
<1>9. Busy \ {m} \subseteq Busy'
  <2> SUFFICES ASSUME NEW s \in Busy \ {m} PROVE s \in Busy'
    OBVIOUS
  <2>1. s \in Models /\ mstate[s] \in BusyStates
    BY DEF Busy
  <2>2. s \notin C
    BY <1>4, <2>1 DEF BusyStates
  <2> QED BY <1>4, <2>1, <2>2 DEF Busy
\* An update leaves the queue with a model that takes it, or with one that failed.
<1>10. ASSUME NEW x \in Models, pendingUpdates[x] # <<>>, pendingUpdates'[x] = <<>>
       PROVE  x \in Busy' \/ x \in Failed'
  <2>1. CASE x \in W \/ (x = m /\ own = "Updating")
    <3>1. mstate'[x] = "Updating"
      BY <1>3, <1>4, <2>1
    <3> QED BY <3>1 DEF Busy, BusyStates
  <2>2. CASE x = m /\ own # "Updating"
    <3>1. updates = <<>>
      BY <1>3, <1>4, <1>10, <2>2
    <3>2. hasFailed
      BY <1>6, <1>10, <2>2, <3>1
    <3> QED BY <1>4, <2>2, <3>2 DEF Failed
  <2>3. CASE x # m /\ x \notin W
    <3>1. pendingUpdates[x] \in Seq(Update)
      BY <1>1 DEF TypeOK
    <3>2. pendingUpdates[x] \o news # <<>>
      BY <1>3, <1>10, <3>1, ConcatProperties, EmptySeq
    <3> QED BY <1>4, <1>10, <2>3, <3>2
  <2> QED BY <2>1, <2>2, <2>3
<1>11. ostate' \in Closing
         <=> ostate \in Closing \/ Failed' # {} \/ (Busy' = {} /\ Requested' = {})
  <2>1. ~commandRefused'
    BY <1>1 DEF SafetyInv, Phases
  <2>2. CASE ostate = "ModelsRegistration"
    <3>1. mstate[m] = "Registration"
      BY <1>1, <1>3, <2>2 DEF Phases, BusyStates
    <3>2. Failed' = {} => nextTime'[m] = Start
      BY <1>1, <1>2, <3>1, CalmReception
    <3>3. Start # None
      BY TimelineAssumption, NoneAssumption
    <3>4. Failed' = {} => Requested' # {}
      BY <3>2, <3>3 DEF Requested
    <3> QED BY <1>4, <2>1, <2>2, <3>4 DEF AfterEvent, Closing
  <2>3. CASE ostate = "WaitForResults"
    BY <1>4, <2>1, <2>3 DEF AfterEvent, Closing
  <2>4. CASE ostate = "FinalizingWaitForModels"
    BY <1>4, <2>4 DEF AfterEvent, Closing
  <2> QED BY <1>3, <2>2, <2>3, <2>4 DEF Waiting
<1>12. Clock!Return(m)
  BY <1>4, <1>5, <1>7, <1>8, <1>9, <1>10, <1>11, ClockWishes DEF Clock!Return, Closing
<1> QED BY <1>12

\* The other steps of the orchestrator, and those of the models, do not show on the clock.
LEMMA HiddenStep ==
  ASSUME UNCHANGED <<currentTime, mstate, nextTime, failed, pendingUpdates>>,
         ostate' \in Closing <=> ostate \in Closing
  PROVE  UNCHANGED Clock!clockVars
<1>1. Busy' = Busy /\ Failed' = Failed
      /\ {m \in Models : pendingUpdates'[m] # <<>>} = {m \in Models : pendingUpdates[m] # <<>>}
  BY DEF Busy, Failed
<1> QED BY <1>1 DEF Clock!clockVars, Closing

\* Every step of the simulation is a step of the clock, or leaves it.
LEMMA ClockNext == SafetyInv /\ [Next]_vars => [Clock!Next]_Clock!clockVars
<1> SUFFICES ASSUME SafetyInv, [Next]_vars
             PROVE  Clock!Next \/ UNCHANGED Clock!clockVars
  OBVIOUS
<1>1. CASE UNCHANGED vars
  BY <1>1, HiddenStep DEF vars, orchestratorVars, connectedVars
<1>2. CASE StartInitializingPhase \/ StartRunningPhase \/ EndFinalizingPhase
  <2>1. /\ UNCHANGED <<currentTime, mstate, nextTime, failed, pendingUpdates>>
        /\ ostate' \in Closing <=> ostate \in Closing
    BY <1>2 DEF StartInitializingPhase, StartRunningPhase, EndFinalizingPhase, connectedVars, Closing
  <2> QED BY <2>1, HiddenStep
<1>3. CASE AdvanceTime \/ RepeatTime \/ StartFinalizingPhase
  BY <1>3, AdvanceTimeJumps, RepeatTimeIsAgain, StartFinalizingCloses DEF Clock!Next
<1>4. ASSUME NEW m \in Models, Receive(m)
      PROVE  Clock!Next
  BY <1>4, ReceiveIsReturn DEF Clock!Next
<1>5. ASSUME NEW m \in Models, ModelStep(m)
      PROVE  UNCHANGED Clock!clockVars
  BY <1>5, ModelStepEffect, HiddenStep DEF SafetyInv, orchestratorVars, connectedVars
<1> QED BY <1>1, <1>2, <1>3, <1>4, <1>5 DEF Next, OrchestratorRun

\* Every behaviour of the orchestrator and its models is one of the clock.
THEOREM ImplementsTheClock == Spec => KeepsTheClock
BY ClockInit, ClockNext, SafetyInvariant, PTL DEF Spec, KeepsTheClock, Clock!Spec
=============================================================================
