---------------------------- MODULE Orchestrator ----------------------------
(***************************************************************************)
(* The broker of a Movici simulation (services/orchestrator) and the       *)
(* models connected to it.  The orchestrator is one thread: it runs a      *)
(* state machine that, between two messages of the models, only passes     *)
(* through transient states, and it keeps one smaller state machine per    *)
(* model (ConnectedModel) that decides when a command may be sent to it.   *)
(* Every action of the orchestrator is one `run` of a transient state or   *)
(* one `handle_event`, with the transitions that follow it.                *)
(*                                                                         *)
(* The models are processes of their own, each joined to the orchestrator  *)
(* by an ordered channel in either direction.  A model takes one command,  *)
(* works, and sends one response (ConnectorStreamHandler).                 *)
(*                                                                         *)
(* A payload is abstracted to what the orchestrator looks at: the key of a *)
(* result that has data, the next time it asks for, and whether the data   *)
(* masks of two models overlap.                                            *)
(***************************************************************************)
EXTENDS Integers, Sequences, FiniteSets

CONSTANTS
  N,            \* number of models; the order 1..N is that of the settings
  Start, End,   \* the simulation's first and last timestamp
  None,         \* Python's None
  Requests,     \* what a model may ask for as its next_time
  Topologies,   \* the pub/sub relations the registered masks may give
  Fragile,      \* models that may raise an exception
  Faulty,       \* models that may answer with a response of the wrong type
  Repeating,    \* models that may ask for the time they are already at
  Keys,         \* the numbers in the keys under which results are stored
  MaxPending    \* bound: updates queued for a model that gets another result

Models == 1..N

ASSUME NAssumption == N \in Nat \ {0}
ASSUME TimelineAssumption == Start \in Int /\ End \in Int /\ Start <= End
ASSUME NoneAssumption == None \notin Int
ASSUME RequestsAssumption == Requests \subseteq Int \cup {None}
ASSUME TopologiesAssumption ==
  \A g \in Topologies : g \subseteq Models \X Models /\ \A m \in Models : <<m, m>> \notin g
ASSUME ModelsAssumption ==
  Fragile \subseteq Models /\ Faulty \subseteq Models /\ Repeating \subseteq Models
ASSUME KeysAssumption == Keys \subseteq Nat
ASSUME BoundAssumption == MaxPending \in Nat

VARIABLES
  ostate,         \* the state of the orchestrator's FSM
  currentTime,    \* TimelineController.current_time
  commandRefused, \* Context.orchestrator_failed: a state machine raised InvalidCommand
  overlaps,       \* <<p, s>>: p.publishes_to holds s, and s.subscribed_to holds p
  mstate,         \* the state of every ConnectedModel's FSM
  nextTime,       \* ConnectedModel.next_time
  failed,         \* ConnectedModel.failed
  pendingUpdates, \* ConnectedModel.pending_updates
  pendingQuit,    \* whether ConnectedModel.pending_quit is set
  inbox,          \* commands sent to a model that it has not answered
  outbox,         \* responses of a model that the orchestrator has not read
  proc,           \* the life of the model's own process
  modelTime       \* the timestamp of the last NEW_TIME a model has handled

orchestratorVars == <<ostate, currentTime, commandRefused, overlaps>>
connectedVars == <<mstate, nextTime, failed, pendingUpdates, pendingQuit>>
modelVars == <<proc, modelTime>>
vars == <<orchestratorVars, connectedVars, inbox, outbox, modelVars>>

-----------------------------------------------------------------------------
(* Messages.                                                               *)

Times == Start..End

\* An update names the model and the number its key was made of; a time update
\* has no key.
Update == [time : Times \cup {None}, origin : 0..N, key : Keys \cup {None}]
TimeUpdate(t) == [time |-> t, origin |-> 0, key |-> None]
DataUpdate(m, key) == [time |-> currentTime, origin |-> m, key |-> key]

NewTimeCommand(t) == [type |-> "NewTime", time |-> t, updates |-> <<>>]
UpdateCommand(us) == [type |-> "Update", time |-> None, updates |-> us]
QuitCommand == [type |-> "Quit", time |-> None, updates |-> <<>>]

Commands ==
  [type : {"NewTime", "Update", "Quit"}, time : Times \cup {None}, updates : Seq(Update)]

ResponseTypes == {"Registration", "Acknowledge", "Result", "Error"}
Responses == [type : ResponseTypes, nextTime : Int \cup {None}, key : Keys \cup {None}]
Response(type) == [type |-> type, nextTime |-> None, key |-> None]
Result(t, key) == [type |-> "Result", nextTime |-> t, key |-> key]

-----------------------------------------------------------------------------
(* The state of a ConnectedModel.  `busy` is set on entering a Busy state  *)
(* and reset by any response, after which MODEL_BUSY_TRANSITIONS always    *)
(* leaves that state: between two events it is a function of the state.    *)

OrchestratorStates ==
  {"StartInitializingPhase", "ModelsRegistration", "StartRunningPhase", "NewTime",
   "WaitForResults", "StartFinalizingPhase", "FinalizingWaitForModels",
   "EndFinalizingPhase", "Stopped"}
Waiting == {"ModelsRegistration", "WaitForResults", "FinalizingWaitForModels"}
BusyStates == {"Registration", "NewTime", "Updating", "Finalizing"}
ModelStates == BusyStates \cup {"Idle", "PendingMoreUpdates", "Done"}
Deaf == {"Finalizing", "Done"}        \* ignore every command

Busy == {m \in Models : mstate[m] \in BusyStates}
Failed == {m \in Models : failed[m]}
InState(s) == {m \in Models : mstate[m] = s}

Dependencies(m) == {d \in Models : <<d, m>> \in overlaps}
Subscribers(m) == {s \in Models : <<m, s>> \in overlaps}

ValidResponses(s) ==
  CASE s = "Registration" -> {"Registration", "Error"}
    [] s = "NewTime"      -> {"Acknowledge", "Error"}
    [] s = "Updating"     -> {"Result", "Error"}
    [] s = "Finalizing"   -> {"Acknowledge", "Error"}
    [] OTHER              -> {}

\* The earliest next_time, None when no model has one.
Requested == {nextTime[m] : m \in Models} \ {None}
EarliestRequest == CHOOSE t \in Requested : \A u \in Requested : t <= u

\* Mutants of ValidatedNextTime: a wish beyond the end is kept; a wish in the
\* past is kept.
ValidatedNextTime_BeyondEnd(t) ==
  LET now == IF currentTime = None THEN Start ELSE currentTime IN
  IF t = None \/ t < now \/ (now = End /\ t > End) THEN None ELSE t
ValidatedNextTime_InThePast(t) ==
  IF t = None \/ (currentTime = End /\ t > End) THEN None ELSE IF t < End THEN t ELSE End

\* What a next_time asked for by a model becomes (_get_validated_next_time).
ValidatedNextTime(t) ==
  LET now == IF currentTime = None THEN Start ELSE currentTime IN
  IF t = None \/ t < now \/ (now = End /\ t > End) THEN None
  ELSE IF t < End THEN t ELSE End

\* A message for several models is given to them one by one, in order.  A
\* candidate that has its turn is woken unless a dependency is busy: one that
\* was already `running`, one among `started` that was started before it in
\* this pass, or one woken before it.  This equation has exactly one solution.
IsWoken(W, candidates, running, started) ==
  W = {c \in candidates :
         Dependencies(c) \cap (running \cup {s \in started \cup W : s < c}) = {}}

-----------------------------------------------------------------------------
(* The orchestrator's transient states.                                    *)

StartInitializingPhase ==
  /\ ostate = "StartInitializingPhase"
  /\ ostate' = "ModelsRegistration"
  /\ UNCHANGED <<currentTime, commandRefused, overlaps, connectedVars, inbox, outbox, modelVars>>

\* determine_interdependency: the masks of the registrations decide.
StartRunningPhase ==
  /\ ostate = "StartRunningPhase"
  /\ overlaps' \in Topologies
  /\ ostate' = "NewTime"
  /\ UNCHANGED <<currentTime, commandRefused, connectedVars, inbox, outbox, modelVars>>

\* queue_models_for_next_time when the time changes: every model is first told
\* the new time, and an update for a model that is due waits until it is idle.
AdvanceTime ==
  /\ ostate = "NewTime" /\ Requested # {} /\ EarliestRequest # currentTime
  /\ LET t   == EarliestRequest
         due == {m \in Models : nextTime[m] = t /\ mstate[m] \notin Deaf}
     IN /\ currentTime' = t
        /\ commandRefused' = (commandRefused \/ \E m \in Models : mstate[m] \notin Deaf \cup {"Idle"})
        /\ mstate' = [m \in Models |-> IF mstate[m] = "Idle" THEN "NewTime" ELSE mstate[m]]
        /\ inbox' = [m \in Models |-> IF mstate[m] = "Idle"
                                      THEN Append(inbox[m], NewTimeCommand(t)) ELSE inbox[m]]
        /\ pendingUpdates' =
             [m \in Models |-> IF m \in due
                               THEN Append(pendingUpdates[m], TimeUpdate(t))
                               ELSE pendingUpdates[m]]
  /\ ostate' = "WaitForResults"
  /\ UNCHANGED <<overlaps, nextTime, failed, pendingQuit, outbox, modelVars>>

\* The same when some model asks for the current time again: no NewTime is
\* sent, so the models that are due are woken at once, in order.
RepeatTime ==
  /\ ostate = "NewTime" /\ Requested # {} /\ EarliestRequest = currentTime
  /\ LET due == {m \in Models : nextTime[m] = currentTime /\ mstate[m] \notin Deaf}
         queued == [m \in Models |->
                      IF m \in due
                      THEN Append(pendingUpdates[m], TimeUpdate(currentTime))
                      ELSE pendingUpdates[m]]
         candidates == {m \in due : mstate[m] \in {"Idle", "PendingMoreUpdates"}}
     IN \E W \in SUBSET candidates :
          /\ IsWoken(W, candidates, Busy, {})
          /\ mstate' = [m \in Models |-> IF m \in W THEN "Updating"
                                         ELSE IF m \in candidates THEN "PendingMoreUpdates"
                                         ELSE mstate[m]]
          /\ inbox' = [m \in Models |-> IF m \in W
                                        THEN Append(inbox[m], UpdateCommand(queued[m]))
                                        ELSE inbox[m]]
          /\ pendingUpdates' = [m \in Models |-> IF m \in W THEN <<>> ELSE queued[m]]
          /\ commandRefused' = (commandRefused \/ \E m \in due : mstate[m] = "Registration")
  /\ ostate' = "WaitForResults"
  /\ UNCHANGED <<currentTime, overlaps, nextTime, failed, pendingQuit, outbox, modelVars>>

\* The transitions out of StartFinalizingPhase.
AfterQuits == IF Busy' = {} THEN "EndFinalizingPhase" ELSE "FinalizingWaitForModels"

\* Every model receives a Quit: an idle one gets it at once, a busy one when it
\* returns.  PendingMoreUpdates looks at its dependencies first.
StartFinalizingPhase ==
  /\ ostate = "StartFinalizingPhase"
  /\ LET idle == InState("Idle")
         candidates == InState("PendingMoreUpdates")
     IN \E W \in SUBSET candidates :
          /\ IsWoken(W, candidates, Busy, idle)
          /\ mstate' = [m \in Models |-> IF m \in idle THEN "Finalizing"
                                         ELSE IF m \in W THEN "Updating" ELSE mstate[m]]
          /\ inbox' = [m \in Models |->
                         IF m \in idle THEN Append(inbox[m], QuitCommand)
                         ELSE IF m \in W THEN Append(inbox[m], UpdateCommand(pendingUpdates[m]))
                         ELSE inbox[m]]
          /\ pendingUpdates' = [m \in Models |-> IF m \in W THEN <<>> ELSE pendingUpdates[m]]
  /\ pendingQuit' = [m \in Models |-> pendingQuit[m] \/ mstate[m] \notin Deaf]
  /\ ostate' = AfterQuits
  /\ UNCHANGED <<currentTime, commandRefused, overlaps, nextTime, failed, outbox, modelVars>>

\* Raises FSMDone or FSMError; Orchestrator.run returns and its process ends.
EndFinalizingPhase ==
  /\ ostate = "EndFinalizingPhase"
  /\ ostate' = "Stopped"
  /\ UNCHANGED <<currentTime, commandRefused, overlaps, connectedVars, inbox, outbox, modelVars>>

-----------------------------------------------------------------------------
(* The orchestrator handles a response.                                    *)

\* Mutants of AfterResponse: the transitions of a Finalizing model are those of
\* any busy model; the check for a failure is missing; IsIdle comes before the
\* check for updates.
AfterResponse_QuitTwice(s, quit, hasFailed, updates, waiting) ==
  IF quit THEN "Finalizing"
  ELSE IF hasFailed THEN "Done"
  ELSE IF updates = <<>> THEN "Idle"
  ELSE IF waiting THEN "PendingMoreUpdates" ELSE "Updating"
AfterResponse_FailureIgnored(s, quit, hasFailed, updates, waiting) ==
  IF s = "Finalizing" THEN "Done"
  ELSE IF quit THEN "Finalizing"
  ELSE IF updates = <<>> THEN "Idle"
  ELSE IF waiting THEN "PendingMoreUpdates" ELSE "Updating"
AfterResponse_IdleFirst(s, quit, hasFailed, updates, waiting) ==
  IF s = "Finalizing" THEN "Done"
  ELSE IF quit THEN "Finalizing"
  ELSE IF hasFailed THEN "Done" ELSE "Idle"

\* The transitions out of a busy state, once `busy` is reset.
AfterResponse(s, quit, hasFailed, updates, waiting) ==
  IF s = "Finalizing" THEN "Done"
  ELSE IF quit THEN "Finalizing"
  ELSE IF hasFailed THEN "Done"
  ELSE IF updates = <<>> THEN "Idle"
  ELSE IF waiting THEN "PendingMoreUpdates"
  ELSE "Updating"

\* Mutants of AfterEvent: the next timestamp only waits until no model asks for
\* the current one; a failure while running is not looked at.
AfterEvent_TooSoon ==
  CASE ostate = "ModelsRegistration" ->
         IF Failed' # {} \/ commandRefused' THEN "StartFinalizingPhase"
         ELSE IF Busy' = {} THEN "StartRunningPhase" ELSE ostate
    [] ostate = "WaitForResults" ->
         IF Failed' # {} \/ commandRefused' \/ (Busy' = {} /\ Requested' = {})
         THEN "StartFinalizingPhase"
         ELSE IF Requested' # {} /\ currentTime \notin Requested' THEN "NewTime" ELSE ostate
    [] ostate = "FinalizingWaitForModels" ->
         IF Busy' = {} THEN "EndFinalizingPhase" ELSE ostate
AfterEvent_FailureIgnored ==
  CASE ostate = "ModelsRegistration" ->
         IF Failed' # {} THEN "StartFinalizingPhase"
         ELSE IF Busy' = {} THEN "StartRunningPhase" ELSE ostate
    [] ostate = "WaitForResults" ->
         IF Busy' = {} /\ Requested' = {} THEN "StartFinalizingPhase"
         ELSE IF Busy' = {} THEN "NewTime" ELSE ostate
    [] ostate = "FinalizingWaitForModels" ->
         IF Busy' = {} THEN "EndFinalizingPhase" ELSE ostate

\* The transitions of the orchestrator's FSM after handle_event.
AfterEvent ==
  CASE ostate = "ModelsRegistration" ->
         IF Failed' # {} \/ commandRefused' THEN "StartFinalizingPhase"
         ELSE IF Busy' = {} THEN "StartRunningPhase" ELSE ostate
    [] ostate = "WaitForResults" ->
         IF Failed' # {} \/ commandRefused' \/ (Busy' = {} /\ Requested' = {})
         THEN "StartFinalizingPhase"
         ELSE IF Busy' = {} THEN "NewTime" ELSE ostate
    [] ostate = "FinalizingWaitForModels" ->
         IF Busy' = {} THEN "EndFinalizingPhase" ELSE ostate

\* What a response of m leads to, given the fields of m it has set: the
\* subscribers in `notified` receive `news` (<<>> is a NoUpdateMessage), one by
\* one, and then m itself leaves its busy state.
Handle(m, notified, news, updates, quit, hasFailed) ==
  LET listening == {s \in notified : mstate[s] \notin Deaf}
      queued == [s \in Models |-> IF s = m THEN updates
                                  ELSE IF s \in listening THEN pendingUpdates[s] \o news
                                  ELSE pendingUpdates[s]]
      candidates == {s \in listening : \/ mstate[s] = "PendingMoreUpdates"
                                       \/ mstate[s] = "Idle" /\ news # <<>>}
      running == Busy \ {m}
  IN \E W \in SUBSET candidates :
       /\ IsWoken(W, candidates, running, {})
       /\ LET waiting == Dependencies(m) \cap (running \cup W) # {}
              own == AfterResponse(mstate[m], quit, hasFailed, updates, waiting)
              updated == W \cup (IF own = "Updating" THEN {m} ELSE {})
          IN /\ mstate' = [s \in Models |-> IF s = m THEN own
                                            ELSE IF s \in W THEN "Updating"
                                            ELSE IF s \in candidates THEN "PendingMoreUpdates"
                                            ELSE mstate[s]]
             /\ inbox' = [s \in Models |->
                            IF s \in updated THEN Append(inbox[s], UpdateCommand(queued[s]))
                            ELSE IF s = m /\ own = "Finalizing" THEN Append(inbox[s], QuitCommand)
                            ELSE inbox[s]]
             /\ pendingUpdates' = [s \in Models |-> IF s \in updated THEN <<>> ELSE queued[s]]
       /\ pendingQuit' = [pendingQuit EXCEPT ![m] = quit]
       /\ failed' = [failed EXCEPT ![m] = hasFailed]
       /\ commandRefused' = (commandRefused \/ \E s \in listening : mstate[s] = "Registration")
       /\ outbox' = [outbox EXCEPT ![m] = Tail(@)]
       /\ ostate' = AfterEvent
       /\ UNCHANGED <<currentTime, overlaps, modelVars>>

Receives(m, types) ==
  /\ ostate \in Waiting
  /\ outbox[m] # <<>>
  /\ Head(outbox[m]).type \in types

ReceiveRegistration(m) ==
  /\ Receives(m, {"Registration"} \cap ValidResponses(mstate[m]))
  /\ nextTime' = [nextTime EXCEPT ![m] = Start]
  /\ Handle(m, {}, <<>>, pendingUpdates[m], pendingQuit[m], failed[m])

\* Mutant of ReceiveAcknowledge: the updates that came in while it was busy are
\* dropped.
ReceiveAcknowledge_Drops(m) ==
  /\ Receives(m, {"Acknowledge"} \cap ValidResponses(mstate[m]))
  /\ UNCHANGED nextTime
  /\ Handle(m, IF pendingUpdates[m] = <<>> THEN Subscribers(m) ELSE {}, <<>>,
            <<>>, pendingQuit[m], failed[m])

ReceiveAcknowledge(m) ==
  /\ Receives(m, {"Acknowledge"} \cap ValidResponses(mstate[m]))
  /\ UNCHANGED nextTime
  /\ Handle(m, IF pendingUpdates[m] = <<>> THEN Subscribers(m) ELSE {}, <<>>,
            pendingUpdates[m], pendingQuit[m], failed[m])

\* Mutant of ReceiveResult: a result without data is not passed on.
ReceiveResult_OnlyData(m) ==
  /\ Receives(m, {"Result"} \cap ValidResponses(mstate[m]))
  /\ LET r == Head(outbox[m])
         news == IF r.key = None THEN <<>> ELSE <<DataUpdate(m, r.key)>>
     IN /\ nextTime' = [nextTime EXCEPT ![m] = ValidatedNextTime(r.nextTime)]
        /\ Handle(m, IF r.key = None THEN {} ELSE Subscribers(m), news,
                  pendingUpdates[m], pendingQuit[m], failed[m])

ReceiveResult(m) ==
  /\ Receives(m, {"Result"} \cap ValidResponses(mstate[m]))
  /\ LET r == Head(outbox[m])
         news == IF r.key = None THEN <<>> ELSE <<DataUpdate(m, r.key)>>
     IN /\ nextTime' = [nextTime EXCEPT ![m] = ValidatedNextTime(r.nextTime)]
        /\ Handle(m, Subscribers(m), news, pendingUpdates[m], pendingQuit[m], failed[m])

\* Mutant of ReceiveError: an error during shutdown is not recorded.
ReceiveError_NotAtTheEnd(m) ==
  /\ Receives(m, {"Error"} \cap ValidResponses(mstate[m]))
  /\ UNCHANGED nextTime
  /\ Handle(m, {}, <<>>, <<>>, FALSE, mstate[m] # "Finalizing")

ReceiveError(m) ==
  /\ Receives(m, {"Error"} \cap ValidResponses(mstate[m]))
  /\ UNCHANGED nextTime
  /\ Handle(m, {}, <<>>, <<>>, FALSE, TRUE)

\* handle_invalid_response: a Quit is queued for the model that sent it.
ReceiveInvalid(m) ==
  /\ Receives(m, ResponseTypes \ ValidResponses(mstate[m]))
  /\ mstate[m] \in BusyStates
  /\ UNCHANGED nextTime
  /\ Handle(m, {}, <<>>, IF pendingQuit[m] THEN pendingUpdates[m] ELSE <<>>, TRUE, TRUE)

-----------------------------------------------------------------------------
(* The models.                                                             *)

Answer(m, response) == outbox' = [outbox EXCEPT ![m] = Append(@, response)]
Received(m, type) == proc[m] = "running" /\ inbox[m] # <<>> /\ Head(inbox[m]).type = type
Consume(m) == inbox' = [inbox EXCEPT ![m] = Tail(@)]

Register(m) ==
  /\ proc[m] = "starting"
  /\ Answer(m, Response("Registration"))
  /\ proc' = [proc EXCEPT ![m] = "running"]
  /\ UNCHANGED <<orchestratorVars, connectedVars, inbox, modelTime>>

HandleNewTime(m) ==
  /\ Received(m, "NewTime")
  /\ modelTime' = [modelTime EXCEPT ![m] = Head(inbox[m]).time]
  /\ Consume(m) /\ Answer(m, Response("Acknowledge"))
  /\ UNCHANGED <<orchestratorVars, connectedVars, proc>>

\* The model is done with its update: it asks for t, and its data, if it has any,
\* can be read under the key.
SendResult(m, t, key) ==
  /\ t = modelTime[m] => m \in Repeating
  /\ key # None => \A s \in Subscribers(m) : Len(pendingUpdates[s]) < MaxPending
  /\ Answer(m, Result(t, key))
  /\ Consume(m)
  /\ UNCHANGED <<orchestratorVars, connectedVars, modelVars>>

HandleUpdate(m) ==
  /\ Received(m, "Update")
  /\ \E t \in Requests, key \in Keys \cup {None} : SendResult(m, t, key)

HandleQuit(m) ==
  /\ Received(m, "Quit")
  /\ Consume(m) /\ Answer(m, Response("Acknowledge"))
  /\ proc' = [proc EXCEPT ![m] = "exited"]
  /\ UNCHANGED <<orchestratorVars, connectedVars, modelTime>>

\* An exception while starting or while handling a command: the process sends
\* an ErrorMessage and exits.
Fail(m) ==
  /\ proc[m] = "starting" \/ (proc[m] = "running" /\ inbox[m] # <<>>)
  /\ inbox' = [inbox EXCEPT ![m] = IF @ = <<>> THEN @ ELSE Tail(@)]
  /\ Answer(m, Response("Error"))
  /\ proc' = [proc EXCEPT ![m] = "crashed"]
  /\ UNCHANGED <<orchestratorVars, connectedVars, modelTime>>

Crash(m) == m \in Fragile /\ Fail(m)

\* A model that speaks the protocol wrongly answers NewTime or Update with the
\* response that belongs to the other.
Misbehave(m) ==
  /\ m \in Faulty
  /\ Received(m, "NewTime") \/ Received(m, "Update")
  /\ Answer(m, Response(IF Head(inbox[m]).type = "NewTime" THEN "Result" ELSE "Acknowledge"))
  /\ Consume(m)
  /\ UNCHANGED <<orchestratorVars, connectedVars, modelVars>>

-----------------------------------------------------------------------------
Init ==
  /\ ostate = "StartInitializingPhase"
  /\ currentTime = None
  /\ commandRefused = FALSE
  /\ overlaps = {}
  /\ mstate = [m \in Models |-> "Registration"]
  /\ nextTime = [m \in Models |-> None]
  /\ failed = [m \in Models |-> FALSE]
  /\ pendingUpdates = [m \in Models |-> <<>>]
  /\ pendingQuit = [m \in Models |-> FALSE]
  /\ inbox = [m \in Models |-> <<>>]
  /\ outbox = [m \in Models |-> <<>>]
  /\ proc = [m \in Models |-> "starting"]
  /\ modelTime = [m \in Models |-> None]

OrchestratorRun ==
  \/ StartInitializingPhase
  \/ StartRunningPhase
  \/ AdvanceTime
  \/ RepeatTime
  \/ StartFinalizingPhase
  \/ EndFinalizingPhase

Receive(m) ==
  \/ ReceiveRegistration(m)
  \/ ReceiveAcknowledge(m)
  \/ ReceiveResult(m)
  \/ ReceiveError(m)
  \/ ReceiveInvalid(m)

ModelStep(m) ==
  \/ Register(m)
  \/ HandleNewTime(m)
  \/ HandleUpdate(m)
  \/ HandleQuit(m)
  \/ Crash(m)
  \/ Misbehave(m)

Next == OrchestratorRun \/ \E m \in Models : Receive(m) \/ ModelStep(m)

Spec == Init /\ [][Next]_vars

\* The orchestrator's loop keeps reading its socket, which hands out the
\* messages of all models in turn, and a model that has a command handles it.
Fairness ==
  /\ WF_vars(OrchestratorRun)
  /\ \A m \in Models : WF_vars(Receive(m)) /\ WF_vars(ModelStep(m))

FairSpec == Spec /\ Fairness

-----------------------------------------------------------------------------
(* Properties.                                                             *)

\* Every variable has its type: messages and queued updates are well formed,
\* and a next_time is a timestamp of the simulation.
TypeOK ==
  /\ ostate \in OrchestratorStates
  /\ currentTime \in Times \cup {None}
  /\ commandRefused \in BOOLEAN
  /\ overlaps \subseteq Models \X Models
  /\ mstate \in [Models -> ModelStates]
  /\ nextTime \in [Models -> Times \cup {None}]
  /\ failed \in [Models -> BOOLEAN]
  /\ pendingUpdates \in [Models -> Seq(Update)]
  /\ pendingQuit \in [Models -> BOOLEAN]
  /\ inbox \in [Models -> Seq(Commands)]
  /\ outbox \in [Models -> Seq(Responses)]
  /\ proc \in [Models -> {"starting", "running", "exited", "crashed"}]
  /\ modelTime \in [Models -> Times \cup {None}]

\* A model never has two exchanges with the orchestrator at the same time (the
\* stream of an in-process simulation raises an error otherwise), it has one
\* exactly while its state machine is busy, and nothing is ever sent to a
\* process that has exited, whatever the order of failures and shutdown.
OneExchange ==
  \A m \in Models :
    /\ mstate[m] \notin BusyStates =>
         inbox[m] = <<>> /\ outbox[m] = <<>> /\ proc[m] # "starting"
    /\ mstate[m] \in BusyStates =>
         \/ inbox[m] = <<>> /\ outbox[m] = <<>> /\ proc[m] = "starting"
         \/ Len(inbox[m]) = 1 /\ outbox[m] = <<>> /\ proc[m] = "running"
         \/ inbox[m] = <<>> /\ Len(outbox[m]) = 1 /\ proc[m] # "starting"

\* How the life of a process goes with its state machine: what makes OneExchange
\* inductive.  A command is sent to an idle model, or to one that returned
\* without an error, and neither is the state of a model whose process is gone.
LifeCycle ==
  \A m \in Models :
    /\ proc[m] = "starting" => mstate[m] = "Registration"
    /\ mstate[m] = "Registration" => inbox[m] = <<>>
    /\ proc[m] = "exited" => mstate[m] \in Deaf
    /\ proc[m] = "crashed" =>
         mstate[m] = "Done" \/ (outbox[m] # <<>> /\ Head(outbox[m]).type = "Error")
    /\ inbox[m] # <<>> /\ Head(inbox[m]).type = "Quit" => mstate[m] = "Finalizing"

ExchangeInv == OneExchange /\ LifeCycle

\* An update reaches a model at the timestamp it was produced at: none is left
\* in a queue, in a channel or behind a NEW_TIME when the time moves on, and
\* no model computes at a timestamp it has not been told of.
UpdatesAreCurrent ==
  \A m \in Models :
    /\ \A i \in DOMAIN pendingUpdates[m] : pendingUpdates[m][i].time = currentTime
    /\ inbox[m] # <<>> /\ Head(inbox[m]).type = "Update" =>
         /\ \A i \in DOMAIN Head(inbox[m]).updates :
              Head(inbox[m]).updates[i].time = currentTime
         /\ modelTime[m] = currentTime

\* A model that asked for a time is not passed over: while the simulation has
\* not failed, the time does not go beyond any outstanding next_time.
NoRequestSkipped ==
  \A m \in Models :
    nextTime[m] # None /\ currentTime # None => currentTime <= nextTime[m]

\* When the orchestrator moves on to a new time, every model is idle and has
\* taken all updates of the old one: no model waits for a dependency that has
\* already returned.
QuiescentBetweenTimes ==
  ostate = "NewTime" =>
    \A m \in Models : mstate[m] = "Idle" /\ pendingUpdates[m] = <<>> /\ outbox[m] = <<>>

\* A model that waits for its dependencies waits for something: unless the
\* simulation failed, some chain of dependencies from it ends in a busy model.
\* (A set of waiting models whose dependencies are all idle, or in the set, would
\* never be woken.)
NobodyWaitsForNothing ==
  Failed = {} =>
    \A S \in SUBSET InState("PendingMoreUpdates") :
      S # {} => \E m \in S : \E d \in Dependencies(m) :
                  d \in Busy \/ (mstate[d] = "PendingMoreUpdates" /\ d \notin S)

\* No state machine is ever given a command that it does not accept, as the
\* comment in notify_subscribers claims for the default fsm_config.
NoCommandRefused == ~commandRefused

\* The exit code tells the truth: once the orchestrator has stopped, a model
\* that crashed is among the failed ones, and a run without a failed model has
\* taken every model to the end of what it asked for.
ExitCodeIsTruthful ==
  ostate = "Stopped" =>
    /\ \A m \in Models : proc[m] = "crashed" => failed[m]
    /\ Failed = {} => Requested = {} /\ \A m \in Models : pendingUpdates[m] = <<>>

\* "The orchestrator must send END to all non-failed models" (communication.rst):
\* when the orchestrator stops, every model's state machine is Done, which it
\* only is after a Quit was answered or an error was reported.
EveryModelIsEnded == ostate = "Stopped" => \A m \in Models : mstate[m] = "Done"

\* Without failures no model is left waiting, neither during the simulation nor at its end.
NobodyIsLeftBehind == NobodyWaitsForNothing /\ EveryModelIsEnded

\* A model that was sent a Quit gets no other command after it.
NothingAfterQuit ==
  [][\A m \in Models : mstate[m] \in {"Finalizing", "Done"} =>
       mstate'[m] \in {"Finalizing", "Done"} /\ Len(inbox'[m]) <= Len(inbox[m])]_vars

\* The orchestrator keeps the promise of SimulationClock.
Clock == INSTANCE SimulationClock WITH
  now <- currentTime, wish <- nextTime, working <- Busy, failures <- Failed,
  owed <- {m \in Models : pendingUpdates[m] # <<>>},
  closing <- ostate \in {"StartFinalizingPhase", "FinalizingWaitForModels",
                         "EndFinalizingPhase", "Stopped"}
KeepsTheClock == Clock!Spec

\* The simulation ends: whatever fails, and whatever the other models are doing then, the
\* orchestrator stops; without a failure it does so when every model process has exited.
Stops ==
  <>(ostate = "Stopped" /\ (Failed = {} => \A m \in Models : proc[m] = "exited"))

\* The simulation ends for everyone: the orchestrator stops and every model process exits.
Terminates == <>(ostate = "Stopped" /\ \A m \in Models : proc[m] \in {"exited", "crashed"})

\* No update is lost or kept forever: a queued update is sent to its model, or the
\* simulation has failed.
UpdatesAreDelivered ==
  \A m \in Models : pendingUpdates[m] # <<>> ~> pendingUpdates[m] = <<>> \/ Failed # {}

=============================================================================
