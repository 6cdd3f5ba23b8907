----------------------------- MODULE InProcess -----------------------------
(***************************************************************************)
(* A simulation in a single process (InProcessSimulationRunner): one       *)
(* thread gives every model its turn, in the order of the settings.  A     *)
(* model in its turn handles the command that is pending for it, and the   *)
(* orchestrator handles the response before the next turn.                 *)
(*                                                                         *)
(* All models share one store for their data, with one counter for the     *)
(* keys, and every NEW_TIME clears the whole of it.                        *)
(***************************************************************************)
EXTENDS Orchestrator

VARIABLES
  turn,     \* the model that has the turn
  store,    \* InProcessUpdateDataClient.store: key to the data's origin and time
  counter,  \* InProcessUpdateDataClient.counter
  aborted   \* an exception left InProcessSimulationRunner.run

runnerVars == <<turn, store, counter, aborted>>

\* The thread is in the loop over the models, not in the orchestrator.
InLoop == ostate \in Waiting /\ ~aborted

NextTurn == IF turn = N THEN 1 ELSE turn + 1

-----------------------------------------------------------------------------
\* The orchestrator's state machine runs on until it needs an event.
RunOrchestrator ==
  /\ ~aborted
  /\ OrchestratorRun
  /\ UNCHANGED runnerVars

\* Mutant of HandleResponse: after a response the loop starts again.
HandleResponse_FromTheFirst ==
  /\ InLoop
  /\ Receive(turn)
  /\ turn' = 1
  /\ UNCHANGED <<store, counter, aborted>>

\* stream.handle_message: the response is handled at once.
HandleResponse ==
  /\ InLoop
  /\ Receive(turn)
  /\ turn' = NextTurn
  /\ UNCHANGED <<store, counter, aborted>>

NoCommand ==
  /\ InLoop
  /\ proc[turn] # "starting" /\ inbox[turn] = <<>> /\ outbox[turn] = <<>>
  /\ turn' = NextTurn
  /\ UNCHANGED <<vars, store, counter, aborted>>

\* Before the loop every model is initialized, which is its first turn.
Initialize ==
  /\ InLoop
  /\ Register(turn)
  /\ UNCHANGED runnerVars

\* An exception of model.initialize is not caught.
InitializeRaises ==
  /\ InLoop
  /\ turn \in Fragile /\ proc[turn] = "starting"
  /\ aborted' = TRUE
  /\ UNCHANGED <<vars, turn, store, counter>>

TakeNewTime ==
  /\ InLoop
  /\ HandleNewTime(turn)
  /\ store' = <<>>
  /\ counter' = 0
  /\ UNCHANGED <<turn, aborted>>

\* The keys of the updates of a command.
KeysOf(updates) == {updates[i].key : i \in DOMAIN updates} \ {None}

CanRead(m) == KeysOf(Head(inbox[m]).updates) \subseteq DOMAIN store

UpdateWithoutData ==
  /\ InLoop
  /\ Received(turn, "Update") /\ CanRead(turn)
  /\ \E t \in Requests : SendResult(turn, t, None)
  /\ UNCHANGED runnerVars

\* The model's data is put in the store; the keys are bounded by Keys.
UpdateWithData ==
  /\ InLoop
  /\ Received(turn, "Update") /\ CanRead(turn)
  /\ counter \in Keys
  /\ store' = [k \in DOMAIN store \cup {counter} |->
                 IF k = counter THEN [origin |-> turn, time |-> modelTime[turn]] ELSE store[k]]
  /\ counter' = counter + 1
  /\ \E t \in Requests : SendResult(turn, t, counter)
  /\ UNCHANGED <<turn, aborted>>

TakeQuit ==
  /\ InLoop
  /\ HandleQuit(turn)
  /\ UNCHANGED runnerVars

\* Mutant of HandlerRaises: the exception is not turned into a response.
HandlerRaises_NoResponse ==
  /\ InLoop
  /\ proc[turn] = "running" /\ inbox[turn] # <<>> /\ turn \in Fragile
  /\ Consume(turn)
  /\ proc' = [proc EXCEPT ![turn] = "crashed"]
  /\ UNCHANGED <<orchestratorVars, connectedVars, outbox, modelTime, runnerVars>>

\* An exception while a command is handled becomes an ErrorMessage: the model's
\* own, or "Key not found" for an update that cannot be read.  A NEW_TIME may
\* have cleared the store before.
HandlerRaises ==
  /\ InLoop
  /\ proc[turn] = "running" /\ inbox[turn] # <<>>
  /\ turn \in Fragile \/ (Received(turn, "Update") /\ ~CanRead(turn))
  /\ Fail(turn)
  /\ IF Received(turn, "NewTime") THEN store' = <<>> /\ counter' = 0
                                  ELSE UNCHANGED <<store, counter>>
  /\ UNCHANGED <<turn, aborted>>

-----------------------------------------------------------------------------
PInit ==
  /\ Init
  /\ turn = 1
  /\ store = <<>>
  /\ counter = 0
  /\ aborted = FALSE

Turn ==
  \/ HandleResponse
  \/ NoCommand
  \/ Initialize
  \/ InitializeRaises
  \/ TakeNewTime
  \/ UpdateWithoutData
  \/ UpdateWithData
  \/ TakeQuit
  \/ HandlerRaises

PNext == RunOrchestrator \/ Turn

PSpec == PInit /\ [][PNext]_<<vars, runnerVars>>

\* There is one thread, and it keeps running.
PFairSpec == PSpec /\ WF_<<vars, runnerVars>>(PNext)

-----------------------------------------------------------------------------
(* Properties.                                                             *)

\* Types, and nobody but the model that has the turn is between its command and
\* the orchestrator's handling of its response.
PTypeOK ==
  /\ TypeOK
  /\ turn \in Models
  /\ DOMAIN store \subseteq Keys
  /\ \A k \in DOMAIN store : store[k] \in [origin : Models, time : Times]
  /\ counter \in Nat
  /\ aborted \in BOOLEAN
  /\ \A m \in Models : outbox[m] # <<>> => m = turn

\* No NEW_TIME can clear data of its own time: when the shared store has data of
\* the current time, every model has already been told that time, and the store
\* never holds data of two times.
NobodyClearsNewData ==
  (\E k \in DOMAIN store : store[k].time = currentTime) =>
    /\ \A m \in Models : proc[m] = "running" => modelTime[m] = currentTime
    /\ \A k \in DOMAIN store : store[k].time = currentTime

\* What a model is told to read is in the shared store, put there by the
\* update's origin at the update's timestamp.
UpdatesCanBeRead ==
  \A m \in Models :
    LET open(us) == {us[i] : i \in {j \in DOMAIN us : us[j].key # None}}
        toRead == open(pendingUpdates[m]) \cup
                  UNION {open(inbox[m][i].updates) : i \in DOMAIN inbox[m]}
    IN \A u \in toRead :
         u.key \in DOMAIN store /\ store[u.key] = [origin |-> u.origin, time |-> u.time]

\* Both: updates survive in a store that is shared and wiped.
UpdatesAreSafe == PTypeOK /\ NobodyClearsNewData /\ UpdatesCanBeRead

\* The loop does not spin for ever on models that have nothing to do: run
\* returns, or raises what a model's initialize raised, even if models fail.
Returns == <>(ostate = "Stopped" \/ aborted)

=============================================================================
