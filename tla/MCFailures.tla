----------------------------- MODULE MCFailures -----------------------------
(***************************************************************************)
(* Instances for TLC of simulations in which models fail: of the           *)
(* orchestrator with models that exchange messages only, of one in which   *)
(* the name of a model is a prefix of another's, so that data is missing,  *)
(* and of one in a single process.  A behaviour is one of the system that  *)
(* part names.                                                             *)
(***************************************************************************)
EXTENDS Distributed

CONSTANT Parts  \* the systems that are checked

ASSUME PartsAssumption == Parts \subseteq {"messages", "names", "in_process"}

VARIABLES part, turn, aborted

allVars == <<part, vars, dataVars, turn, aborted>>

Pairs == {p \in Models \X Models : p[1] # p[2]}
Acyclic == {g \in SUBSET Pairs :
              \A S \in SUBSET Models \ {{}} : \E m \in S : \A d \in S : <<d, m>> \notin g}
\* Relations of all three models, up to their names, and in the order of the turns.
Forward == {g \in Acyclic : Cardinality(g) >= 2 /\ \A p \in g : p[1] < p[2]}
InTurns == {g \in Acyclic : Cardinality(g) = 2}
ToTheFirst == {{<<2, 1>>}}
FewRequests == {None, End}
NoModels == {}
SecondModel == {2}
FirstOfSecond == {<<1, 2>>}

-----------------------------------------------------------------------------
Messages == INSTANCE Orchestrator WITH
  Topologies <- Forward, Fragile <- Models, Faulty <- {1}, Keys <- {0}, MaxPending <- 1

Runner == INSTANCE InProcess WITH
  Requests <- {None} \cup Start..(End + 1), Topologies <- InTurns, Fragile <- Models,
  Keys <- 0..3, MaxPending <- 3

Rest == <<part, dataVars, turn, aborted>>

MCInit ==
  /\ part \in Parts
  /\ \/ part \in {"messages", "names"} /\ DInit /\ turn = 1 /\ aborted = FALSE
     \/ part = "in_process" /\ Runner!PInit /\ call = None /\ taken = None

MessagesRun == part = "messages" /\ Messages!OrchestratorRun /\ UNCHANGED Rest
MessagesReceive(m) == part = "messages" /\ Messages!Receive(m) /\ UNCHANGED Rest
MessagesStep(m) == part = "messages" /\ Messages!ModelStep(m) /\ UNCHANGED Rest

NamesRun == part = "names" /\ OrchestratorRun /\ UNCHANGED Rest
NamesReceive(m) == part = "names" /\ Receive(m) /\ UNCHANGED Rest
NamesStep(m) == part = "names" /\ DModelStep(m) /\ UNCHANGED <<part, turn, aborted>>
NamesService(m) == part = "names" /\ Service(m) /\ UNCHANGED <<part, turn, aborted>>

RunnerRun == part = "in_process" /\ Runner!PNext /\ UNCHANGED <<part, call, taken>>

\* What must go on: the thread of the orchestrator, or of the runner, and the processes.
Loop == MessagesRun \/ NamesRun \/ RunnerRun
ReceiveFrom(m) == MessagesReceive(m) \/ NamesReceive(m)
Step(m) == MessagesStep(m) \/ NamesStep(m)

MCNext == Loop \/ \E m \in Models : ReceiveFrom(m) \/ Step(m) \/ NamesService(m)

MCSpec == MCInit /\ [][MCNext]_allVars

\* The fairness of the systems.
MCFairSpec ==
  /\ MCSpec
  /\ WF_allVars(Loop)
  /\ \A m \in Models :
       WF_allVars(ReceiveFrom(m)) /\ WF_allVars(Step(m)) /\ WF_allVars(NamesService(m))

-----------------------------------------------------------------------------
\* The orchestrator stops, whatever fails (Orchestrator: AfterEvent; a runner may also be
\* left by an exception, see Returns).
OrchestratorStops == part # "in_process" => Stops

\* Every model process exits though data of the second is deleted for its name, so that
\* the first fails to read it (Distributed: FailToRead, ServeClear).
ReadersTerminate == part = "names" => Terminates

\* In a single process updates survive until they are read, in a store that is shared and
\* wiped (InProcess: the order of the turns).
UpdatesAreSafe == part = "in_process" => Runner!UpdatesAreSafe

\* The runner's loop returns, whatever the handlers of the models raise (InProcess:
\* HandlerRaises).
Returns == part = "in_process" => Runner!Returns
=============================================================================
