--------------------------- MODULE MCOrchestrator ---------------------------
(***************************************************************************)
(* Instances for TLC of the orchestrator with models that do not misbehave,*)
(* which exchange messages only, or data through the Update Data Service.  *)
(* A behaviour is one of the system that part names; the properties of     *)
(* Orchestrator are about both.                                            *)
(***************************************************************************)
EXTENDS Orchestrator

CONSTANT Parts  \* "messages", "data": the systems that are checked

ASSUME PartsAssumption == Parts \subseteq {"messages", "data"}

VARIABLES part, store, call, counter, taken

dataVars == <<store, call, counter, taken>>

Pairs == {p \in Models \X Models : p[1] # p[2]}
AllTopologies == SUBSET Pairs
Acyclic == {g \in SUBSET Pairs :
              \A S \in SUBSET Models \ {{}} : \E m \in S : \A d \in S : <<d, m>> \notin g}
OnePair == {{<<1, 2>>}}

\* From before the start to beyond the end.
AllRequests == {None} \cup (Start - 1)..(End + 1)
FewRequests == {None, End}
NoModels == {}
AllModels == Models
ThirdModel == {3}

-----------------------------------------------------------------------------
Messages == INSTANCE Orchestrator WITH Keys <- {0}

Data == INSTANCE Distributed WITH
  Requests <- FewRequests, Topologies <- Acyclic, Repeating <- {1}, PrefixOf <- {}

MCInit == part \in Parts /\ Data!DInit

MCNext ==
  /\ UNCHANGED part
  /\ \/ part = "messages" /\ Messages!Next /\ UNCHANGED dataVars
     \/ part = "data" /\ Data!DNext

MCSpec == MCInit /\ [][MCNext]_<<part, vars, dataVars>>

-----------------------------------------------------------------------------
\* What is put in the service's store is there as long as somebody has yet to read it, and
\* no longer (Distributed: ServeClear, ServePut, PutData).
UpdatesAreKept == part = "data" => Data!UpdatesAreKept

\* For the orchestrator, a model that reads and writes its data through the service is a
\* model that just answers (Distributed: the steps of a model are one of Orchestrator's
\* or none).
KeepsProtocol == (part = "data" => Init) /\ [][part = "data" => Next]_vars
=============================================================================
