---------------------------- MODULE Distributed ----------------------------
(***************************************************************************)
(* A distributed simulation: the orchestrator, the models and the Update   *)
(* Data Service are processes of their own.  The orchestrator's messages   *)
(* only tell where data can be read; the data itself is in the store of    *)
(* the service, put there under a key that is made of the model's name and *)
(* a number.  A model clears its data when the time moves on.              *)
(*                                                                         *)
(* The models talk to the service through REQ sockets, which block the     *)
(* model until the reply is there, and the service handles one request at  *)
(* a time.  In between, all other processes go on: this module splits      *)
(* every handler of Orchestrator's models at its requests.                 *)
(*                                                                         *)
(* The content of an update is abstracted to the timestamp it was computed *)
(* at.                                                                     *)
(***************************************************************************)
EXTENDS Orchestrator

CONSTANT PrefixOf  \* <<m, x>>: the name of m is a proper prefix of the name of x

ASSUME PrefixAssumption == PrefixOf \subseteq {p \in Models \X Models : p[1] # p[2]}

VARIABLES
  store,    \* UpdateDataService.store
  call,     \* what is on the wire between a model and the service
  counter,  \* UpdateDataClient.counter
  taken     \* the place in its command of the last update a model has read

dataVars == <<store, call, counter, taken>>

StoreKeys == Models \X Keys
Key(update) == <<update.origin, update.key>>

NoCall == [type |-> "None", key |-> None, data |-> None]
Clear == [type |-> "Clear", key |-> None, data |-> None]
Get(key) == [type |-> "Get", key |-> key, data |-> None]
Put(key, data) == [type |-> "Put", key |-> key, data |-> data]
Acknowledge == [type |-> "Acknowledge", key |-> None, data |-> None]
Data(data) == [type |-> "Data", key |-> None, data |-> data]
Error == [type |-> "Error", key |-> None, data |-> None]
RequestTypes == {"Clear", "Get", "Put"}

-----------------------------------------------------------------------------
(* The Update Data Service handles a request.                              *)

Reply(m, reply) == call' = [call EXCEPT ![m] = reply]

\* Mutant of HasPrefix: every key is deleted.
HasPrefix_Any(key, m) == TRUE

\* key.startswith(prefix), where the prefix is the name of m.
HasPrefix(key, m) == key[1] = m \/ <<m, key[1]>> \in PrefixOf

ServeClear(m) ==
  /\ call[m].type = "Clear"
  /\ store' = [k \in {k \in DOMAIN store : ~HasPrefix(k, m)} |-> store[k]]
  /\ Reply(m, Acknowledge)
  /\ UNCHANGED <<vars, counter, taken>>

ServeGet(m) ==
  /\ call[m].type = "Get"
  /\ Reply(m, IF call[m].key \in DOMAIN store THEN Data(store[call[m].key]) ELSE Error)
  /\ UNCHANGED <<vars, store, counter, taken>>

ServePut(m) ==
  /\ call[m].type = "Put"
  /\ store' = [k \in DOMAIN store \cup {call[m].key} |->
                 IF k = call[m].key THEN call[m].data ELSE store[k]]
  /\ Reply(m, Acknowledge)
  /\ UNCHANGED <<vars, counter, taken>>

-----------------------------------------------------------------------------
(* The models.                                                             *)

Send(m, request) == call[m] = NoCall /\ call' = [call EXCEPT ![m] = request]
Replied(m, type) == call[m].type = type /\ call' = [call EXCEPT ![m] = NoCall]

\* The places in the current command of the updates with data that m has yet to
\* read; it reads them in order.
Unread(m) ==
  LET us == Head(inbox[m]).updates IN {i \in DOMAIN us : taken[m] < i /\ us[i].key # None}
FirstUnread(m) == CHOOSE i \in Unread(m) : \A j \in Unread(m) : i <= j

RegisterModel(m) ==
  /\ Register(m)
  /\ UNCHANGED dataVars

StartNewTime(m) ==
  /\ Received(m, "NewTime")
  /\ Send(m, Clear)
  /\ UNCHANGED <<vars, store, counter, taken>>

FinishNewTime(m) ==
  /\ Received(m, "NewTime")
  /\ Replied(m, "Acknowledge")
  /\ counter' = [counter EXCEPT ![m] = 0]
  /\ HandleNewTime(m)
  /\ UNCHANGED <<store, taken>>

RequestData(m) ==
  /\ Received(m, "Update")
  /\ Unread(m) # {}
  /\ Send(m, Get(Key(Head(inbox[m]).updates[FirstUnread(m)])))
  /\ UNCHANGED <<vars, store, counter, taken>>

TakeData(m) ==
  /\ Received(m, "Update")
  /\ Replied(m, "Data")
  /\ taken' = [taken EXCEPT ![m] = FirstUnread(m)]
  /\ UNCHANGED <<vars, store, counter>>

\* Mutant of FailToRead: the process ends without a message to the orchestrator.
FailToRead_Silent(m) ==
  /\ Replied(m, "Error")
  /\ Consume(m)
  /\ proc' = [proc EXCEPT ![m] = "crashed"]
  /\ taken' = [taken EXCEPT ![m] = 0]
  /\ UNCHANGED <<orchestratorVars, connectedVars, outbox, modelTime, store, counter>>

\* An ErrorMessage of the service is raised as an exception in the model.
FailToRead(m) ==
  /\ Replied(m, "Error")
  /\ Fail(m)
  /\ taken' = [taken EXCEPT ![m] = 0]
  /\ UNCHANGED <<store, counter>>

\* The model has computed and has no data to publish.
FinishWithoutData(m) ==
  /\ Received(m, "Update")
  /\ Unread(m) = {} /\ call[m] = NoCall
  /\ \E t \in Requests : SendResult(m, t, None)
  /\ taken' = [taken EXCEPT ![m] = 0]
  /\ UNCHANGED <<store, call, counter>>

\* The model has computed and puts its data under the next key.  The numbers are
\* bounded by Keys.
PutData(m) ==
  /\ Received(m, "Update")
  /\ Unread(m) = {}
  /\ counter[m] \in Keys
  /\ Send(m, Put(<<m, counter[m]>>, modelTime[m]))
  /\ counter' = [counter EXCEPT ![m] = @ + 1]
  /\ UNCHANGED <<vars, store, taken>>

\* Mutant of FinishWithData: the result carries the number of the next key.
FinishWithData_NextKey(m) ==
  /\ Received(m, "Update")
  /\ Replied(m, "Acknowledge")
  /\ \E t \in Requests : SendResult(m, t, counter[m])
  /\ taken' = [taken EXCEPT ![m] = 0]
  /\ UNCHANGED <<store, counter>>

FinishWithData(m) ==
  /\ Received(m, "Update")
  /\ Replied(m, "Acknowledge")
  /\ \E t \in Requests : SendResult(m, t, counter[m] - 1)
  /\ taken' = [taken EXCEPT ![m] = 0]
  /\ UNCHANGED <<store, counter>>

Quit(m) ==
  /\ HandleQuit(m)
  /\ UNCHANGED dataVars

\* An exception in the model itself, at any point where it is not blocked by a
\* request.
CrashModel(m) ==
  /\ call[m].type \notin RequestTypes
  /\ Crash(m)
  /\ call' = [call EXCEPT ![m] = NoCall]
  /\ taken' = [taken EXCEPT ![m] = 0]
  /\ UNCHANGED <<store, counter>>

-----------------------------------------------------------------------------
DInit ==
  /\ Init
  /\ store = <<>>
  /\ call = [m \in Models |-> NoCall]
  /\ counter = [m \in Models |-> 0]
  /\ taken = [m \in Models |-> 0]

Service(m) == ServeClear(m) \/ ServeGet(m) \/ ServePut(m)

DModelStep(m) ==
  \/ RegisterModel(m)
  \/ StartNewTime(m)
  \/ FinishNewTime(m)
  \/ RequestData(m)
  \/ TakeData(m)
  \/ FailToRead(m)
  \/ FinishWithoutData(m)
  \/ PutData(m)
  \/ FinishWithData(m)
  \/ Quit(m)
  \/ CrashModel(m)

Brokering == (OrchestratorRun \/ \E m \in Models : Receive(m)) /\ UNCHANGED dataVars

DNext == Brokering \/ \E m \in Models : Service(m) \/ DModelStep(m)

DSpec == DInit /\ [][DNext]_<<vars, dataVars>>

\* As in Orchestrator; the service answers every request.
DFairness ==
  /\ WF_<<vars, dataVars>>(OrchestratorRun /\ UNCHANGED dataVars)
  /\ \A m \in Models :
       /\ WF_<<vars, dataVars>>(Receive(m) /\ UNCHANGED dataVars)
       /\ WF_<<vars, dataVars>>(Service(m))
       /\ WF_<<vars, dataVars>>(DModelStep(m))

DFairSpec == DSpec /\ DFairness

-----------------------------------------------------------------------------
(* Properties.                                                             *)

CallTypes == RequestTypes \cup {"None", "Acknowledge", "Data", "Error"}

\* Types, and what is on the wire fits what the model is doing.
DTypeOK ==
  /\ TypeOK
  /\ DOMAIN store \subseteq StoreKeys
  /\ \A k \in DOMAIN store : store[k] \in Times
  /\ call \in [Models -> [type : CallTypes, key : StoreKeys \cup {None},
                          data : Times \cup {None}]]
  /\ counter \in [Models -> Nat]
  /\ taken \in [Models -> Nat]
  /\ \A m \in Models :
       /\ call[m].type \in {"Get", "Data", "Error", "Put"} \/ taken[m] > 0 => Received(m, "Update")
       /\ call[m].type = "Clear" => Received(m, "NewTime")
       /\ Received(m, "Update") => taken[m] <= Len(Head(inbox[m]).updates)

\* The updates that m has been told of, or will be, and that it has not read yet.
ToRead(m) ==
  LET open(us) == {us[i] : i \in {j \in DOMAIN us : us[j].key # None}}
  IN open(pendingUpdates[m]) \cup
     IF Received(m, "Update") THEN {Head(inbox[m]).updates[i] : i \in Unread(m)} ELSE {}

\* The data of an update stays where it is until every subscriber has read it,
\* however late the CLEARs of other models arrive: it is in the store under the
\* update's key, and it is what its origin computed at the update's timestamp.
UpdatesCanBeRead ==
  \A m \in Models : \A u \in ToRead(m) :
    Key(u) \in DOMAIN store /\ store[Key(u)] = u.time

\* A result never overwrites another one: when a model puts data, there is none
\* under its key, not even of an earlier timestamp.
KeysAreFresh == \A m \in Models : call[m].type = "Put" => call[m].key \notin DOMAIN store

\* The store does not grow with the simulation: a model that has been told of a
\* new time has no data of an earlier time left.
StoreIsCleared ==
  \A k \in DOMAIN store : proc[k[1]] \in {"running", "exited"} => store[k] = modelTime[k[1]]

\* All of them: what is put is kept as long as it is needed, and no longer.
UpdatesAreKept == DTypeOK /\ UpdatesCanBeRead /\ KeysAreFresh /\ StoreIsCleared

\* For the orchestrator a model that reads and writes its data is a model that
\* just answers: in particular no model fails because an update cannot be read.
KeepsProtocol == Spec

\* "every model is responsible for the data management of their own keys"
\* (simulations.rst): data is deleted only by the model that has put it.
OnlyOwnDataDeleted ==
  [][\A k \in DOMAIN store \ DOMAIN store' : call[k[1]].type = "Clear"]_<<vars, dataVars>>

=============================================================================
