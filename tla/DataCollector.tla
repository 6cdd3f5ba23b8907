--------------------------- MODULE DataCollector ---------------------------
(***************************************************************************)
(* The data collector: a model that subscribes to everything and has a     *)
(* pool of threads store what changed, while the simulation goes on.       *)
(*                                                                         *)
(* The model's own thread handles one call at a time (update, new_time,    *)
(* close). A call that flushes submits one job per dataset that changed,   *)
(* and blocks while all threads are busy. Every job is a future with two   *)
(* callbacks: one releases the thread's permit, one drops the future from  *)
(* MultipleFutures and keeps its exception. A callback runs in the thread  *)
(* that finishes the job or, when it is added later, in the model's.       *)
(***************************************************************************)
EXTENDS Naturals, Sequences, FiniteSets

CONSTANTS
  Datasets,       \* the names of the datasets
  Values,         \* what a dataset can hold
  Unset,          \* a dataset nothing is known of
  None,           \* current_time before the first new_time
  End,            \* the last timestamp
  Threads,        \* the threads of the pool
  Aggregating,    \* the values aggregate_updates may have: store once per timestamp?
  MayFail,        \* whether storing can raise an exception
  MaxIterations   \* bound: jobs per timestamp

\* What the values of the constants are assumed to be, where they are given.
ConstantsAssumption ==
  /\ Unset \notin Values /\ End \in Nat /\ None \notin Nat
  /\ Threads # {} /\ IsFiniteSet(Threads) /\ IsFiniteSet(Datasets)
  /\ Aggregating \subseteq BOOLEAN /\ MayFail \in BOOLEAN /\ MaxIterations \in Nat

VARIABLES
  aggregate,    \* the setting aggregate_updates
  state,        \* the tracked state: the value of every dataset
  reported,     \* the values when tracked changes were last reset
  currentTime,
  iteration,    \* the next number of itertools.count
  main,         \* where the model's thread is
  call,         \* the call it is handling
  toSubmit,     \* datasets of the flush that have no job yet
  submitted,    \* the job of which not all callbacks are added yet
  permits,      \* the semaphore
  queue,        \* the pool's work queue
  job, phase,   \* per thread: its job and where it is
  finished,     \* jobs whose future is done
  errors,       \* those of them that raised
  releasing,    \* jobs whose release callback was added before they were done
  hooked,       \* jobs whose record callback was added before they were done
  futs, exceptions,   \* MultipleFutures
  stored,       \* the results: timestamp, iteration and name to data
  history       \* what the state was at the end of each timestamp

modelVars == <<aggregate, state, reported, currentTime, iteration, history>>
mainVars == <<main, call, toSubmit, submitted>>
threadVars == <<job, phase>>
futureVars == <<finished, errors, releasing, hooked, futs, exceptions>>
vars == <<modelVars, mainVars, permits, queue, threadVars, futureVars, stored>>

Infos == [name : Datasets, timestamp : 0 .. End, iteration : Nat, data : Values]
Key(info) == [name |-> info.name, timestamp |-> info.timestamp,
              iteration |-> info.iteration]

NoJob == [name |-> None]
Calls == [name : {"none", "update", "close"}]
           \cup [name : {"new_time"}, timestamp : 0 .. End]

TypeOK ==
  /\ aggregate \in Aggregating
  /\ state \in [Datasets -> Values \cup {Unset}]
  /\ reported \in [Datasets -> Values \cup {Unset}]
  /\ currentTime \in 0 .. End \cup {None} /\ iteration \in 0 .. MaxIterations
  /\ main \in {"idle", "flush", "submitted", "added", "wait", "shutdown", "closed", "raised"}
  /\ call \in Calls /\ toSubmit \subseteq Datasets
  /\ submitted \in Infos \cup {NoJob}
  /\ permits \in 0 .. Cardinality(Threads) /\ queue \in Seq(Infos)
  /\ job \in [Threads -> Infos \cup {NoJob}]
  /\ phase \in [Threads -> {"idle", "store", "release", "record"}]
  /\ errors \subseteq finished /\ finished \subseteq Infos
  /\ exceptions \subseteq errors /\ futs \subseteq Infos /\ releasing \subseteq Infos
  /\ hooked \subseteq releasing
  /\ DOMAIN stored \subseteq {Key(i) : i \in finished}
  /\ history \in [0 .. End -> [Datasets -> Values \cup {Unset}]]

Init ==
  /\ aggregate \in Aggregating
  /\ state = [d \in Datasets |-> Unset] /\ reported = state
  /\ currentTime = None /\ iteration = 0
  /\ main = "idle" /\ call = [name |-> "none"]
  /\ toSubmit = {} /\ submitted = NoJob
  /\ permits = Cardinality(Threads) /\ queue = <<>>
  /\ job = [w \in Threads |-> NoJob] /\ phase = [w \in Threads |-> "idle"]
  /\ finished = {} /\ errors = {} /\ releasing = {} /\ hooked = {} /\ futs = {} /\ exceptions = {}
  /\ stored = <<>>
  /\ history = [t \in 0 .. End |-> state]

-----------------------------------------------------------------------------
(* The model's thread.                                                     *)

Changed(values) == {d \in Datasets : values[d] # reported[d]}

\* maybe_flush: earlier failures are raised, whether or not there is a flush.
MaybeFlush(trigger, values) ==
  IF exceptions # {}
  THEN main' = "raised" /\ toSubmit' = {}
  ELSE main' = "flush" /\ toSubmit' = IF trigger THEN Changed(values) ELSE {}

\* update with data: the values of some datasets. (Without data it does nothing.)
Update(D) ==
  /\ main = "idle" /\ currentTime # None
  /\ \E v \in [D -> Values] :
       LET values == [d \in Datasets |-> IF d \in D THEN v[d] ELSE state[d]]
       IN /\ iteration + Cardinality(Changed(values)) <= MaxIterations
          /\ state' = values
          /\ history' = [t \in 0 .. End |-> IF t < currentTime THEN history[t] ELSE values]
          /\ MaybeFlush(~aggregate, values)
  /\ call' = [name |-> "update"]
  /\ UNCHANGED <<aggregate, reported, currentTime, iteration, submitted, permits, queue,
                 threadVars, futureVars, stored>>

\* new_time: flushes what is left of the old time before it takes the new one.
NewTime(t) ==
  /\ main = "idle" /\ (currentTime # None => currentTime < t)
  /\ MaybeFlush(aggregate, state)
  /\ call' = [name |-> "new_time", timestamp |-> t]
  /\ UNCHANGED <<modelVars, submitted, permits, queue, threadVars, futureVars, stored>>

Close ==
  /\ main = "idle"
  /\ MaybeFlush(aggregate, state)
  /\ call' = [name |-> "close"]
  /\ UNCHANGED <<modelVars, submitted, permits, queue, threadVars, futureVars, stored>>

\* A flush is for the time that is over, and ends before the new one is taken.
FlushMoment == currentTime

\* The number after that of a job: next of the iteration counter.
NextIteration_Restarts == 0
NextIteration == iteration + 1

\* The iteration of flush for one dataset: number the update, take a permit
\* (or block) and hand the job to the pool.
Submit(d) ==
  /\ main = "flush" /\ d \in toSubmit /\ permits > 0
  /\ permits' = permits - 1
  /\ LET info == [name |-> d, timestamp |-> FlushMoment, iteration |-> iteration,
                  data |-> state[d]]
     IN submitted' = info /\ queue' = Append(queue, info)
  /\ iteration' = NextIteration
  /\ toSubmit' = toSubmit \ {d}
  /\ main' = "submitted"
  /\ UNCHANGED <<aggregate, state, reported, currentTime, history, call, threadVars,
                 futureVars, stored>>

\* submit of LimitedThreadPoolExecutor adds its callback. When the job is done already
\* it runs at once, in this thread.
AddRelease ==
  /\ main = "submitted"
  /\ IF submitted \in finished
     THEN permits' = permits + 1 /\ UNCHANGED releasing
     ELSE releasing' = releasing \cup {submitted} /\ UNCHANGED permits
  /\ main' = "added"
  /\ UNCHANGED <<modelVars, call, toSubmit, submitted, queue, threadVars, finished, errors,
                 hooked, futs, exceptions, stored>>

\* MultipleFutures.add: the same for the other callback. The job may have been done in
\* between.
AddRecord ==
  /\ main = "added"
  /\ IF submitted \in finished
     THEN exceptions' = exceptions \cup ({submitted} \cap errors) /\ UNCHANGED <<futs, hooked>>
     ELSE /\ futs' = futs \cup {submitted} /\ hooked' = hooked \cup {submitted}
          /\ UNCHANGED exceptions
  /\ submitted' = NoJob /\ main' = "flush"
  /\ UNCHANGED <<modelVars, call, toSubmit, permits, queue, threadVars, finished, errors,
                 releasing, stored>>

\* The rest of the call, when every dataset of the flush has its job.
\* reset_iterations restarts the numbers at the new time.
EndFlush ==
  /\ main = "flush" /\ toSubmit = {}
  /\ reported' = IF aggregate = (call.name # "update") THEN state ELSE reported
  /\ \/ /\ call.name = "update" /\ main' = "idle"
        /\ UNCHANGED <<currentTime, iteration>>
     \/ /\ call.name = "new_time" /\ main' = "idle"
        /\ currentTime' = call.timestamp /\ iteration' = 0
     \/ /\ call.name = "close" /\ main' = "wait"
        /\ UNCHANGED <<currentTime, iteration>>
  /\ UNCHANGED <<aggregate, state, history, call, toSubmit, submitted, permits, queue,
                 threadVars, futureVars, stored>>

\* futures.wait: until every future is done, be its callbacks still to run.
WaitForFutures ==
  /\ main = "wait" /\ futs \subseteq finished
  /\ main' = "shutdown"
  /\ UNCHANGED <<modelVars, call, toSubmit, submitted, permits, queue, threadVars,
                 futureVars, stored>>

\* pool.shutdown joins the threads; the strategy is closed after it.
PoolIsDown == queue = <<>> /\ \A w \in Threads : phase[w] = "idle"

CloseStrategy ==
  /\ main = "shutdown" /\ PoolIsDown
  /\ main' = "closed"
  /\ UNCHANGED <<modelVars, call, toSubmit, submitted, permits, queue, threadVars,
                 futureVars, stored>>

-----------------------------------------------------------------------------
(* The threads of the pool.                                                *)

Take(w) ==
  /\ phase[w] = "idle" /\ queue # <<>>
  /\ job' = [job EXCEPT ![w] = Head(queue)] /\ queue' = Tail(queue)
  /\ phase' = [phase EXCEPT ![w] = "store"]
  /\ UNCHANGED <<modelVars, mainVars, permits, futureVars, stored>>

\* The strategy stores the update or raises; the future is done. The thread
\* runs the callbacks that have been added by then.
AfterStore_Forgets(w, raised) == IF job[w] \in releasing /\ ~raised THEN "release" ELSE "idle"
AfterStore(w, raised) == IF job[w] \in releasing THEN "release" ELSE "idle"

Store(w, raised) ==
  /\ phase[w] = "store" /\ (raised => MayFail)
  /\ stored' = IF raised THEN stored
               ELSE [k \in DOMAIN stored \cup {Key(job[w])} |->
                       IF k = Key(job[w]) THEN job[w].data ELSE stored[k]]
  /\ finished' = finished \cup {job[w]}
  /\ errors' = IF raised THEN errors \cup {job[w]} ELSE errors
  /\ phase' = [phase EXCEPT ![w] = AfterStore(w, raised)]
  /\ job' = IF phase'[w] = "idle" THEN [job EXCEPT ![w] = NoJob] ELSE job
  /\ UNCHANGED <<modelVars, mainVars, permits, queue, releasing, hooked, futs, exceptions>>

\* The callback of LimitedThreadPoolExecutor.submit.
Release(w) ==
  /\ phase[w] = "release"
  /\ permits' = permits + 1
  /\ phase' = [phase EXCEPT ![w] = "record"]
  /\ UNCHANGED <<modelVars, mainVars, queue, job, futureVars, stored>>

\* MultipleFutures._callback, when it was added before the job was done.
Record(w) ==
  /\ phase[w] = "record"
  /\ futs' = futs \ {job[w]}
  /\ exceptions' = exceptions \cup ({job[w]} \cap hooked \cap errors)
  /\ phase' = [phase EXCEPT ![w] = "idle"] /\ job' = [job EXCEPT ![w] = NoJob]
  /\ UNCHANGED <<modelVars, mainVars, permits, queue, finished, errors, releasing, hooked,
                 stored>>

-----------------------------------------------------------------------------
Thread(w) ==
  \/ Take(w)
  \/ \E raised \in BOOLEAN : Store(w, raised)
  \/ Release(w)
  \/ Record(w)

Continue ==
  \/ \E d \in Datasets : Submit(d)
  \/ AddRelease
  \/ AddRecord
  \/ EndFlush
  \/ WaitForFutures
  \/ CloseStrategy

Called ==
  \/ \E D \in SUBSET Datasets : Update(D)
  \/ \E t \in 0 .. End : NewTime(t)
  \/ Close

Next == Called \/ Continue \/ \E w \in Threads : Thread(w)

Spec == Init /\ [][Next]_vars

-----------------------------------------------------------------------------
(* What reading the results gives: the last update of every dataset up to  *)
(* a timestamp.                                                            *)

Latest(K) == CHOOSE k \in K : \A l \in K :
               l.timestamp < k.timestamp
                 \/ (l.timestamp = k.timestamp /\ l.iteration <= k.iteration)

Replay(t) == [d \in Datasets |->
                LET K == {k \in DOMAIN stored : k.name = d /\ k.timestamp <= t}
                IN IF K = {} THEN Unset ELSE stored[Latest(K)]]

\* When the collector has closed and nothing failed, the results hold the state
\* at the end of every timestamp, in whatever order the threads stored them.
ResultsAreComplete ==
  main = "closed" /\ errors = {} /\ currentTime # None =>
    \A t \in 0 .. currentTime : Replay(t) = history[t]

\* No job stores under a name that has been stored before: of two updates of a
\* dataset at a time none gets lost (and SQLite's uq_update never fails).
KeepsWhatIsStored ==
  \A k \in DOMAIN stored :
    /\ k \in DOMAIN stored' /\ stored'[k] = stored[k]
    /\ \A w \in Threads : phase[w] = "store" /\ phase'[w] # "store" => Key(job[w]) # k

\* "Blocks on submit when all workers are busy": no more jobs than threads
\* are under way, though threads release the permits of jobs that are done.
NoMoreJobsThanThreads ==
  Len(queue) + Cardinality({w \in Threads : phase[w] = "store"}) <= Cardinality(Threads)

\* When close returns no thread uses the storage, and the outcome of every job
\* is known: the wait for futures alone would let callbacks run after it.
NothingRunsAfterClose ==
  main = "closed" =>
    /\ queue = <<>> /\ futs = {} /\ exceptions = errors
    /\ \A w \in Threads : phase[w] = "idle"

\* No permit gets lost, whoever raises, and no future is waited for that nobody
\* finishes: while a call has not returned or raised, the model's thread or one of the
\* pool can go on. A call has a bounded number of jobs, so it ends.
CallsGoOn ==
  main \notin {"idle", "closed", "raised"} =>
    ENABLED (Continue \/ \E w \in Threads : Thread(w))
=============================================================================
