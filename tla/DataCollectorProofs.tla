------------------------- MODULE DataCollectorProofs -------------------------
(* What the data collector promises, for every number of datasets, values and *)
(* threads: no result is lost or overwritten, and nothing runs when it is     *)
(* closed.                                                                    *)
EXTENDS DataCollector, FiniteSetTheorems, SequenceTheorems, TLAPS

\* Where the jobs are: in the queue, with a thread that stores, or done.
Queued == {queue[i] : i \in DOMAIN queue}
In(p) == {w \in Threads : phase[w] \in p}
JobsOf(W) == {job[w] : w \in W}
Jobs == Queued \cup JobsOf(In({"store"})) \cup finished

\* Types, but for the bound on the number of jobs.
Types ==
  /\ aggregate \in BOOLEAN
  /\ state \in [Datasets -> Values \cup {Unset}] /\ reported \in [Datasets -> Values \cup {Unset}]
  /\ currentTime \in 0 .. End \cup {None} /\ iteration \in Nat
  /\ main \in {"idle", "flush", "submitted", "added", "wait", "shutdown", "closed", "raised"}
  /\ call \in Calls /\ toSubmit \subseteq Datasets
  /\ permits \in Nat /\ queue \in Seq(Infos)
  /\ phase \in [Threads -> {"idle", "store", "release", "record"}]
  /\ job \in [Threads -> Infos \cup {NoJob}]
  /\ finished \subseteq Infos /\ errors \subseteq finished
  /\ history \in [0 .. End -> [Datasets -> Values \cup {Unset}]]

\* Every job is in one place.
Places ==
  /\ \A i, j \in DOMAIN queue : queue[i] = queue[j] => i = j
  /\ Queued \cap finished = {}
  /\ \A w \in In({"store"}) : job[w] \in Infos /\ job[w] \notin finished /\ job[w] \notin Queued
  /\ \A w \in In({"release", "record"}) : job[w] \in finished
  /\ \A w, v \in In({"store", "release", "record"}) : job[w] = job[v] => w = v

\* The callbacks of every job but the one that is being submitted have been added, and
\* what they are to do is done or still to come.
Submitting == main \in {"submitted", "added"}
Recording == hooked \cap JobsOf(In({"release", "record"}))
Callbacks ==
  /\ Submitting => submitted \in Jobs /\ submitted \notin hooked
  /\ main = "submitted" => submitted \notin releasing
  /\ ~Submitting => submitted = NoJob
  /\ hooked \subseteq releasing /\ releasing \subseteq Jobs
  /\ \A j \in Jobs \ finished : j \in hooked \/ j = submitted
  /\ \A j \in Jobs \ finished : j \in releasing \/ main = "submitted"
  /\ futs = (hooked \ finished) \cup Recording
  /\ exceptions \subseteq errors
  /\ \A j \in errors \ exceptions : j = submitted \/ j \in Recording

\* Every permit is there or held for a job.
Held == IF main = "submitted" /\ submitted \in finished THEN 1 ELSE 0
Permits ==
  permits + Len(queue) + Cardinality(In({"store"})) + Cardinality(In({"release"})) + Held
    = Cardinality(Threads)

\* Before the first new_time there is nothing to store; the numbers of jobs grow; and
\* what is stored is what the jobs that are done had to store.
Numbers ==
  /\ currentTime = None => Jobs = {} /\ state = reported
  /\ \A j \in Jobs : j.timestamp <= currentTime /\ (j.timestamp = currentTime => j.iteration < iteration)
  /\ \A i, j \in Jobs : i.timestamp = j.timestamp /\ i.iteration = j.iteration => i = j
  /\ DOMAIN stored = {Key(j) : j \in finished \ errors}
  /\ \A j \in finished \ errors : stored[Key(j)] = j.data

\* The last of the jobs in J for d, up to t, has the value v.
LastIs(J, d, t, v) ==
  LET K == {j \in J : j.name = d /\ j.timestamp <= t} IN
  \/ K = {} /\ v = Unset
  \/ \E i \in K : i.data = v /\ \A j \in K : \/ j.timestamp < i.timestamp
                                             \/ j.timestamp = i.timestamp /\ j.iteration <= i.iteration

\* Where the model's thread is in a call, and what the jobs so far would make of the
\* results: the history of the times that are over, and of the current time what was
\* reported, or the state for the datasets that a flush has dealt with.
Flushing == main \in {"flush", "submitted", "added"}
Triggered == aggregate = (call.name # "update")
Progress ==
  /\ Flushing /\ call.name = "new_time" => currentTime = None \/ currentTime < call.timestamp
  /\ Flushing => call.name # "none" /\ (~Triggered => toSubmit = {})
  /\ Flushing /\ currentTime = None => toSubmit = {}
  /\ \A d \in Datasets : state[d] = Unset => reported[d] = Unset /\ (Flushing => d \notin toSubmit)
  /\ ~aggregate /\ (main = "idle" \/ (Flushing /\ call.name # "update")) => reported = state
  /\ main \in {"wait", "shutdown", "closed"} => reported = state
  /\ main = "closed" => queue = <<>> /\ \A w \in Threads : phase[w] = "idle"
  /\ \A t \in 0 .. End : currentTime = None \/ currentTime <= t => history[t] = state
  /\ \A t \in 0 .. End : currentTime # None /\ t < currentTime =>
       \A d \in Datasets : LastIs(Jobs, d, t, history[t][d])
  /\ \A d \in Datasets :
       LastIs(Jobs, d, End, IF Flushing /\ Triggered /\ d \notin toSubmit THEN state[d] ELSE reported[d])

CInv == Types /\ Places /\ Callbacks /\ Permits /\ Numbers /\ Progress

-----------------------------------------------------------------------------
(* Jobs and the last of them.                                              *)

\* Jobs are well formed.
LEMMA JobsType == ASSUME Types, Places PROVE Jobs \subseteq Infos
<1>1. Queued \subseteq Infos
  BY DEF Types, Queued
<1>2. JobsOf(In({"store"})) \subseteq Infos
  BY DEF Places, JobsOf
<1> QED BY <1>1, <1>2 DEF Types, Jobs

\* The queue gets a job at its end.
LEMMA QueuedAtTheEnd ==
  ASSUME queue \in Seq(Infos), NEW info \in Infos, queue' = Append(queue, info)
  PROVE  /\ Queued' = Queued \cup {info}
         /\ (\A i, j \in DOMAIN queue : queue[i] = queue[j] => i = j) /\ info \notin Queued =>
              \A i, j \in DOMAIN queue' : queue'[i] = queue'[j] => i = j
<1>1. /\ DOMAIN queue' = 1 .. (Len(queue) + 1) /\ DOMAIN queue = 1 .. Len(queue) /\ Len(queue) \in Nat
      /\ \A i \in 1 .. Len(queue) : queue'[i] = queue[i]
      /\ queue'[Len(queue) + 1] = info
  BY AppendProperties
<1>2. \A i \in DOMAIN queue' : i \in DOMAIN queue \/ i = Len(queue) + 1
  BY <1>1
<1> QED BY <1>1, <1>2 DEF Queued

\* The first job leaves the queue.
LEMMA DequeuedFirst ==
  ASSUME queue \in Seq(Infos), queue # <<>>, queue' = Tail(queue),
         \A i, j \in DOMAIN queue : queue[i] = queue[j] => i = j
  PROVE  /\ Queued' = Queued \ {Head(queue)} /\ Head(queue) \in Queued
         /\ \A i, j \in DOMAIN queue' : queue'[i] = queue'[j] => i = j
<1>1. /\ DOMAIN queue' = 1 .. (Len(queue) - 1) /\ DOMAIN queue = 1 .. Len(queue)
      /\ Len(queue) \in Nat /\ Len(queue) > 0
      /\ \A i \in 1 .. (Len(queue) - 1) : queue'[i] = queue[i + 1]
      /\ Head(queue) = queue[1]
  BY HeadTailProperties
<1>2. \A i \in DOMAIN queue : i = 1 \/ (i - 1 \in DOMAIN queue' /\ queue'[i - 1] = queue[i])
  BY <1>1
<1>3. \A i \in DOMAIN queue' : i + 1 \in DOMAIN queue /\ i + 1 # 1 /\ queue'[i] = queue[i + 1]
  BY <1>1
<1>4. Queued' \subseteq Queued \ {Head(queue)}
  BY <1>1, <1>3 DEF Queued
<1>5. Queued \ {Head(queue)} \subseteq Queued'
  <2> SUFFICES ASSUME NEW i \in DOMAIN queue, queue[i] # queue[1]
               PROVE  \E k \in DOMAIN queue' : queue'[k] = queue[i]
    BY <1>1 DEF Queued
  <2> QED BY <1>2
<1>6. ASSUME NEW i \in DOMAIN queue', NEW j \in DOMAIN queue', queue'[i] = queue'[j] PROVE i = j
  <2>1. i + 1 = j + 1 /\ i \in Nat /\ j \in Nat
    BY <1>1, <1>3, <1>6
  <2> QED BY <2>1
<1> QED BY <1>1, <1>4, <1>5, <1>6 DEF Queued

\* When there is no job after c, the last one up to c is the last one up to any later time.
LEMMA LastStays ==
  ASSUME NEW J, NEW t, NEW d, NEW v, \A j \in J : j.timestamp <= End /\ j.timestamp <= t,
         LastIs(J, d, End, v)
  PROVE  LastIs(J, d, t, v)
<1>1. {j \in J : j.name = d /\ j.timestamp <= t} = {j \in J : j.name = d /\ j.timestamp <= End}
  OBVIOUS
<1> QED BY <1>1 DEF LastIs

\* A new job is the last one of its dataset from its time on, and changes nothing for
\* others, or before.
LEMMA LastOfMore ==
  ASSUME NEW info \in Infos, NEW J \in SUBSET Infos,
         \A j \in J : \/ j.timestamp < info.timestamp
                      \/ j.timestamp = info.timestamp /\ j.iteration <= info.iteration,
         NEW d \in Datasets, NEW t \in 0 .. End
  PROVE  /\ d = info.name /\ info.timestamp <= t => LastIs(J \cup {info}, d, t, info.data)
         /\ d # info.name \/ t < info.timestamp =>
              \A v : LastIs(J \cup {info}, d, t, v) <=> LastIs(J, d, t, v)
<1>1. info.timestamp \in Int /\ info.iteration \in Int /\ info.name \in Datasets
  BY DEF Infos
<1>2. CASE d = info.name /\ info.timestamp <= t
  <2> DEFINE K == {j \in J \cup {info} : j.name = d /\ j.timestamp <= t}
  <2>1. info \in K
    BY <1>2
  <2>2. \A j \in K : \/ j.timestamp < info.timestamp
                     \/ j.timestamp = info.timestamp /\ j.iteration <= info.iteration
    BY <1>1
  <2>3. \E i \in K : i.data = info.data /\
           \A j \in K : j.timestamp < i.timestamp \/ (j.timestamp = i.timestamp /\ j.iteration <= i.iteration)
    BY <2>1, <2>2
  <2>4. LastIs(J \cup {info}, d, t, info.data)
    BY <2>3 DEF LastIs
  <2> QED BY <1>1, <1>2, <2>4
<1>3. CASE d # info.name \/ t < info.timestamp
  <2>1. {j \in J \cup {info} : j.name = d /\ j.timestamp <= t} = {j \in J : j.name = d /\ j.timestamp <= t}
    BY <1>1, <1>3
  <2>2. \A v : LastIs(J \cup {info}, d, t, v) <=> LastIs(J, d, t, v)
    BY <2>1 DEF LastIs
  <2>3. ~(d = info.name /\ info.timestamp <= t)
    BY <1>1, <1>3
  <2> QED BY <2>2, <2>3
<1> QED BY <1>1, <1>2, <1>3

-----------------------------------------------------------------------------
(* Between two submissions the model's thread leaves the pool alone.       *)

\* A step of the model's thread that submits nothing.
LEMMA PoolIsUntouched ==
  ASSUME CInv, UNCHANGED <<permits, queue, threadVars, futureVars, stored, submitted>>,
         ~Submitting, main' \notin {"submitted", "added"}
  PROVE  Places' /\ Callbacks' /\ Permits' /\ Jobs' = Jobs
<1>1. UNCHANGED <<permits, queue, job, phase, finished, errors, releasing, hooked, futs, exceptions, stored, submitted>>
  BY DEF threadVars, futureVars
<1>2. Queued' = Queued /\ JobsOf(In({"store"}))' = JobsOf(In({"store"})) /\ Jobs' = Jobs
  BY <1>1 DEF Queued, JobsOf, In, Jobs
<1>3. /\ JobsOf(In({"release", "record"}))' = JobsOf(In({"release", "record"}))
      /\ In({"store"})' = In({"store"}) /\ In({"release"})' = In({"release"})
      /\ In({"release", "record"})' = In({"release", "record"})
      /\ In({"store", "release", "record"})' = In({"store", "release", "record"})
  BY <1>1 DEF JobsOf, In
<1>4. Places'
  BY <1>1, <1>2, <1>3 DEF CInv, Places
<1>5. Callbacks'
  BY <1>1, <1>2, <1>3 DEF CInv, Callbacks, Recording, Submitting
<1>6. Permits'
  BY <1>1, <1>3 DEF CInv, Permits, Held, Submitting
<1> QED BY <1>2, <1>4, <1>5, <1>6

\* The numbers of jobs stay in order when the time or the counter goes on, or the counter starts
\* over at another time.
LEMMA NumbersGoOn ==
  ASSUME Numbers, Jobs \subseteq Infos, Jobs' = Jobs, UNCHANGED <<finished, errors, stored>>,
         currentTime \in 0 .. End \cup {None}, None \notin Nat, iteration \in Nat,
         \/ currentTime' = currentTime /\ iteration' = iteration
         \/ currentTime' \in 0 .. End /\ (currentTime = None \/ currentTime < currentTime'),
         currentTime' = None => UNCHANGED <<state, reported>>
  PROVE  Numbers'
<1>1. \A j \in Jobs : j.timestamp \in 0 .. End /\ j.iteration \in Nat /\ currentTime # None
  BY DEF Numbers, Infos
<1>2. \A j \in Jobs : j.timestamp <= currentTime' /\ (j.timestamp = currentTime' => j.iteration < iteration')
  BY <1>1 DEF Numbers
<1>3. currentTime' = None => Jobs = {} /\ state' = reported'
  BY DEF Numbers
<1>4. \A j : Key(j)' = Key(j)
  BY DEF Key
<1> QED BY <1>2, <1>3, <1>4 DEF Numbers

\* What a flush is to store: what changed since it was last reported, when the flush is due.
LEMMA MaybeFlushEffect ==
  ASSUME NEW trigger \in BOOLEAN, NEW values, MaybeFlush(trigger, values)
  PROVE  /\ main' \in {"raised", "flush"} /\ toSubmit' \subseteq Datasets
         /\ main' = "raised" => toSubmit' = {}
         /\ main' = "flush" => toSubmit' = IF trigger THEN {d \in Datasets : values[d] # reported[d]} ELSE {}
BY DEF MaybeFlush, Changed

\* A call begins: what it flushes is what has not been reported, in the state that it leaves.
LEMMA CallBegins ==
  ASSUME CInv, ConstantsAssumption, main = "idle",
         UNCHANGED <<permits, queue, threadVars, futureVars, stored, submitted>>,
         UNCHANGED <<aggregate, reported, currentTime, iteration>>,
         NEW trigger \in BOOLEAN, MaybeFlush(trigger, state'), trigger = (aggregate = (call'.name # "update")),
         call' \in Calls, call'.name # "none",
         call'.name = "new_time" => currentTime = None \/ currentTime < call'.timestamp,
         call'.name = "update" \/ state' = state, currentTime = None => state' = state,
         state' \in [Datasets -> Values \cup {Unset}],
         \A d \in Datasets : state'[d] = Unset => state[d] = Unset,
         history' \in [0 .. End -> [Datasets -> Values \cup {Unset}]],
         \A t \in 0 .. End : history'[t] = IF currentTime = None \/ currentTime <= t THEN state' ELSE history[t]
  PROVE  CInv'
<1>1. Types /\ Places /\ Callbacks /\ Permits /\ Numbers /\ Progress
  BY DEF CInv
<1>2. UNCHANGED <<permits, queue, job, phase, finished, errors, stored>>
  BY DEF threadVars, futureVars
<1>3. /\ main' \in {"raised", "flush"} /\ toSubmit' \subseteq Datasets
      /\ main' = "flush" => toSubmit' = IF trigger THEN {d \in Datasets : state'[d] # reported[d]} ELSE {}
  BY MaybeFlushEffect
<1>4. Places' /\ Callbacks' /\ Permits' /\ Jobs' = Jobs
  BY <1>3, PoolIsUntouched DEF Submitting
<1>5. Types'
  BY <1>1, <1>2, <1>3 DEF Types
<1>6. Numbers'
  BY <1>1, <1>2, <1>4, JobsType, NumbersGoOn DEF Types, ConstantsAssumption
<1>7. Triggered' = trigger /\ (Flushing' <=> main' = "flush")
  BY <1>3 DEF Triggered, Flushing
<1>8. \A d \in Datasets : state'[d] = Unset => reported'[d] = Unset /\ (Flushing' => d \notin toSubmit')
  BY <1>1, <1>3, <1>7 DEF Progress
<1>9. ASSUME NEW d \in Datasets
      PROVE  LastIs(Jobs', d, End, IF Flushing' /\ Triggered' /\ d \notin toSubmit' THEN state'[d] ELSE reported'[d])
  <2>1. LastIs(Jobs, d, End, reported[d])
    BY <1>1 DEF Progress, Flushing
  <2>2. Flushing' /\ Triggered' /\ d \notin toSubmit' => state'[d] = reported[d]
    BY <1>3, <1>7
  <2>3. (IF Flushing' /\ Triggered' /\ d \notin toSubmit' THEN state'[d] ELSE reported'[d]) = reported[d]
    BY <2>2
  <2> QED BY <1>4, <2>1, <2>3
<1>10. /\ Flushing' /\ call'.name = "new_time" => currentTime' = None \/ currentTime' < call'.timestamp
       /\ Flushing' => call'.name # "none" /\ (~Triggered' => toSubmit' = {})
       /\ main' \notin {"wait", "shutdown", "closed", "idle"}
  BY <1>3, <1>7
<1>11. Flushing' /\ currentTime' = None => toSubmit' = {}
  BY <1>1, <1>3, <1>7 DEF Numbers
<1>12. ~aggregate' /\ Flushing' /\ call'.name # "update" => reported' = state'
  BY <1>1 DEF Progress
<1>13. /\ \A t \in 0 .. End : currentTime' = None \/ currentTime' <= t => history'[t] = state'
       /\ \A t \in 0 .. End : currentTime' # None /\ t < currentTime' =>
            \A d \in Datasets : LastIs(Jobs', d, t, history'[t][d])
  <2>1. ASSUME NEW t \in 0 .. End, currentTime # None, t < currentTime PROVE history'[t] = history[t]
    BY <1>1, <2>1 DEF Types
  <2> QED BY <1>1, <1>4, <2>1 DEF Progress
<1>14. Progress'
  BY <1>8, <1>9, <1>10, <1>11, <1>12, <1>13 DEF Progress
<1> QED BY <1>4, <1>5, <1>6, <1>14 DEF CInv

\* The calls of the orchestrator.
LEMMA CalledKeeps == ASSUME CInv, ConstantsAssumption, Called PROVE CInv'
<1>1. Types
  BY DEF CInv
<1>2. ASSUME NEW D \in SUBSET Datasets, Update(D) PROVE CInv'
  <2>1. PICK v \in [D -> Values] :
          /\ state' = [d \in Datasets |-> IF d \in D THEN v[d] ELSE state[d]]
          /\ history' = [t \in 0 .. End |-> IF t < currentTime THEN history[t] ELSE state']
          /\ MaybeFlush(~aggregate, state')
    BY <1>2 DEF Update
  <2>2. main = "idle" /\ currentTime # None /\ currentTime \in Nat /\ call' = [name |-> "update"]
    BY <1>1, <1>2 DEF Update, Types
  <2>3. /\ UNCHANGED <<permits, queue, threadVars, futureVars, stored, submitted>>
        /\ UNCHANGED <<aggregate, reported, currentTime, iteration>>
    BY <1>2 DEF Update
  <2>4. /\ state' \in [Datasets -> Values \cup {Unset}]
        /\ \A d \in Datasets : state'[d] = Unset => state[d] = Unset
    BY <1>1, <2>1 DEF Types, ConstantsAssumption
  <2>5. /\ history' \in [0 .. End -> [Datasets -> Values \cup {Unset}]]
        /\ \A t \in 0 .. End : history'[t] = IF currentTime = None \/ currentTime <= t THEN state' ELSE history[t]
    BY <1>1, <2>1, <2>2, <2>4 DEF Types, ConstantsAssumption
  <2>6. call' \in Calls /\ call'.name = "update"
    BY <2>2 DEF Calls
  <2>7. (~aggregate) \in BOOLEAN /\ (~aggregate) = (aggregate = (call'.name # "update"))
    BY <1>1, <2>6 DEF Types
  <2> HIDE DEF CInv
  <2> QED BY <2>1, <2>2, <2>3, <2>4, <2>5, <2>6, <2>7, CallBegins
<1>3. ASSUME NEW t \in 0 .. End, NewTime(t) PROVE CInv'
  <2>1. call' = [name |-> "new_time", timestamp |-> t] /\ call' \in Calls
    BY <1>3 DEF NewTime, Calls
  <2>2. /\ main = "idle" /\ UNCHANGED modelVars /\ MaybeFlush(aggregate, state')
        /\ currentTime # None => currentTime < t
        /\ UNCHANGED <<permits, queue, threadVars, futureVars, stored, submitted>>
    BY <1>3 DEF NewTime, modelVars
  <2>3. aggregate \in BOOLEAN /\ aggregate = (aggregate = (call'.name # "update"))
    BY <1>1, <2>1 DEF Types
  <2>4. \A u \in 0 .. End : history'[u] = IF currentTime = None \/ currentTime <= u THEN state' ELSE history[u]
    BY <2>2 DEF CInv, Progress, modelVars
  <2>5. state' \in [Datasets -> Values \cup {Unset}] /\ history' \in [0 .. End -> [Datasets -> Values \cup {Unset}]]
    BY <1>1, <2>2 DEF Types, modelVars
  <2> QED BY <2>1, <2>2, <2>3, <2>4, <2>5, CallBegins DEF modelVars
<1>4. ASSUME Close PROVE CInv'
  <2>1. call' = [name |-> "close"] /\ call' \in Calls
    BY <1>4 DEF Close, Calls
  <2>2. /\ main = "idle" /\ UNCHANGED modelVars /\ MaybeFlush(aggregate, state')
        /\ UNCHANGED <<permits, queue, threadVars, futureVars, stored, submitted>>
    BY <1>4 DEF Close, modelVars
  <2>3. aggregate \in BOOLEAN /\ aggregate = (aggregate = (call'.name # "update"))
    BY <1>1, <2>1 DEF Types
  <2>4. \A u \in 0 .. End : history'[u] = IF currentTime = None \/ currentTime <= u THEN state' ELSE history[u]
    BY <2>2 DEF CInv, Progress, modelVars
  <2>5. state' \in [Datasets -> Values \cup {Unset}] /\ history' \in [0 .. End -> [Datasets -> Values \cup {Unset}]]
    BY <1>1, <2>2 DEF Types, modelVars
  <2> QED BY <2>1, <2>2, <2>3, <2>4, <2>5, CallBegins DEF modelVars
<1> QED BY <1>2, <1>3, <1>4 DEF Called

\* The end of a flush: what it was for is reported, and the jobs so far tell the history up to
\* the next time.
LEMMA EndFlushKeeps == ASSUME CInv, ConstantsAssumption, EndFlush PROVE CInv'
<1>1. Types /\ Places /\ Callbacks /\ Permits /\ Numbers /\ Progress
  BY DEF CInv
<1>2. /\ main = "flush" /\ toSubmit = {} /\ main' \in {"idle", "wait"}
      /\ UNCHANGED <<aggregate, state, history, call, toSubmit, submitted, permits, queue,
                     threadVars, futureVars, stored>>
      /\ UNCHANGED <<job, phase, finished, errors>>
      /\ reported' = IF Triggered THEN state ELSE reported
  BY DEF EndFlush, Triggered, threadVars, futureVars
<1>3. \/ call.name = "new_time" /\ main' = "idle" /\ currentTime' = call.timestamp /\ iteration' = 0
      \/ call.name # "new_time" /\ UNCHANGED <<currentTime, iteration>>
  BY DEF EndFlush
<1>4. Places' /\ Callbacks' /\ Permits' /\ Jobs' = Jobs
  BY <1>2, PoolIsUntouched DEF Submitting
<1>5. call.name = "new_time" => call.timestamp \in 0 .. End /\ (currentTime = None \/ currentTime < call.timestamp)
  BY <1>1, <1>2 DEF Types, Calls, Progress, Flushing
<1>6. Types'
  BY <1>1, <1>2, <1>3, <1>5 DEF Types
<1>7. \A d \in Datasets : LastIs(Jobs, d, End, reported'[d])
  BY <1>1, <1>2 DEF Progress, Flushing
<1>8. /\ \A d \in Datasets : state[d] = Unset => reported'[d] = Unset
      /\ ~aggregate \/ call.name # "update" => reported' = state
  <2>1. ~Triggered /\ call.name # "update" => reported = state
    BY <1>1, <1>2 DEF Triggered, Progress, Flushing, Types
  <2>2. ~aggregate /\ call.name = "update" => Triggered
    BY <1>1 DEF Triggered, Types
  <2> QED BY <1>1, <1>2, <2>1, <2>2 DEF Progress
<1>9. ~Flushing' /\ main' # "closed" /\ (main' = "wait" => call.name = "close")
  BY <1>2 DEF Flushing, EndFlush
<1>10. Numbers'
  <2>1. currentTime' = None => currentTime' = currentTime /\ state = reported'
    BY <1>1, <1>2, <1>3, <1>5 DEF ConstantsAssumption, Numbers
  <2>2. currentTime' = None => UNCHANGED <<state, reported>>
    BY <1>1, <1>2, <2>1 DEF Numbers
  <2> QED BY <1>1, <1>2, <1>3, <1>4, <1>5, <2>2, JobsType, NumbersGoOn DEF Types, ConstantsAssumption
<1>11. \A t \in 0 .. End : currentTime' = None \/ currentTime' <= t => history[t] = state
  BY <1>1, <1>3, <1>5 DEF Progress, Types, ConstantsAssumption
<1>12. ASSUME NEW t \in 0 .. End, currentTime' # None, t < currentTime', NEW d \in Datasets
       PROVE  LastIs(Jobs, d, t, history[t][d])
  <2>1. CASE currentTime # None /\ t < currentTime
    BY <1>1, <2>1 DEF Progress
  <2>2. CASE currentTime = None \/ currentTime <= t
    <3>1. call.name = "new_time" /\ history[t] = state
      BY <1>1, <1>3, <1>12, <2>2 DEF Progress, Types, ConstantsAssumption
    <3>2. reported' = state
      BY <1>8, <3>1
    <3>3. LastIs(Jobs, d, End, history[t][d])
      BY <1>7, <3>1, <3>2
    <3>4. \A j \in Jobs : j.timestamp <= End /\ j.timestamp <= t
      BY <1>1, <2>2, JobsType DEF Numbers, Infos, Types, ConstantsAssumption
    <3> QED BY <3>3, <3>4, LastStays
  <2>3. currentTime = None \/ currentTime \in Nat
    BY <1>1 DEF Types
  <2> QED BY <2>1, <2>2, <2>3
<1>13. Progress'
  BY <1>2, <1>4, <1>7, <1>8, <1>9, <1>11, <1>12 DEF Progress
<1> QED BY <1>4, <1>6, <1>10, <1>13 DEF CInv

\* The collector closes when the pool is down.
LEMMA ClosingKeeps == ASSUME CInv, ConstantsAssumption, WaitForFutures \/ CloseStrategy PROVE CInv'
<1>1. Types /\ Places /\ Callbacks /\ Permits /\ Numbers /\ Progress
  BY DEF CInv
<1>2. /\ main \in {"wait", "shutdown"} /\ main' \in {"shutdown", "closed"}
      /\ UNCHANGED <<modelVars, call, toSubmit, submitted, permits, queue, threadVars, futureVars, stored>>
      /\ UNCHANGED <<job, phase, finished, errors, aggregate, state, reported, currentTime, iteration, history>>
      /\ main' = "closed" => queue = <<>> /\ \A w \in Threads : phase[w] = "idle"
  BY DEF WaitForFutures, CloseStrategy, PoolIsDown, threadVars, futureVars, modelVars
<1>3. Places' /\ Callbacks' /\ Permits' /\ Jobs' = Jobs
  BY <1>2, PoolIsUntouched DEF Submitting
<1>4. Types'
  BY <1>1, <1>2 DEF Types
<1>5. Numbers'
  BY <1>1, <1>2, <1>3, JobsType, NumbersGoOn DEF Types, ConstantsAssumption
<1>6. ~Flushing /\ ~Flushing' /\ main' # "idle" /\ reported = state
  BY <1>1, <1>2 DEF Flushing, Progress
<1>7. Progress'
  BY <1>1, <1>2, <1>3, <1>6 DEF Progress
<1> QED BY <1>3, <1>4, <1>5, <1>7 DEF CInv

-----------------------------------------------------------------------------
(* Permits.                                                                *)

\* A permit is for a job that waits or is being stored, or for one that is done while
\* its release has not run.
LEMMA PermitsKept ==
  ASSUME Permits, NEW a \in Int, NEW b \in Int, NEW c \in Int, NEW d \in Int,
         Types, Types', Held \in Nat, Held' \in Nat,
         a = Cardinality(In({"store"})), b = Cardinality(In({"release"})),
         c = Cardinality(In({"store"}))', d = Cardinality(In({"release"}))',
         permits' + Len(queue') + c + d + Held' = permits + Len(queue) + a + b + Held
  PROVE  Permits'
<1>1. permits + Len(queue) + a + b + Held = Cardinality(Threads)
  BY DEF Permits
<1>2. permits' + Len(queue') + c + d + Held' = Cardinality(Threads)
  BY <1>1
<1> QED BY <1>2 DEF Permits

\* A number of threads is a number.
LEMMA CountsOfThreads ==
  ASSUME ConstantsAssumption, NEW p
  PROVE  IsFiniteSet(In(p)) /\ Cardinality(In(p)) \in Nat
<1>1. In(p) \in SUBSET Threads
  BY DEF In
<1>2. IsFiniteSet(In(p))
  BY <1>1, FS_Subset DEF ConstantsAssumption
<1> QED BY <1>2, FS_CardinalityType

\* A thread goes on to phase p.
LEMMA PhaseChange ==
  ASSUME Types, ConstantsAssumption, NEW w \in Threads, NEW p \in {"idle", "store", "release", "record"},
         phase' = [phase EXCEPT ![w] = p], phase[w] # p, NEW q
  PROVE  Cardinality(In({q}))' = IF q = p THEN Cardinality(In({q})) + 1
                                 ELSE IF q = phase[w] THEN Cardinality(In({q})) - 1
                                 ELSE Cardinality(In({q}))
<1>1. IsFiniteSet(In({q}))
  BY CountsOfThreads
<1>2. CASE q = p
  <2>1. In({q})' = In({q}) \cup {w} /\ w \notin In({q})
    BY <1>2 DEF In, Types
  <2> QED BY <1>1, <1>2, <2>1, FS_AddElement
<1>3. CASE q = phase[w]
  <2>1. In({q})' = In({q}) \ {w} /\ w \in In({q})
    BY <1>3 DEF In, Types
  <2> QED BY <1>1, <1>3, <2>1, FS_RemoveElement
<1>4. CASE q # p /\ q # phase[w]
  <2>1. In({q})' = In({q})
    BY <1>4 DEF In, Types
  <2> QED BY <1>4, <2>1
<1> QED BY <1>2, <1>3, <1>4

-----------------------------------------------------------------------------
(* A submission and its callbacks.                                         *)

\* A job is new: its number has not been used at its time.
LEMMA SubmitKeeps == ASSUME CInv, ConstantsAssumption, NEW d \in Datasets, Submit(d) PROVE CInv'
<1>1. Types /\ Places /\ Callbacks /\ Permits /\ Numbers /\ Progress
  BY DEF CInv
<1> DEFINE new == [name |-> d, timestamp |-> currentTime, iteration |-> iteration, data |-> state[d]]
<1>2. /\ main = "flush" /\ d \in toSubmit /\ permits > 0 /\ permits' = permits - 1
      /\ submitted' = new /\ queue' = Append(queue, new) /\ iteration' = iteration + 1
      /\ toSubmit' = toSubmit \ {d} /\ main' = "submitted"
      /\ UNCHANGED <<aggregate, state, reported, currentTime, history, call, job, phase,
                     finished, errors, releasing, hooked, futs, exceptions, stored>>
  BY DEF Submit, FlushMoment, NextIteration, threadVars, futureVars
<1>3. Flushing /\ Triggered /\ currentTime \in 0 .. End /\ state[d] \in Values
  BY <1>1, <1>2 DEF Progress, Flushing, Types
<1>4. PICK info \in Infos : info = new
  BY <1>1, <1>3 DEF Infos, Types
<1>5. /\ info.name = d /\ info.timestamp = currentTime /\ info.iteration = iteration /\ info.data = state[d]
      /\ submitted' = info /\ queue' = Append(queue, info)
  BY <1>2, <1>4
<1> HIDE DEF new
<1>6. Jobs \subseteq Infos /\ info \notin Jobs
  BY <1>1, <1>3, <1>5, JobsType DEF Numbers, Types
<1>7. /\ Queued' = Queued \cup {info} /\ info \notin Queued
      /\ \A i, j \in DOMAIN queue' : queue'[i] = queue'[j] => i = j
  BY <1>1, <1>5, <1>6, QueuedAtTheEnd DEF Types, Jobs, Places
<1>8. /\ \A p : In(p)' = In(p) /\ \A W : JobsOf(W)' = JobsOf(W)
      /\ Jobs' = Jobs \cup {info}
  BY <1>2, <1>7 DEF In, JobsOf, Jobs
<1>9. Types'
  <2>1. queue' \in Seq(Infos)
    BY <1>1, <1>5, AppendProperties DEF Types
  <2> QED BY <1>1, <1>2, <2>1 DEF Types
<1>10. Places'
  <2>1. \A w \in In({"store"}) : job[w] \in Jobs
    BY DEF Jobs, JobsOf
  <2>2. info \notin finished /\ \A w \in In({"store"}) : job[w] # info
    BY <1>6, <2>1 DEF Jobs
  <2> QED BY <1>1, <1>2, <1>7, <1>8, <2>2 DEF Places
<1>11. Callbacks'
  <2>1. submitted = NoJob /\ info \notin hooked /\ info \notin releasing
    BY <1>1, <1>2, <1>6 DEF Callbacks, Submitting
  <2>2. NoJob \notin Infos
    <3> SUFFICES ASSUME NoJob \in Infos PROVE FALSE
      OBVIOUS
    <3>1. DOMAIN NoJob = {"name", "timestamp", "iteration", "data"}
      BY DEF Infos
    <3>2. DOMAIN NoJob = {"name"}
      BY DEF NoJob
    <3> QED BY <3>1, <3>2
  <2>3. \A j \in errors : j # NoJob
    BY <1>1, <2>2 DEF Types
  <2>4. Submitting' /\ Recording' = Recording
    BY <1>2, <1>8 DEF Submitting, Recording
  <2> QED BY <1>1, <1>2, <1>5, <1>8, <2>1, <2>2, <2>3, <2>4, <1>6 DEF Callbacks
<1>12. Permits'
  <2>1. In({"store"})' = In({"store"}) /\ In({"release"})' = In({"release"})
    BY <1>8
  <2>2. Len(queue') = Len(queue) + 1 /\ Len(queue) \in Nat
    BY <1>1, <1>5, AppendProperties DEF Types
  <2>3. Held = 0 /\ Held' = 0
    BY <1>2, <1>5, <1>6 DEF Held, Jobs
  <2>4. IsFiniteSet(In({"store"})) /\ IsFiniteSet(In({"release"}))
    BY FS_Subset DEF In, ConstantsAssumption
  <2>5. Cardinality(In({"store"})) \in Nat /\ Cardinality(In({"release"})) \in Nat
    BY <2>4, FS_CardinalityType
  <2>6. permits \in Nat
    BY <1>1 DEF Types
  <2> QED BY <1>1, <1>2, <2>1, <2>2, <2>3, <2>5, <2>6 DEF Permits
<1>13. Numbers'
  <2>1. \A j \in Jobs : j.timestamp \in Nat /\ j.iteration \in Nat
    BY <1>6 DEF Infos
  <2>2. iteration \in Nat /\ currentTime \in Nat
    BY <1>1, <1>3 DEF Types
  <2>3. \A j \in Jobs' : j.timestamp <= currentTime /\ (j.timestamp = currentTime => j.iteration < iteration + 1)
    BY <1>1, <1>5, <1>8, <2>1, <2>2 DEF Numbers
  <2>4. \A j \in Jobs : ~(j.timestamp = info.timestamp /\ j.iteration = info.iteration)
    BY <1>1, <1>5, <2>1, <2>2 DEF Numbers
  <2>5. \A i, j \in Jobs' : i.timestamp = j.timestamp /\ i.iteration = j.iteration => i = j
    BY <1>1, <1>8, <2>4 DEF Numbers
  <2>6. currentTime # None
    BY <1>3 DEF ConstantsAssumption
  <2> QED BY <1>1, <1>2, <2>3, <2>5, <2>6 DEF Numbers
<1>14. \A j \in Jobs : \/ j.timestamp < info.timestamp
                       \/ j.timestamp = info.timestamp /\ j.iteration <= info.iteration
  BY <1>1, <1>3, <1>5, <1>6 DEF Numbers, Infos, Types
<1>15. Progress'
  <2>1. Flushing' /\ Triggered' /\ main' = "submitted"
    BY <1>2, <1>3 DEF Flushing, Triggered
  <2>2. ASSUME NEW e \in Datasets
        PROVE  LastIs(Jobs', e, End, IF Flushing' /\ Triggered' /\ e \notin toSubmit' THEN state'[e] ELSE reported'[e])
    <3>1. End \in 0 .. End /\ info.timestamp <= End
      BY <1>3, <1>5 DEF ConstantsAssumption
    <3>2. CASE e = d
      <4>1. LastIs(Jobs \cup {info}, d, End, state[d])
        BY <1>4, <1>5, <1>6, <1>14, <3>1, LastOfMore
      <4> QED BY <1>2, <1>8, <2>1, <3>2, <4>1
    <3>3. CASE e # d
      <4>1. \A v : LastIs(Jobs \cup {info}, e, End, v) <=> LastIs(Jobs, e, End, v)
        BY <1>4, <1>5, <1>6, <1>14, <3>1, <3>3, LastOfMore
      <4>2. LastIs(Jobs, e, End, IF e \notin toSubmit THEN state[e] ELSE reported[e])
        BY <1>1, <1>3 DEF Progress
      <4> QED BY <1>2, <1>8, <2>1, <3>3, <4>1, <4>2
    <3> QED BY <3>2, <3>3
  <2>3. ASSUME NEW t \in 0 .. End, t < currentTime, NEW e \in Datasets
        PROVE  LastIs(Jobs', e, t, history[t][e])
    <3>1. \A v : LastIs(Jobs \cup {info}, e, t, v) <=> LastIs(Jobs, e, t, v)
      BY <1>4, <1>5, <1>6, <1>14, <2>3, LastOfMore
    <3>2. LastIs(Jobs, e, t, history[t][e])
      BY <1>1, <1>3, <2>3 DEF Progress, ConstantsAssumption
    <3> QED BY <1>8, <3>1, <3>2
  <2>4. currentTime # None
    BY <1>3 DEF ConstantsAssumption
  <2> QED BY <1>1, <1>2, <1>3, <2>1, <2>2, <2>3, <2>4 DEF Progress
<1> QED BY <1>9, <1>10, <1>11, <1>12, <1>13, <1>15 DEF CInv

\* When the jobs and the model's part stay as they are, so do numbers and progress.
LEMMA ProgressKept ==
  ASSUME Progress, Numbers, Jobs' = Jobs, UNCHANGED <<modelVars, call, toSubmit>>,
         \/ main' = main \/ (main = "submitted" /\ main' = "added")
         \/ main = "added" /\ main' = "flush",
         main = "closed" => queue' = queue /\ phase' = phase
  PROVE  /\ Progress'
         /\ UNCHANGED <<finished, errors, stored>> => Numbers'
<1>1. Flushing' = Flushing /\ Triggered' = Triggered
  BY DEF Flushing, Triggered, modelVars
<1>2. Progress'
  BY <1>1 DEF Progress, modelVars
<1>3. \A j : Key(j)' = Key(j)
  BY DEF Key
<1>4. UNCHANGED <<finished, errors, stored>> => Numbers'
  BY <1>3 DEF Numbers, modelVars
<1> QED BY <1>2, <1>4

\* The release callback of a job is added, or runs at once when the job is done.
LEMMA AddReleaseKeeps == ASSUME CInv, ConstantsAssumption, AddRelease PROVE CInv'
<1>1. Types /\ Places /\ Callbacks /\ Permits /\ Numbers /\ Progress
  BY DEF CInv
<1>2. /\ main = "submitted" /\ main' = "added"
      /\ UNCHANGED <<modelVars, call, toSubmit, submitted, queue, threadVars, finished, errors, hooked, futs,
                     exceptions, stored>>
      /\ UNCHANGED <<job, phase>>
      /\ submitted \in Jobs /\ submitted \notin hooked /\ submitted \notin releasing
      /\ IF submitted \in finished
         THEN permits' = permits + 1 /\ UNCHANGED releasing
         ELSE releasing' = releasing \cup {submitted} /\ UNCHANGED permits
  BY <1>1 DEF AddRelease, threadVars, Callbacks, Submitting
<1>3. /\ \A p : In(p)' = In(p) /\ \A W : JobsOf(W)' = JobsOf(W)
      /\ Queued' = Queued /\ Jobs' = Jobs
  BY <1>2 DEF In, JobsOf, Jobs, Queued
<1>4. Types'
  BY <1>1, <1>2 DEF Types, modelVars
<1>5. Places'
  BY <1>1, <1>2, <1>3 DEF Places
<1>6. Callbacks'
  <2>1. Submitting /\ Submitting' /\ Recording' = Recording
    BY <1>2, <1>3 DEF Submitting, Recording
  <2>2. \A j \in Jobs \ finished : j \in hooked \/ j = submitted
    BY <1>1 DEF Callbacks
  <2>3. hooked \subseteq releasing' /\ releasing' \subseteq Jobs
    BY <1>1, <1>2 DEF Callbacks
  <2>4. \A j \in Jobs \ finished : j \in releasing'
    BY <1>2, <2>2, <2>3
  <2> QED BY <1>1, <1>2, <1>3, <2>1, <2>3, <2>4 DEF Callbacks
<1>7. Permits'
  <2>1. /\ permits \in Nat
        /\ \/ permits' = permits + 1 /\ Held = 1 /\ Held' = 0
           \/ permits' = permits /\ Held = 0 /\ Held' = 0
    BY <1>1, <1>2 DEF Held, Types
  <2>2. In({"store"})' = In({"store"}) /\ In({"release"})' = In({"release"}) /\ Len(queue) \in Nat
    BY <1>1, <1>3 DEF Types
  <2>3. Cardinality(In({"store"})) \in Nat /\ Cardinality(In({"release"})) \in Nat
    BY CountsOfThreads
  <2>4. /\ Cardinality(In({"store"}))' = Cardinality(In({"store"}))
        /\ Cardinality(In({"release"}))' = Cardinality(In({"release"}))
    BY <2>2
  <2>5. Len(queue') = Len(queue) /\ Len(queue) \in Nat
    BY <1>1, <1>2 DEF Types
  <2>6. permits' + Len(queue') + Cardinality(In({"store"}))' + Cardinality(In({"release"}))' + Held'
          = permits + Len(queue) + Cardinality(In({"store"})) + Cardinality(In({"release"})) + Held
    BY <2>1, <2>3, <2>4, <2>5
  <2>7. Held \in Nat /\ Held' \in Nat
    BY <2>1
  <2>8. Cardinality(In({"store"}))' \in Nat /\ Cardinality(In({"release"}))' \in Nat
    BY <2>3, <2>4
  <2> QED BY <1>1, <1>4, <2>3, <2>6, <2>7, <2>8, PermitsKept
<1>8. Progress' /\ Numbers'
  BY <1>1, <1>2, <1>3, ProgressKept
<1> QED BY <1>4, <1>5, <1>6, <1>7, <1>8 DEF CInv

\* The record callback of a job is added, or runs at once when the job is done.
LEMMA AddRecordKeeps == ASSUME CInv, ConstantsAssumption, AddRecord PROVE CInv'
<1>1. Types /\ Places /\ Callbacks /\ Permits /\ Numbers /\ Progress
  BY DEF CInv
<1>2. /\ main = "added" /\ submitted' = NoJob /\ main' = "flush"
      /\ UNCHANGED <<modelVars, call, toSubmit, permits, queue, threadVars, finished, errors, releasing, stored>>
      /\ UNCHANGED <<job, phase>>
      /\ submitted \in Jobs /\ submitted \notin hooked
      /\ submitted \notin finished => submitted \in releasing
      /\ IF submitted \in finished
         THEN exceptions' = exceptions \cup ({submitted} \cap errors) /\ UNCHANGED <<futs, hooked>>
         ELSE /\ futs' = futs \cup {submitted} /\ hooked' = hooked \cup {submitted}
              /\ UNCHANGED exceptions
  BY <1>1 DEF AddRecord, threadVars, Callbacks, Submitting
<1>3. /\ \A p : In(p)' = In(p) /\ \A W : JobsOf(W)' = JobsOf(W)
      /\ Queued' = Queued /\ Jobs' = Jobs
  BY <1>2 DEF In, JobsOf, Jobs, Queued
<1>4. Types'
  BY <1>1, <1>2 DEF Types, modelVars
<1>5. Places'
  BY <1>1, <1>2, <1>3 DEF Places
<1>6. Callbacks'
  <2>1. ~Submitting' /\ main # "submitted" /\ main' # "submitted"
    BY <1>2 DEF Submitting
  <2>2. JobsOf(In({"release", "record"})) \subseteq finished
    BY <1>1 DEF Places, JobsOf
  <2>3. Recording' = Recording
    BY <1>2, <1>3, <2>2 DEF Recording
  <2>4. CASE submitted \in finished
    BY <1>1, <1>2, <1>3, <2>1, <2>3, <2>4 DEF Callbacks
  <2>5. CASE submitted \notin finished
    BY <1>1, <1>2, <1>3, <2>1, <2>3, <2>5 DEF Callbacks, Types
  <2> QED BY <2>4, <2>5
<1>7. Permits'
  <2>1. Held = 0 /\ Held' = 0
    BY <1>2 DEF Held
  <2>2. In({"store"})' = In({"store"}) /\ In({"release"})' = In({"release"})
    BY <1>3
  <2> QED BY <1>1, <1>2, <2>1, <2>2 DEF Permits
<1>8. Progress' /\ Numbers'
  BY <1>1, <1>2, <1>3, ProgressKept
<1> QED BY <1>4, <1>5, <1>6, <1>7, <1>8 DEF CInv

-----------------------------------------------------------------------------
(* The threads of the pool.                                                *)

\* A thread takes the first job of the queue.
LEMMA TakeKeeps == ASSUME CInv, ConstantsAssumption, NEW w \in Threads, Take(w) PROVE CInv'
<1>1. Types /\ Places /\ Callbacks /\ Permits /\ Numbers /\ Progress
  BY DEF CInv
<1>2. /\ phase[w] = "idle" /\ queue # <<>> /\ queue' = Tail(queue)
      /\ job' = [job EXCEPT ![w] = Head(queue)] /\ phase' = [phase EXCEPT ![w] = "store"]
      /\ UNCHANGED <<modelVars, mainVars, permits, finished, errors, releasing, hooked, futs, exceptions, stored>>
      /\ UNCHANGED <<main, call, toSubmit, submitted>>
  BY DEF Take, futureVars, mainVars
<1>3. PICK first \in Infos : first = Head(queue)
  BY <1>1, <1>2, HeadTailProperties DEF Types
<1>4. /\ Queued' = Queued \ {first} /\ first \in Queued
      /\ \A i, j \in DOMAIN queue' : queue'[i] = queue'[j] => i = j
  BY <1>1, <1>2, <1>3, DequeuedFirst DEF Types, Places
<1>5. /\ In({"store"})' = In({"store"}) \cup {w} /\ w \notin In({"store"})
      /\ In({"release", "record"})' = In({"release", "record"}) /\ w \notin In({"release", "record"})
      /\ In({"store", "release", "record"})' = In({"store", "release", "record"}) \cup {w}
      /\ w \notin In({"store", "release", "record"})
  BY <1>1, <1>2 DEF In, Types
<1>6. job'[w] = first /\ \A v \in Threads \ {w} : job'[v] = job[v]
  BY <1>1, <1>2, <1>3 DEF Types
<1>7. /\ JobsOf(In({"store"}))' = JobsOf(In({"store"})) \cup {first}
      /\ JobsOf(In({"release", "record"}))' = JobsOf(In({"release", "record"}))
  <2>1. \A p : In(p) \subseteq Threads
    BY DEF In
  <2> QED BY <1>5, <1>6, <2>1 DEF JobsOf
<1>8. Jobs' = Jobs
  BY <1>2, <1>4, <1>7 DEF Jobs
<1>9. Types'
  <2>1. queue' \in Seq(Infos)
    BY <1>1, <1>2, HeadTailProperties DEF Types
  <2> QED BY <1>1, <1>2, <1>3, <2>1 DEF Types, modelVars
<1>10. Places'
  <2>1. first \notin finished /\ first \notin Queued' /\ first \in Infos
    BY <1>1, <1>3, <1>4 DEF Places
  <2>2. \A v \in In({"store"}) : job'[v] = job[v] /\ job[v] # first
    BY <1>1, <1>4, <1>5, <1>6 DEF Places, In
  <2>3. \A v \in In({"release", "record"}) : job'[v] = job[v] /\ job[v] # first
    BY <1>1, <1>5, <1>6, <2>1 DEF Places, In
  <2>4. \A v \in In({"store", "release", "record"}) : job'[v] = job[v] /\ job[v] # first
    BY <2>2, <2>3 DEF In
  <2>5. \A v \in In({"store"})' : job'[v] \in Infos /\ job'[v] \notin finished /\ job'[v] \notin Queued'
    BY <1>1, <1>4, <1>5, <1>6, <2>1, <2>2 DEF Places
  <2>6. \A v, u \in In({"store", "release", "record"})' : job'[v] = job'[u] => v = u
    BY <1>1, <1>5, <1>6, <2>4 DEF Places
  <2>7. \A v \in In({"release", "record"})' : job'[v] \in finished
    BY <1>1, <1>5, <2>3 DEF Places
  <2> QED BY <1>1, <1>2, <1>4, <2>5, <2>6, <2>7 DEF Places
<1>11. Callbacks'
  <2>1. Recording' = Recording /\ Submitting' = Submitting
    BY <1>2, <1>7 DEF Recording, Submitting
  <2> QED BY <1>1, <1>2, <1>8, <2>1 DEF Callbacks
<1>12. Permits'
  <2>1. Len(queue') = Len(queue) - 1 /\ Len(queue) \in Nat
    BY <1>1, <1>2, HeadTailProperties DEF Types
  <2>2. Cardinality(In({"store"}))' = Cardinality(In({"store"})) + 1
    BY <1>1, <1>2, PhaseChange
  <2>3. Cardinality(In({"release"}))' = Cardinality(In({"release"}))
    BY <1>1, <1>2, PhaseChange
  <2>4. Held' = Held /\ Held \in Nat /\ permits' = permits /\ permits \in Nat
    BY <1>1, <1>2 DEF Held, Types
  <2>5. Cardinality(In({"store"})) \in Nat /\ Cardinality(In({"release"})) \in Nat
    BY CountsOfThreads
  <2> QED BY <1>1, <1>9, <2>1, <2>2, <2>3, <2>4, <2>5, PermitsKept
<1>13. Progress' /\ Numbers'
  <2>1. main = "closed" => queue = <<>>
    BY <1>1 DEF Progress
  <2> QED BY <1>1, <1>2, <1>8, <2>1, ProgressKept
<1> QED BY <1>9, <1>10, <1>11, <1>12, <1>13 DEF CInv

\* A thread stores its job, or fails to: the job is done, and its callbacks run in the thread
\* when they have been added.
LEMMA StoreKeeps ==
  ASSUME CInv, ConstantsAssumption, NEW w \in Threads, NEW raised \in BOOLEAN, Store(w, raised)
  PROVE  CInv' /\ KeepsWhatIsStored
<1>1. Types /\ Places /\ Callbacks /\ Permits /\ Numbers /\ Progress
  BY DEF CInv
<1> DEFINE p == IF job[w] \in releasing THEN "release" ELSE "idle"
<1>2. /\ phase[w] = "store" /\ phase' = [phase EXCEPT ![w] = p]
      /\ stored' = IF raised THEN stored
                   ELSE [k \in DOMAIN stored \cup {Key(job[w])} |->
                           IF k = Key(job[w]) THEN job[w].data ELSE stored[k]]
      /\ finished' = finished \cup {job[w]}
      /\ errors' = IF raised THEN errors \cup {job[w]} ELSE errors
      /\ job' = IF p = "idle" THEN [job EXCEPT ![w] = NoJob] ELSE job
      /\ UNCHANGED <<modelVars, mainVars, permits, queue, releasing, hooked, futs, exceptions>>
      /\ UNCHANGED <<main, call, toSubmit, submitted>>
  BY <1>1 DEF Store, AfterStore, mainVars, Types
<1>3. w \in In({"store"}) /\ p \in {"release", "idle"}
  BY <1>2 DEF In
<1>4. PICK own \in Infos : own = job[w]
  BY <1>1, <1>3 DEF Places
<1>5. own \notin finished /\ own \notin Queued /\ own \in Jobs
  BY <1>1, <1>3, <1>4 DEF Places, Jobs, JobsOf
<1>6. /\ \/ p = "release" /\ own \in releasing /\ (main = "submitted" => own # submitted)
         \/ p = "idle" /\ own \notin hooked /\ own = submitted /\ main = "submitted"
      /\ own \in hooked \/ own = submitted
  <2>1. own # NoJob
    <3>1. "timestamp" \in DOMAIN own
      BY DEF Infos
    <3>2. "timestamp" \notin DOMAIN NoJob
      BY DEF NoJob
    <3> QED BY <3>1, <3>2
  <2> QED BY <1>1, <1>4, <1>5, <2>1 DEF Callbacks
<1> HIDE DEF p
<1>7. /\ In({"store"})' = In({"store"}) \ {w} /\ w \notin In({"release", "record"})
      /\ In({"release", "record"})' = IF p = "release" THEN In({"release", "record"}) \cup {w}
                                      ELSE In({"release", "record"})
      /\ In({"store", "release", "record"})' \subseteq In({"store", "release", "record"})
      /\ In({"store"}) \subseteq In({"store", "release", "record"})
      /\ In({"release", "record"}) \subseteq In({"store", "release", "record"})
  BY <1>1, <1>2, <1>3 DEF In, Types
<1>8. /\ \A v \in Threads \ {w} : job'[v] = job[v]
      /\ p = "release" => job'[w] = own
  BY <1>1, <1>2, <1>4, <1>6 DEF Types
<1>9. Queued' = Queued
  BY <1>2 DEF Queued
<1>10. \A v \in In({"store", "release", "record"}) : v # w => job[v] # own
  BY <1>1, <1>3, <1>4, <1>7 DEF Places
<1>11. JobsOf(In({"store"}))' = JobsOf(In({"store"})) \ {own}
  <2>1. \A v \in In({"store"}) : v \in Threads /\ (v # w => job[v] # own)
    BY <1>7, <1>10 DEF In
  <2> QED BY <1>4, <1>7, <1>8, <2>1 DEF JobsOf
<1>12. JobsOf(In({"release", "record"}))' =
         IF p = "release" THEN JobsOf(In({"release", "record"})) \cup {own} ELSE JobsOf(In({"release", "record"}))
  <2>1. \A v \in In({"release", "record"}) : v \in Threads \ {w}
    BY <1>7 DEF In
  <2> QED BY <1>7, <1>8, <2>1 DEF JobsOf
<1>13. finished' = finished \cup {own} /\ Jobs' = Jobs
  <2>1. own \in JobsOf(In({"store"}))
    BY <1>3, <1>4 DEF JobsOf
  <2> QED BY <1>2, <1>4, <1>9, <1>11, <2>1 DEF Jobs
<1>14. Types'
  <2>1. job' \in [Threads -> Infos \cup {NoJob}] /\ phase' \in [Threads -> {"idle", "store", "release", "record"}]
    BY <1>1, <1>2, <1>3 DEF Types
  <2> QED BY <1>1, <1>2, <1>4, <1>13, <2>1 DEF Types, modelVars
<1>15. Places'
  <2>1. \A v \in In({"store"})' : job'[v] \in Infos /\ job'[v] \notin finished' /\ job'[v] \notin Queued'
    <3>1. \A v \in In({"store"})' : v \in In({"store"}) /\ v \in Threads \ {w} /\ job[v] # own
      BY <1>7, <1>10 DEF In
    <3> QED BY <1>1, <1>8, <1>9, <1>13, <3>1 DEF Places
  <2>2. \A v \in In({"release", "record"}) : job'[v] = job[v]
    BY <1>7, <1>8 DEF In
  <2>3. \A v \in In({"release", "record"})' : job'[v] \in finished'
    BY <1>1, <1>2, <1>6, <1>7, <1>8, <1>13, <2>2 DEF Places
  <2>4. \A v \in In({"store", "release", "record"})' :
          v \in In({"store", "release", "record"}) /\ job'[v] = job[v]
    <3>1. w \in In({"store", "release", "record"})' => p = "release"
      BY <1>1, <1>2, <1>6 DEF In, Types
    <3>2. \A v \in In({"store", "release", "record"})' : v = w \/ v \in Threads \ {w}
      BY DEF In
    <3> QED BY <1>4, <1>7, <1>8, <3>1, <3>2
  <2>5. \A v, u \in In({"store", "release", "record"})' : job'[v] = job'[u] => v = u
    BY <1>1, <2>4 DEF Places
  <2>6. Queued' \cap finished' = {}
    BY <1>1, <1>5, <1>9, <1>13 DEF Places
  <2>7. \A i, j \in DOMAIN queue' : queue'[i] = queue'[j] => i = j
    BY <1>1, <1>2 DEF Places
  <2> QED BY <2>1, <2>3, <2>5, <2>6, <2>7 DEF Places
<1>16. Callbacks'
  <2>1. errors' \subseteq errors \cup {own} /\ exceptions' = exceptions /\ errors \subseteq errors'
    BY <1>2, <1>4
  <2>5. Recording' = IF own \in hooked THEN Recording \cup {own} ELSE Recording
    BY <1>2, <1>6, <1>12 DEF Recording
  <2>6. Submitting' = Submitting
    BY <1>2 DEF Submitting
  <2>2. futs' = (hooked' \ finished') \cup Recording'
    BY <1>1, <1>2, <1>5, <1>13, <2>5 DEF Callbacks
  <2>3. \A j \in errors' \ exceptions' : j = submitted' \/ j \in Recording'
    BY <1>1, <1>2, <1>6, <2>1, <2>5 DEF Callbacks
  <2>4. \A j \in Jobs' \ finished' : j \in hooked' \/ j = submitted'
    BY <1>1, <1>2, <1>13 DEF Callbacks
  <2> QED BY <1>1, <1>2, <1>13, <2>1, <2>2, <2>3, <2>4, <2>6 DEF Callbacks
<1>17. Permits'
  <2>1. Len(queue') = Len(queue) /\ Len(queue) \in Nat /\ permits' = permits /\ permits \in Nat
    BY <1>1, <1>2 DEF Types
  <2>2. Cardinality(In({"store"}))' = Cardinality(In({"store"})) - 1
    BY <1>1, <1>2, <1>3, PhaseChange
  <2>3. Cardinality(In({"release"}))' = IF p = "release" THEN Cardinality(In({"release"})) + 1
                                        ELSE Cardinality(In({"release"}))
    BY <1>1, <1>2, <1>3, PhaseChange
  <2>4. Cardinality(In({"store"})) \in Nat /\ Cardinality(In({"release"})) \in Nat
    BY CountsOfThreads
  <2>5. Held \in Nat /\ Held' = IF p = "release" THEN Held ELSE Held + 1
    BY <1>2, <1>5, <1>6, <1>13 DEF Held
  <2>6. permits' + Len(queue') + Cardinality(In({"store"}))' + Cardinality(In({"release"}))' + Held'
          = permits + Len(queue) + Cardinality(In({"store"})) + Cardinality(In({"release"})) + Held
    BY <2>1, <2>2, <2>3, <2>4, <2>5
  <2>7. Held' \in Nat /\ Cardinality(In({"store"}))' \in Int /\ Cardinality(In({"release"}))' \in Int
    BY <2>2, <2>3, <2>4, <2>5
  <2> QED BY <1>1, <1>14, <2>4, <2>5, <2>6, <2>7, PermitsKept
<1>18. Progress'
  <2>1. main # "closed"
    BY <1>1, <1>2 DEF Progress
  <2> QED BY <1>1, <1>2, <1>13, <2>1, ProgressKept
<1>19. \A j \in finished : Key(j) # Key(own)
  <2>1. \A j \in finished : j \in Jobs /\ j # own
    BY <1>5 DEF Jobs
  <2> QED BY <1>1, <1>5, <2>1 DEF Numbers, Key
<1>20. Key(own) \notin DOMAIN stored
  BY <1>1, <1>19 DEF Numbers
<1>21. \A k \in DOMAIN stored : k \in DOMAIN stored' /\ stored'[k] = stored[k]
  BY <1>2, <1>4, <1>20
<1>22. KeepsWhatIsStored
  <2>1. ASSUME NEW v \in Threads, phase[v] = "store", phase'[v] # "store" PROVE v = w
    BY <1>1, <1>2, <2>1 DEF Types
  <2> QED BY <1>4, <1>20, <1>21, <2>1 DEF KeepsWhatIsStored
<1>23. Numbers'
  <2>1. \A j : Key(j)' = Key(j)
    BY DEF Key
  <2>2. CASE raised
    <3>1. finished' \ errors' = finished \ errors
      BY <1>1, <1>2, <1>4, <1>5, <2>2 DEF Types
    <3> QED BY <1>1, <1>2, <1>13, <2>1, <2>2, <3>1 DEF Numbers, modelVars
  <2>3. CASE ~raised
    <3>1. /\ finished' \ errors' = (finished \ errors) \cup {own}
          /\ DOMAIN stored' = DOMAIN stored \cup {Key(own)} /\ stored'[Key(own)] = own.data
      BY <1>1, <1>2, <1>4, <1>5, <2>3 DEF Types
    <3>2. DOMAIN stored' = {Key(j) : j \in finished' \ errors'}
      BY <1>1, <3>1 DEF Numbers
    <3>3. \A j \in finished' \ errors' : stored'[Key(j)] = j.data
      BY <1>1, <1>21, <3>1 DEF Numbers
    <3> QED BY <1>1, <1>2, <1>13, <2>1, <3>2, <3>3 DEF Numbers, modelVars
  <2> QED BY <2>2, <2>3
<1> QED BY <1>14, <1>15, <1>16, <1>17, <1>18, <1>22, <1>23 DEF CInv

\* A thread gives the permit of its job back.
LEMMA ReleaseKeeps == ASSUME CInv, ConstantsAssumption, NEW w \in Threads, Release(w) PROVE CInv'
<1>1. Types /\ Places /\ Callbacks /\ Permits /\ Numbers /\ Progress
  BY DEF CInv
<1>2. /\ phase[w] = "release" /\ permits' = permits + 1
      /\ phase' = [phase EXCEPT ![w] = "record"]
      /\ UNCHANGED <<modelVars, queue, job, finished, errors, releasing, hooked, futs, exceptions, stored>>
      /\ UNCHANGED <<main, call, toSubmit, submitted>>
  BY DEF Release, futureVars, mainVars
<1>3. /\ In({"store"})' = In({"store"})
      /\ In({"release", "record"})' = In({"release", "record"})
      /\ In({"store", "release", "record"})' = In({"store", "release", "record"})
  BY <1>1, <1>2 DEF In, Types
<1>4. /\ Queued' = Queued /\ JobsOf(In({"store"}))' = JobsOf(In({"store"}))
      /\ JobsOf(In({"release", "record"}))' = JobsOf(In({"release", "record"}))
  BY <1>2, <1>3 DEF Queued, JobsOf
<1>5. Jobs' = Jobs
  BY <1>2, <1>4 DEF Jobs
<1>6. Types'
  BY <1>1, <1>2 DEF Types, modelVars
<1>7. Places'
  BY <1>1, <1>2, <1>3, <1>4 DEF Places
<1>8. Callbacks'
  <2>1. Recording' = Recording /\ Submitting' = Submitting
    BY <1>2, <1>4 DEF Recording, Submitting
  <2> QED BY <1>1, <1>2, <1>5, <2>1 DEF Callbacks
<1>9. Permits'
  <2>1. Cardinality(In({"release"}))' = Cardinality(In({"release"})) - 1
    BY <1>1, <1>2, PhaseChange
  <2>2. Cardinality(In({"store"}))' = Cardinality(In({"store"}))
    BY <1>3
  <2>3. Cardinality(In({"store"})) \in Nat /\ Cardinality(In({"release"})) \in Nat
    BY CountsOfThreads
  <2>4. Len(queue') = Len(queue) /\ Len(queue) \in Nat /\ permits \in Nat
    BY <1>1, <1>2 DEF Types
  <2>5. Held' = Held /\ Held \in Nat
    BY <1>2 DEF Held
  <2>6. permits' + Len(queue') + Cardinality(In({"store"}))' + Cardinality(In({"release"}))' + Held'
          = permits + Len(queue) + Cardinality(In({"store"})) + Cardinality(In({"release"})) + Held
    BY <1>2, <2>1, <2>2, <2>3, <2>4, <2>5
  <2>7. Cardinality(In({"store"}))' \in Int /\ Cardinality(In({"release"}))' \in Int
    BY <2>1, <2>2, <2>3
  <2> QED BY <1>1, <1>6, <2>3, <2>5, <2>6, <2>7, PermitsKept
<1>10. Progress' /\ Numbers'
  <2>1. main # "closed"
    BY <1>1, <1>2 DEF Progress
  <2> QED BY <1>1, <1>2, <1>5, <2>1, ProgressKept
<1> QED BY <1>6, <1>7, <1>8, <1>9, <1>10 DEF CInv

\* A thread drops the future of its job, and keeps its exception.
LEMMA RecordKeeps == ASSUME CInv, ConstantsAssumption, NEW w \in Threads, Record(w) PROVE CInv'
<1>1. Types /\ Places /\ Callbacks /\ Permits /\ Numbers /\ Progress
  BY DEF CInv
<1>2. /\ phase[w] = "record" /\ phase' = [phase EXCEPT ![w] = "idle"]
      /\ job' = [job EXCEPT ![w] = NoJob]
      /\ futs' = futs \ {job[w]} /\ exceptions' = exceptions \cup ({job[w]} \cap hooked \cap errors)
      /\ UNCHANGED <<modelVars, permits, queue, finished, errors, releasing, hooked, stored>>
      /\ UNCHANGED <<main, call, toSubmit, submitted>>
  BY DEF Record, mainVars
<1>3. /\ In({"store"})' = In({"store"}) /\ w \notin In({"store"})
      /\ In({"release", "record"})' = In({"release", "record"}) \ {w} /\ w \in In({"release", "record"})
      /\ In({"store", "release", "record"})' = In({"store", "release", "record"}) \ {w}
      /\ In({"release", "record"}) \subseteq In({"store", "release", "record"})
      /\ In({"store", "release", "record"}) \subseteq Threads
  BY <1>1, <1>2 DEF In, Types
<1>4. PICK own \in Infos : own = job[w] /\ own \in finished
  BY <1>1, <1>3 DEF Places, Types
<1>5. \A v \in Threads \ {w} : job'[v] = job[v]
  BY <1>1, <1>2 DEF Types
<1>6. In({"store"}) \subseteq Threads \ {w} /\ In({"release", "record"}) \ {w} \subseteq Threads \ {w}
  BY <1>3 DEF In
<1>7. JobsOf(In({"store"}))' = JobsOf(In({"store"}))
  BY <1>3, <1>5, <1>6 DEF JobsOf
<1>8. JobsOf(In({"release", "record"}))' = JobsOf(In({"release", "record"})) \ {own}
  <2>1. \A v \in In({"release", "record"}) \ {w} : job[v] # own /\ job'[v] = job[v]
    BY <1>1, <1>3, <1>4, <1>5, <1>6 DEF Places
  <2> QED BY <1>3, <1>4, <2>1 DEF JobsOf
<1>9. Queued' = Queued /\ Jobs' = Jobs
  BY <1>2, <1>7 DEF Jobs, Queued
<1>10. Types'
  BY <1>1, <1>2 DEF Types, modelVars
<1>11. Places'
  BY <1>1, <1>2, <1>3, <1>5, <1>6, <1>9 DEF Places
<1>12. Callbacks'
  <2>4. Recording' = Recording \ {own} /\ Submitting' = Submitting
    BY <1>2, <1>8 DEF Recording, Submitting
  <2>1. futs' = (hooked' \ finished') \cup Recording'
    BY <1>1, <1>2, <1>4, <2>4 DEF Callbacks
  <2>2. \A j \in errors' \ exceptions' : j = submitted' \/ j \in Recording'
    <3>1. \A j \in errors \ exceptions : j = submitted \/ j \in Recording
      BY <1>1 DEF Callbacks
    <3>2. own \in Recording /\ own \in errors => own \in exceptions'
      BY <1>2, <1>4 DEF Recording
    <3> QED BY <1>2, <2>4, <3>1, <3>2
  <2>3. exceptions' \subseteq errors'
    BY <1>1, <1>2 DEF Callbacks
  <2> QED BY <1>1, <1>2, <1>9, <2>1, <2>2, <2>3, <2>4 DEF Callbacks
<1>13. Permits'
  <2>1. In({"release"})' = In({"release"})
    BY <1>1, <1>2 DEF In, Types
  <2>2. Held' = Held
    BY <1>2 DEF Held
  <2> QED BY <1>1, <1>2, <1>3, <2>1, <2>2 DEF Permits
<1>14. Progress' /\ Numbers'
  <2>1. main # "closed"
    BY <1>1, <1>2 DEF Progress
  <2> QED BY <1>1, <1>2, <1>9, <2>1, ProgressKept
<1> QED BY <1>10, <1>11, <1>12, <1>13, <1>14 DEF CInv

-----------------------------------------------------------------------------
(* The invariant.                                                          *)

\* The invariant holds before the first call.
LEMMA InitHolds == ASSUME Init, ConstantsAssumption PROVE CInv
<1>1. Types
  <2>1. Cardinality(Threads) \in Nat
    BY FS_CardinalityType DEF ConstantsAssumption
  <2>2. queue \in Seq(Infos)
    BY EmptySeq DEF Init
  <2>3. state \in [Datasets -> Values \cup {Unset}] /\ reported \in [Datasets -> Values \cup {Unset}]
    BY DEF Init
  <2>4. history \in [0 .. End -> [Datasets -> Values \cup {Unset}]]
    BY <2>3 DEF Init
  <2>5. call \in Calls /\ aggregate \in BOOLEAN /\ iteration \in Nat /\ currentTime \in 0 .. End \cup {None}
    BY DEF Init, Calls, ConstantsAssumption
  <2>6. job \in [Threads -> Infos \cup {NoJob}] /\ phase \in [Threads -> {"idle", "store", "release", "record"}]
    BY DEF Init
  <2> QED BY <2>1, <2>2, <2>3, <2>4, <2>5, <2>6 DEF Init, Types
<1>2. Queued = {} /\ \A p : "idle" \notin p => In(p) = {} /\ JobsOf(In(p)) = {}
  BY DEF Init, Queued, In, JobsOf
<1>3. Jobs = {}
  BY <1>2 DEF Jobs, Init
<1>4. Places /\ Callbacks
  BY <1>2, <1>3 DEF Init, Places, Callbacks, Recording, Submitting
<1>5. Permits
  <2>1. In({"store"}) = {} /\ In({"release"}) = {} /\ Len(queue) = 0 /\ Held = 0
    BY <1>2 DEF Init, Held
  <2>2. Cardinality(Threads) \in Nat /\ permits = Cardinality(Threads)
    BY FS_CardinalityType DEF Init, ConstantsAssumption
  <2>3. Cardinality({}) = 0
    BY FS_EmptySet
  <2>4. permits + 0 + 0 + 0 + 0 = Cardinality(Threads)
    BY <2>2
  <2> QED BY <2>1, <2>3, <2>4 DEF Permits
<1>6. Numbers
  BY <1>3 DEF Init, Numbers
<1>7. Progress
  <2>1. \A d \in Datasets, t \in 0 .. End : LastIs(Jobs, d, t, Unset)
    BY <1>3 DEF LastIs
  <2>2. \A d \in Datasets : LastIs(Jobs, d, End, Unset)
    BY <1>3 DEF LastIs
  <2> QED BY <2>1, <2>2 DEF Init, Progress, Flushing
<1> QED BY <1>1, <1>4, <1>5, <1>6, <1>7 DEF CInv

\* Nothing happens.
LEMMA StutterKeeps == ASSUME CInv, UNCHANGED vars PROVE CInv'
<1>1. UNCHANGED <<aggregate, state, reported, currentTime, iteration, history, main, call, toSubmit, submitted,
                  permits, queue, job, phase, finished, errors, releasing, hooked, futs, exceptions, stored>>
  BY DEF vars, modelVars, mainVars, threadVars, futureVars
<1>2. Queued' = Queued /\ (\A p : In(p)' = In(p)) /\ (\A W : JobsOf(W)' = JobsOf(W)) /\ Held' = Held
      /\ Jobs' = Jobs /\ Flushing' = Flushing /\ Triggered' = Triggered
      /\ Recording' = Recording /\ Submitting' = Submitting
  BY <1>1 DEF Recording, Submitting, Queued, In, JobsOf, Held, Jobs, Flushing, Triggered
<1>3. Types' /\ Places' /\ Callbacks' /\ Permits'
  BY <1>1, <1>2 DEF CInv, Types, Places, Callbacks, Permits
<1>4. Numbers' /\ Progress'
  BY <1>1, <1>2, ProgressKept DEF CInv, modelVars
<1> QED BY <1>3, <1>4 DEF CInv

\* Every step keeps the invariant.
LEMMA NextKeeps == ASSUME CInv, ConstantsAssumption, [Next]_vars PROVE CInv'
<1>1. CASE Called
  BY <1>1, CalledKeeps
<1>2. CASE Continue
  BY <1>2, SubmitKeeps, AddReleaseKeeps, AddRecordKeeps, EndFlushKeeps, ClosingKeeps DEF Continue
<1>3. ASSUME NEW w \in Threads, Thread(w) PROVE CInv'
  BY <1>3, TakeKeeps, StoreKeeps, ReleaseKeeps, RecordKeeps DEF Thread
<1>4. CASE UNCHANGED vars
  BY <1>4, StutterKeeps
<1> QED BY <1>1, <1>2, <1>3, <1>4 DEF Next

\* CInv is an invariant of the collector.
LEMMA CInvHolds == ASSUME ConstantsAssumption PROVE Spec => []CInv
<1>1. Init => CInv
  BY InitHolds
<1>2. CInv /\ [Next]_vars => CInv'
  BY NextKeeps
<1> QED BY <1>1, <1>2, PTL DEF Spec

-----------------------------------------------------------------------------
(* What the collector promises.                                            *)

\* A job is not NoJob.
LEMMA JobsAreJobs == NoJob \notin Infos
<1> SUFFICES ASSUME NoJob \in Infos PROVE FALSE
  OBVIOUS
<1>1. "timestamp" \in DOMAIN NoJob
  BY DEF Infos
<1> QED BY <1>1 DEF NoJob

\* The submission of LimitedThreadPoolExecutor blocks while all threads are busy: at no time
\* do more jobs wait or get stored than there are threads, though the permit of a job is given
\* back by whoever runs its callback.
THEOREM SubmissionIsLimited == ASSUME ConstantsAssumption PROVE Spec => []NoMoreJobsThanThreads
<1>1. CInv => NoMoreJobsThanThreads
  <2> SUFFICES ASSUME CInv PROVE NoMoreJobsThanThreads
    OBVIOUS
  <2>1. {w \in Threads : phase[w] = "store"} = In({"store"})
    BY DEF In
  <2>2. permits \in Nat /\ Len(queue) \in Nat /\ Held \in Nat
    BY DEF CInv, Types, Held
  <2>3. Cardinality(In({"store"})) \in Nat /\ Cardinality(In({"release"})) \in Nat
    BY CountsOfThreads
  <2>4. permits + Len(queue) + Cardinality(In({"store"})) + Cardinality(In({"release"})) + Held
          = Cardinality(Threads)
    BY DEF CInv, Permits
  <2>5. Len(queue) + Cardinality(In({"store"})) <= Cardinality(Threads)
    BY <2>2, <2>3, <2>4
  <2> QED BY <2>1, <2>5 DEF NoMoreJobsThanThreads
<1> QED BY <1>1, CInvHolds, PTL

\* When the pool is shut down every job is done and its callbacks have run, those that the
\* model's thread runs included: nothing is in the queue or with a thread, no future is left, and
\* every exception has been seen.
THEOREM ClosedMeansDone == ASSUME ConstantsAssumption PROVE Spec => []NothingRunsAfterClose
<1>1. CInv => NothingRunsAfterClose
  <2> SUFFICES ASSUME CInv, main = "closed" PROVE queue = <<>> /\ futs = {} /\ exceptions = errors
                                                   /\ \A w \in Threads : phase[w] = "idle"
    BY DEF NothingRunsAfterClose
  <2>1. queue = <<>> /\ \A w \in Threads : phase[w] = "idle"
    BY DEF CInv, Progress
  <2>2. Queued = {} /\ JobsOf(In({"store"})) = {} /\ JobsOf(In({"release", "record"})) = {}
    BY <2>1 DEF Queued, JobsOf, In
  <2>3. hooked \subseteq finished
    BY <2>2 DEF CInv, Callbacks, Jobs, Recording
  <2>4. NoJob \notin errors
    BY JobsAreJobs DEF CInv, Types
  <2> QED BY <2>1, <2>2, <2>3, <2>4 DEF CInv, Callbacks, Recording, Submitting
<1> QED BY <1>1, CInvHolds, PTL

\* A thread starts and ends a job by its own steps alone, and only Store writes results.
LEMMA OthersStoreNothing ==
  ASSUME CInv, ConstantsAssumption, [Next]_vars,
         ~ \E w \in Threads, raised \in BOOLEAN : Store(w, raised)
  PROVE  /\ stored' = stored
         /\ \A v \in Threads : phase[v] = "store" => phase'[v] = "store"
<1>1. phase \in [Threads -> {"idle", "store", "release", "record"}]
  BY DEF CInv, Types
<1>2. CASE Called \/ Continue \/ UNCHANGED vars
  <2>1. UNCHANGED <<threadVars, stored>>
    BY <1>2 DEF Called, Continue, vars, Update, NewTime, Close, Submit, AddRelease, AddRecord, EndFlush,
                WaitForFutures, CloseStrategy
  <2> QED BY <2>1 DEF threadVars
<1>3. ASSUME NEW w \in Threads, Take(w) \/ Release(w) \/ Record(w)
      PROVE  stored' = stored /\ \A v \in Threads : phase[v] = "store" => phase'[v] = "store"
  BY <1>1, <1>3 DEF Take, Release, Record, futureVars
<1> QED BY <1>2, <1>3 DEF Next, Thread

\* Two updates of a dataset at one time get different iterations: no job stores under the key of
\* another, and what is stored stays.
THEOREM NoResultIsOverwritten == ASSUME ConstantsAssumption PROVE Spec => [][KeepsWhatIsStored]_vars
<1>1. ASSUME CInv, [Next]_vars PROVE [KeepsWhatIsStored]_vars
  <2>1. CASE \E w \in Threads, raised \in BOOLEAN : Store(w, raised)
    BY <1>1, <2>1, StoreKeeps
  <2>2. CASE ~ \E w \in Threads, raised \in BOOLEAN : Store(w, raised)
    BY <1>1, <2>2, OthersStoreNothing DEF KeepsWhatIsStored
  <2> QED BY <2>1, <2>2
<1> QED BY <1>1, CInvHolds, PTL DEF Spec

\* The results of the jobs that are done tell the last value of a dataset.
LEMMA LatestIsRead ==
  ASSUME Types, Places, Numbers, Jobs = finished, errors = {},
         NEW t \in 0 .. End, NEW d \in Datasets, NEW v, LastIs(Jobs, d, t, v)
  PROVE  Replay(t)[d] = v
<1> DEFINE K == {k \in DOMAIN stored : k.name = d /\ k.timestamp <= t}
<1>1. /\ Replay(t)[d] = IF K = {} THEN Unset ELSE stored[Latest(K)]
      /\ \A k \in K : k \in DOMAIN stored /\ k.name = d /\ k.timestamp <= t
      /\ \A k \in DOMAIN stored : k.name = d /\ k.timestamp <= t => k \in K
  BY DEF Replay
<1>2. \A j : Key(j).name = j.name /\ Key(j).timestamp = j.timestamp /\ Key(j).iteration = j.iteration
  BY DEF Key
<1>3. /\ Jobs \subseteq Infos /\ DOMAIN stored = {Key(j) : j \in Jobs}
      /\ \A j \in Jobs : stored[Key(j)] = j.data
      /\ \A j \in Jobs : j.timestamp \in Nat /\ j.iteration \in Nat
  BY JobsType DEF Numbers, Infos
<1> HIDE DEF K
<1>4. CASE {j \in Jobs : j.name = d /\ j.timestamp <= t} = {} /\ v = Unset
  <2>1. K = {}
    BY <1>1, <1>2, <1>3, <1>4
  <2> QED BY <1>1, <1>4, <2>1
<1>5. CASE \E i \in {j \in Jobs : j.name = d /\ j.timestamp <= t} :
             i.data = v /\ \A j \in {j \in Jobs : j.name = d /\ j.timestamp <= t} :
               \/ j.timestamp < i.timestamp
               \/ j.timestamp = i.timestamp /\ j.iteration <= i.iteration
  <2>1. PICK i \in Jobs : /\ i.name = d /\ i.timestamp <= t /\ i.data = v
                          /\ \A j \in Jobs : j.name = d /\ j.timestamp <= t =>
                               \/ j.timestamp < i.timestamp
                               \/ j.timestamp = i.timestamp /\ j.iteration <= i.iteration
    BY <1>5
  <2>2. Key(i) \in K /\ \A l \in K : \/ l.timestamp < Key(i).timestamp
                                     \/ l.timestamp = Key(i).timestamp /\ l.iteration <= Key(i).iteration
    BY <1>1, <1>2, <1>3, <2>1
  <2> DEFINE k == Latest(K)
  <2>3. k \in K /\ \A l \in K : l.timestamp < k.timestamp
                                 \/ (l.timestamp = k.timestamp /\ l.iteration <= k.iteration)
    BY <2>2 DEF Latest
  <2> HIDE DEF k
  <2>4. PICK o \in Jobs : k = Key(o)
    BY <1>1, <1>3, <2>3
  <2>5. o.timestamp = i.timestamp /\ o.iteration = i.iteration
    <3>1. /\ o.timestamp \in Nat /\ o.iteration \in Nat /\ i.timestamp \in Nat /\ i.iteration \in Nat
      BY <1>3
    <3>2. \/ i.timestamp < o.timestamp
          \/ i.timestamp = o.timestamp /\ i.iteration <= o.iteration
      BY <1>2, <2>2, <2>3, <2>4
    <3>3. \/ o.timestamp < i.timestamp
          \/ o.timestamp = i.timestamp /\ o.iteration <= i.iteration
      BY <1>2, <2>2, <2>3, <2>4
    <3> QED BY <3>1, <3>2, <3>3
  <2>6. o = i
    BY <2>1, <2>4, <2>5 DEF Numbers
  <2>7. K # {} /\ stored[k] = v
    BY <1>3, <2>1, <2>2, <2>4, <2>6
  <2> QED BY <1>1, <2>7 DEF k
<1> QED BY <1>4, <1>5 DEF LastIs

\* When the collector has closed and nothing failed, reading the results gives the state at the end
\* of every timestamp, in whatever order the threads stored the updates.
THEOREM ResultsTellTheHistory == ASSUME ConstantsAssumption PROVE Spec => []ResultsAreComplete
<1>1. CInv => ResultsAreComplete
  <2> SUFFICES ASSUME CInv, main = "closed", errors = {}, currentTime # None, NEW t \in 0 .. currentTime
               PROVE  Replay(t) = history[t]
    BY DEF ResultsAreComplete
  <2>1. Types /\ Places /\ Numbers /\ Progress /\ Jobs \subseteq Infos
    BY JobsType DEF CInv
  <2>2. currentTime \in Nat /\ End \in Nat /\ currentTime <= End /\ t \in 0 .. End
    BY <2>1 DEF Types, ConstantsAssumption
  <2>3. Jobs = finished
    <3>1. queue = <<>> /\ \A w \in Threads : phase[w] = "idle"
      BY <2>1 DEF Progress
    <3> QED BY <3>1 DEF Jobs, Queued, JobsOf, In
  <2>4. ASSUME NEW d \in Datasets PROVE Replay(t)[d] = history[t][d]
    <3>1. CASE t < currentTime
      <4>1. LastIs(Jobs, d, t, history[t][d])
        BY <2>1, <2>2, <3>1 DEF Progress
      <4> QED BY <2>1, <2>2, <2>3, <4>1, LatestIsRead
    <3>2. CASE t = currentTime
      <4>1. history[t] = state /\ reported = state
        BY <2>1, <2>2, <3>2 DEF Progress
      <4>2. LastIs(Jobs, d, End, history[t][d])
        BY <2>1, <4>1 DEF Progress, Flushing
      <4>3. \A j \in Jobs : j.timestamp <= End /\ j.timestamp <= t
        BY <2>1, <2>2, <3>2 DEF Numbers, Infos
      <4>4. LastIs(Jobs, d, t, history[t][d])
        BY <2>1, <2>2, <4>2, <4>3, LastStays
      <4> QED BY <2>1, <2>2, <2>3, <4>4, LatestIsRead
    <3> QED BY <2>2, <3>1, <3>2
  <2>5. history[t] \in [Datasets -> Values \cup {Unset}]
    BY <2>1, <2>2 DEF Types
  <2>6. history[t] = [d \in Datasets |-> history[t][d]]
    BY <2>5
  <2>7. Replay(t) = [d \in Datasets |-> Replay(t)[d]]
    BY DEF Replay
  <2> QED BY <2>4, <2>6, <2>7
<1> QED BY <1>1, CInvHolds, PTL
=============================================================================
