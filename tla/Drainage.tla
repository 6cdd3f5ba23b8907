------------------------------ MODULE Drainage ------------------------------
(***************************************************************************)
(* The live SWMM engines of the urban drainage models of one process.      *)
(* Each model keeps an engine open from its initialization to its          *)
(* shutdown, and the engine allows one of them at a time.  A model applies *)
(* its inputs to the engine and advances it to the moment of the update;   *)
(* the engine can be reopened from a snapshot.                             *)
(***************************************************************************)
EXTENDS Integers, FiniteSets

CONSTANTS
  Wrappers,   \* the simulation wrappers of the process
  Values,     \* the values of the inputs
  Report,     \* report_timestep, in seconds
  TimeScale,  \* seconds per unit of time
  EngineEnd,  \* the time an engine reaches its end date
  End,        \* the last timestamp
  None

\* What the values of the constants are assumed to be, where they are given.
ConstantsAssumption ==
  /\ None \notin Wrappers /\ None \notin Values
  /\ Report \in Nat /\ TimeScale \in Nat /\ EngineEnd \in Nat /\ End \in Nat

VARIABLES
  active,     \* the wrapper that owns the engine, SimulationWrapper._active
  stage,      \* what each wrapper is doing
  engine,     \* per wrapper the open engine, or None
  offset,     \* _time_offset
  snapshot,   \* per wrapper a hotstart file and its _checkpoint_seconds, or None
  pending,    \* what the engine is being opened from: None for the start
  array,      \* per wrapper the input in its state; None for undefined
  ran,        \* history: the last step of the engine: its input, that of the state at its
              \* end and at its beginning, and whether it took time
  began,      \* history: per wrapper the input in its state when the time last moved on
  last, wake, \* last_calculated (-1 for None) and next_time, per model
  now

vars == <<active, stage, engine, offset, snapshot, pending, array, ran, began, last, wake, now>>
model == <<array, ran, began, last, wake, now>>

Init ==
  /\ active = None /\ stage = [w \in Wrappers |-> "new"]
  /\ engine = [w \in Wrappers |-> None] /\ offset = [w \in Wrappers |-> 0]
  /\ snapshot = [w \in Wrappers |-> None] /\ pending = [w \in Wrappers |-> None]
  /\ array \in [Wrappers -> Values \cup {None}]
  /\ ran = [w \in Wrappers |-> None] /\ began = array
  /\ last = [w \in Wrappers |-> -1] /\ wake = [w \in Wrappers |-> Report]
  /\ now = 0

\* An engine that starts: the seconds it counts itself, the seconds since the start of
\* the simulation its state belongs to, and the input that is set.
Fresh(from) == [raw |-> 0, of |-> IF from = None THEN 0 ELSE from.of, input |-> None]
Elapsed(w) == offset[w] + engine[w].raw

\* _open_simulation up to the constructor of the engine, under the lock.
Claim(w) ==
  /\ stage[w] \in {"new", "reopening"}
  /\ IF active \notin {None, w}
     THEN /\ stage' = [stage EXCEPT ![w] = "failed"] /\ UNCHANGED <<active, engine>>
     ELSE \/ /\ active' = w /\ engine' = [engine EXCEPT ![w] = Fresh(pending[w])]
             /\ stage' = [stage EXCEPT ![w] = "starting"]
          \/ /\ stage' = [stage EXCEPT ![w] = "failed"] /\ UNCHANGED <<active, engine>>
  /\ UNCHANGED <<offset, snapshot, pending, model>>

\* use_hotstart and start; a failure closes the wrapper again.
Start(w) ==
  /\ stage[w] = "starting"
  /\ \/ /\ stage' = [stage EXCEPT ![w] = "open"]
        /\ offset' = [offset EXCEPT ![w] = IF pending[w] = None THEN 0 ELSE pending[w].seconds]
     \/ /\ stage' = [stage EXCEPT ![w] = "closing"] /\ UNCHANGED offset
  /\ UNCHANGED <<active, engine, snapshot, pending, model>>

\* close: report and close the engine, whether that raises or not, then give up the
\* ownership under the lock and remove the files.
Shutdown(w) ==
  /\ stage[w] \in {"open", "failed"}
  /\ stage' = [stage EXCEPT ![w] = "closing"]
  /\ UNCHANGED <<active, engine, offset, snapshot, pending, model>>
CloseEngine(w) ==
  /\ stage[w] = "closing"
  /\ stage' = [stage EXCEPT ![w] = "releasing"] /\ engine' = [engine EXCEPT ![w] = None]
  /\ UNCHANGED <<active, offset, snapshot, pending, model>>
Release(w) ==
  /\ stage[w] = "releasing"
  /\ stage' = [stage EXCEPT ![w] = "closed"]
  /\ active' = IF active = w THEN None ELSE active
  /\ snapshot' = [snapshot EXCEPT ![w] = None]
  /\ UNCHANGED <<engine, offset, pending, model>>

Checkpoint(w) ==
  /\ stage[w] = "open"
  /\ snapshot' = [snapshot EXCEPT ![w] = [of |-> engine[w].of, seconds |-> Elapsed(w)]]
  /\ UNCHANGED <<active, stage, engine, offset, pending, model>>

\* rollback_to: only the engine is closed, the ownership stays.
Rollback_Release(w) ==
  /\ stage[w] = "open" /\ snapshot[w] # None
  /\ stage' = [stage EXCEPT ![w] = "reopening"] /\ engine' = [engine EXCEPT ![w] = None]
  /\ active' = None
  /\ pending' = [pending EXCEPT ![w] = snapshot[w]]
  /\ UNCHANGED <<offset, snapshot, model>>
Rollback(w) ==
  /\ stage[w] = "open" /\ snapshot[w] # None
  /\ stage' = [stage EXCEPT ![w] = "reopening"] /\ engine' = [engine EXCEPT ![w] = None]
  /\ pending' = [pending EXCEPT ![w] = snapshot[w]]
  /\ UNCHANGED <<active, offset, snapshot, model>>

Receive(w) ==
  /\ stage[w] = "open" /\ \E v \in Values : array' = [array EXCEPT ![w] = v]
  /\ UNCHANGED <<active, stage, engine, offset, snapshot, pending, ran, began, last, wake, now>>

\* process_changes sets every input that is defined; advance_to steps the engine to
\* the moment, or to its end.
ProcessChanges(w) == IF array[w] = None THEN engine[w].input ELSE array[w]
AdvanceTo(w, seconds) ==
  LET e == engine[w]
      n == IF seconds - Elapsed(w) >= 1 THEN seconds - Elapsed(w) ELSE 0
      step == IF e.raw + n <= EngineEnd THEN n ELSE EngineEnd - e.raw
  IN [raw |-> e.raw + step, of |-> e.of + step, input |-> ProcessChanges(w)]

\* update: nothing to do at a moment that is calculated already.
Update(w) ==
  /\ stage[w] = "open" /\ last[w] < now
  /\ engine' = [engine EXCEPT ![w] = AdvanceTo(w, now * TimeScale)]
  /\ ran' = [ran EXCEPT ![w] = [input |-> engine'[w].input, state |-> array[w],
                                    start |-> began[w], moved |-> engine'[w].of # engine[w].of]]
  /\ last' = [last EXCEPT ![w] = now]
  /\ wake' = [wake EXCEPT ![w] = IF now >= wake[w] THEN wake[w] + Report ELSE wake[w]]
  /\ UNCHANGED <<active, stage, offset, snapshot, pending, array, began, now>>

\* The time moves on when the open models are done with the moment.
NextMoment ==
  /\ now < End /\ \A w \in Wrappers : stage[w] \in {"open", "closed"} /\ (stage[w] = "open" => last[w] = now)
  /\ now' \in {m \in (now + 1)..End : \A w \in Wrappers : stage[w] = "open" => m <= wake[w]}
  /\ began' = array
  /\ UNCHANGED <<active, stage, engine, offset, snapshot, pending, array, ran, last, wake>>

Next ==
  \/ NextMoment
  \/ \E w \in Wrappers :
       \/ Claim(w) \/ Start(w) \/ Shutdown(w) \/ CloseEngine(w) \/ Release(w)
       \/ Checkpoint(w) \/ Rollback(w) \/ Receive(w) \/ Update(w)

Spec == Init /\ [][Next]_vars

(***************************************************************************)
(* Properties                                                              *)
(***************************************************************************)
\* The engine is open at most once in a process, always by the wrapper that owns it,
\* also while one closes and another opens; and a wrapper that is closed or has never
\* been opened owns nothing, so that it does not block the next model.
OneOwner ==
  /\ \A w \in Wrappers : engine[w] # None => active = w
  /\ active # None => stage[active] \notin {"new", "closed"}
  /\ \A w \in Wrappers : stage[w] \in {"reopening", "open"} => active = w

\* An engine follows its model, also when it has been rolled back and runs again: the
\* time that is reported is the time its state belongs to, and it is advanced with
\* every input that is defined in the state, whether it changed lately or not.  The
\* state is that of the end of the step (model.py: update), which the documentation
\* puts otherwise: see InputsGovernTheStepAfterThem.
EngineFollowsModel ==
  \A w \in Wrappers :
    /\ stage[w] = "open" => Elapsed(w) = engine[w].of
    /\ ran[w] # None => ran[w].input = ran[w].state \/ ran[w].state = None

\* "a value supplied at time t governs the step from t onward - a one-step latency"
\* (urban_drainage_model.rst): a step of the engine that took time ran with an input that
\* had been supplied when it began, not with one that arrived at its end.
InputsGovernTheStepAfterThem ==
  \A w \in Wrappers :
    ran[w] # None /\ ran[w].moved => ran[w].input = ran[w].start
=============================================================================
