--------------------------- MODULE SimulationClock ---------------------------
(***************************************************************************)
(* What the orchestrator promises to the models: one clock for all of      *)
(* them.  At every timestamp the models work, and owe each other the       *)
(* updates they have not looked at yet, until they agree: nobody works and *)
(* nobody is owed an update.  Only then the clock jumps, to the earliest   *)
(* time that any model wished for, and every model is told.                *)
(*                                                                         *)
(* How the orchestrator decides when a model may start is left open here.  *)
(***************************************************************************)
EXTENDS Integers

CONSTANTS Models, Start, End, None

VARIABLES
  now,       \* the agreed timestamp, None before the first one
  wish,      \* the next time every model wants to work at
  working,   \* the models that were given something to do and have not returned
  owed,      \* the models for which an update is waiting
  failures,  \* the models that have failed
  closing    \* no further timestamp will be started

clockVars == <<now, wish, working, owed, failures, closing>>

Wishes == {wish[m] : m \in Models} \ {None}
Earliest(t) == t \in Wishes /\ \A u \in Wishes : t <= u
Agreed == working = {} /\ owed = {}

Init ==
  /\ now = None
  /\ wish = [m \in Models |-> None]
  /\ working = Models
  /\ owed = {}
  /\ failures = {}
  /\ closing = FALSE

\* The clock moves to the earliest wish and every model starts to work on the
\* new time; those that wished for it are owed an update.
Jump ==
  /\ ~closing /\ Agreed
  /\ Earliest(now')
  /\ now = None \/ now < now'
  /\ working' = Models
  /\ owed' = {m \in Models : wish[m] = now'}
  /\ UNCHANGED <<wish, failures, closing>>

\* Some models wished for the time it already is: each of them gets its update,
\* now or after the models it depends on.
Again ==
  /\ ~closing /\ Agreed
  /\ Earliest(now)
  /\ working' # {}
  /\ working' \cap owed' = {} /\ working' \cup owed' = {m \in Models : wish[m] = now}
  /\ UNCHANGED <<now, wish, failures, closing>>

\* A model returns, with a new wish or in failure.  Others start to work on the
\* updates they are owed.  An update is forgotten only with a model that failed.
Return(m) ==
  /\ m \in working
  /\ \/ failures' = failures /\ wish'[m] \in {None} \cup (IF now = None THEN Start ELSE now)..End
     \/ failures' = failures \cup {m} /\ wish' = wish
  /\ \A x \in Models \ {m} : wish'[x] = wish[x]
  /\ working \ {m} \subseteq working'
  /\ \A x \in owed \ owed' : x \in working' \/ x \in failures'
  /\ closing' = (closing \/ failures' # {} \/ (working' = {} /\ Wishes' = {}))
  /\ UNCHANGED now

\* All models are asked to finish: those that work already do so afterwards.
Close ==
  /\ closing
  /\ working \subseteq working' /\ owed' \subseteq owed
  /\ UNCHANGED <<now, wish, failures, closing>>

Next == Jump \/ Again \/ Close \/ \E m \in Models : Return(m)

Spec == Init /\ [][Next]_clockVars

=============================================================================
