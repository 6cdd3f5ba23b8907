--------------------------- MODULE AreaAggregation ---------------------------
(***************************************************************************)
(* The area aggregation model: areas that sum, average, take the extremes  *)
(* or integrate over time the values of the entities that lie in them.     *)
(* An entity that lies in several areas counts for a part in each of them; *)
(* Unit is a multiple of all their numbers, and weights and weighted sums  *)
(* are counted in parts of it.                                             *)
(***************************************************************************)
EXTENDS Integers, Sequences, FiniteSets, FiniteSetsExt

CONSTANTS
  Areas, Entities, Overlapping,   \* the geometry: pairs <<area, entity>> that intersect
  Values, Undefined,              \* numbers, and no value
  Special, Unit,                  \* default_special_value
  Intervals, Scale, End           \* the choices of output_interval (0: none)

VARIABLES
  interval, source,               \* the configuration, and the source attribute
  aggregates,                     \* per area: min, max, sum, average and integral
  previousSource, previousTime,   \* of the aggregators; Never before the first update
  wake, now, dirty,
  trueIntegral                    \* what has been in each area over time

vars == <<interval, source, aggregates, previousSource, previousTime, wake, now, dirty, trueIntegral>>

Never == -1

\* resolve_mapping and calculate_weights: 1 divided by the number of areas an entity is in.
Mapping(area) == {e \in Entities : <<area, e>> \in Overlapping}
Weight_Whole(e) == Unit
Weight(e) == Unit \div Cardinality({a \in Areas : e \in Mapping(a)})

Sum(S, f(_)) == MapThenSumSet(f, S)

Nothing == [min |-> Special, max |-> Special, sum |-> 0, average |-> <<Special, 1>>, integral |-> 0]

Init ==
  /\ interval \in Intervals /\ source \in [Entities -> Values]
  /\ aggregates = [a \in Areas |-> Nothing]
  /\ previousSource = [e \in Entities |-> 0] /\ previousTime = Never
  /\ wake = Never /\ now = 0 /\ dirty = TRUE
  /\ trueIntegral = [a \in Areas |-> 0]

\* The entities an area counts: the value they have now decides, also for what they had.
ToCount(area) == {e \in Mapping(area) : source[e] # Undefined}

\* AttributeAggregator.calculate with each of the functions
Integral(area, dt) ==
  aggregates[area].integral + dt * Sum(ToCount(area), LAMBDA e : Weight(e) * previousSource[e])
Calculated(area, dt) ==
  LET counted == ToCount(area)
      weighted == Sum(counted, LAMBDA e : Weight(e) * source[e])
  IN [min |-> IF counted = {} THEN Special ELSE Min({source[e] : e \in counted}),
      max |-> IF counted = {} THEN Special ELSE Max({source[e] : e \in counted}),
      sum |-> weighted,
      average |-> IF counted = {} THEN <<Special, 1>> ELSE <<weighted, Unit * Cardinality(counted)>>,
      integral |-> Integral(area, dt)]

\* get_next_update_moment: an interval below the resolution of time is one timestamp.
Stamp(seconds) == seconds \div Scale
NextUpdate(t) ==
  LET next == Stamp(t * Scale + interval)
  IN IF interval = 0 THEN Never ELSE IF next = t THEN t + 1 ELSE next

\* update; the target attributes also remember the sum in the unit of seconds.
Update ==
  /\ dirty \/ wake = now
  /\ LET dt == IF previousTime = Never THEN 0 ELSE (now - previousTime) * Scale
     IN aggregates' = [a \in Areas |-> Calculated(a, dt)]
  /\ previousSource' = source /\ previousTime' = now
  /\ wake' = NextUpdate(now) /\ dirty' = FALSE
  /\ UNCHANGED <<interval, source, now, trueIntegral>>

\* Another model's update, after which update is called at the same moment.
Receive ==
  /\ ~dirty
  /\ \E e \in Entities, v \in Values : v # source[e] /\ source' = [source EXCEPT ![e] = v]
  /\ dirty' = TRUE
  /\ UNCHANGED <<interval, aggregates, previousSource, previousTime, wake, now, trueIntegral>>

\* A new time, at the latest the one that was asked for; values have been what they are
\* all the time since.
NewTime ==
  /\ ~dirty /\ wake # now /\ now < End
  /\ now' \in (now + 1)..(IF wake = Never \/ wake > End THEN End ELSE wake)
  /\ trueIntegral' = [a \in Areas |-> trueIntegral[a]
       + (now' - now) * Scale * Sum(Mapping(a), LAMBDA e : Weight(e) * source[e])]
  /\ UNCHANGED <<interval, source, aggregates, previousSource, previousTime, wake, dirty>>

Next == Update \/ Receive \/ NewTime
Spec == Init /\ [][Next]_vars

-----------------------------------------------------------------------------
\* Whenever the model has answered all it received, at the moment of its own last update:
\* the integral of an area is that of what has been in it over time, however often the
\* values changed within one moment, and what lies in two areas is counted once in all.
AggregatesFollowTheSource ==
  ~dirty /\ previousTime = now =>
    /\ \A a \in Areas : aggregates[a].integral = trueIntegral[a]
    /\ Sum(Areas, LAMBDA a : aggregates[a].sum)
         = Unit * Sum(UNION {Mapping(a) : a \in Areas}, LAMBDA e : source[e])
=============================================================================
