----------------------------- MODULE TimeSeries -----------------------------
(***************************************************************************)
(* A list of timed items that is consumed in the course of time, and the   *)
(* timestamps that seconds become.  The list is kept in descending order:  *)
(* the next item is the last one.                                          *)
(***************************************************************************)
EXTENDS Integers, Sequences, FiniteSets, SequencesExt

CONSTANT None

\* seconds_to_timestamp: rounded towards zero, so that distinct times may become one.
Stamp(seconds, scale) ==
  IF seconds >= 0 THEN seconds \div scale ELSE -((-seconds) \div scale)

\* TimeSeries.sort: a stable sort with reverse = True, the latest items first; it keeps
\* the order of items of one time.
NotAfter(items, j, i) ==
  items[j].time > items[i].time \/ (items[j].time = items[i].time /\ j <= i)
Place(items, i) == Cardinality({j \in DOMAIN items : NotAfter(items, j, i)})
Sorted(items) ==
  [k \in DOMAIN items |-> items[CHOOSE i \in DOMAIN items : Place(items, i) = k]]

NextTime(series) == IF series = <<>> THEN None ELSE Last(series).time

\* pop_until: the items that are popped, in that order, and what is left.  Items of one
\* time are popped in the reverse of the order they were added in.
Left(series, t) == Cardinality({k \in DOMAIN series : series[k].time > t})
Due(series, t) == [k \in 1..(Len(series) - Left(series, t)) |-> series[Len(series) + 1 - k]]
Remaining(series, t) == SubSeq(series, 1, Left(series, t))
=============================================================================
