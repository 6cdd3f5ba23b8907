------------------------------- MODULE Tapes -------------------------------
(***************************************************************************)
(* The models that play back recorded data: the tape player, whose tapes   *)
(* hold updates, and the csv and netcdf players, whose files hold a row of *)
(* values per time.  A player is called when it asked for it, and whenever *)
(* another model makes it run; between two calls time passes.              *)
(***************************************************************************)
EXTENDS TimeSeries

CONSTANTS
  Players,    \* which of "tape", "csv", "netcdf" play
  Keys,       \* an attribute of an entity, of the tape
  Values, Undefined,
  Seconds,    \* the times that occur in files
  Scale,      \* seconds per timestamp
  End,        \* the last timestamp
  MaxLength   \* bound: entries of a file

\* Times are numbers, and None is not.
ConstantsAssumption ==
  Seconds \subseteq Int /\ Scale \in Nat \ {0} /\ MaxLength \in Nat /\ None \notin Int

VARIABLES
  player,    \* the player of this behaviour
  file,      \* what it plays: a sequence of records with seconds
  timeline,  \* tape: the TimeSeries that is left; else the timestamps of the rows
  position,  \* csv and netcdf: current_pos, counted from 1 (0 is numpy's -1)
  state,     \* what the player has published: per key, or the one value of the row
  now,       \* the time of the simulation
  wake,      \* the time the player asked for, or None
  failed     \* the player raised an error

vars == <<player, file, timeline, position, state, now, wake, failed>>

Files(content) ==
  UNION {[1 .. n -> [seconds : Seconds, data : content]] : n \in 1 .. MaxLength}

Updates == UNION {[K -> Values] : K \in SUBSET Keys \ {{}}}

\* set_timeline raises an error otherwise.
Ascending(f) == \A i, j \in DOMAIN f : i < j => f[i].seconds <= f[j].seconds

\* process_tape, for all tapes, and the sort at the end.
TapeTimeline(f) ==
  Sorted([k \in DOMAIN f |-> [time |-> Stamp(f[k].seconds, Scale), data |-> f[k].data]])

RowTimeline(f) == [k \in DOMAIN f |-> Stamp(f[k].seconds, Scale)]

\* searchsorted(side = "right") - 1 (Mutant: side = "left".)
PositionAt_Left(times, t) == Cardinality({k \in DOMAIN times : times[k] < t})
PositionAt(times, t) == Cardinality({k \in DOMAIN times : times[k] <= t})

\* setup; get_csv_tape and get_netcdf_tape proceed to time 0 already.
Init ==
  /\ player \in Players
  /\ \/ /\ player = "tape"
        /\ file \in Files(Updates)
        /\ timeline = TapeTimeline(file) /\ position = 0
        /\ state = [k \in Keys |-> Undefined]
     \/ /\ player # "tape"
        /\ file \in {f \in Files(Values) : Ascending(f)}
        /\ timeline = RowTimeline(file) /\ position = PositionAt(timeline, 0)
        /\ state = Undefined
  /\ now = 0 /\ wake = 0 /\ failed = FALSE

\* The orchestrator calls a model at the time it asked for, or before.
MayBeCalled(t) == ~failed /\ t >= now /\ (wake # None => t <= wake)

\* receive_update of one entry after the other: a later one overwrites.
Receive(known, entries) ==
  [key \in Keys |->
     LET set == {i \in DOMAIN entries : key \in DOMAIN entries[i].data}
     IN IF set = {} THEN known[key] ELSE entries[Max(set)].data[key]]

\* tape_player.Model.update
UpdateTape(t) ==
  /\ player = "tape" /\ MayBeCalled(t)
  /\ state' = Receive(state, Due(timeline, t))
  /\ timeline' = Remaining(timeline, t)
  /\ wake' = NextTime(timeline')
  /\ now' = t
  /\ UNCHANGED <<player, file, position, failed>>

\* get_next_timestamp
NextRow(p) == IF p + 1 > Len(timeline) THEN None ELSE timeline[p + 1]

\* CSVPlayer.update: the row of the time is published, new or not; before the first
\* row, pandas has no row of index -1.
UpdateCsv(t) ==
  /\ player = "csv" /\ MayBeCalled(t)
  /\ position' = PositionAt(timeline, t) /\ now' = t
  /\ IF position' = 0 THEN failed' = TRUE /\ UNCHANGED <<state, wake>>
     ELSE state' = file[position'].data /\ wake' = NextRow(position') /\ UNCHANGED failed
  /\ UNCHANGED <<player, file, timeline>>

\* NetCDFPlayer.update: before the first row, index -1 of a variable is its last row.
UpdateNetCDF(t) ==
  /\ player = "netcdf" /\ MayBeCalled(t)
  /\ position' = PositionAt(timeline, t) /\ now' = t
  /\ state' = IF position' = 0 THEN Last(file).data ELSE file[position'].data
  /\ wake' = NextRow(position')
  /\ UNCHANGED <<player, file, timeline, failed>>

\* Time passes and nothing makes the player run.
Pass(t) ==
  /\ ~failed /\ now < t /\ (wake # None => t < wake)
  /\ now' = t
  /\ UNCHANGED <<player, file, timeline, position, state, wake, failed>>

Next == \E t \in 0 .. End : UpdateTape(t) \/ UpdateCsv(t) \/ UpdateNetCDF(t) \/ Pass(t)

Spec == Init /\ [][Next]_vars

-----------------------------------------------------------------------------
(* Properties.                                                             *)

TimeOf(k) == Stamp(file[k].seconds, Scale)

\* The last times, not after now, of the entries that set a key.
LatestFor(key) ==
  LET set == {k \in DOMAIN file : key \in DOMAIN file[k].data /\ TimeOf(k) <= now}
  IN {k \in set : \A j \in set : TimeOf(j) <= TimeOf(k)}

\* What the tape player shows is at every time what its tapes hold for that time,
\* however their entries are ordered and whenever it is called; of several entries
\* for one timestamp it may show any (which one depends on the list, see TimeSeries).
TapeIsCurrent ==
  (player = "tape" /\ wake # 0) =>
    \A key \in Keys :
      IF LatestFor(key) = {} THEN state[key] = Undefined
      ELSE \E k \in LatestFor(key) : state[key] = file[k].data[key]

\* A csv or netcdf player that has been called shows the last row that is not after
\* now, once there is one, whether it was called for it or not; it fails only before.
RowIsCurrent ==
  ((player # "tape" /\ state # Undefined) \/ failed) =>
    LET past == {k \in DOMAIN file : TimeOf(k) <= now}
    IN /\ past # {} => state = file[Cardinality(past)].data
       /\ failed => past = {}
=============================================================================
