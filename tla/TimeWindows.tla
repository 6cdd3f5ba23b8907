---------------------------- MODULE TimeWindows ----------------------------
(***************************************************************************)
(* The time window status model: source entities have a time window and    *)
(* are connected to target entities, whose status says whether one of the  *)
(* windows is open.  The model counts open windows per target while it     *)
(* works through a schedule of begins and ends.                            *)
(***************************************************************************)
EXTENDS TimeSeries

CONSTANTS
  Sources,    \* the source entities, numbered
  Targets,    \* the target entities
  Undefined,
  Times,      \* when windows may begin and end; also before the simulation
  End         \* the last timestamp

\* Times are numbers, and None is neither a time nor a list of events.
Events == [time : Times, isStart : BOOLEAN, source : Sources]
ConstantsAssumption ==
  /\ IsFiniteSet(Sources) /\ Sources \subseteq Int /\ Times \subseteq Int
  /\ None \notin Int /\ None \notin Seq(Events)

VARIABLES
  windows,      \* per source the window, or Undefined
  links,        \* what has been received of the connections: per source its targets, or Undefined
  connections,  \* the connections as they were resolved
  schedule,     \* the TimeSeries of events, or None before initialize
  count,        \* event_count
  status,
  now, wake

vars == <<windows, links, connections, schedule, count, status, now, wake>>

Windows == [begin : Times, end : Times] \cup {Undefined}

Init ==
  /\ windows \in [Sources -> Windows]
  /\ links \in [Sources -> SUBSET Targets] \cup {Undefined}
  /\ connections = [s \in Sources |-> {}] /\ schedule = None
  /\ count = [x \in Targets |-> 0]
  /\ status = [x \in Targets |-> Undefined]
  /\ now = 0 /\ wake = 0

\* The connections may come in an update at the first time.
ReceiveLinks ==
  /\ now = 0 /\ links = Undefined
  /\ links' \in [Sources -> SUBSET Targets]
  /\ UNCHANGED <<windows, connections, schedule, count, status, now, wake>>

\* resolve_schedule: the sources with both ends of a window, in their order, each with its
\* begin before its end.
Defined == {s \in Sources : windows[s] # Undefined}
InOrder ==
  CHOOSE order \in [1..Cardinality(Defined) -> Defined] :
    \A i, j \in DOMAIN order : i < j => order[i] < order[j]
Event(s, isStart) ==
  [time |-> IF isStart THEN windows[s].begin ELSE windows[s].end, isStart |-> isStart, source |-> s]
Schedule ==
  Sorted([k \in 1..(2 * Cardinality(Defined)) |-> Event(InOrder[(k + 1) \div 2], k % 2 = 1)])

Statuses(c) == [x \in Targets |-> c[x] > 0]

\* initialize, once can_initialize: windows and connections are resolved for good,
\* what is received later changes nothing.
Initialize ==
  /\ schedule = None /\ links # Undefined
  /\ connections' = links
  /\ schedule' = Schedule
  /\ count' = [x \in Targets |-> 0]
  /\ status' = Statuses(count')
  /\ UNCHANGED <<windows, links, now, wake>>

\* process_event of the events that are due: a start or an end counts for every target of
\* its source.  (Mutant: a window that ends closes the target.)
Of(events, x, isStart) ==
  {k \in DOMAIN events : events[k].isStart = isStart /\ x \in connections[events[k].source]}
Process_Close(c, events) ==
  [x \in Targets |->
     IF Of(events, x, FALSE) # {} THEN 0 ELSE c[x] + Cardinality(Of(events, x, TRUE))]
Process(c, events) ==
  [x \in Targets |->
     c[x] + Cardinality(Of(events, x, TRUE)) - Cardinality(Of(events, x, FALSE))]

\* update: nothing is done, and nothing asked for, when the schedule is empty.
Update(t) ==
  /\ schedule # None /\ t >= now /\ (wake # None => t <= wake)
  /\ now' = t
  /\ \/ /\ schedule = <<>>
        /\ wake' = None /\ UNCHANGED <<schedule, count, status>>
     \/ /\ schedule # <<>>
        /\ count' = Process(count, Due(schedule, t))
        /\ schedule' = Remaining(schedule, t)
        /\ status' = Statuses(count')
        /\ wake' = NextTime(schedule')
  /\ UNCHANGED <<windows, links, connections>>

\* Time passes and nothing makes the model run.
Pass(t) ==
  /\ schedule # None /\ now < t /\ (wake # None => t < wake)
  /\ now' = t
  /\ UNCHANGED <<windows, links, connections, schedule, count, status, wake>>

Next ==
  \/ ReceiveLinks \/ Initialize
  \/ \E t \in 0 .. End : Update(t) \/ Pass(t)

Spec == Init /\ [][Next]_vars

-----------------------------------------------------------------------------
(* Properties.                                                             *)

WellFormed == \A s \in Sources : windows[s] # Undefined => windows[s].begin <= windows[s].end

\* A target is on exactly while a window of a source connected to it is open,
\* however windows overlap, touch, or have begun before the simulation, and
\* whenever the model is called. (Not for windows that end before they begin:
\* those take away a count that is somebody else's.)
StatusIsTrue ==
  (schedule # None /\ wake # 0 /\ WellFormed) =>
    \A x \in Targets :
      status[x] = \E s \in Sources : /\ x \in connections[s] /\ windows[s] # Undefined
                                     /\ windows[s].begin <= now /\ now < windows[s].end
=============================================================================
