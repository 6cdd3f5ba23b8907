------------------------------- MODULE Results -------------------------------
(***************************************************************************)
(* Reading the results of a simulation: a dataset with its initial data    *)
(* and its stored updates, of which one can ask for the state at a moment, *)
(* an attribute over time, or an entity over time.                         *)
(*                                                                         *)
(* There is one state, that is moved along the timeline: every entity      *)
(* group has a stream of updates that know how to be undone, and a         *)
(* position in it.                                                         *)
(***************************************************************************)
EXTENDS Integers, Sequences, FiniteSets, SequencesExt, TrackedState

CONSTANTS
  Groups,       \* the entity groups of the dataset
  Ids,          \* the entity ids, in the order of their rows
  Attributes, Values,
  InitialRows, UpdateRows,   \* the rows that the initial data and updates may have
  End,          \* the last timestamp
  MaxIteration, \* the largest iteration number of an update
  MaxUpdates    \* bound: stored updates

\* Rows with values for one attribute.
RowsOf(I) == {Rows(I, [a \in {b} |-> row]) : b \in Attributes, row \in [I -> Values \cup {Undefined}]}

\* What the values of the constants are assumed to be, where they are given.
ConstantsAssumption ==
  /\ Ids \subseteq Nat /\ Undefined \notin Values
  /\ InitialRows \cup UpdateRows \subseteq UNION {RowsOf(I) : I \in SUBSET Ids} \cup {NoRows}
  /\ End \in Nat /\ MaxIteration \in Nat /\ MaxUpdates \in Nat

VARIABLES
  initial,   \* the initial data: per group the rows, or NoRows
  archive,   \* the stored updates
  loaded,    \* whether the results have been opened
  state,     \* TimeProgressingState: per group what is known and the last id of its index
  streams,   \* per group the reversible updates
  position,  \* per group the number of updates that are applied
  moment,    \* the timestamp the state was last moved to
  slice      \* the result of the last slice over time

vars == <<initial, archive, loaded, state, streams, position, moment, slice>>

Times == 0 .. End
Largest(S) == CHOOSE i \in S : \A j \in S : j <= i

Updates == [timestamp : Times, iteration : 0 .. MaxIteration, group : Groups,
            rows : UpdateRows]

Before(u, v) == u.timestamp < v.timestamp \/ (u.timestamp = v.timestamp /\ u.iteration < v.iteration)

EmptyGroup == [ids |-> {}, last |-> None, attributes |-> [a \in {} |-> None]]
NoSlice == [series |-> <<>>, group |-> None, attribute |-> None, ids |-> {}]

-----------------------------------------------------------------------------
(* The state.                                                              *)

\* receive_update of a state that tracks unknown attributes: they are added.
\* New ids are added at the end of the index.
Receive(group, rows, processUndefined) ==
  LET names == DOMAIN group.attributes \cup DOMAIN rows.data
      known == [ids |-> group.ids,
                attributes |-> [a \in names |-> IF a \in DOMAIN group.attributes
                                                THEN group.attributes[a] ELSE None]]
      received == ReceiveUpdate(known, rows, processUndefined)
      new == rows.ids \ group.ids
  IN [ids |-> received.ids, attributes |-> received.attributes,
      last |-> IF new = {} THEN group.last ELSE Largest(new)]

ValueOf(group, a, i) ==
  IF a \in DOMAIN group.attributes /\ i \in group.ids THEN group.attributes[a].data[i]
  ELSE Undefined

\* calculate_reverse_update: the current values of what the update changes. An
\* id that is new has index -1, which is the last entity that the index has.
ReverseUpdate(group, rows) ==
  Rows(rows.ids, [a \in DOMAIN rows.data |->
                    [i \in rows.ids |->
                       IF i \in group.ids THEN ValueOf(group, a, i)
                       ELSE ValueOf(group, a, group.last)]])

\* revert: undefined values are put back too.
Revert(group, u) == Receive(group, u.reverse, TRUE)

\* merge_updates: the updates of a timestamp are received by an empty state, in
\* the order of their iterations; what nobody sets is undefined.
Merged(g, t) ==
  LET here == SetToSortSeq({u \in archive : u.group = g /\ u.timestamp = t}, Before)
      merged == FoldLeft(LAMBDA group, u : Receive(group, u.rows, FALSE), EmptyGroup, here)
  IN Rows(merged.ids, [a \in DOMAIN merged.attributes |-> merged.attributes[a].data])

\* _add_update_to_timeline, for one group: the update is applied when it is added.
AddToTimeline(g, timeline, t) ==
  LET rows == Merged(g, t)
  IN [group |-> Receive(timeline.group, rows, FALSE),
      stream |-> Append(timeline.stream,
                        [timestamp |-> t, update |-> rows,
                         reverse |-> ReverseUpdate(timeline.group, rows)])]

\* add_init_data and add_updates_to_timeline: only timestamps with updates of the
\* group get into its stream.
Timeline(g) ==
  LET times == SetToSortSeq({u.timestamp : u \in {v \in archive : v.group = g}}, <)
  IN FoldLeft(LAMBDA timeline, t : AddToTimeline(g, timeline, t),
              [group |-> Receive(EmptyGroup, initial[g], FALSE), stream |-> <<>>], times)

\* The timestamp of an element of a stream; position 0 is its dummy element.
TimeAt(stream, p) == IF p = 0 THEN -1 ELSE stream[p].timestamp

\* _move_stream_forward: at least one update is applied, if there is one.
Forward(group, stream, p, t) ==
  LET stop == IF p = Len(stream) THEN p
           ELSE Largest({p + 1} \cup {k \in DOMAIN stream : stream[k].timestamp <= t})
  IN [group |-> FoldLeft(LAMBDA gr, u : Receive(gr, u.update, FALSE), group,
                         SubSeq(stream, p + 1, stop)),
      position |-> stop]

\* _move_stream_backward: at least one update is reverted.
Backward(group, stream, p, t) ==
  LET stop == Largest({k \in 0 .. p - 1 : TimeAt(stream, k) <= t})
  IN [group |-> FoldLeft(Revert, group,
                         Reverse(SubSeq(stream, stop + 1, p))),
      position |-> stop]

\* _move_updates_to: forward, and then backward if that was too far. (Mutant: one
\* of the two.)
Move_OneWay(group, stream, p, t) ==
  IF t > TimeAt(stream, p) THEN Forward(group, stream, p, t)
  ELSE IF t < TimeAt(stream, p) THEN Backward(group, stream, p, t)
  ELSE [group |-> group, position |-> p]
Move(group, stream, p, t) ==
  LET ahead == IF t > TimeAt(stream, p) THEN Forward(group, stream, p, t)
               ELSE [group |-> group, position |-> p]
  IN IF t < TimeAt(stream, ahead.position)
     THEN Backward(ahead.group, stream, ahead.position, t)
     ELSE ahead

\* move_to: the streams of all groups.
MoveTo(places, t) ==
  [g \in Groups |-> Move(places[g].group, streams[g], places[g].position, t)]

Here == [g \in Groups |-> [group |-> state[g], position |-> position[g]]]

GoTo(places) ==
  /\ state' = [g \in Groups |-> places[g].group]
  /\ position' = [g \in Groups |-> places[g].position]

-----------------------------------------------------------------------------
(* Operations.                                                             *)

Init ==
  /\ initial \in [Groups -> InitialRows]
  /\ archive = {} /\ loaded = FALSE
  /\ state = [g \in Groups |-> EmptyGroup]
  /\ streams = [g \in Groups |-> <<>>]
  /\ position = [g \in Groups |-> 0]
  /\ moment = End /\ slice = NoSlice

\* The data collector stores updates in any order, never two under one name.
Store(u) ==
  /\ ~loaded /\ Cardinality(archive) < MaxUpdates
  /\ \A v \in archive : v.timestamp # u.timestamp \/ v.iteration # u.iteration
  /\ archive' = archive \cup {u}
  /\ UNCHANGED <<initial, loaded, state, streams, position, moment, slice>>

\* get_dataset
Load ==
  /\ ~loaded /\ loaded' = TRUE
  /\ LET timelines == [g \in Groups |-> Timeline(g)]
     IN /\ streams' = [g \in Groups |-> timelines[g].stream]
        /\ state' = [g \in Groups |-> timelines[g].group]
        /\ position' = [g \in Groups |-> Len(timelines[g].stream)]
  /\ UNCHANGED <<initial, archive, moment, slice>>

SliceTimestamp(t) ==
  /\ loaded
  /\ GoTo(MoveTo(Here, t))
  /\ moment' = t /\ slice' = NoSlice
  /\ UNCHANGED <<initial, archive, loaded, streams>>

\* get_timestamps of a group
Timestamps(g) ==
  IF DOMAIN state[g].attributes = {} THEN <<>>
  ELSE IF streams[g] = <<>> THEN <<0>>
  ELSE [k \in DOMAIN streams[g] |-> streams[g][k].timestamp]

\* The state is moved to every timestamp of the group, and what it holds then of
\* some entities for an attribute is kept.
Series(g, a, I, places) ==
  FoldLeft(LAMBDA acc, t :
             LET moved == MoveTo(acc.places, t)
             IN [places |-> moved,
                 series |-> Append(acc.series,
                              [timestamp |-> t,
                               values |-> [i \in I |-> ValueOf(moved[g].group, a, i)]])],
           [places |-> places, series |-> <<>>], Timestamps(g))

Record(g, a, I, result) ==
  /\ GoTo(result.places)
  /\ moment' = IF result.series = <<>> THEN moment ELSE Last(result.series).timestamp
  /\ slice' = [group |-> g, attribute |-> a, ids |-> I, series |-> result.series]

\* SingleAttributeSlicingStrategy
SliceAttribute(g, a) ==
  /\ loaded /\ a \in DOMAIN state[g].attributes
  /\ Record(g, a, state[g].ids, Series(g, a, state[g].ids, Here))
  /\ UNCHANGED <<initial, archive, loaded, streams>>

\* SingleEntitySlicingStrategy by id; it gives all attributes, of which one is kept.
SliceEntity(g, i, a) ==
  /\ loaded /\ i \in state[g].ids /\ a \in DOMAIN state[g].attributes
  /\ Record(g, a, {i}, Series(g, a, {i}, Here))
  /\ UNCHANGED <<initial, archive, loaded, streams>>

\* By another attribute: an entity (the first) that has the value at time 0. With
\* none it raises an error, but the state has been moved.
SliceEntityByKey(g, key, v) ==
  /\ loaded /\ key \in DOMAIN state[g].attributes
  /\ LET start == MoveTo(Here, 0)
         matches == {i \in state[g].ids : ValueOf(start[g].group, key, i) = v}
     IN IF matches = {}
        THEN GoTo(start) /\ moment' = 0 /\ slice' = NoSlice
        ELSE \E i \in matches : Record(g, key, {i}, Series(g, key, {i}, start))
  /\ UNCHANGED <<initial, archive, loaded, streams>>

Next ==
  \/ \E u \in Updates : Store(u)
  \/ Load
  \/ \E t \in -1 .. End : SliceTimestamp(t)
  \/ \E g \in Groups, a \in Attributes : SliceAttribute(g, a)
  \/ \E g \in Groups, i \in Ids, a \in Attributes : SliceEntity(g, i, a)
  \/ \E g \in Groups, a \in Attributes, v \in Values : SliceEntityByKey(g, a, v)

Spec == Init /\ [][Next]_vars

-----------------------------------------------------------------------------
(* Properties.                                                             *)

\* The entities that a group starts with: those of the initial data, or else of
\* its first update. Entities that come later are not supported (results.py:239).
FirstIds(g) ==
  IF initial[g].ids # {} \/ streams[g] = <<>> THEN initial[g].ids ELSE streams[g][1].update.ids

\* The value at a time by definition: that of the last update that defines it.
AsOf(g, a, i, t) ==
  LET U == {u \in archive : /\ u.group = g /\ u.timestamp <= t
                            /\ i \in u.rows.ids /\ a \in DOMAIN u.rows.data
                            /\ u.rows.data[a][i] # Undefined}
  IN IF U # {} THEN (CHOOSE u \in U : \A v \in U : u = v \/ Before(v, u)).rows.data[a][i]
     ELSE IF a \in DOMAIN initial[g].data /\ i \in initial[g].ids THEN initial[g].data[a][i]
     ELSE Undefined

\* Wherever the state has been moved before, and however the updates were stored,
\* it shows what the updates up to the moment make of the initial data.
ShowsTheMoment ==
  loaded => \A g \in Groups : \A i \in FirstIds(g), a \in Attributes :
              ValueOf(state[g], a, i) = AsOf(g, a, i, moment)

\* A slice over time holds the value of each of its timestamps, not that of the
\* moment the state ends up at, and has every change of the group in it.
SlicesAreHistory ==
  \A k \in DOMAIN slice.series :
    \A i \in slice.ids \cap FirstIds(slice.group) :
      slice.series[k].values[i] =
        AsOf(slice.group, slice.attribute, i, slice.series[k].timestamp)
=============================================================================
