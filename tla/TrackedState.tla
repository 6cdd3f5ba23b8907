---------------------------- MODULE TrackedState ----------------------------
(***************************************************************************)
(* What a model knows of one entity group, and which of it is news: the    *)
(* arrays of its attributes with their change tracking, the updates that   *)
(* are read into them and generated from them.                             *)
(*                                                                         *)
(* An array is a function of the entity ids (where an id is in the array   *)
(* is the index's business) with curr, the copy that is made of it when it *)
(* is first accessed after a reset, or None when it has not been.          *)
(***************************************************************************)

CONSTANTS Undefined, None

\* get_undefined_array; the array of an attribute that has no data yet is None.
UndefinedArray(I) == [data |-> [i \in I |-> Undefined], curr |-> None]

\* TrackedArray.changed: where the data differs from the copy.
Changed(array) ==
  IF array = None \/ array.curr = None THEN {}
  ELSE {i \in DOMAIN array.data : array.data[i] # array.curr[i]}

\* The entities that an array has a value for: none when it has no data yet.
Entities(array) == IF array = None THEN {} ELSE DOMAIN array.data

\* UniformAttribute._set_item: undefined values leave what is there, unless
\* they are to be processed as well. (Mutant: the copy is made after the write.)
SetItem_CopiesLate(array, values, processUndefined) ==
  LET data == [i \in DOMAIN array.data |->
                 IF i \in DOMAIN values /\ (processUndefined \/ values[i] # Undefined)
                 THEN values[i] ELSE array.data[i]]
  IN [data |-> data, curr |-> IF array.curr = None THEN data ELSE array.curr]
SetItem(array, values, processUndefined) ==
  [data |-> [i \in DOMAIN array.data |->
               IF i \in DOMAIN values /\ (processUndefined \/ values[i] # Undefined)
               THEN values[i] ELSE array.data[i]],
   curr |-> IF array.curr = None THEN array.data ELSE array.curr]

\* Attribute.resize to the entities I. The new array is made of undefined values
\* and tracks its changes from there; only an existing copy is carried over.
\* (Mutant: the copy is not carried over.)
Resize_Forgets(array, I) ==
  IF Entities(array) = I THEN array
  ELSE [data |-> [i \in I |-> IF i \in Entities(array) THEN array.data[i] ELSE Undefined],
        curr |-> None]
Resize(array, I) ==
  IF Entities(array) = I THEN array
  ELSE [data |-> [i \in I |-> IF i \in Entities(array) THEN array.data[i] ELSE Undefined],
        curr |-> [i \in I |-> IF i \in Entities(array) /\ array.curr # None
                              THEN array.curr[i] ELSE Undefined]]

\* TrackedArray.reset
Reset(array) == IF array = None THEN None ELSE [array EXCEPT !.curr = None]

\* Attribute.is_initialized, without its memory of having been so before.
IsFilled(array) == array # None /\ \A i \in DOMAIN array.data : array.data[i] # Undefined

-----------------------------------------------------------------------------
(* Entity groups: the known ids and the arrays of the attributes. An update *)
(* has rows for some ids, with values for some attributes.                  *)

NoRows == [ids |-> {}, data |-> [a \in {} |-> {}]]
Rows(I, values) == [ids |-> I, data |-> values]

\* EntityDataHandler._apply_update: attributes that are not registered are ignored.
ApplyUpdate(group, update, processUndefined) ==
  [group EXCEPT !.attributes =
     [a \in DOMAIN group.attributes |->
        IF a \notin DOMAIN update.data THEN group.attributes[a]
        ELSE SetItem(IF group.attributes[a] = None THEN UndefinedArray(group.ids)
                     ELSE group.attributes[a],
                     update.data[a], processUndefined)]]

\* EntityDataHandler.receive_update, after the first data: new entities are
\* added to all attributes.
ReceiveUpdate(group, update, processUndefined) ==
  LET ids == group.ids \cup update.ids
      grown == [ids |-> ids,
                attributes |-> [a \in DOMAIN group.attributes |->
                                  Resize(group.attributes[a], ids)]]
  IN ApplyUpdate(grown, update, processUndefined)

\* EntityDataHandler.initialize: the initial data is no news.
Initialize(names, update) ==
  LET empty == [ids |-> update.ids, attributes |-> [a \in names |-> UndefinedArray(update.ids)]]
      applied == ApplyUpdate(empty, update, FALSE)
  IN [applied EXCEPT !.attributes = [a \in names |-> Reset(applied.attributes[a])]]

\* generate_update for the attributes F: the entities of which anything changed,
\* the attributes of which anything changed, undefined where nothing did.
GenerateUpdate(group, F) ==
  LET changed == {a \in F : Changed(group.attributes[a]) # {}}
      ids == UNION {Changed(group.attributes[a]) : a \in F}
  IN Rows(ids, [a \in changed |->
                  [i \in ids |-> IF i \in Changed(group.attributes[a])
                                 THEN group.attributes[a].data[i] ELSE Undefined]])

\* reset_tracked_changes
ResetTrackedChanges(group, F) ==
  [group EXCEPT !.attributes =
     [a \in DOMAIN group.attributes |->
        IF a \in F THEN Reset(group.attributes[a]) ELSE group.attributes[a]]]
=============================================================================
