---------------------------- MODULE OverlapStatus ----------------------------
(***************************************************************************)
(* The overlap status model: entities of a source group and of target      *)
(* groups that are near each other form connections.  A connection gets an *)
(* entity of the overlap dataset the first time that both its ends are     *)
(* active, and from then on this entity shows whether they are.            *)
(***************************************************************************)
EXTENDS Integers, Sequences, FiniteSets, SequencesExt

CONSTANTS
  Sources, Targets,   \* source entities; a sequence of target groups (sets of entities)
  Near,               \* pairs <<source, target>> within the distance threshold
  Overlaps,           \* the number of entities in the overlap dataset
  Checked,            \* the choices of which of the groups have a status attribute
  Undefined

VARIABLES
  checked, status,    \* groups with a status attribute, and the attributes
  published,          \* per connection of every target group: overlap_indices, 0 if none
  entities,           \* the overlap entities: [from, to, active]
  next,               \* _next_overlap_index
  failed,             \* IndexError: not enough overlap entities
  undefinedSeen, dirty

vars == <<checked, status, published, entities, next, failed, undefinedSeen, dirty>>

Groups == 0..Len(Targets)       \* group 0 is the source
Members(g) == IF g = 0 THEN Sources ELSE Targets[g]
Entities == UNION {Members(g) : g \in Groups}

\* resolve_connections: source by source, the targets near it.
Connections ==
  [g \in DOMAIN Targets |->
     LET near == {p \in Near : p[1] \in Sources /\ p[2] \in Targets[g]}
     IN SetToSortSeq(near, LAMBDA p, q : p[1] < q[1] \/ (p[1] = q[1] /\ p[2] < q[2]))]

Init ==
  /\ checked \in Checked
  /\ status \in [Entities -> {0, 1, Undefined}]
  /\ published = [g \in DOMAIN Targets |-> [k \in DOMAIN Connections[g] |-> 0]]
  /\ entities = [i \in 1..Overlaps |-> [from |-> Undefined, to |-> Undefined, active |-> Undefined]]
  /\ next = 1 /\ failed = FALSE /\ undefinedSeen = FALSE /\ dirty = TRUE

Receive ==
  /\ ~dirty /\ ~failed
  /\ \E e \in Entities : \E s \in {0, 1} :
       status[e] # s /\ status' = [status EXCEPT ![e] = s]
  /\ dirty' = TRUE
  /\ UNCHANGED <<checked, published, entities, next, failed, undefinedSeen>>

\* _calculate_active_overlaps: without an attribute an entity is active.
StatusOf(g, e) == IF g \in checked THEN status[e] ELSE 1
Active(g, connection) ==
  LET from == StatusOf(0, connection[1])
      to == StatusOf(g, connection[2])
  IN IF Undefined \in {from, to} THEN Undefined ELSE IF from = 1 /\ to = 1 THEN 1 ELSE 0

\* _publish_active_overlaps_for_connection: the mask of new overlaps is cut down to the
\* connections that are defined, and positions in it are taken for connections.
NewOverlaps(g) ==
  LET defined == SelectSeq([k \in DOMAIN Connections[g] |-> k],
                           LAMBDA k : Active(g, Connections[g][k]) # Undefined)
  IN SelectSeq([j \in DOMAIN defined |-> j],
               LAMBDA j : Active(g, Connections[g][defined[j]]) # 0 /\ published[g][defined[j]] = 0)

\* _publish_connections for one target group, given what the groups before it used.
FirstIndex_Kept(g) == next
FirstIndex(g) == next + FoldLeft(LAMBDA n, h : n + Len(NewOverlaps(h)), 0, [h \in 1..(g - 1) |-> h])
Published(g) ==
  LET new == NewOverlaps(g)
  IN [k \in DOMAIN published[g] |->
        IF \E j \in DOMAIN new : new[j] = k
        THEN FirstIndex(g) - 1 + (CHOOSE j \in DOMAIN new : new[j] = k)
        ELSE published[g][k]]
\* The last group that writes an entity decides what it shows.
Shown(i, before) ==
  LET owners == {<<g, k>> \in UNION {{g} \X DOMAIN Connections[g] : g \in DOMAIN Targets} :
                   Published(g)[k] = i}
  IN IF owners = {} THEN before
     ELSE LET o == CHOOSE o \in owners : \A q \in owners : q[1] < o[1] \/ (q[1] = o[1] /\ q[2] <= o[2])
              connection == Connections[o[1]][o[2]]
          IN [from |-> connection[1], to |-> connection[2], active |-> Active(o[1], connection)]

Needed == FirstIndex(Len(Targets) + 1) - 1
SeesUndefined == \E g \in DOMAIN Targets : \E k \in DOMAIN Connections[g] :
                   Active(g, Connections[g][k]) = Undefined

\* update: one target group after the other.  The error about missing overlap entities
\* ends the model; what it had written by then is never published.
Update ==
  /\ dirty /\ ~failed /\ dirty' = FALSE
  /\ undefinedSeen' = (undefinedSeen \/ SeesUndefined)
  /\ IF Needed > Overlaps
     THEN failed' = TRUE /\ UNCHANGED <<published, entities, next>>
     ELSE /\ published' = [g \in DOMAIN Targets |-> Published(g)]
          /\ entities' = [i \in DOMAIN entities |-> Shown(i, entities[i])]
          /\ next' = Needed + 1
          /\ UNCHANGED failed
  /\ UNCHANGED <<checked, status>>

Next == Receive \/ Update
Spec == Init /\ [][Next]_vars

-----------------------------------------------------------------------------
ActiveConnections ==
  {p \in Near : \E g \in DOMAIN Targets : p[2] \in Targets[g] /\ Active(g, p) = 1}
ShownAsActive == {<<entities[i].from, entities[i].to>> : i \in {j \in DOMAIN entities : entities[j].active = 1}}

\* After an update the overlap entities that are active are exactly the pairs of near
\* entities that are both active.
OverlapsAreShown == ~dirty /\ ~failed => ShownAsActive = ActiveConnections

\* The same, and that no pair takes two overlap entities or changes its entity, as long as
\* no connection had an undefined status in an update.
DefinedOverlapsAreShown ==
  ~undefinedSeen =>
    /\ OverlapsAreShown
    /\ \A i, j \in DOMAIN entities :
         i # j /\ entities[i].from # Undefined =>
           <<entities[i].from, entities[i].to>> # <<entities[j].from, entities[j].to>>
=============================================================================
