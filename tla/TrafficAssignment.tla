-------------------------- MODULE TrafficAssignment --------------------------
(***************************************************************************)
(* The traffic assignment model: a transport network that is copied into   *)
(* the database of an aequilibrae project at initialize, kept up to date   *)
(* column by column as attributes change, and turned into a graph that     *)
(* every update assigns the demand to.                                     *)
(*                                                                         *)
(* Aequilibrae is external: its database is a sequence of links in the     *)
(* order of their insertion, a graph is a copy of it, and the result of an *)
(* assignment is what went into it.                                        *)
(***************************************************************************)
EXTENDS Integers, Sequences, FiniteSets, SequencesExt

CONSTANTS
  Modalities,         \* of "roads", "waterways", "tracks", "passenger_tracks", "cargo_tracks"
  Segments,           \* the transport segments: a sequence of ids
  DemandLinks,        \* the virtual links: a sequence of ids
  TransportNodes, DemandNodes,   \* sequences of [id, point]
  Attributes,         \* the segments' first attributes: records of sequences
  Changes,            \* per attribute what other models may set it to
  Demands,            \* the matrices of the passengers and of the cargo
  Distance,           \* of every link
  LockTime,           \* what a lock adds to the free flow time
  Undefined, Special, Infinite, NaN, None,
  Eps,                \* eps: the least capacity, for aequilibrae; it stands for 0
  DefaultAlpha,
  MaxChanges          \* bound: attributes that change before the model is updated

VARIABLES
  modality,
  attrs,        \* the attributes: "speed", "extra", "capacity", "layout", "allowed"
  changed,      \* the attributes with changes
  demand,       \* the demand matrices of the state, or None
  nodes,        \* the nodes of the project: [id, centroid, point]
  links,        \* its links, or None before initialize
  graph,        \* the graph that was built of them
  published,    \* what the results were calculated from, and the corrected segments
  answered      \* whether the model has been updated with all that was received

vars == <<modality, attrs, changed, demand, nodes, links, graph, published, answered>>

Number(v) == IF v \in {Special, Undefined} THEN Infinite ELSE v

-----------------------------------------------------------------------------
\* ae_util

\* max_speed is the attribute of the modality itself: has_data holds for every attribute of
\* a group that has entities, with or without values.
MaxSpeeds(a) == [i \in DOMAIN Segments |-> Number(a.speed[i])]

\* The sum of four counts of lanes; four undefined integers add up to less than nothing.
LanesOf(layout) == IF layout = Undefined THEN -1 ELSE layout[1] + layout[2] + layout[3] + layout[4]
CalculatedCapacity(capacity, lanes) ==
  CASE capacity = Infinite /\ lanes = 0 -> NaN
    [] capacity = Infinite /\ lanes > 0 -> Infinite
    [] OTHER -> IF lanes <= 0 \/ capacity = 0 THEN Eps ELSE capacity * lanes
Capacities(a) ==
  [i \in DOMAIN Segments |-> CalculatedCapacity(Number(a.capacity[i]), LanesOf(a.layout[i]))]
CapacitiesPerLane(a) ==
  [i \in DOMAIN Segments |-> CalculatedCapacity(Number(a.capacity[i]), 1)]
CargoCapacities(a) ==
  [i \in DOMAIN Segments |-> IF a.allowed[i] = FALSE THEN Eps ELSE Infinite]

Direction(layout) ==
  LET one(n) == IF n > 1 THEN 1 ELSE n
  IN IF layout = Undefined THEN 0 ELSE one(layout[1]) - one(layout[2])

\* PointGenerator.generate_and_add: the first point that is free, step by step.
RECURSIVE FreePoint(_, _)
FreePoint(point, used) == IF point \in used THEN FreePoint(point + 1, used) ELSE point
AddNodes(project, group, centroid) ==
  FoldLeft(LAMBDA p, n : Append(p, [id |-> n.id, centroid |-> centroid,
                                    point |-> FreePoint(n.point, {m.point : m \in Range(p)})]),
           project, group)

\* get_links, get_demand_links (whose own speeds and capacities are left out)
SegmentLinks(a) ==
  [i \in DOMAIN Segments |->
     [id |-> Segments[i], speed |-> MaxSpeeds(a)[i], capacity |-> Capacities(a)[i],
      direction |-> Direction(a.layout[i]), free |-> 0, alpha |-> 0]]
VirtualLinks ==
  [i \in DOMAIN DemandLinks |->
     [id |-> DemandLinks[i], speed |-> Infinite, capacity |-> Infinite, direction |-> 0,
      free |-> 0, alpha |-> 0]]

\* add_links: rows are inserted after those that are there, with the next ids.
AddLinks(project, new) == project \o new

\* fill_project: what comes first has the first ids of aequilibrae.
FilledNodes == AddNodes(AddNodes(<<>>, DemandNodes, TRUE), TransportNodes, FALSE)
FilledLinks(a) == AddLinks(AddLinks(<<>>, SegmentLinks(a)), VirtualLinks)

-----------------------------------------------------------------------------
\* ProjectWrapper

\* update_column zips the values with all links: the last links keep what they have.
UpdateColumn(project, column, values) ==
  [i \in DOMAIN project |-> IF i \in DOMAIN values THEN [project[i] EXCEPT ![column] = values[i]]
                            ELSE project[i]]
CalculatedFreeFlow(project) ==
  [i \in DOMAIN project |-> IF project[i].speed = Infinite THEN 0 ELSE Distance \div project[i].speed]

\* Assigning: the zones are the centroids in the order of their nodes, and the rows and
\* columns of a demand matrix are theirs.
Assigned(g, d) ==
  LET centroids == SelectSeq(nodes, LAMBDA n : n.centroid)
  IN [graph |-> g, demand |-> d, zones |-> [i \in DOMAIN centroids |-> centroids[i].id]]

-----------------------------------------------------------------------------
\* the strategies of the modalities

\* free_flow_time: with the speeds the project has; waterways have locks where a capacity
\* is given.
HasLock(a, i) == modality = "waterways" /\ a.capacity[i] # Special
FreeFlowTime(project, a) ==
  LET base == CalculatedFreeFlow(project)
  IN [i \in DOMAIN project |->
        IF i \notin DOMAIN Segments THEN base[i]
        ELSE base[i] + (IF a.extra[i] = Undefined THEN 0 ELSE a.extra[i])
                     + (IF HasLock(a, i) THEN LockTime ELSE 0)]

\* alpha: 344 minutes over the free flow time, which stands for it here.
Alpha(project, a) ==
  [i \in DOMAIN project |->
     IF i \in DOMAIN Segments /\ HasLock(a, i) THEN <<"r over", FreeFlowTime(project, a)[i]>>
     ELSE DefaultAlpha]
InitializeParameters(project, a) ==
  IF modality = "waterways" THEN UpdateColumn(project, "alpha", Alpha(project, a)) ELSE project

GetCapacities(a) == IF modality = "cargo_tracks" THEN CargoCapacities(a) ELSE CapacitiesPerLane(a)

ProcessMaxSpeed(project, a, ch, init) ==
  IF "speed" \in ch THEN UpdateColumn(project, "speed", MaxSpeeds(a)) ELSE project
ProcessFreeFlowTime_Speed(project, a, ch, init) ==
  IF init \/ "speed" \in ch THEN UpdateColumn(project, "free", FreeFlowTime(project, a)) ELSE project
ProcessFreeFlowTime(project, a, ch, init) ==
  IF init \/ "speed" \in ch \/ "extra" \in ch
  THEN UpdateColumn(project, "free", FreeFlowTime(project, a)) ELSE project
AllowedChanged(ch, init) == init \/ "allowed" \in ch
CapacityChanged(ch, init) ==
  IF modality = "cargo_tracks" THEN AllowedChanged(ch, init) ELSE ch \cap {"capacity", "layout"} # {}
ProcessCapacity(project, a, ch, init) ==
  IF ~CapacityChanged(ch, init) THEN project
  ELSE UpdateColumn(project, "capacity",
                    IF modality = "cargo_tracks" THEN CargoCapacities(a) ELSE Capacities(a))

\* process_links: all three, in their order, before any([...]); the graph is built anew when
\* one of them did something.
ProcessLinks(project, a, ch, init) ==
  ProcessCapacity(ProcessFreeFlowTime(ProcessMaxSpeed(project, a, ch, init), a, ch, init), a, ch, init)
LinksChanged(ch, init) == init \/ ch \cap {"speed", "extra"} # {} \/ CapacityChanged(ch, init)

\* get_demands: on their tracks passengers and cargo do not meet.
NoDemand == "zeros"
GetDemands ==
  CASE modality = "passenger_tracks" -> [demand EXCEPT !.cargo = NoDemand]
    [] modality = "cargo_tracks" -> [demand EXCEPT !.passenger = NoDemand]
    [] OTHER -> demand

\* publish_results: without a capacity a segment gets no flow.
PublishResults(g) ==
  [result |-> Assigned(g, GetDemands),
   corrected |-> {i \in DOMAIN Segments : GetCapacities(attrs)[i] = Eps}]

-----------------------------------------------------------------------------
Init ==
  /\ modality \in Modalities /\ attrs \in Attributes
  /\ changed = {} /\ demand = None
  /\ nodes = <<>> /\ links = None /\ graph = None /\ published = None /\ answered = FALSE

Initialize ==
  /\ links = None
  /\ nodes' = FilledNodes
  /\ LET filled == InitializeParameters(FilledLinks(attrs), attrs)
     IN links' = ProcessLinks(filled, attrs, changed, TRUE)
  /\ graph' = links'
  /\ UNCHANGED <<modality, attrs, changed, demand, published, answered>>

\* The demand is needed before the first update.
Update ==
  /\ links # None /\ demand # None /\ ~answered
  /\ links' = ProcessLinks(links, attrs, changed, FALSE)
  /\ graph' = IF LinksChanged(changed, FALSE) THEN links' ELSE graph
  /\ published' = PublishResults(graph')
  /\ changed' = {} /\ answered' = TRUE
  /\ UNCHANGED <<modality, attrs, demand, nodes>>

\* Other models change the network and the demand.
ReceiveAttribute ==
  /\ Cardinality(changed) < MaxChanges
  /\ \E name \in DOMAIN Changes, i \in DOMAIN Segments : \E v \in Changes[name] :
       /\ attrs[name][i] # v
       /\ attrs' = [attrs EXCEPT ![name][i] = v]
       /\ changed' = changed \cup {name}
  /\ answered' = FALSE
  /\ UNCHANGED <<modality, demand, nodes, links, graph, published>>

ReceiveDemand ==
  /\ \E d \in Demands : d # demand /\ demand' = d
  /\ answered' = FALSE
  /\ UNCHANGED <<modality, attrs, changed, nodes, links, graph, published>>

Next == Initialize \/ Update \/ ReceiveAttribute \/ ReceiveDemand
Spec == Init /\ [][Next]_vars

-----------------------------------------------------------------------------
\* What the model answers is calculated from the demand and the network as they are known
\* then: the links of the graph stand in the order of the segments whose attributes get the
\* results and have the segments' present speeds, capacities and free flow times, whatever
\* changed in whatever order; the zones are the demand nodes in the order of the demand's
\* rows, no two nodes share a point, and what is corrected are the segments that are closed.
\* (The free flow times and the alpha of waterways do not follow a change of a lock, and
\* directions do not follow a layout.)
Closed(a, i) == IF modality = "cargo_tracks" THEN a.allowed[i] = FALSE ELSE a.capacity[i] = 0
Follows(link, i) ==
  /\ link.id = Segments[i]
  /\ link.speed = MaxSpeeds(attrs)[i]
  /\ link.capacity = (IF modality = "cargo_tracks" THEN CargoCapacities(attrs) ELSE Capacities(attrs))[i]
  /\ modality # "waterways" => link.free = FreeFlowTime(graph, attrs)[i]
AssignmentIsCurrent ==
  answered =>
    /\ \A i \in DOMAIN Segments : Follows(published.result.graph[i], i)
    /\ published.result.demand.passenger =
         IF modality = "cargo_tracks" THEN NoDemand ELSE demand.passenger
    /\ published.result.demand.cargo =
         IF modality = "passenger_tracks" THEN NoDemand ELSE demand.cargo
    /\ published.result.zones = [i \in DOMAIN DemandNodes |-> DemandNodes[i].id]
    /\ \A m, n \in DOMAIN nodes : nodes[m].point = nodes[n].point => m = n
    /\ published.corrected = {i \in DOMAIN Segments : Closed(attrs, i)}
=============================================================================
