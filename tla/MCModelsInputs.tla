---------------------------- MODULE MCModelsInputs ----------------------------
(* What the components of MCModels are checked on. *)
EXTENDS Integers, Sequences, TLC

CONSTANTS Undefined, None

-----------------------------------------------------------------------------
\* DrinkingWater: one link of every kind.
WaterLinks == <<[name |-> "p1", kind |-> "pipe"], [name |-> "pp", kind |-> "power_pump"],
                [name |-> "hp", kind |-> "head_pump"], [name |-> "v1", kind |-> "valve"]>>

-----------------------------------------------------------------------------
\* SwmmInp: two junctions, a rain gage, and an element of every other kind with its optional
\* attributes defined, undefined and out of range.
BaseNetwork ==
  <<[kind |-> "junctions", id |-> 1, invert_elevation |-> "1", max_depth |-> "2",
     water_depth |-> Undefined, surcharge_depth |-> "2", ponded_area |-> Undefined],
    [kind |-> "junctions", id |-> 2, invert_elevation |-> "2", max_depth |-> Undefined,
     water_depth |-> "1", surcharge_depth |-> Undefined, ponded_area |-> "1"],
    [kind |-> "raingages", id |-> 3]>>
Geometry == <<"1", "2", "0", "1">>
Maybe == {Undefined, "2"}
Flags == {Undefined, TRUE, FALSE}
CurvePoints == {Undefined, "points"}
OutfallElements ==
  [kind : {"outfalls"}, id : {4}, invert_elevation : {"1"}, outfall_type : {"FIXED", "FREE", "TIDAL"},
   fixed_stage : Maybe, flap_gate : Flags]
StorageElements ==
  [kind : {"storage"}, id : {4}, invert_elevation : {"1"}, max_depth : {"2"}, water_depth : Maybe,
   storage_geometry : {Undefined, "FUNCTIONAL", "TABULAR", "PARABOLIC", "CONICAL"},
   storage_curve : CurvePoints,
   storage_geometry_parameters : {Undefined, <<"1", "2", "0">>, <<"1", "2", "3">>},
   storage_coefficient : {Undefined, "0", "1"}, storage_exponent : {"3"}, storage_constant : Maybe]
ConduitElements ==
  [kind : {"conduits"}, id : {3, 4}, from_node : {1}, to_node : {2, 9}, length : {"0", "1"},
   roughness : {"2"}, from_offset : Maybe, to_offset : {"1"}, flow : Maybe,
   cross_section_shape : {"CIRCULAR"}, cross_section_geometry : {Geometry},
   barrels : {"0", "2"}]
PumpElements ==
  [kind : {"pumps"}, id : {4}, from_node : {1}, to_node : {2}, pump_curve : CurvePoints,
   pump_curve_type : {Undefined, "PUMP1"}, startup_depth : Maybe, shutoff_depth : {"1"}]
OrificeElements ==
  [kind : {"orifices"}, id : {4}, from_node : {1}, to_node : {2}, orifice_type : {"SIDE"},
   orifice_shape : {"CIRCULAR"}, crest_height : Maybe, discharge_coefficient : {"1"},
   flap_gate : Flags, cross_section_geometry : {Geometry}]
WeirElements ==
  [kind : {"weirs"}, id : {4}, from_node : {1}, to_node : {2},
   weir_type : {"V-NOTCH", "TRAPEZOIDAL", "TRANSVERSE"}, crest_height : Maybe,
   discharge_coefficient : {"1"}, flap_gate : Flags, cross_section_geometry : {Geometry}]
OutletElements ==
  [kind : {"outlets"}, id : {4}, from_node : {1}, to_node : {2},
   outlet_rating_type : {"TABULAR", "FUNCTIONAL"}, crest_height : Maybe,
   rating_curve : CurvePoints, rating_coefficient : Maybe, rating_exponent : {Undefined},
   flap_gate : Flags]
SubcatchmentElements ==
  [kind : {"subcatchments"}, id : {4}, raingage : {3}, outlet_node : {2}, area : {"0", "1"},
   percent_impervious : {"2"}, width : {"1"}, slope : {"0", "-1"}, n_imperv : Maybe,
   n_perv : {Undefined}, s_imperv : {Undefined}, s_perv : {"1"}, pct_zero : {Undefined},
   max_infiltration_rate : Maybe, min_infiltration_rate : {Undefined},
   decay_constant : {Undefined}, dry_time : {"1"}, suction_head : Maybe,
   conductivity : {Undefined}, initial_deficit : {Undefined}, curve_number : Maybe]
SecondPump ==
  [kind |-> "pumps", id |-> 5, from_node |-> 1, to_node |-> 2, pump_curve |-> "others",
   pump_curve_type |-> "PUMP2", startup_depth |-> Undefined, shutoff_depth |-> Undefined]
SwmmNetworks ==
  {Append(BaseNetwork, e) : e \in OutfallElements \cup ConduitElements \cup OrificeElements
                                 \cup WeirElements \cup SubcatchmentElements}
  \cup {BaseNetwork \o <<SecondPump, e>> :
          e \in StorageElements \cup PumpElements \cup OutletElements}

-----------------------------------------------------------------------------
\* Rules: clock times on both sides of midnight, simulation times, attributes, and rules
\* whose targets and sources are given by ids, references and defaults, or missing.
Condition(kind, o, v) ==
  [op |-> o, left |-> [of |-> kind], right |-> [of |-> "literal", value |-> v]]
Simulation(o, v) == Condition("simtime", o, v)
Clock(o, v) == Condition("clocktime", o, v)
Attribute(o, v) == [op |-> o, left |-> [of |-> "literal", value |-> v],
                    right |-> [of |-> "attribute", name |-> "a"]]
Rule(condition, value, otherwise) ==
  [condition |-> condition, output |-> "x", value |-> value, else_value |-> otherwise,
   to_dataset |-> None, from_dataset |-> None, from_id |-> None, from_reference |-> None,
   to_id |-> None, to_reference |-> None]
FirstConditions ==
  {[op |-> "AND", operands |-> <<Clock(">=", 2), [op |-> "NOT", operands |-> <<Clock("<", 0)>>]>>],
   [op |-> "OR", operands |-> <<Clock("<", 2), Simulation(">=", 6), Clock(">=", 0)>>],
   Attribute("<=", 1), Simulation("==", 4),
   [op |-> "AND", operands |-> <<Attribute("<=", 1), Simulation(">=", 2)>>]}
FirstRules == {[Rule(c, "on", e) EXCEPT !.to_id = 2, !.from_reference = "r"] :
                 e \in {None, "off"}, c \in FirstConditions}
SecondRules ==
  {[Rule(c, "high", e) EXCEPT !.to_reference = "q", !.to_dataset = "d2", !.from_id = i,
                              !.from_dataset = "d1"] :
     e \in {None, "low"}, i \in {1, 2, 9}, c \in {Simulation(">=", 6), Clock(">=", 4), Attribute("<=", 1)}}
  \cup {[Rule(Simulation(">=", 6), "high", e) EXCEPT !.to_reference = "q", !.to_dataset = "d1"] :
          e \in {None, "low"}}
RuleDefaults == [to_dataset |-> "d2", from_dataset |-> "d1"]
NoDefaults == [to_dataset |-> None, from_dataset |-> None]
RuleProjects ==
  {[rulesDataset |-> <<first>>, rules |-> <<second>>, defaults |-> RuleDefaults,
    ownDefaults |-> NoDefaults] : first \in FirstRules, second \in SecondRules}
  \cup {[rulesDataset |-> <<>>, rules |-> <<first>>, defaults |-> NoDefaults,
         ownDefaults |-> RuleDefaults] : first \in FirstRules}
RuleDatasets ==
  [d1 |-> <<[ids |-> <<1, 2>>, references |-> <<"r", "p">>]>>,
   d2 |-> <<[ids |-> <<7>>, references |-> <<>>], [ids |-> <<3, 2>>, references |-> <<"r", "q">>]>>]

-----------------------------------------------------------------------------
\* Network: parallel links and one in the other direction, 11 - 1 = 2 - 12 with 13 at a node
\* of its own; two virtual nodes at one node; and two parts that only a virtual node joins.
PathLink(from, to, layout, value) == [from |-> from, to |-> to, layout |-> layout, value |-> value]
VirtualLink(from, to) == [from |-> from, to |-> to]
PathNetworks ==
  {[nodes |-> <<1, 2, 4>>, virtual |-> <<11, 12, 13>>,
    links |-> <<PathLink(1, 2, None, 3), PathLink(1, 2, "both", 5), PathLink(4, 2, "reverse", 7)>>,
    virtualLinks |-> <<VirtualLink(12, 1), VirtualLink(4, 13), VirtualLink(11, 2), VirtualLink(1, 11)>>],
   [nodes |-> <<1, 2>>, virtual |-> <<5, 6>>, links |-> <<PathLink(2, 1, "unknown", 3)>>,
    virtualLinks |-> <<VirtualLink(5, 1), VirtualLink(6, 1), VirtualLink(2, 5)>>],
   [nodes |-> <<1, 2, 3>>, virtual |-> <<5, 6, 7>>, links |-> <<PathLink(2, 3, None, 3)>>,
    virtualLinks |-> <<VirtualLink(5, 1), VirtualLink(6, 1), VirtualLink(6, 2), VirtualLink(7, 3)>>]}
Plan(kinds, noUpdate) ==
  [calculations |-> [i \in DOMAIN kinds |-> [type |-> kinds[i], source |-> None]], noUpdate |-> noUpdate]
PathPlans == {Plan(<<"average", "distance">>, FALSE), Plan(<<"sum", "sum">>, FALSE),
              Plan(<<"sum", "average">>, FALSE), Plan(<<"sum", "average">>, TRUE)}

-----------------------------------------------------------------------------
\* TrafficDemand: rows of scenario parameters, some with a multiplier, and investments before,
\* between and at the moments.
DemandRow(time, parameter, multiplier) ==
  [time |-> time, parameter |-> parameter, multiplier |-> multiplier]
DemandTapes == {<<DemandRow(0, 1, 0), DemandRow(1, 2, 1)>>,
                <<DemandRow(0, 1, 0), DemandRow(1, 0, 1), DemandRow(2, 2, -2)>>}
Investment(seconds, node, multiplier) == [seconds |-> seconds, node |-> node, multiplier |-> multiplier]
DemandPlans == {<<Investment(0, 1, 1), Investment(3, 2, -1)>>, <<Investment(2, 3, 2), Investment(2, 3, 2)>>}

-----------------------------------------------------------------------------
\* TrafficAssignment: two demand nodes, one of them where a transport node is.
AssignmentNodes == <<[id |-> 1, point |-> 0], [id |-> 2, point |-> 3]>>
AssignmentZones == <<[id |-> 8, point |-> 3], [id |-> 7, point |-> 0]>>
AssignmentAttributes(special) ==
  {[speed |-> <<s>>, extra |-> <<e>>, capacity |-> <<c>>, layout |-> <<<<2, 1, 0, 0>>>>,
    allowed |-> <<Undefined>>] : s \in {2, special}, e \in {1, Undefined}, c \in {special, 0}}
AssignmentChanges == [speed |-> {1}, extra |-> {0, 1}, capacity |-> {0, 5},
                      layout |-> {<<0, 0, 0, 0>>}, allowed |-> {TRUE, FALSE}]

-----------------------------------------------------------------------------
\* TrafficKpi: tapes from the start, with rows at different moments, and from later on.
KpiKinds == {"truck_medium", "tractor_light", "tractor_heavy", "passenger_car", "rhc", "lr",
             "train_medium_length", "ic", "st"}
KpiRow(time, co2, n) ==
  [time |-> time, factor |-> [co2 |-> co2, nox |-> 2, energy |-> co2 + 1],
   share |-> [v \in KpiKinds |-> IF v \in {"rhc", "ic", "truck_medium"} THEN n ELSE 1],
   capacity |-> n, load |-> 2]
KpiCoefficients == {<<KpiRow(0, 1, 1), KpiRow(2, 2, 1)>>,
                    <<KpiRow(0, 2, 1), KpiRow(1, 1, 2), KpiRow(3, 1, 3)>>, <<KpiRow(1, 1, 1)>>}
KpiParameterRow(time, p, q) == [time |-> time, values |-> [p |-> p, q |-> q]]
KpiScenarios == {<<KpiParameterRow(0, 1, 2), KpiParameterRow(1, 2, 1)>>,
                 <<KpiParameterRow(0, 3, 0), KpiParameterRow(3, 1, 1)>>,
                 <<KpiParameterRow(2, 1, 1)>>, None}
KpiParameters == {[cargo |-> {"p", "q"}, passenger |-> {"q"}], [cargo |-> {}, passenger |-> {"p"}]}

-----------------------------------------------------------------------------
\* OverlapStatus and AreaAggregation: the geometry.
OverlapsNear == {<<1, 11>>, <<1, 12>>, <<1, 13>>, <<2, 13>>}
AreasOverlapping == {<<"a", 1>>, <<"a", 2>>, <<"b", 2>>, <<"b", 3>>}

-----------------------------------------------------------------------------
\* DatasetCreator: groups with and without a source, enumerations filled by two attributes,
\* links to two groups, by property and by position, and constants.
Text(s) == [text |-> s, number |-> -1]
Number(n) == [text |-> "", number |-> n]
Plain == [name |-> "x", property |-> "p", source |-> None, enum |-> None, links |-> None, value |-> None]
Enumerated == [Plain EXCEPT !.enum = "e"]
LinkTo(group, property) == [group |-> group, property |-> property]
CreatorAttributes ==
  {Enumerated, [Enumerated EXCEPT !.property = "q"], [Plain EXCEPT !.source = "s2"],
   [Plain EXCEPT !.property = None, !.value = Number(7)],
   [Plain EXCEPT !.property = "q", !.links = <<LinkTo("h", "p"), LinkTo("g", "p")>>],
   [Plain EXCEPT !.property = "i", !.links = <<LinkTo("h", None)>>]}
CreatorGroup(name, source, count, attributes) ==
  [name |-> name, source |-> source, count |-> count, attributes |-> attributes]
FirstGroups == {CreatorGroup("g", s, 1, <<p, q>>) :
                  s \in {None, "s1"}, p \in CreatorAttributes, q \in CreatorAttributes}
SecondGroups == {CreatorGroup("h", "s2", 0, attributes) : attributes \in {<<>>, <<Plain>>, <<Enumerated>>}}
                \cup {CreatorGroup("h", None, 2, <<>>)}
CreatorConfigs == {<<g, h>> : g \in FirstGroups, h \in SecondGroups}
                  \cup {<<h, g>> : g \in FirstGroups, h \in SecondGroups}
Columns == {<<Text("a"), Text("b")>>, <<Text("b"), Text("b")>>, <<Number(0), Text("a")>>}
Source(p, q, i) == ("p" :> p @@ "q" :> q @@ "i" :> i)
Indices == <<Number(1), Number(0)>>
CreatorTables ==
  {"s1" :> Source(p, q, Indices) @@ "s2" :> Source(r, r, Indices) : p \in Columns, q \in Columns, r \in Columns}
  \cup {"s1" :> Source(<<Text("a")>>, <<Text("b")>>, <<Number(1)>>) @@ "s2" :> Source(r, r, Indices) :
          r \in Columns}
CreatorEnums == {<<>>, "e" :> <<"a", "b", "c">>}
=============================================================================
