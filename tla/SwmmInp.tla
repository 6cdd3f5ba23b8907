------------------------------ MODULE SwmmInp ------------------------------
(***************************************************************************)
(* The SWMM input file of an urban drainage dataset: how the simulation    *)
(* wrapper synthesises it, processor after processor, and how the dataset  *)
(* creator imports such a file.  Rows are sequences of cells; numbers and  *)
(* keywords are strings.                                                   *)
(***************************************************************************)
EXTENDS Naturals, SequencesExt

CONSTANTS
  Networks,   \* the datasets: sequences of records with the kind, id and attributes of an entity
  Override,   \* infiltration_model_override of the model config, or Undefined
  Default,    \* infiltration_model_default of the dataset
  Undefined

VARIABLES
  net,     \* the dataset
  names,   \* the IdMapper
  inp,     \* the rows written: records of a section and its cells
  stage,   \* "register", "build", "done" or "failed"
  next     \* which entity is next

vars == <<net, names, inp, stage, next>>

Processors ==
  << <<"junctions", "J">>, <<"outfalls", "OF">>, <<"storage", "ST">>, <<"raingages", "RG">>,
     <<"subcatchments", "S">>, <<"conduits", "C">>, <<"pumps", "PU">>, <<"orifices", "OR">>,
     <<"weirs", "W">>, <<"outlets", "OU">> >>
Links == {"conduits", "pumps", "orifices", "weirs", "outlets"}

Init == net \in Networks /\ names = <<>> /\ inp = <<>> /\ stage = "register" /\ next = 1

\* Pass 1: the ids of all groups get their names; an id that is taken fails.
Register ==
  /\ stage = "register"
  /\ LET ids == {net[k].id : k \in DOMAIN net}
         unique == Cardinality(ids) = Len(net)
         entity(i) == CHOOSE e \in {net[k] : k \in DOMAIN net} : e.id = i
         prefix(e) == (CHOOSE p \in {Processors[k] : k \in DOMAIN Processors} : p[1] = e.kind)[2]
     IN /\ names' = IF unique THEN [i \in ids |-> prefix(entity(i)) \o ToString(i)] ELSE names
        /\ stage' = IF unique THEN "build" ELSE "failed"
  /\ UNCHANGED <<net, inp, next>>

(***************************************************************************)
(* Pass 2: the rows of an entity e; << >> if it is refused                 *)
(***************************************************************************)
Name(e) == names[e.id]
Opt(v, default) == IF v = Undefined THEN default ELSE v
Num(v) == Opt(v, "0")
Nums(e, attrs) == [k \in DOMAIN attrs |-> Num(e[attrs[k]])]
Positive(v) == v \notin {"0", "-1", Undefined}
YesNo(v) == IF v = TRUE THEN "YES" ELSE "NO"
Row(section, cells) == [section |-> section, cells |-> cells]
AtLeastOne(n) == IF n \in {"0", "-1"} THEN "1" ELSE n
XSection(e, shape, barrels) == Row("XSECTIONS", <<Name(e), shape>> \o e.cross_section_geometry \o <<barrels>>)

\* add_curve: a name that has not been used in this file, and the rows of the curve.
Curve(points, type) ==
  LET name == "curve_" \o ToString(1 + Cardinality({r.cells[1] : r \in {inp[k] : k \in
                 {j \in DOMAIN inp : inp[j].section = "CURVES"}}}))
  IN [name |-> name, row |-> Row("CURVES", <<name, type, points>>)]

JunctionRows_Ponded(e) ==
  <<Row("JUNCTIONS", <<Name(e)>> \o Nums(e, <<"invert_elevation", "max_depth", "water_depth",
                                             "ponded_area", "surcharge_depth">>))>>
JunctionRows(e) ==
  <<Row("JUNCTIONS", <<Name(e)>> \o Nums(e, <<"invert_elevation", "max_depth", "water_depth",
                                             "surcharge_depth", "ponded_area">>))>>

OutfallRows(e) ==
  CASE e.outfall_type = "FIXED" ->
         <<Row("OUTFALLS", <<Name(e), Num(e.invert_elevation), "FIXED", Num(e.fixed_stage), YesNo(e.flap_gate)>>)>>
    [] e.outfall_type \in {"FREE", "NORMAL"} ->
         <<Row("OUTFALLS", <<Name(e), Num(e.invert_elevation), e.outfall_type, YesNo(e.flap_gate)>>)>>
    [] OTHER -> <<>>

Geometric == {"CYLINDRICAL", "CONICAL", "PARABOLIC", "PYRAMIDAL"}
\* A geometry that is given decides; without one there may be a curve, and else the
\* coefficients of a function.
StorageShape(e) ==
  CASE e.storage_geometry # Undefined -> e.storage_geometry
    [] e.storage_curve # Undefined -> "TABULAR"
    [] OTHER -> "FUNCTIONAL"
StorageRows(e) ==
  LET shape == StorageShape(e)
      start == <<Name(e)>> \o Nums(e, <<"invert_elevation", "max_depth", "water_depth">>) \o <<shape>>
      curve == Curve(e.storage_curve, "Storage")
      geometry == e.storage_geometry_parameters
  IN CASE shape \in Geometric /\ geometry # Undefined /\ (shape = "PARABOLIC" => Positive(geometry[3])) ->
            <<Row("STORAGE", start \o geometry)>>
       [] shape = "TABULAR" /\ e.storage_curve # Undefined ->
            <<Row("STORAGE", Append(start, curve.name)), curve.row>>
       [] shape = "FUNCTIONAL" /\ (Num(e.storage_coefficient) # "0" \/ Num(e.storage_constant) # "0") ->
            <<Row("STORAGE", start \o Nums(e, <<"storage_coefficient", "storage_exponent", "storage_constant">>))>>
       [] OTHER -> <<>>

RainGageRows(e) == <<Row("RAINGAGES", <<Name(e), "INTENSITY", "1:00", "1.0", "TIMESERIES">>)>>

\* The link rows start with the names of the link and its end points.
Ends(e) == <<Name(e), names[e.from_node], names[e.to_node]>>
ConduitRows(e) ==
  IF ~Positive(e.length) THEN <<>>
  ELSE <<Row("CONDUITS", Ends(e) \o Nums(e, <<"length", "roughness", "from_offset", "to_offset", "flow">>) \o <<"0">>),
         XSection(e, e.cross_section_shape, AtLeastOne(Opt(e.barrels, "1")))>>

PumpRows(e) ==
  LET type == Opt(e.pump_curve_type, "IDEAL")
      curve == Curve(e.pump_curve, type)
      row(name) == Row("PUMPS", Ends(e) \o <<name, "ON">> \o Nums(e, <<"startup_depth", "shutoff_depth">>))
  IN CASE e.pump_curve = Undefined -> <<row("*")>>
       [] type # "IDEAL" -> <<row(curve.name), curve.row>>
       [] OTHER -> <<>>

OrificeRows(e) ==
  <<Row("ORIFICES", Ends(e) \o <<e.orifice_type>> \o Nums(e, <<"crest_height", "discharge_coefficient">>)
                    \o <<YesNo(e.flap_gate), "0">>),
    XSection(e, e.orifice_shape, "1")>>

WeirShape(type) == CASE type = "V-NOTCH" -> "TRIANGULAR" [] type = "TRAPEZOIDAL" -> type [] OTHER -> "RECT_OPEN"
WeirRows(e) ==
  <<Row("WEIRS", Ends(e) \o <<e.weir_type>> \o Nums(e, <<"crest_height", "discharge_coefficient">>)
                 \o <<YesNo(e.flap_gate), "0", "0", "YES">>),
    XSection(e, WeirShape(e.weir_type), "1")>>

OutletRows(e) ==
  LET start == Ends(e) \o <<Num(e.crest_height), e.outlet_rating_type>>
      curve == Curve(e.rating_curve, "Rating")
  IN CASE e.outlet_rating_type = "TABULAR" /\ e.rating_curve # Undefined ->
            <<Row("OUTLETS", start \o <<curve.name, YesNo(e.flap_gate)>>), curve.row>>
       [] e.outlet_rating_type = "TABULAR" -> <<>>
       [] OTHER -> <<Row("OUTLETS", start \o <<Opt(e.rating_coefficient, "1"), Opt(e.rating_exponent, "0.5"),
                                              YesNo(e.flap_gate)>>)>>

Family(m) ==
  CASE m \in {"HORTON", "MODIFIED_HORTON"} -> "HORTON"
    [] m \in {"GREEN_AMPT", "MODIFIED_GREEN_AMPT"} -> "GREEN_AMPT"
    [] m = "CURVE_NUMBER" -> m
    [] OTHER -> Undefined
Indicates ==
  [HORTON |-> {"max_infiltration_rate", "min_infiltration_rate", "decay_constant"}, GREEN_AMPT |-> {"suction_head", "initial_deficit"},
   CURVE_NUMBER |-> {"curve_number"}]
\* The override, or the only family an attribute is set of, or the default.
InfiltrationModel(e) ==
  LET families == {f \in DOMAIN Indicates : \E a \in Indicates[f] : e[a] # Undefined}
  IN CASE Override # Undefined -> Override
       [] Cardinality(families) = 1 -> CHOOSE f \in families : TRUE
       [] OTHER -> Default
\* The default of a parameter stands for itself: "d_..." in the unit system of the dataset.
Defaults(e, attrs) == [k \in DOMAIN attrs |-> Opt(e[attrs[k]], "d_" \o attrs[k])]
InfiltrationCells(e) ==
  CASE Family(InfiltrationModel(e)) = "HORTON" ->
         Defaults(e, <<"max_infiltration_rate", "min_infiltration_rate", "decay_constant", "dry_time">>) \o <<"0">>
    [] Family(InfiltrationModel(e)) = "GREEN_AMPT" ->
         Defaults(e, <<"suction_head", "conductivity", "initial_deficit">>)
    [] Family(InfiltrationModel(e)) = "CURVE_NUMBER" ->
         Defaults(e, <<"curve_number", "conductivity", "dry_time">>)

SubcatchmentRows(e) ==
  IF ~Positive(e.area) \/ ~Positive(e.width) \/ e.slope = "-1" \/ Family(InfiltrationModel(e)) = Undefined
  THEN <<>>
  ELSE <<Row("SUBCATCHMENTS", <<Name(e), names[e.raingage], names[e.outlet_node]>>
                \o Nums(e, <<"area", "percent_impervious", "width", "slope">>) \o <<"0">>),
         Row("SUBAREAS", <<Name(e)>> \o Defaults(e, <<"n_imperv", "n_perv", "s_imperv", "s_perv", "pct_zero">>)
                            \o <<"OUTLET">>),
         Row("INFILTRATION", <<Name(e)>> \o InfiltrationCells(e) \o <<InfiltrationModel(e)>>)>>

RowsOf(e) ==
  CASE e.kind = "junctions" -> JunctionRows(e) [] e.kind = "outfalls" -> OutfallRows(e)
    [] e.kind = "storage" -> StorageRows(e) [] e.kind = "raingages" -> RainGageRows(e)
    [] e.kind = "subcatchments" -> SubcatchmentRows(e) [] e.kind = "conduits" -> ConduitRows(e)
    [] e.kind = "pumps" -> PumpRows(e) [] e.kind = "orifices" -> OrificeRows(e)
    [] e.kind = "weirs" -> WeirRows(e) [] e.kind = "outlets" -> OutletRows(e)

\* The ids an entity refers to.
Refers(e) ==
  CASE e.kind \in Links -> {e.from_node, e.to_node}
    [] e.kind = "subcatchments" -> {e.raingage, e.outlet_node}
    [] OTHER -> {}

\* The entities in the order of their processors.
Ordered == FlattenSeq([p \in DOMAIN Processors |-> SelectSeq(net, LAMBDA e : e.kind = Processors[p][1])])

\* build_inp, one entity after the other.
Build ==
  /\ stage = "build"
  /\ LET e == Ordered[next]
         rows == IF Refers(e) \subseteq DOMAIN names THEN RowsOf(e) ELSE <<>>
     IN /\ inp' = inp \o rows
        /\ stage' = IF rows = <<>> THEN "failed" ELSE IF next = Len(Ordered) THEN "done" ELSE stage
        /\ next' = next + 1
  /\ UNCHANGED <<net, names>>

Next == Register \/ Build

Spec == Init /\ [][Next]_vars

(***************************************************************************)
(* The import of a file                                                    *)
(***************************************************************************)
Section(s) == SelectSeq(inp, LAMBDA r : r.section = s)
RowOf(s, name) == CHOOSE c \in {Section(s)[k].cells : k \in DOMAIN Section(s)} : c[1] = name

\* The attributes that are read from a column of the row, counted from 1.
Columns(r, attrs, from) == [a \in {attrs[k] : k \in DOMAIN attrs} |->
                              r[from - 1 + CHOOSE k \in DOMAIN attrs : attrs[k] = a]]
Gate(r, k) == [flap_gate |-> r[k] = "YES"]
CurvePoints(name) == RowOf("CURVES", name)[3]
CurveType(name) == RowOf("CURVES", name)[2]
XSectionAttrs(name) ==
  LET row == RowOf("XSECTIONS", name)
  IN [cross_section_shape |-> row[2], cross_section_geometry |-> SubSeq(row, 3, 6)]
EndPoints(r) == Columns(r, <<"from_node", "to_node">>, 2)

JunctionRecord(r) ==
  Columns(r, <<"invert_elevation", "max_depth", "water_depth", "surcharge_depth", "ponded_area">>, 2)
OutfallRecord(r) ==
  Columns(r, <<"invert_elevation", "outfall_type">>, 2)
  @@ (IF r[3] = "FIXED" THEN [fixed_stage |-> r[4]] @@ Gate(r, 5) ELSE Gate(r, 4))
StorageRecord(r) ==
  Columns(r, <<"invert_elevation", "max_depth", "water_depth", "storage_geometry">>, 2)
  @@ (CASE r[5] = "FUNCTIONAL" -> Columns(r, <<"storage_coefficient", "storage_exponent", "storage_constant">>, 6)
        [] r[5] = "TABULAR" -> [storage_curve |-> CurvePoints(r[6])]
        [] r[5] \in Geometric -> [storage_geometry_parameters |-> SubSeq(r, 6, 8)])
ConduitRecord(r) ==
  EndPoints(r) @@ Columns(r, <<"length", "roughness", "from_offset", "to_offset", "flow">>, 4) @@ XSectionAttrs(r[1])
PumpRecord(r) ==
  EndPoints(r) @@ Columns(r, <<"startup_depth", "shutoff_depth">>, 6)
  @@ (IF r[4] = "*" THEN [pump_curve_type |-> "IDEAL", pump_curve |-> Undefined]
      ELSE [pump_curve_type |-> CurveType(r[4]), pump_curve |-> CurvePoints(r[4])])
OrificeRecord(r) ==
  EndPoints(r) @@ Columns(r, <<"orifice_type", "crest_height", "discharge_coefficient">>, 4) @@ Gate(r, 7)
  @@ [orifice_shape |-> XSectionAttrs(r[1]).cross_section_shape,
      cross_section_geometry |-> XSectionAttrs(r[1]).cross_section_geometry]
WeirRecord(r) ==
  EndPoints(r) @@ Columns(r, <<"weir_type", "crest_height", "discharge_coefficient">>, 4) @@ Gate(r, 7)
  @@ [cross_section_geometry |-> XSectionAttrs(r[1]).cross_section_geometry]
OutletRecord(r) ==
  EndPoints(r) @@ Columns(r, <<"crest_height", "outlet_rating_type">>, 4)
  @@ (IF r[5] = "TABULAR" THEN [rating_curve |-> CurvePoints(r[6])] @@ Gate(r, 7)
      ELSE Columns(r, <<"rating_coefficient", "rating_exponent">>, 6) @@ Gate(r, 8))

\* The INFILTRATION option of the file: the model that is not given by a row.
GlobalModel == IF Override # Undefined THEN Override ELSE Default
SubcatchmentRecord(r) ==
  LET infiltration == RowOf("INFILTRATION", r[1]) IN
  Columns(r, <<"raingage", "outlet_node", "area", "percent_impervious", "width", "slope">>, 2)
  @@ Columns(RowOf("SUBAREAS", r[1]), <<"n_imperv", "n_perv", "s_imperv", "s_perv", "pct_zero">>, 2)
  @@ (CASE Family(GlobalModel) = "HORTON" ->
             Columns(infiltration, <<"max_infiltration_rate", "min_infiltration_rate", "decay_constant", "dry_time">>, 2)
        [] Family(GlobalModel) = "GREEN_AMPT" ->
             Columns(infiltration, <<"suction_head", "conductivity", "initial_deficit">>, 2)
        [] Family(GlobalModel) = "CURVE_NUMBER" ->
             Columns(infiltration, <<"curve_number", "conductivity", "dry_time">>, 2))

SectionOf ==
  [junctions |-> "JUNCTIONS", outfalls |-> "OUTFALLS", storage |-> "STORAGE", raingages |-> "RAINGAGES",
   subcatchments |-> "SUBCATCHMENTS", conduits |-> "CONDUITS", pumps |-> "PUMPS", orifices |-> "ORIFICES",
   weirs |-> "WEIRS", outlets |-> "OUTLETS"]
Record(kind, r) ==
  CASE kind = "junctions" -> JunctionRecord(r) [] kind = "outfalls" -> OutfallRecord(r)
    [] kind = "storage" -> StorageRecord(r) [] kind = "raingages" -> <<>>
    [] kind = "subcatchments" -> SubcatchmentRecord(r) [] kind = "conduits" -> ConduitRecord(r)
    [] kind = "pumps" -> PumpRecord(r) [] kind = "orifices" -> OrificeRecord(r)
    [] kind = "weirs" -> WeirRecord(r) [] kind = "outlets" -> OutletRecord(r)

(***************************************************************************)
(* Properties                                                              *)
(***************************************************************************)
\* The parameters whose default the writer takes from the unit system or the model.
Expected(e, a) ==
  CASE e[a] # Undefined /\ a \in {"from_node", "to_node", "raingage", "outlet_node"} -> names[e[a]]
    [] a = "pump_curve_type" /\ e.pump_curve = Undefined -> "IDEAL"     \* whatever its type
    [] e[a] # Undefined -> e[a]
    [] a = "storage_geometry" -> StorageShape(e)
    [] a = "flap_gate" -> FALSE
    [] a = "pump_curve" -> Undefined
    [] a = "rating_coefficient" -> "1"
    [] a = "rating_exponent" -> "0.5"
    [] e.kind = "subcatchments" -> "d_" \o a
    [] OTHER -> "0"

\* The import gives back the dataset a file was synthesised from: every attribute that
\* is imported has the value it had in the dataset or, where it had none, the default
\* the engine ran with.  A subcatchment with an infiltration model of its own is not
\* read back: the import looks at the option of the file only. The import does not read
\* the number of barrels, so that nothing is said of it.
ImportInvertsSynthesis ==
  stage = "done" =>
    \A k \in DOMAIN net :
      LET e == net[k]
          record == Record(e.kind, RowOf(SectionOf[e.kind], names[e.id]))
      IN \/ e.kind = "subcatchments" /\ Family(InfiltrationModel(e)) # Family(GlobalModel)
         \/ \A a \in DOMAIN record : record[a] = Expected(e, a)
=============================================================================
