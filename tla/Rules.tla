------------------------------- MODULE Rules -------------------------------
(***************************************************************************)
(* The rules model: rules come from a dataset and from the configuration,  *)
(* name their entities by id or by reference, and write their output when  *)
(* the model is called.  The model is called when data arrives and at the  *)
(* next threshold of a time condition, which it asks for itself.           *)
(***************************************************************************)
EXTENDS Integers, Sequences, FiniteSets, SequencesExt

CONSTANTS
  Projects,   \* records: rulesDataset, rules, defaults, ownDefaults (of the configuration)
  Datasets,   \* per dataset a sequence of entity groups: records with ids and references
  Values,     \* what a source attribute may be
  Undefined,  \* an entity without a value: NaN, the attributes are floats
  Scale,      \* seconds per unit of time
  Day,        \* seconds in a day
  Clock0,     \* the clock time of timestamp 0
  End,        \* the last timestamp
  None

VARIABLES
  project,
  rules,      \* self.rules, or None when setup has failed
  data,       \* source arrays: <<dataset, group, attribute>> to values
  out,        \* target arrays: <<place, attribute>> to values
  asked,      \* the timestamp the model wants to be called at, or None
  now

vars == <<project, rules, data, out, asked, now>>

Latest(S) == CHOOSE x \in S : \A y \in S : y <= x
Earliest(S) == CHOOSE x \in S : \A y \in S : x <= y

----------------------------------------------------------------------------
\* Conditions: comparisons of two sides, and NOT, AND and OR over conditions.

IsBoolean(c) == c.op \in {"NOT", "AND", "OR"}
Compare(op, l, r) ==
  IF Undefined \in {l, r} THEN op = "!="
  ELSE CASE op = "==" -> l = r [] op = "!=" -> l # r
         [] op = "<" -> l < r  [] op = "<=" -> l <= r
         [] op = ">" -> l > r  [] op = ">=" -> l >= r

Resolve(side, simtime, clocktime, attributes) ==
  CASE side.of = "simtime" -> simtime
    [] side.of = "clocktime" -> clocktime
    [] side.of = "literal" -> side.value
    [] OTHER -> attributes[side.name]

RECURSIVE Evaluate(_, _, _, _)
Evaluate(c, simtime, clocktime, attributes) ==
  LET Sub(i) == Evaluate(c.operands[i], simtime, clocktime, attributes)
  IN CASE c.op = "NOT" -> ~ Sub(1)
       [] c.op = "AND" -> \A i \in DOMAIN c.operands : Sub(i)
       [] c.op = "OR" -> \E i \in DOMAIN c.operands : Sub(i)
       [] OTHER -> Compare(c.op, Resolve(c.left, simtime, clocktime, attributes),
                                 Resolve(c.right, simtime, clocktime, attributes))

RECURSIVE Comparisons(_)
Comparisons(c) == IF IsBoolean(c) THEN UNION {Comparisons(d) : d \in Range(c.operands)} ELSE {c}
Sides(c) == UNION {{<<d.left, d.right>>, <<d.right, d.left>>} : d \in Comparisons(c)}

\* get_attribute_names and get_time_thresholds
AttributeNames(c) == {p[1].name : p \in {q \in Sides(c) : q[1].of = "attribute"}}
Thresholds(c, type) ==
  {p[2].value : p \in {q \in Sides(c) : q[1].of = type /\ q[2].of = "literal"}}

----------------------------------------------------------------------------
\* Loading: the rules of the dataset, then those of the configuration, with the defaults
\* of both; the defaults of the configuration come last.

Merged(p, field) ==
  IF p.ownDefaults[field] # None THEN p.ownDefaults[field] ELSE p.defaults[field]
LoadSpecs(p) ==
  LET Full(s) == [s EXCEPT
        !.to_dataset = IF s.to_dataset = None THEN Merged(p, "to_dataset") ELSE s.to_dataset,
        !.from_dataset = IF s.from_dataset = None THEN Merged(p, "from_dataset")
                         ELSE s.from_dataset]
      all == p.rulesDataset \o p.rules
  IN [i \in DOMAIN all |-> Full(all[i])]

\* The dictionaries id and reference to index: of equal references the last one stays,
\* and the first group that has the key is taken.
Places(dataset, field, key) ==
  {g \in DOMAIN Datasets[dataset] : key \in Range(Datasets[dataset][g][field])}
FindEntity(dataset, id, reference) ==
  LET field == IF reference # None THEN "references" ELSE "ids"
      key == IF reference # None THEN reference ELSE id
      groups == Places(dataset, field, key)
      g == Earliest(groups)
  IN IF key = None \/ groups = {} THEN None
     ELSE <<dataset, g, Latest({i \in DOMAIN Datasets[dataset][g][field] :
                                Datasets[dataset][g][field][i] = key})>>

HasSource(s) == AttributeNames(s.condition) # {}
ValidSpec(s) ==
  /\ s.to_dataset # None /\ s.value # None
  /\ FindEntity(s.to_dataset, s.to_id, s.to_reference) # None
  /\ HasSource(s) => /\ s.from_dataset # None
                     /\ (s.from_id # None) # (s.from_reference # None)
                     /\ FindEntity(s.from_dataset, s.from_id, s.from_reference) # None

FromSpec(s) ==
  [condition |-> s.condition, output |-> s.output, value |-> s.value, else |-> s.else_value,
   from |-> IF HasSource(s) THEN FindEntity(s.from_dataset, s.from_id, s.from_reference)
            ELSE None,
   to |-> FindEntity(s.to_dataset, s.to_id, s.to_reference)]

Arrays(rs) == UNION {{<<r.from[1], r.from[2], a>> : a \in AttributeNames(r.condition)} :
                       r \in {q \in Range(rs) : q.from # None}}
Columns(a) == [DOMAIN Datasets[a[1]][a[2]].ids -> Values \cup {Undefined}]
Targets(rs) == {<<r.to, r.output>> : r \in Range(rs)}

\* setup, and the initial data: the entities of a rule are part of it, so that their group
\* and with it every array has its length; a value may be missing.
Init ==
  \E p \in Projects :
    LET specs == LoadSpecs(p)
        rs == [i \in DOMAIN specs |-> FromSpec(specs[i])]
        ok == \A i \in DOMAIN specs : ValidSpec(specs[i])
    IN /\ project = p /\ now = 0
       /\ rules = IF ok THEN rs ELSE None
       /\ IF ok THEN /\ data \in [Arrays(rs) -> UNION {Columns(a) : a \in Arrays(rs)}]
                     /\ \A a \in Arrays(rs) : data[a] \in Columns(a)
          ELSE data = <<>>
       /\ out = IF ok THEN [x \in Targets(rs) |-> None] ELSE <<>>
       /\ asked = IF ok THEN 0 ELSE None

----------------------------------------------------------------------------
ClockAt(t) == (Clock0 + Scale * t) % Day

SourceOf(r, d) ==
  [a \in AttributeNames(r.condition) |-> d[<<r.from[1], r.from[2], a>>][r.from[3]]]

\* _evaluate_rule; its test for data (has_data) holds of every array that has its length, so
\* that a comparison with a value that is undefined is made too.
EvaluateRule(o, r, d, t) ==
  LET target == <<r.to, r.output>>
      result == Evaluate(r.condition, Scale * t, ClockAt(t), SourceOf(r, d))
  IN CASE result -> [o EXCEPT ![target] = r.value]
       [] ~ result /\ r.else # None -> [o EXCEPT ![target] = r.else]
       [] OTHER -> o

EvaluateRules(rs, d, t) ==
  FoldLeft(LAMBDA o, r : EvaluateRule(o, r, d, t), out, rs)

AllThresholds(rs, type) == UNION {Thresholds(r.condition, type) : r \in Range(rs)}

\* _next_trigger: the first threshold of the simulation time after now and the first one of
\* the clock, today or tomorrow; the seconds become a timestamp by truncation.
NextTrigger_Today(rs, t) ==
  LET seconds == Scale * t
      clocks == {seconds + (th - ClockAt(t)) :
                   th \in {x \in AllThresholds(rs, "clocktime") : x > ClockAt(t)}}
      times == {th \in AllThresholds(rs, "simtime") : th > seconds}
  IN IF times \cup clocks = {} THEN None ELSE Earliest(times \cup clocks) \div Scale
NextTrigger(rs, t) ==
  LET seconds == Scale * t
      clocks == AllThresholds(rs, "clocktime")
      today == {th \in clocks : th > ClockAt(t)}
      next == CASE clocks = {} -> {}
                [] today # {} -> {seconds + Earliest(today) - ClockAt(t)}
                [] OTHER -> {seconds + (Day - ClockAt(t)) + Earliest(clocks)}
      times == {th \in AllThresholds(rs, "simtime") : th > seconds}
  IN IF times \cup next = {} THEN None ELSE Earliest(times \cup next) \div Scale

\* update: at the moment asked for, or because source attributes have changed.
Respond(d) ==
  /\ data' = d /\ out' = EvaluateRules(rules, d, now)
  /\ asked' = NextTrigger(rules, now)
  /\ UNCHANGED <<project, rules, now>>
Call == rules # None /\ asked = now /\ Respond(data)
Receive ==
  /\ rules # None
  /\ \E a \in DOMAIN data :
       \E v \in Columns(a) :
         /\ v # data[a] /\ \A i \in DOMAIN v : v[i] = Undefined => data[a][i] = Undefined
         /\ Respond([data EXCEPT ![a] = v])

\* The other models are called in between and the simulation goes on.
Advance ==
  /\ rules # None /\ asked # now /\ now < End
  /\ now' = now + 1
  /\ UNCHANGED <<project, rules, data, out, asked>>

Next == Call \/ Receive \/ Advance
Spec == Init /\ [][Next]_vars

----------------------------------------------------------------------------
Current == rules # None /\ asked # now

\* Thresholds at which a time condition changes and that the model is awake for: the
\* comparison changes at its threshold and, for the clock, at a midnight that is a threshold.
Punctual ==
  \A r \in Range(rules) : \A c \in Comparisons(r.condition) :
    {c.left.of, c.right.of} \cap {"simtime", "clocktime"} # {} =>
      /\ c.right.of = "literal" /\ c.op \in {">=", "<"}
      /\ c.left.of = "clocktime" => 0 \in AllThresholds(rules, "clocktime")

\* What the specifications say of a target: the value of the last rule that writes to it.
Entity(s, side) ==
  LET d == IF side = "to" THEN s.to_dataset ELSE s.from_dataset
      id == IF side = "to" THEN s.to_id ELSE s.from_id
      ref == IF side = "to" THEN s.to_reference ELSE s.from_reference
      field == IF ref # None THEN "references" ELSE "ids"
  IN CHOOSE e \in UNION {{<<d, g, i>> : i \in DOMAIN Datasets[d][g][field]} :
                           g \in DOMAIN Datasets[d]} :
       Datasets[d][e[2]][field][e[3]] = IF ref # None THEN ref ELSE id
Says(s) ==
  LET names == AttributeNames(s.condition)
      e == Entity(s, "from")
      holds == Evaluate(s.condition, Scale * now, ClockAt(now),
                        [n \in names |-> data[<<e[1], e[2], n>>][e[3]]])
  IN IF holds THEN s.value ELSE s.else_value

Known(s) ==
  \A n \in AttributeNames(s.condition) :
    LET e == Entity(s, "from") IN data[<<e[1], e[2], n>>][e[3]] # Undefined
Rivals(specs, s) ==
  {j \in DOMAIN specs : /\ specs[j].output = s.output
                        /\ Entity(specs[j], "to") = Entity(s, "to")}
Target(s) == out[<<Entity(s, "to"), s.output>>]

\* Whenever the model rests, also at the moments it is not called for, every target has the
\* value the last rule with something to say about it gives it now: no threshold is slept
\* through, over midnight either, and the rules of the configuration override the others
\* (rules/model.py: _load_rule_specs, update, _next_trigger).  For rules that are punctual,
\* and targets whose rules have all their sources; of the others, see
\* RulesWithoutSourcesAreSkipped.
OutputsAreCurrent ==
  Current /\ Punctual =>
    LET specs == LoadSpecs(project)
        says == [i \in DOMAIN specs |-> Says(specs[i])]
    IN \A i \in DOMAIN specs :
         LET same == {j \in Rivals(specs, specs[i]) : says[j] # None}
         IN same # {} /\ (\A j \in Rivals(specs, specs[i]) : Known(specs[j]))
              => Target(specs[i]) = says[Latest(same)]

\* "If the condition references source attributes that have not yet received data, the rule
\* is skipped entirely" (rules_model.rst), "skip rule if any are undefined" (rules/model.py:
\* _evaluate_rule): a target has no value while each of its rules lacks a source.
RulesWithoutSourcesAreSkipped ==
  rules # None =>
    LET specs == LoadSpecs(project)
    IN \A i \in DOMAIN specs :
         (\A j \in Rivals(specs, specs[i]) : ~ Known(specs[j])) => Target(specs[i]) = None
=============================================================================
