--------------------------- MODULE DatasetCreator ---------------------------
(***************************************************************************)
(* The dataset creator: a pipeline of operations that turns data sources   *)
(* into an entity based dataset.  Texts of an enumeration become numbers,  *)
(* entities get ids, references to features become references to ids, and  *)
(* constants are filled in last.  Geometry, coordinate systems, metadata   *)
(* and the loaders of nested values are left out.                          *)
(***************************************************************************)
EXTENDS Integers, Sequences, FiniteSets, SequencesExt, Functions

CONSTANTS
  Configs,      \* configurations: a sequence of entity groups
                \*   [name, source, count, attributes], the attributes a sequence of
                \*   [name, property, source, enum, links, value], fields None if absent
  Tables,       \* sources: per name a function from properties to columns
  Enums,        \* general.enum: a function from names to sequences of texts
  None

VARIABLES config, sources, enums, data, ids, done, error

vars == <<config, sources, enums, data, ids, done, error>>

Text(s) == [text |-> s, number |-> -1]
Number(n) == [text |-> "", number |-> n]

Operations == <<"loading", "enums", "ids", "linking", "constants">>
Groups == DOMAIN config
Attributes(g) == DOMAIN config[g].attributes
Attribute(g, a) == config[g].attributes[a]
Source(name) == IF name \in DOMAIN sources THEN sources[name] ELSE None
Length(table) == Len(table[CHOOSE p \in DOMAIN table : TRUE])

Init ==
  /\ config \in Configs /\ sources \in Tables /\ enums \in Enums
  /\ data = [g \in Groups |-> [a \in Attributes(g) |-> None]]
  /\ ids = [g \in Groups |-> <<>>] /\ done = {} /\ error = FALSE

\* pipe: the operations in their order, until one raises an error.
Runs(operation) ==
  /\ ~error
  /\ done = {Operations[k] : k \in 1..(CHOOSE i \in DOMAIN Operations : Operations[i] = operation) - 1}
  /\ done' = done \cup {operation}

\* get_attribute_data: from the source of the attribute, else from that of the group,
\* which then must have equally many features.
Loads(g, a) == config[g].source # None /\ Attribute(g, a).property # None
SourceOf(g, a) == Source(IF Attribute(g, a).source = None THEN config[g].source ELSE Attribute(g, a).source)
Loadable(g, a) ==
  LET table == SourceOf(g, a)
      primary == Source(config[g].source)
  IN /\ table # None /\ primary # None /\ Attribute(g, a).property \in DOMAIN table
     /\ Length(table) = Length(primary)
Column(g, a) == SourceOf(g, a)[Attribute(g, a).property]

AttributeDataLoading ==
  /\ Runs("loading")
  /\ error' = (\E g \in Groups : \E a \in Attributes(g) : Loads(g, a) /\ ~Loadable(g, a))
  /\ data' = IF error' THEN data
             ELSE [g \in Groups |-> [a \in Attributes(g) |-> IF Loads(g, a) THEN Column(g, a) ELSE None]]
  /\ UNCHANGED <<config, sources, enums, ids>>

\* EnumInfo.ensure: the position of a text, which is added if it is new.  Integers must
\* lie within the enumeration as it is by then.
Position(texts, s) == IF s \in ToSet(texts) THEN CHOOSE i \in 0..Len(texts) - 1 : texts[i + 1] = s ELSE Len(texts)
Ensured(texts, s) == IF s \in ToSet(texts) THEN texts ELSE Append(texts, s)
Convert(acc, v) ==
  IF acc.error \/ v = None THEN [acc EXCEPT !.error = TRUE]
  ELSE IF v.text # ""
  THEN [acc EXCEPT !.texts = Ensured(@, v.text), !.known = TRUE,
                   !.values = Append(@, Number(Position(acc.texts, v.text)))]
  ELSE IF ~acc.known \/ v.number >= Len(acc.texts) THEN [acc EXCEPT !.error = TRUE]
  ELSE [acc EXCEPT !.values = Append(@, v)]

\* convert_enums for the attributes of all groups, one after the other.
EnumAttributes ==
  LET all == UNION {{g} \X Attributes(g) : g \in Groups}
  IN SetToSortSeq({p \in all : Attribute(p[1], p[2]).enum # None},
                  LAMBDA p, q : p[1] < q[1] \/ (p[1] = q[1] /\ p[2] < q[2]))
ConvertAttribute(acc, p) ==
  LET name == Attribute(p[1], p[2]).enum
      known == name \in DOMAIN acc.enums
      start == [texts |-> IF known THEN acc.enums[name] ELSE <<>>, known |-> known,
                values |-> <<>>, error |-> acc.error \/ acc.data[p[1]][p[2]] = None]
      result == IF start.error THEN start ELSE FoldLeft(Convert, start, acc.data[p[1]][p[2]])
  IN IF result.error THEN [acc EXCEPT !.error = TRUE]
     ELSE [acc EXCEPT !.data[p[1]][p[2]] = result.values,
                      !.enums = IF result.known
                                THEN [n \in DOMAIN @ \cup {name} |-> IF n = name THEN result.texts ELSE @[n]]
                                ELSE @]

EnumConversion ==
  /\ Runs("enums")
  /\ LET result == FoldLeft(ConvertAttribute, [data |-> data, enums |-> enums, error |-> FALSE], EnumAttributes)
     IN data' = result.data /\ enums' = result.enums /\ error' = result.error
  /\ UNCHANGED <<config, sources, ids>>

\* IDGeneration: as many as the first attribute has values, else as the source has
\* features, else as the configuration says; one counter for all groups.
Size(g) ==
  LET loaded == {a \in Attributes(g) : data[g][a] # None}
  IN IF loaded # {} THEN Len(data[g][CHOOSE a \in loaded : TRUE])
     ELSE IF config[g].source # None THEN Length(Source(config[g].source))
     ELSE config[g].count
FirstId_PerGroup(g) == 0
FirstId(g) == FoldLeft(LAMBDA n, h : n + Size(h), 0, [h \in 1..(g - 1) |-> h])

IDGeneration ==
  /\ Runs("ids")
  /\ error' = (\E g \in Groups : /\ \A a \in Attributes(g) : data[g][a] = None
                                 /\ config[g].source # None /\ Source(config[g].source) = None)
  /\ ids' = IF error' THEN ids ELSE [g \in Groups |-> [k \in 1..Size(g) |-> FirstId(g) + k - 1]]
  /\ UNCHANGED <<config, sources, enums, data>>

\* get_link_index: of features with one value the last counts; without a property the
\* values are positions (the points of grid cells), from the end if they are negative.
GroupOf(name) == CHOOSE g \in Groups : config[g].name = name
LinkColumn(link) == Source(config[GroupOf(link.group)].source)[link.property]
Linkable(link) ==
  /\ \E g \in Groups : config[g].name = link.group
  /\ link.property # None =>
       LET table == Source(config[GroupOf(link.group)].source)
       IN table # None /\ link.property \in DOMAIN table
Found(link, v) ==
  LET target == ids[GroupOf(link.group)]
      rows == IF link.property = None
              THEN {k \in DOMAIN target : v.number \in {k - 1, k - 1 - Len(target)}}
              ELSE {k \in DOMAIN target : LinkColumn(link)[k] = v}
  IN IF rows = {} THEN None ELSE target[CHOOSE k \in rows : \A j \in rows : j <= k]

\* get_single_indexed_value_or_raise: the first index that knows the value. One of
\* positions that does not raises an IndexError, and none is tried after it.
Tried(links) == {l \in DOMAIN links : \A m \in 1..(l - 1) : links[m].property # None}
Linked(links, v) ==
  LET known == {l \in Tried(links) : Found(links[l], v) # None}
  IN IF known = {} THEN None ELSE Number(Found(links[CHOOSE l \in known : \A m \in known : l <= m], v))
Links(g, a) == Attribute(g, a).links # None /\ data[g][a] # None
LinkFails(g, a) ==
  \/ \E l \in DOMAIN Attribute(g, a).links : ~Linkable(Attribute(g, a).links[l])
  \/ \E k \in DOMAIN data[g][a] : data[g][a][k] # None /\ Linked(Attribute(g, a).links, data[g][a][k]) = None

IDLinking ==
  /\ Runs("linking")
  /\ error' = (\E g \in Groups : \E a \in Attributes(g) : Links(g, a) /\ LinkFails(g, a))
  /\ data' = IF error' THEN data
             ELSE [g \in Groups |-> [a \in Attributes(g) |->
                    IF Links(g, a)
                    THEN [k \in DOMAIN data[g][a] |->
                            IF data[g][a][k] = None THEN None ELSE Linked(Attribute(g, a).links, data[g][a][k])]
                    ELSE data[g][a]]]
  /\ UNCHANGED <<config, sources, enums, ids>>

ConstantValueAssigning ==
  /\ Runs("constants")
  /\ data' = [g \in Groups |-> [a \in Attributes(g) |->
                IF Attribute(g, a).value # None THEN [k \in DOMAIN ids[g] |-> Attribute(g, a).value]
                ELSE data[g][a]]]
  /\ UNCHANGED <<config, sources, enums, ids, error>>

Next == AttributeDataLoading \/ EnumConversion \/ IDGeneration \/ IDLinking \/ ConstantValueAssigning
Spec == Init /\ [][Next]_vars

-----------------------------------------------------------------------------
\* What a value of the dataset says about the source it was read from.
Means(g, a, v, raw) ==
  LET attribute == Attribute(g, a)
  IN IF attribute.value # None THEN v = attribute.value
     ELSE IF raw = None THEN v = None
     ELSE IF attribute.enum # None
     THEN IF raw.text # "" THEN enums[attribute.enum][v.number + 1] = raw.text ELSE v = raw
     ELSE IF attribute.links # None
     THEN \E l \in DOMAIN attribute.links :
            LET h == GroupOf(attribute.links[l].group)
            IN \E k \in DOMAIN ids[h] :
                 /\ ids[h][k] = v.number
                 /\ IF attribute.links[l].property = None THEN k - 1 = raw.number
                    ELSE LinkColumn(attribute.links[l])[k] = raw
     ELSE v = raw

\* A dataset that is created says what its sources say: ids are unique over all groups,
\* every attribute has a value for every entity, the number of an enumeration stands for
\* the text the source has, also when texts came from several attributes, and a link leads
\* to an entity whose feature has the value that was referred to.
DatasetTellsTheSources ==
  "constants" \in done =>
    /\ \A g, h \in Groups : \A k \in DOMAIN ids[g], j \in DOMAIN ids[h] :
         ids[g][k] = ids[h][j] => g = h /\ k = j
    /\ \A g \in Groups : \A a \in Attributes(g) : data[g][a] # None =>
         /\ DOMAIN data[g][a] = DOMAIN ids[g]
         /\ \A k \in DOMAIN ids[g] :
              Means(g, a, data[g][a][k], IF Loads(g, a) THEN Column(g, a)[k] ELSE None)
=============================================================================
