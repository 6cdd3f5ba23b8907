------------------------- MODULE ModelAdapterProofs -------------------------
(***************************************************************************)
(* What updates are worth: a receiver that knows the state at the last     *)
(* reset and receives the update generated since then knows the state.     *)
(* And what a model makes of them: it knows what it was told, and what it  *)
(* sets is told to others; the invariant of ModelAdapter and the theorems  *)
(* that follow.                                                            *)
(***************************************************************************)
EXTENDS ModelAdapter, TLAPS, WellFoundedInduction

\* Arrays of the entities I with values in V or undefined.
ArraysOf(I, V) ==
  LET values == [I -> V \cup {Undefined}] IN [data : values, curr : values \cup {None}]

\* What an array said at the last reset.
Baseline(array) == IF array.curr = None THEN array.data ELSE array.curr

\* The value that an array has for an entity, if it has the entity.
ValueOf(array, i) == IF i \in DOMAIN array.data THEN array.data[i] ELSE Undefined

\* One array knows another, for the entities I: as it is now, or as it was then.
Knows(theirs, mine, I) == \A i \in I : ValueOf(theirs, i) = mine.data[i]
KnowsBaseline(theirs, mine, I) == \A i \in I : ValueOf(theirs, i) = Baseline(mine)[i]

\* No value has been made undefined: that is a change which no update can tell.
CanBeTold(array) == \A i \in Changed(array) : array.data[i] # Undefined

\* Values for the entities U that tell the changes of an array, and nothing else.
TellsChanges(values, array, U) ==
  /\ Changed(array) \subseteq U /\ DOMAIN values = U
  /\ \A i \in U : values[i] = IF i \in Changed(array) THEN array.data[i] ELSE Undefined

\* The entities of an array.
LEMMA ArrayDomain ==
  ASSUME NEW V, NEW I, NEW array \in ArraysOf(I, V)
  PROVE  DOMAIN array.data = I
BY DEF ArraysOf

\* Resizing an array gives an array of the new entities, which keeps its values and has
\* undefined ones for the others.
LEMMA ResizedArray ==
  ASSUME NEW V, NEW J, NEW K, J \subseteq K, NEW array \in ArraysOf(J, V), array # None
  PROVE  Resize(array, K) \in ArraysOf(K, V)
<1>1. Entities(array) = J
  BY DEF Entities, ArraysOf
<1>2. CASE J = K
  BY <1>1, <1>2 DEF Resize
<1>3. CASE J # K
  <2> DEFINE data == [i \in K |-> IF i \in J THEN array.data[i] ELSE Undefined]
             curr == [i \in K |-> IF i \in J /\ array.curr # None
                                  THEN array.curr[i] ELSE Undefined]
  <2>1. Resize(array, K) = [data |-> data, curr |-> curr]
    BY <1>1, <1>3 DEF Resize
  <2>2. data \in [K -> V \cup {Undefined}] /\ curr \in [K -> V \cup {Undefined}]
    BY DEF ArraysOf
  <2> HIDE DEF data, curr
  <2> QED BY <2>1, <2>2 DEF ArraysOf
<1> QED BY <1>2, <1>3

\* Entities that are added have no value, and those that were there keep theirs.
LEMMA ResizedValue ==
  ASSUME NEW V, NEW J, NEW K, J \subseteq K, NEW array \in ArraysOf(J, V), array # None
  PROVE  \A i \in K : ValueOf(Resize(array, K), i) = ValueOf(array, i)
<1>1. Entities(array) = J /\ DOMAIN array.data = J
  BY DEF Entities, ArraysOf
<1>2. CASE J = K
  BY <1>1, <1>2 DEF Resize
<1>3. CASE J # K
  <2> DEFINE data == [i \in K |-> IF i \in J THEN array.data[i] ELSE Undefined]
  <2>1. Resize(array, K).data = data
    BY <1>1, <1>3 DEF Resize
  <2>2. DOMAIN data = K /\ \A i \in K : data[i] = ValueOf(array, i)
    BY <1>1 DEF ValueOf
  <2> HIDE DEF data
  <2> QED BY <2>1, <2>2 DEF ValueOf
<1> QED BY <1>2, <1>3

\* An entity that is not flagged has the value it had at the last reset.
LEMMA UnchangedIsBaseline ==
  ASSUME NEW V, NEW I, NEW array \in ArraysOf(I, V), array # None
  PROVE  /\ Changed(array) \subseteq I
         /\ \A i \in I \ Changed(array) : array.data[i] = Baseline(array)[i]
BY DEF Changed, Baseline, ArraysOf

\* _set_item: what an array has after it.
LEMMA SetItemValues ==
  ASSUME NEW array, NEW values
  PROVE  /\ DOMAIN SetItem(array, values, FALSE).data = DOMAIN array.data
         /\ \A i \in DOMAIN array.data :
              SetItem(array, values, FALSE).data[i] =
                IF i \in DOMAIN values /\ values[i] # Undefined
                THEN values[i] ELSE array.data[i]
<1> DEFINE data == [i \in DOMAIN array.data |->
                      IF i \in DOMAIN values /\ (FALSE \/ values[i] # Undefined)
                      THEN values[i] ELSE array.data[i]]
<1>1. SetItem(array, values, FALSE).data = data
  BY DEF SetItem
<1> HIDE DEF data
<1>2. DOMAIN data = DOMAIN array.data
      /\ \A i \in DOMAIN array.data :
           data[i] = IF i \in DOMAIN values /\ values[i] # Undefined
                     THEN values[i] ELSE array.data[i]
  BY DEF data
<1> QED BY <1>1, <1>2

\* receive_update: an attribute is resized, and gets the defined values of the update.
LEMMA ReceivedArray ==
  ASSUME NEW receiver, NEW update, NEW a \in DOMAIN receiver.attributes,
         Resize(receiver.attributes[a], receiver.ids \cup update.ids) # None
  PROVE  LET old == Resize(receiver.attributes[a], receiver.ids \cup update.ids)
         IN  ReceiveUpdate(receiver, update, FALSE).attributes[a] =
               IF a \in DOMAIN update.data THEN SetItem(old, update.data[a], FALSE) ELSE old
BY DEF ReceiveUpdate, ApplyUpdate

\* An array that knows another as it was knows it still when it is resized, if nothing
\* has changed.
LEMMA ArrayStays ==
  ASSUME NEW V, NEW I, NEW J, NEW K, J \subseteq K,
         NEW mine \in ArraysOf(I, V), mine # None,
         NEW theirs \in ArraysOf(J, V), theirs # None,
         KnowsBaseline(theirs, mine, I)
  PROVE  /\ KnowsBaseline(Resize(theirs, K), mine, I)
         /\ Changed(mine) = {} => Knows(Resize(theirs, K), mine, I)
<1> DEFINE old == Resize(theirs, K)
<1>1. old \in ArraysOf(K, V)
  BY ResizedArray
<1>2. \A i \in K : ValueOf(old, i) = ValueOf(theirs, i)
  BY ResizedValue
<1> HIDE DEF old
<1>3. DOMAIN old.data = K /\ DOMAIN theirs.data = J
  BY <1>1, ArrayDomain
<1>4. \A i \in I : ValueOf(old, i) = ValueOf(theirs, i)
  BY <1>2, <1>3 DEF ValueOf
<1>5. \A i \in I : ValueOf(old, i) = Baseline(mine)[i]
  BY <1>4 DEF KnowsBaseline
<1>6. Changed(mine) = {} => \A i \in I : Baseline(mine)[i] = mine.data[i]
  BY UnchangedIsBaseline
<1> QED BY <1>5, <1>6 DEF old, Knows, KnowsBaseline

\* An array that knows another as it was knows it as it is when it is given the changes.
LEMMA ArrayConverges ==
  ASSUME NEW V, NEW I, NEW U, NEW K, U \subseteq K, NEW values,
         NEW mine \in ArraysOf(I, V), mine # None,
         NEW old, DOMAIN old.data = K,
         KnowsBaseline(old, mine, I), CanBeTold(mine), TellsChanges(values, mine, U)
  PROVE  Knows(SetItem(old, values, FALSE), mine, I)
<1> DEFINE new == SetItem(old, values, FALSE)
<1>1. DOMAIN new.data = K
  BY SetItemValues
<1>2. \A k \in K : new.data[k] = IF k \in DOMAIN values /\ values[k] # Undefined
                                 THEN values[k] ELSE old.data[k]
  BY SetItemValues
<1>3. \A i \in I \ Changed(mine) : mine.data[i] = Baseline(mine)[i]
  BY UnchangedIsBaseline
<1> HIDE DEF new
<1>4. ASSUME NEW i \in I
      PROVE  ValueOf(new, i) = mine.data[i]
  <2>1. CASE i \in Changed(mine)
    BY <1>1, <1>2, <2>1 DEF ValueOf, TellsChanges, CanBeTold
  <2>2. CASE i \notin Changed(mine)
    <3>1. ValueOf(new, i) = ValueOf(old, i)
      BY <1>1, <1>2, <2>2 DEF ValueOf, TellsChanges
    <3> QED BY <1>3, <2>2, <3>1 DEF KnowsBaseline
  <2> QED BY <2>1, <2>2
<1> QED BY <1>4 DEF new, Knows

\* A receiver of an update that knows a publisher's attributes F as they were at the
\* last reset, for the entities there were then, knows them as they are now after
\* receive_update of what generate_update gives, new entities included. This holds
\* unless the publisher has made a value undefined, which no update can tell.
THEOREM UpdateConverges ==
  ASSUME NEW V, \A S : None \notin ArraysOf(S, V),
         NEW I, NEW J, NEW A, NEW B, NEW F, F \subseteq A, F \subseteq B,
         NEW publisher \in [ids : {I}, attributes : [A -> ArraysOf(I, V)]],
         NEW receiver \in [ids : {J}, attributes : [B -> ArraysOf(J, V)]],
         \A a \in F : /\ KnowsBaseline(receiver.attributes[a], publisher.attributes[a], I)
                      /\ CanBeTold(publisher.attributes[a])
  PROVE  LET received == ReceiveUpdate(receiver, GenerateUpdate(publisher, F), FALSE)
         IN  \A a \in F : Knows(received.attributes[a], publisher.attributes[a], I)
<1> SUFFICES ASSUME NEW a \in F
             PROVE  Knows(ReceiveUpdate(receiver, GenerateUpdate(publisher, F), FALSE)
                            .attributes[a], publisher.attributes[a], I)
  OBVIOUS
<1> DEFINE update == GenerateUpdate(publisher, F)
           U == update.ids
           values == update.data[a]
           K == J \cup U
           mine == publisher.attributes[a]
           theirs == receiver.attributes[a]
           old == Resize(theirs, K)
           new == ReceiveUpdate(receiver, update, FALSE).attributes[a]
<1>1. /\ mine \in ArraysOf(I, V) /\ mine # None
      /\ theirs \in ArraysOf(J, V) /\ theirs # None
      /\ receiver.ids = J /\ a \in DOMAIN receiver.attributes
  OBVIOUS
<1>2. KnowsBaseline(theirs, mine, I) /\ CanBeTold(mine)
  OBVIOUS
<1>3. /\ a \in DOMAIN update.data <=> Changed(mine) # {}
      /\ a \in DOMAIN update.data => TellsChanges(values, mine, U)
  BY DEF GenerateUpdate, Rows, TellsChanges
<1>4. J \subseteq K /\ U \subseteq K
  OBVIOUS
<1>5. old \in ArraysOf(K, V) /\ old # None
  <2> HIDE DEF K, mine, theirs
  <2>1. Resize(theirs, K) \in ArraysOf(K, V)
    BY <1>1, <1>4, ResizedArray
  <2> QED BY <2>1
<1>6. new = IF a \in DOMAIN update.data THEN SetItem(old, values, FALSE) ELSE old
  BY <1>1, <1>5, ReceivedArray
<1>7. KnowsBaseline(old, mine, I) /\ (Changed(mine) = {} => Knows(old, mine, I))
  <2> HIDE DEF K, mine, theirs
  <2> QED BY <1>1, <1>2, <1>4, ArrayStays
<1>8. DOMAIN old.data = K
  <2> HIDE DEF old, K
  <2> QED BY <1>5, ArrayDomain
<1> HIDE DEF update, U, values, K, mine, theirs, old, new
<1>9. Knows(new, mine, I)
  <2>1. CASE a \in DOMAIN update.data
    <3>1. TellsChanges(values, mine, U)
      BY <1>3, <2>1
    <3>2. Knows(SetItem(old, values, FALSE), mine, I)
      BY <1>1, <1>2, <1>4, <1>7, <1>8, <3>1, ArrayConverges
    <3> QED BY <1>6, <2>1, <3>2
  <2>2. CASE a \notin DOMAIN update.data
    BY <1>3, <1>6, <1>7, <2>2
  <2> QED BY <2>1, <2>2
<1> QED BY <1>9 DEF new, update, mine

-----------------------------------------------------------------------------
(* Recursion along the items of a command.                                 *)

\* Induction over numbers, for a set of them.
LEMMA Induction ==
  ASSUME NEW T, 0 \in T, \A n \in Nat : n \in T => n + 1 \in T
  PROVE  Nat \subseteq T
<1> SUFFICES ASSUME Nat \ T # {} PROVE FALSE
  OBVIOUS
<1> DEFINE smaller == OpToRel(<, Nat)
<1>1. PICK n \in Nat \ T : \A m \in Nat \ T : ~ (<<m, n>> \in smaller)
  <2>1. IsWellFoundedOn(smaller, Nat)
    BY NatLessThanWellFounded
  <2> HIDE DEF smaller
  <2> QED BY <2>1, WFMin, Nat \ T \subseteq Nat
<1>2. n # 0 /\ n - 1 \in Nat
  OBVIOUS
<1>3. <<n - 1, n>> \in smaller
  BY <1>2 DEF OpToRel
<1>4. n - 1 \in T
  BY <1>1, <1>2, <1>3
<1>5. (n - 1) + 1 \in T
  BY <1>2, <1>4
<1> QED BY <1>5

\* Steps from a value to the next, for the numbers up to n, and what they lead to from b.
Steps(S, n) == [S \X (1 .. n) -> S]
IsFold(f, b, n, F) == f = [k \in 0 .. n |-> IF k = 0 THEN b ELSE F[<<f[k - 1], k>>]]

\* A function can be defined along the numbers up to n, from each value to the next.
LEMMA FoldExists ==
  ASSUME NEW S, NEW b \in S, NEW n \in Nat, NEW F \in Steps(S, n)
  PROVE  \E f \in [0 .. n -> S] : IsFold(f, b, n, F)
<1> USE DEF Steps
<1> DEFINE Good(m, f) == /\ f \in [0 .. m -> S] /\ f[0] = b
                         /\ \A k \in 1 .. m : f[k] = F[<<f[k - 1], k>>]
           T == {m \in Nat : m <= n => \E f \in [0 .. m -> S] : Good(m, f)}
<1>1. 0 \in T
  <2>1. Good(0, [k \in 0 .. 0 |-> b])
    OBVIOUS
  <2> QED BY <2>1
<1>2. ASSUME NEW m \in Nat, m \in T, m + 1 <= n
      PROVE  \E f \in [0 .. m + 1 -> S] : Good(m + 1, f)
  <2>1. PICK f \in [0 .. m -> S] : Good(m, f)
    BY <1>2
  <2> DEFINE next == F[<<f[m], m + 1>>]
             g == [k \in 0 .. m + 1 |-> IF k = m + 1 THEN next ELSE f[k]]
  <2>2. next \in S
    BY <1>2, <2>1
  <2>3. g \in [0 .. m + 1 -> S]
    BY <2>1, <2>2
  <2>4. g[m + 1] = next /\ \A k \in 0 .. m : g[k] = f[k]
    OBVIOUS
  <2>5. \A k \in 1 .. m + 1 : g[k] = F[<<g[k - 1], k>>]
    <3> HIDE DEF g
    <3>1. ASSUME NEW k \in 1 .. m PROVE g[k] = F[<<g[k - 1], k>>]
      <4>1. k \in 0 .. m /\ k - 1 \in 0 .. m
        OBVIOUS
      <4> QED BY <2>1, <2>4, <4>1
    <3>2. (m + 1) - 1 = m /\ g[m + 1] = F[<<g[m], m + 1>>]
      BY <2>4
    <3>3. ASSUME NEW k \in 1 .. m + 1 PROVE g[k] = F[<<g[k - 1], k>>]
      <4>1. k = m + 1 \/ k \in 1 .. m
        OBVIOUS
      <4> QED BY <3>1, <3>2, <4>1
    <3> QED BY <3>3
  <2>6. g[0] = b
    BY <2>1
  <2> HIDE DEF g
  <2> QED BY <2>3, <2>5, <2>6
<1>3. Nat \subseteq T
  <2>1. \A m \in Nat : m \in T => m + 1 \in T
    BY <1>2
  <2> HIDE DEF T
  <2> QED BY <1>1, <2>1, Induction
<1>4. PICK f \in [0 .. n -> S] : Good(n, f)
  <2>1. n \in T /\ n <= n
    <3> HIDE DEF T
    <3> QED BY <1>3
  <2> QED BY <2>1
<1>5. f = [k \in 0 .. n |-> IF k = 0 THEN b ELSE F[<<f[k - 1], k>>]]
  BY <1>4
<1> QED BY <1>5 DEF IsFold
-----------------------------------------------------------------------------
(* What an array tells of its attribute.                                   *)

\* The value of an entity, if there is one.
Value(array, i) == IF i \in Entities(array) THEN array.data[i] ELSE Undefined

\* The array of the entities I tells all that is not in k: k is what the array held
\* when its changes were last reset, or it has no more than that. The copy may say
\* less than k did, since growth makes a new one, but then there is a value to tell.
Tracks(array, I, k) ==
  /\ \A i \in Ids \ I : k[i] = Undefined
  /\ array = None => \A i \in I : k[i] = Undefined
  /\ array # None => \A i \in I :
       /\ k[i] # Undefined => array.data[i] # Undefined
       /\ array.curr = None => array.data[i] = k[i]
       /\ array.curr # None =>
            array.curr[i] = k[i] \/ (array.curr[i] = Undefined /\ array.data[i] # Undefined)

\* The copy is exactly what k says.
Exact(array, I, k) == array # None /\ array.curr # None => \A i \in I : array.curr[i] = k[i]

\* The arrays of an entity group, and the groups.
MaybeArrays(I) == ArraysOf(I, Values) \cup {None}
Groups == UNION {[ids : {I}, attributes : [Attributes -> MaybeArrays(I)]] : I \in SUBSET Ids}

\* None is no array and no copy of one.
LEMMA NoneIsNoArray ==
  ASSUME ConstantsAssumption, NEW I \in SUBSET Ids
  PROVE  None \notin ArraysOf(I, Values) /\ None \notin [I -> Maybe]
BY DEF ConstantsAssumption, ArraysOf, Maybe

\* What Groups says of a group.
LEMMA GroupHas ==
  ASSUME NEW g
  PROVE  g \in Groups <=> /\ g = [ids |-> g.ids, attributes |-> g.attributes]
                          /\ g.ids \in SUBSET Ids /\ g.attributes \in [Attributes -> MaybeArrays(g.ids)]
BY DEF Groups

\* An array that has no data yet tells as much as one of undefined values.
LEMMA FreshTracks ==
  ASSUME ConstantsAssumption, NEW I \in SUBSET Ids, NEW k \in [Ids -> Maybe], Tracks(None, I, k)
  PROVE  LET array == UndefinedArray(I) IN
         /\ array \in ArraysOf(I, Values) /\ array # None /\ Tracks(array, I, k) /\ Exact(array, I, k)
         /\ \A i \in Ids : Value(array, i) = Undefined
<1> DEFINE array == UndefinedArray(I)
<1>1. array \in ArraysOf(I, Values) /\ array.curr = None /\ DOMAIN array.data = I
      /\ \A i \in I : array.data[i] = Undefined
  BY DEF UndefinedArray, ArraysOf
<1>2. array # None
  BY <1>1, NoneIsNoArray
<1> HIDE DEF array
<1> QED BY <1>1, <1>2 DEF array, Tracks, Exact, Value, Entities

\* Growth loses nothing of what there is to tell, and changes no value.
LEMMA ResizedTracks ==
  ASSUME ConstantsAssumption, NEW J \in SUBSET Ids, NEW K \in SUBSET Ids, J \subseteq K, K # {},
         NEW array \in MaybeArrays(J), NEW k \in [Ids -> Maybe], Tracks(array, J, k)
  PROVE  LET new == Resize(array, K) IN
         /\ new \in ArraysOf(K, Values) /\ new # None /\ Tracks(new, K, k)
         /\ \A i \in Ids : Value(new, i) = Value(array, i)
         /\ J = K /\ Exact(array, J, k) => Exact(new, K, k)
<1>1. None \notin ArraysOf(K, Values) /\ None \notin [K -> Maybe] /\ None \notin ArraysOf(J, Values)
  BY NoneIsNoArray
<1>2. Entities(array) = IF array = None THEN {} ELSE J
  BY DEF Entities, MaybeArrays, ArraysOf
<1>3. CASE Entities(array) = K
  <2>1. array # None /\ J = K /\ Resize(array, K) = array
    BY <1>2, <1>3 DEF Resize
  <2> QED BY <2>1 DEF MaybeArrays
<1>4. CASE Entities(array) # K
  <2> DEFINE data == [i \in K |-> IF i \in Entities(array) THEN array.data[i] ELSE Undefined]
             curr == [i \in K |-> IF i \in Entities(array) /\ array.curr # None
                                  THEN array.curr[i] ELSE Undefined]
             new == Resize(array, K)
  <2>1. new = [data |-> data, curr |-> curr]
    BY <1>4 DEF Resize
  <2>2. /\ DOMAIN data = K /\ DOMAIN curr = K
        /\ \A i \in K : data[i] = Value(array, i)
        /\ \A i \in K : curr[i] = IF i \in Entities(array) /\ array.curr # None
                                  THEN array.curr[i] ELSE Undefined
    BY DEF Value
  <2>3. data \in [K -> Maybe] /\ curr \in [K -> Maybe]
    <3>1. array # None => array.data \in [J -> Maybe] /\ (array.curr # None => array.curr \in [J -> Maybe])
      BY DEF MaybeArrays, ArraysOf, Maybe
    <3>2. Undefined \in Maybe
      BY DEF Maybe
    <3> QED BY <1>2, <3>1, <3>2
  <2> HIDE DEF data, curr, new
  <2>4. new \in ArraysOf(K, Values) /\ new.data = data /\ new.curr = curr /\ new.curr # None
    BY <1>1, <2>1, <2>3 DEF ArraysOf, Maybe
  <2>5. new # None
    BY <1>1, <2>4
  <2>6. \A i \in Ids : Value(new, i) = Value(array, i)
    BY <1>2, <2>2, <2>4, <2>5 DEF Value, Entities
  <2>7. Tracks(new, K, k)
    <3>1. \A i \in Ids \ K : k[i] = Undefined
      BY DEF Tracks
    <3>2. ASSUME NEW i \in K
          PROVE  /\ k[i] # Undefined => data[i] # Undefined
                 /\ curr[i] = k[i] \/ (curr[i] = Undefined /\ data[i] # Undefined)
      <4>1. CASE i \in Entities(array)
        BY <1>2, <2>2, <4>1 DEF Tracks, Value
      <4>2. CASE i \notin Entities(array)
        BY <1>2, <2>2, <4>2 DEF Tracks, Value
      <4> QED BY <4>1, <4>2
    <3> QED BY <2>4, <2>5, <3>1, <3>2 DEF Tracks
  <2>8. J = K /\ Exact(array, J, k) => Exact(new, K, k)
    BY <1>2, <1>4, <2>2, <2>4 DEF Exact, Tracks
  <2> QED BY <2>4, <2>5, <2>6, <2>7, <2>8 DEF new
<1> QED BY <1>3, <1>4

\* Writing keeps what there was to tell, and the entities that are given a value have it.
LEMMA SetTracks ==
  ASSUME ConstantsAssumption, NEW K \in SUBSET Ids, NEW U \in SUBSET K,
         NEW array \in ArraysOf(K, Values), NEW values \in [U -> Maybe],
         NEW k \in [Ids -> Maybe], Tracks(array, K, k)
  PROVE  LET new == SetItem(array, values, FALSE) IN
         /\ new \in ArraysOf(K, Values) /\ new # None /\ Tracks(new, K, k)
         /\ \A i \in Ids : Value(new, i) = IF i \in U /\ values[i] # Undefined THEN values[i]
                                           ELSE Value(array, i)
         /\ Exact(array, K, k) => Exact(new, K, k)
<1>1. None \notin ArraysOf(K, Values) /\ None \notin [K -> Maybe] /\ array # None
  BY NoneIsNoArray
<1> DEFINE new == SetItem(array, values, FALSE)
           data == [i \in DOMAIN array.data |->
                      IF i \in DOMAIN values /\ (FALSE \/ values[i] # Undefined)
                      THEN values[i] ELSE array.data[i]]
           curr == IF array.curr = None THEN array.data ELSE array.curr
<1>2. new = [data |-> data, curr |-> curr]
  BY DEF SetItem
<1>3. array.data \in [K -> Maybe] /\ (array.curr # None => array.curr \in [K -> Maybe])
  BY DEF ArraysOf, Maybe
<1>4. DOMAIN data = K /\ data \in [K -> Maybe]
      /\ \A i \in K : data[i] = IF i \in U /\ values[i] # Undefined THEN values[i] ELSE array.data[i]
  BY <1>3
<1>5. curr \in [K -> Maybe] /\ curr # None
  BY <1>1, <1>3
<1> HIDE DEF data
<1>6. /\ array.curr = None => \A i \in K : curr[i] = k[i]
      /\ array.curr # None => curr = array.curr
  BY <1>1, <1>3 DEF Tracks
<1> HIDE DEF new, curr
<1>7. new \in ArraysOf(K, Values) /\ new.data = data /\ new.curr = curr /\ new.curr # None
  BY <1>2, <1>4, <1>5 DEF ArraysOf, Maybe
<1>8. new # None
  BY <1>1, <1>7
<1>9. \A i \in Ids : Value(new, i) = IF i \in U /\ values[i] # Undefined THEN values[i]
                                     ELSE Value(array, i)
  BY <1>1, <1>3, <1>4, <1>7, <1>8 DEF Value, Entities
<1>10. Tracks(new, K, k)
  <2>1. ASSUME NEW i \in K
        PROVE  /\ k[i] # Undefined => data[i] # Undefined
               /\ curr[i] = k[i] \/ (curr[i] = Undefined /\ data[i] # Undefined)
    BY <1>1, <1>4, <1>6 DEF Tracks
  <2> QED BY <1>7, <1>8, <2>1 DEF Tracks
<1>11. Exact(array, K, k) => Exact(new, K, k)
  BY <1>1, <1>6, <1>7 DEF Exact
<1> QED BY <1>7, <1>8, <1>9, <1>10, <1>11 DEF new

\* What is different from k is flagged, unless it has become undefined, which is not so.
LEMMA ChangesAreFlagged ==
  ASSUME ConstantsAssumption, NEW I \in SUBSET Ids, NEW array \in MaybeArrays(I),
         NEW k \in [Ids -> Maybe], Tracks(array, I, k)
  PROVE  /\ Changed(array) \subseteq I
         /\ \A i \in Ids : Value(array, i) # k[i] => i \in Changed(array)
         /\ \A i \in Changed(array) : array.data[i] # Undefined
         /\ Exact(array, I, k) => \A i \in Changed(array) : array.data[i] # k[i]
<1>1. CASE array = None
  BY <1>1 DEF Changed, Value, Entities, Tracks
<1>2. CASE array # None
  <2>1. DOMAIN array.data = I
    BY <1>2 DEF MaybeArrays, ArraysOf
  <2> QED BY <1>2, <2>1 DEF Changed, Value, Entities, Tracks, Exact
<1> QED BY <1>1, <1>2

\* After a reset, an array that has the values of k tracks it.
LEMMA ResetTracks ==
  ASSUME ConstantsAssumption, NEW I \in SUBSET Ids, NEW array \in MaybeArrays(I),
         NEW k \in [Ids -> Maybe], \A i \in Ids : Value(array, i) = k[i]
  PROVE  LET new == Reset(array) IN
         /\ new \in MaybeArrays(I) /\ Tracks(new, I, k) /\ Exact(new, I, k)
         /\ \A i \in Ids : Value(new, i) = k[i]
         /\ new = None <=> array = None
         /\ new # None => new.data = array.data
<1>1. CASE array = None
  BY <1>1 DEF Reset, Tracks, Exact, Value, Entities
<1>2. CASE array # None
  <2> DEFINE new == [array EXCEPT !.curr = None]
  <2>1. Reset(array) = new
    BY <1>2 DEF Reset
  <2>2. new \in ArraysOf(I, Values) /\ new.data = array.data /\ new.curr = None /\ DOMAIN array.data = I
    BY <1>2 DEF MaybeArrays, ArraysOf
  <2>3. new # None
    BY <2>2, NoneIsNoArray
  <2> HIDE DEF new
  <2>4. \A i \in I : array.data[i] = k[i]
    BY <1>2, <2>2 DEF Value, Entities
  <2>5. \A i \in Ids \ I : k[i] = Undefined
    BY <1>2, <2>2 DEF Value, Entities
  <2> QED BY <1>2, <2>1, <2>2, <2>3, <2>4, <2>5 DEF MaybeArrays, Tracks, Exact, Value, Entities
<1> QED BY <1>1, <1>2
-----------------------------------------------------------------------------
(* What a group tells of its attributes.                                   *)

\* Every array tells what is not in `known`.
GroupTracks(g, known) ==
  g \in Groups /\ \A a \in Attributes : Tracks(g.attributes[a], g.ids, known[a])

\* The copies of published attributes are what others know.
GroupExact(g, known) ==
  \A a \in PubAttributes : Exact(g.attributes[a], g.ids, known[a])

\* The values of an update, or those that were there where it has none.
NewValue(g, update, a, i) ==
  IF a \in DOMAIN update.data /\ i \in update.ids /\ update.data[a][i] # Undefined
  THEN update.data[a][i] ELSE Value(g.attributes[a], i)

\* What _apply_update of the attributes A leaves of all that.
Applied(g, h, A, update, known) ==
  /\ GroupTracks(h, known) /\ h.ids = g.ids
  /\ GroupExact(g, known) => GroupExact(h, known)
  /\ \A a \in Attributes : /\ a \notin A => h.attributes[a] = g.attributes[a]
                           /\ \A i \in Ids : Value(h.attributes[a], i) = NewValue(g, update, a, i)

\* _apply_update loses nothing of what there is to tell.
LEMMA AppliedGroup ==
  ASSUME ConstantsAssumption, NEW known \in Known(Attributes), NEW g, GroupTracks(g, known),
         NEW U \in SUBSET g.ids, NEW A, NEW update \in Updates(U, A)
  PROVE  Applied(g, ApplyUpdate(g, update, FALSE), A, update, known)
<1>0. PICK values \in [A -> [U -> Maybe]] : update = Rows(U, values)
  BY DEF Updates
<1> DEFINE h == ApplyUpdate(g, update, FALSE)
           start(a) == IF g.attributes[a] = None THEN UndefinedArray(g.ids) ELSE g.attributes[a]
           new(a) == SetItem(start(a), values[a], FALSE)
           attributes == [a \in Attributes |-> IF a \notin A THEN g.attributes[a] ELSE new(a)]
<1>1. /\ g = [ids |-> g.ids, attributes |-> g.attributes]
      /\ g.ids \in SUBSET Ids /\ g.attributes \in [Attributes -> MaybeArrays(g.ids)]
      /\ DOMAIN g.attributes = Attributes
  BY GroupHas DEF GroupTracks
<1>2. h = [ids |-> g.ids, attributes |-> attributes]
  <2>1. h = [g EXCEPT !.attributes = attributes]
    BY <1>0, <1>1 DEF ApplyUpdate, Rows
  <2> HIDE DEF attributes, h
  <2> QED BY <1>1, <2>1
<1>3. /\ attributes = [a \in Attributes |-> attributes[a]]
      /\ \A a \in Attributes : attributes[a] = IF a \notin A THEN g.attributes[a] ELSE new(a)
  OBVIOUS
<1>4. ASSUME NEW a \in Attributes
      PROVE  /\ known[a] \in [Ids -> Maybe] /\ Tracks(g.attributes[a], g.ids, known[a])
             /\ g.attributes[a] \in MaybeArrays(g.ids)
  BY <1>1 DEF GroupTracks, Known
<1>5. ASSUME NEW a \in Attributes, a \in A
      PROVE  /\ start(a) \in ArraysOf(g.ids, Values) /\ Tracks(start(a), g.ids, known[a])
             /\ Exact(g.attributes[a], g.ids, known[a]) => Exact(start(a), g.ids, known[a])
             /\ \A i \in Ids : Value(start(a), i) = Value(g.attributes[a], i)
  <2>1. CASE g.attributes[a] = None
    <3>1. start(a) = UndefinedArray(g.ids) /\ \A i \in Ids : Value(g.attributes[a], i) = Undefined
      BY <2>1 DEF Value, Entities
    <3> HIDE DEF start
    <3> QED BY <1>1, <1>4, <2>1, <3>1, FreshTracks
  <2>2. CASE g.attributes[a] # None
    BY <1>4, <2>2 DEF MaybeArrays
  <2> QED BY <2>1, <2>2
<1>6. ASSUME NEW a \in Attributes, a \in A
      PROVE  /\ new(a) \in ArraysOf(g.ids, Values) /\ Tracks(new(a), g.ids, known[a])
             /\ Exact(start(a), g.ids, known[a]) => Exact(new(a), g.ids, known[a])
             /\ \A i \in Ids : Value(new(a), i) = IF i \in U /\ values[a][i] # Undefined THEN values[a][i]
                                                  ELSE Value(start(a), i)
  <2>1. values[a] \in [U -> Maybe]
    BY <1>6
  <2>2. start(a) \in ArraysOf(g.ids, Values) /\ Tracks(start(a), g.ids, known[a])
    BY <1>5, <1>6
  <2> HIDE DEF start
  <2> QED BY <1>1, <1>4, <2>1, <2>2, SetTracks
<1> HIDE DEF start, new, attributes, h
<1>7. ASSUME NEW a \in Attributes
      PROVE  /\ attributes[a] \in MaybeArrays(g.ids) /\ Tracks(attributes[a], g.ids, known[a])
             /\ Exact(g.attributes[a], g.ids, known[a]) => Exact(attributes[a], g.ids, known[a])
             /\ a \notin A => attributes[a] = g.attributes[a]
             /\ \A i \in Ids : Value(attributes[a], i) = NewValue(g, update, a, i)
  <2>0. DOMAIN update.data = A /\ update.ids = U /\ update.data = values
    BY <1>0 DEF Rows
  <2>1. CASE a \in A
    BY <1>3, <1>5, <1>6, <2>0, <2>1 DEF NewValue, MaybeArrays
  <2>2. CASE a \notin A
    BY <1>3, <1>4, <2>0, <2>2 DEF NewValue
  <2> QED BY <2>1, <2>2
<1>8. h \in Groups /\ h.ids = g.ids /\ h.attributes = attributes
  <2>1. attributes \in [Attributes -> MaybeArrays(g.ids)]
    BY <1>3, <1>7
  <2> QED BY <1>1, <1>2, <2>1, GroupHas
<1>9. GroupExact(g, known) => GroupExact(h, known)
  BY <1>7, <1>8 DEF GroupExact, Attributes
<1>10. GroupTracks(h, known)
  BY <1>7, <1>8 DEF GroupTracks
<1> QED BY <1>7, <1>8, <1>9, <1>10 DEF h, Applied

\* receive_update: the entities of the update are there, and what there is to tell is kept.
LEMMA ReceivedGroup ==
  ASSUME ConstantsAssumption, NEW known \in Known(Attributes), NEW g, GroupTracks(g, known),
         NEW U \in SUBSET Ids, U # {}, NEW A, NEW update \in Updates(U, A)
  PROVE  LET h == ReceiveUpdate(g, update, FALSE) IN
         /\ GroupTracks(h, known) /\ g.ids \subseteq h.ids
         /\ h.ids = g.ids /\ GroupExact(g, known) => GroupExact(h, known)
         /\ \A a \in Attributes : \A i \in Ids :
              Value(h.attributes[a], i) = NewValue(g, update, a, i)
<1> DEFINE K == g.ids \cup U
           larger == [ids |-> K, attributes |-> [a \in Attributes |-> Resize(g.attributes[a], K)]]
           h == ApplyUpdate(larger, update, FALSE)
<1>1. /\ g.ids \in SUBSET Ids /\ g.attributes \in [Attributes -> MaybeArrays(g.ids)]
      /\ DOMAIN g.attributes = Attributes
  BY GroupHas DEF GroupTracks
<1>2. ReceiveUpdate(g, update, FALSE) = h
  <2>1. update.ids = U
    BY DEF Updates, Rows
  <2> QED BY <1>1, <2>1 DEF ReceiveUpdate
<1>3. /\ larger.ids = K /\ DOMAIN larger.attributes = Attributes
      /\ larger = [ids |-> larger.ids, attributes |-> larger.attributes]
      /\ \A a \in Attributes : larger.attributes[a] = Resize(g.attributes[a], K)
      /\ larger.attributes = [a \in Attributes |-> larger.attributes[a]]
  OBVIOUS
<1>4. K \in SUBSET Ids /\ g.ids \subseteq K /\ K # {} /\ U \in SUBSET K
  BY <1>1
<1> HIDE DEF larger, h, K
<1>5. ASSUME NEW a \in Attributes
      PROVE  /\ larger.attributes[a] \in MaybeArrays(K) /\ Tracks(larger.attributes[a], K, known[a])
             /\ \A i \in Ids : Value(larger.attributes[a], i) = Value(g.attributes[a], i)
             /\ g.ids = K /\ Exact(g.attributes[a], g.ids, known[a]) => Exact(larger.attributes[a], K, known[a])
  <2>1. /\ known[a] \in [Ids -> Maybe] /\ Tracks(g.attributes[a], g.ids, known[a])
        /\ g.attributes[a] \in MaybeArrays(g.ids)
    BY <1>1 DEF GroupTracks, Known
  <2> DEFINE old == g.attributes[a]
  <2>2. LET new == Resize(old, K) IN
        /\ new \in ArraysOf(K, Values) /\ new # None /\ Tracks(new, K, known[a])
        /\ \A i \in Ids : Value(new, i) = Value(old, i)
        /\ g.ids = K /\ Exact(old, g.ids, known[a]) => Exact(new, K, known[a])
    <3> HIDE DEF old
    <3>1. old \in MaybeArrays(g.ids) /\ Tracks(old, g.ids, known[a])
      BY <2>1 DEF old
    <3> QED BY <1>1, <1>4, <2>1, <3>1, ResizedTracks
  <2> QED BY <1>3, <2>2 DEF MaybeArrays
<1>6. GroupTracks(larger, known)
  <2>1. larger.attributes \in [Attributes -> MaybeArrays(K)]
    BY <1>3, <1>5
  <2> QED BY <1>3, <1>4, <1>5, <2>1, GroupHas DEF GroupTracks
<1>7. g.ids = K /\ GroupExact(g, known) => GroupExact(larger, known)
  BY <1>3, <1>5 DEF GroupExact, Attributes
<1>8. /\ GroupTracks(h, known) /\ h.ids = K
      /\ GroupExact(larger, known) => GroupExact(h, known)
      /\ \A a \in Attributes : \A i \in Ids :
           Value(h.attributes[a], i) = NewValue(larger, update, a, i)
  <2>1. U \in SUBSET larger.ids
    BY <1>3, <1>4
  <2>2. Applied(larger, h, A, update, known)
    BY <1>6, <2>1, AppliedGroup DEF h
  <2> QED BY <1>3, <2>2 DEF Applied
<1>9. \A a \in Attributes : \A i \in Ids :
        NewValue(larger, update, a, i) = NewValue(g, update, a, i)
  BY <1>5 DEF NewValue
<1> QED BY <1>2, <1>7, <1>8, <1>9 DEF K
-----------------------------------------------------------------------------
(* The items of a command.                                                 *)

\* The values of the group are what others have told.
GroupShows(g, w) == \A a \in SubAttributes : \A i \in Ids : Value(g.attributes[a], i) = w[a][i]

\* What is known of the world state after an item.
WorldWith(w, item) == IF IsData(item) THEN Told(w, item) ELSE w

\* An item with data has rows for some entities with values of subscribed attributes.
LEMMA DataItem ==
  ASSUME NEW item \in Items, IsData(item)
  PROVE  \E U \in SUBSET Ids : \E A \in SUBSET SubAttributes : U # {} /\ item \in Updates(U, A)
<1>1. item \in UNION {Updates(U, A) : U \in (SUBSET Ids) \ {{}}, A \in SUBSET SubAttributes}
  BY DEF Items, IsData
<1> QED BY <1>1

\* What is known after an update.
LEMMA ToldValues ==
  ASSUME NEW B, NEW w \in Known(B), NEW U \in SUBSET Ids, NEW A, NEW update \in Updates(U, A)
  PROVE  /\ Told(w, update) \in Known(B)
         /\ \A a \in B : \A i \in Ids :
              Told(w, update)[a][i] =
                IF a \in DOMAIN update.data /\ i \in update.ids /\ update.data[a][i] # Undefined
                THEN update.data[a][i] ELSE w[a][i]
<1> DEFINE Tells(a, i) == a \in DOMAIN update.data /\ i \in update.ids /\ update.data[a][i] # Undefined
           row(a) == [i \in Ids |-> IF Tells(a, i) THEN update.data[a][i] ELSE w[a][i]]
<1>0. PICK values \in [A -> [U -> Maybe]] : update = Rows(U, values)
  BY DEF Updates
<1>1. Told(w, update) = [a \in B |-> row(a)]
  BY DEF Told, Known
<1>2. \A a \in B : w[a] \in [Ids -> Maybe]
  BY DEF Known
<1>3. ASSUME NEW a \in B PROVE row(a) \in [Ids -> Maybe]
  <2>1. ASSUME NEW i \in Ids
        PROVE  (IF Tells(a, i) THEN update.data[a][i] ELSE w[a][i]) \in Maybe
    <3>1. Tells(a, i) => update.data[a][i] \in Maybe
      BY <1>0 DEF Rows
    <3> QED BY <1>2, <3>1
  <2> QED BY <2>1
<1>4. \A a \in B : \A i \in Ids :
        row(a)[i] = IF Tells(a, i) THEN update.data[a][i] ELSE w[a][i]
  OBVIOUS
<1> HIDE DEF row
<1>5. [a \in B |-> row(a)] \in [B -> [Ids -> Maybe]]
  BY <1>3
<1> QED BY <1>1, <1>4, <1>5 DEF Known

\* process_input keeps what there is to tell, and adds to the entities.
LEMMA ItemTracks ==
  ASSUME ConstantsAssumption, NEW known \in Known(Attributes), NEW g, GroupTracks(g, known),
         NEW item \in Items
  PROVE  LET h == ProcessInput(g, item) IN
         /\ GroupTracks(h, known) /\ g.ids \subseteq h.ids
         /\ h.ids = g.ids /\ GroupExact(g, known) => GroupExact(h, known)
<1>1. CASE ~IsData(item)
  BY <1>1 DEF ProcessInput
<1>2. CASE IsData(item)
  <2>1. PICK U \in SUBSET Ids, A \in SUBSET SubAttributes : U # {} /\ item \in Updates(U, A)
    BY <1>2, DataItem
  <2> QED BY <1>2, <2>1, ReceivedGroup DEF ProcessInput
<1> QED BY <1>1, <1>2

\* process_input keeps the group and the world state the same.
LEMMA ItemShows ==
  ASSUME ConstantsAssumption, NEW known \in Known(Attributes), NEW g, GroupTracks(g, known),
         NEW w \in Known(SubAttributes), GroupShows(g, w), NEW item \in Items
  PROVE  WorldWith(w, item) \in Known(SubAttributes) /\ GroupShows(ProcessInput(g, item), WorldWith(w, item))
<1>1. CASE ~IsData(item)
  BY <1>1 DEF ProcessInput, WorldWith
<1>2. CASE IsData(item)
  <2>1. PICK U \in SUBSET Ids, A \in SUBSET SubAttributes : U # {} /\ item \in Updates(U, A)
    BY <1>2, DataItem
  <2>2. \A a \in Attributes : \A i \in Ids :
          Value(ReceiveUpdate(g, item, FALSE).attributes[a], i) = NewValue(g, item, a, i)
    BY <2>1, ReceivedGroup
  <2>3. /\ Told(w, item) \in Known(SubAttributes)
        /\ \A a \in SubAttributes : \A i \in Ids :
             Told(w, item)[a][i] =
               IF a \in DOMAIN item.data /\ i \in item.ids /\ item.data[a][i] # Undefined
               THEN item.data[a][i] ELSE w[a][i]
    BY <2>1, ToldValues
  <2> QED BY <1>2, <2>2, <2>3 DEF ProcessInput, WorldWith, GroupShows, NewValue, Attributes
<1> QED BY <1>1, <1>2

\* The groups that a command's items lead to, one after the other.
LEMMA ProcessedItems ==
  ASSUME ConstantsAssumption, NEW known \in Known(Attributes), GroupTracks(group, known),
         NEW n \in Nat, NEW items \in [1 .. n -> Items]
  PROVE  \E f : /\ ProcessSeries(items) = f[n] /\ f[0] = group
                /\ \A k \in 1 .. n : f[k] = ProcessInput(f[k - 1], items[k])
<1> DEFINE S == {g \in Groups : GroupTracks(g, known)}
           F == [p \in S \X (1 .. n) |-> ProcessInput(p[1], items[p[2]])]
           step(f) == [k \in 0 .. n |-> IF k = 0 THEN group ELSE ProcessInput(f[k - 1], items[k])]
<1>1. F \in Steps(S, n)
  <2>1. ASSUME NEW g \in S, NEW k \in 1 .. n PROVE ProcessInput(g, items[k]) \in S
    <3>1. items[k] \in Items /\ GroupTracks(g, known)
      OBVIOUS
    <3>2. GroupTracks(ProcessInput(g, items[k]), known)
      BY <3>1, ItemTracks
    <3> QED BY <3>2 DEF GroupTracks
  <2> HIDE DEF S
  <2> QED BY <2>1 DEF Steps
<1>2. group \in S
  BY DEF GroupTracks
<1>3. PICK f \in [0 .. n -> S] : IsFold(f, group, n, F)
  <2> HIDE DEF S, F
  <2> QED BY <1>1, <1>2, FoldExists
<1>4. f = step(f)
  <2>1. ASSUME NEW k \in 0 .. n, k # 0 PROVE F[<<f[k - 1], k>>] = ProcessInput(f[k - 1], items[k])
    <3>1. k \in 1 .. n /\ f[k - 1] \in S
      BY <2>1
    <3> HIDE DEF S
    <3> QED BY <3>1
  <2> HIDE DEF F, S
  <2> QED BY <1>3, <2>1 DEF IsFold
<1> DEFINE processed == CHOOSE p : p = step(p)
<1>5. processed = step(processed)
  <2> HIDE DEF step
  <2> QED BY <1>4
<1>6. Len(items) = n
  OBVIOUS
<1>7. ProcessSeries(items) = processed[n]
  BY <1>6 DEF ProcessSeries, ProcessItems
<1> HIDE DEF processed
<1>8. processed[0] = group /\ \A k \in 1 .. n : processed[k] = ProcessInput(processed[k - 1], items[k])
  <2>1. \A k \in 0 .. n : step(processed)[k] = IF k = 0 THEN group ELSE ProcessInput(processed[k - 1], items[k])
    OBVIOUS
  <2> HIDE DEF step
  <2> QED BY <1>5, <2>1
<1> QED BY <1>7, <1>8
\* What others have told, item by item.
LEMMA ToldItems ==
  ASSUME world \in Known(SubAttributes), NEW n \in Nat, NEW items \in [1 .. n -> Items]
  PROVE  \E f : /\ WorldAfter(items) = f[n] /\ f[0] = world
                /\ \A k \in 1 .. n : f[k] = WorldWith(f[k - 1], items[k])
<1> DEFINE S == Known(SubAttributes)
           F == [p \in S \X (1 .. n) |-> WorldWith(p[1], items[p[2]])]
           step(f) == [k \in 0 .. n |->
                         IF k = 0 THEN world
                         ELSE IF IsData(items[k]) THEN Told(f[k - 1], items[k]) ELSE f[k - 1]]
<1>1. F \in Steps(S, n)
  <2>1. ASSUME NEW w \in S, NEW k \in 1 .. n PROVE WorldWith(w, items[k]) \in S
    <3>1. CASE IsData(items[k])
      <4>1. items[k] \in Items
        OBVIOUS
      <4>2. PICK U \in SUBSET Ids, A \in SUBSET SubAttributes : U # {} /\ items[k] \in Updates(U, A)
        BY <3>1, <4>1, DataItem
      <4> QED BY <3>1, <4>2, ToldValues DEF WorldWith
    <3>2. CASE ~IsData(items[k])
      BY <3>2 DEF WorldWith
    <3> QED BY <3>1, <3>2
  <2> HIDE DEF S
  <2> QED BY <2>1 DEF Steps
<1>2. world \in S
  OBVIOUS
<1>3. PICK f \in [0 .. n -> S] : IsFold(f, world, n, F)
  <2> HIDE DEF S, F
  <2> QED BY <1>1, <1>2, FoldExists
<1>4. f = step(f)
  <2>1. ASSUME NEW k \in 0 .. n, k # 0
        PROVE  F[<<f[k - 1], k>>] = IF IsData(items[k]) THEN Told(f[k - 1], items[k]) ELSE f[k - 1]
    <3>1. k \in 1 .. n /\ f[k - 1] \in S
      BY <2>1
    <3> HIDE DEF S
    <3> QED BY <3>1 DEF WorldWith
  <2> HIDE DEF F, S
  <2> QED BY <1>3, <2>1 DEF IsFold
<1> DEFINE told == CHOOSE p : p = step(p)
<1>5. told = step(told)
  <2> HIDE DEF step
  <2> QED BY <1>4
<1>6. Len(items) = n
  OBVIOUS
<1>7. WorldAfter(items) = told[n]
  BY <1>6 DEF WorldAfter
<1> HIDE DEF told
<1>8. told[0] = world /\ \A k \in 1 .. n : told[k] = WorldWith(told[k - 1], items[k])
  <2>1. \A k \in 0 .. n : step(told)[k] = IF k = 0 THEN world ELSE WorldWith(told[k - 1], items[k])
    BY DEF WorldWith
  <2> HIDE DEF step
  <2> QED BY <1>5, <2>1
<1> QED BY <1>7, <1>8

\* After all items of a command, what there was to tell is still there and the group shows
\* the world state; items that hold nothing change nothing.
LEMMA SeriesKeeps ==
  ASSUME ConstantsAssumption, NEW known \in Known(Attributes), GroupTracks(group, known),
         world \in Known(SubAttributes), GroupShows(group, world),
         NEW n \in Nat, NEW items \in [1 .. n -> Items]
  PROVE  LET g == ProcessSeries(items) IN
         /\ GroupTracks(g, known)
         /\ g.ids = group.ids /\ GroupExact(group, known) => GroupExact(g, known)
         /\ WorldAfter(items) \in Known(SubAttributes) /\ GroupShows(g, WorldAfter(items))
         /\ (\A k \in 1 .. n : ~IsData(items[k])) => g = group /\ WorldAfter(items) = world
<1>1. PICK f : /\ ProcessSeries(items) = f[n] /\ f[0] = group
               /\ \A k \in 1 .. n : f[k] = ProcessInput(f[k - 1], items[k])
  BY ProcessedItems
<1>2. PICK t : /\ WorldAfter(items) = t[n] /\ t[0] = world
               /\ \A k \in 1 .. n : t[k] = WorldWith(t[k - 1], items[k])
  BY ToldItems
<1> DEFINE Good(k) == /\ GroupTracks(f[k], known)
                      /\ group.ids \subseteq f[k].ids
                      /\ f[k].ids = group.ids /\ GroupExact(group, known) => GroupExact(f[k], known)
                      /\ t[k] \in Known(SubAttributes) /\ GroupShows(f[k], t[k])
                      /\ (\A l \in 1 .. n : ~IsData(items[l])) => f[k] = group /\ t[k] = world
           T == {k \in Nat : k <= n => Good(k)}
<1>3. 0 \in T
  BY <1>1, <1>2
<1>4. ASSUME NEW k \in Nat, k \in T, k + 1 <= n PROVE Good(k + 1)
  <2>1. Good(k)
    BY <1>4
  <2>2. /\ k + 1 \in 1 .. n /\ (k + 1) - 1 = k /\ items[k + 1] \in Items
        /\ f[k + 1] = ProcessInput(f[k], items[k + 1]) /\ t[k + 1] = WorldWith(t[k], items[k + 1])
    <3>1. k + 1 \in 1 .. n /\ (k + 1) - 1 = k
      BY <1>4
    <3>2. f[k + 1] = ProcessInput(f[(k + 1) - 1], items[k + 1]) /\ t[k + 1] = WorldWith(t[(k + 1) - 1], items[k + 1])
      BY <1>1, <1>2, <3>1
    <3> QED BY <3>1, <3>2
  <2> DEFINE g == f[k]
             h == f[k + 1]
             item == items[k + 1]
  <2>3. /\ GroupTracks(h, known) /\ g.ids \subseteq h.ids
        /\ h.ids = g.ids /\ GroupExact(g, known) => GroupExact(h, known)
    BY <2>1, <2>2, ItemTracks
  <2>4. t[k + 1] \in Known(SubAttributes) /\ GroupShows(h, t[k + 1])
    <3>1. GroupTracks(g, known) /\ t[k] \in Known(SubAttributes) /\ GroupShows(g, t[k]) /\ item \in Items
      BY <2>1, <2>2
    <3> HIDE DEF g, item, h
    <3>2. WorldWith(t[k], item) \in Known(SubAttributes) /\ GroupShows(ProcessInput(g, item), WorldWith(t[k], item))
      BY <3>1, ItemShows
    <3> QED BY <2>2, <3>2 DEF g, h, item
  <2>5. h.ids = group.ids => g.ids = group.ids
    BY <2>1, <2>3
  <2>6. ~IsData(item) => h = g /\ t[k + 1] = t[k]
    BY <2>2 DEF ProcessInput, WorldWith
  <2> HIDE DEF g, h, item
  <2>7. f[k] = g /\ f[k + 1] = h /\ items[k + 1] = item
    BY DEF g, h, item
  <2> QED BY <2>1, <2>2, <2>3, <2>4, <2>5, <2>6, <2>7
<1>5. Good(n)
  <2>1. \A k \in Nat : k \in T => k + 1 \in T
    BY <1>4
  <2>2. n \in T
    <3> HIDE DEF T
    <3> QED BY <1>3, <2>1, Induction
  <2> QED BY <2>2
<1> QED BY <1>1, <1>2, <1>5
-----------------------------------------------------------------------------
(* The model's own code, and what is published.                            *)

\* Values are values or undefined.
LEMMA RowsOfValues ==
  ASSUME NEW U, NEW values \in [PubAttributes -> [U -> Values]]
  PROVE  Rows(U, values) \in Updates(U, PubAttributes)
<1>1. \A a \in PubAttributes : values[a] \in [U -> Maybe]
  BY DEF Maybe
<1>2. values \in [PubAttributes -> [U -> Maybe]]
  BY <1>1
<1> QED BY <1>2 DEF Updates

\* What a step of the model leaves: the same entities and subscribed attributes, with
\* all that there was to tell.
Continues(g, h, known) ==
  /\ GroupTracks(h, known) /\ h.ids = g.ids
  /\ GroupExact(g, known) => GroupExact(h, known)
  /\ \A a \in SubAttributes : h.attributes[a] = g.attributes[a]

\* Published attributes of entities that are there are set.
LEMMA SettingContinues ==
  ASSUME ConstantsAssumption, NEW known \in Known(Attributes), NEW g, GroupTracks(g, known),
         NEW U \in SUBSET g.ids, NEW update \in Updates(U, PubAttributes)
  PROVE  Continues(g, ApplyUpdate(g, update, FALSE), known)
<1>1. Applied(g, ApplyUpdate(g, update, FALSE), PubAttributes, update, known)
  BY AppliedGroup
<1>2. \A a \in SubAttributes : a \in Attributes /\ a \notin PubAttributes
  BY DEF ConstantsAssumption, Attributes
<1> QED BY <1>1, <1>2 DEF Applied, Continues

\* The model sets published attributes of entities that it has.
LEMMA ModelContinues ==
  ASSUME ConstantsAssumption, NEW known \in Known(Attributes), NEW g, GroupTracks(g, known),
         NEW h \in ModelSets(g)
  PROVE  Continues(g, h, known)
<1>1. PICK U \in SUBSET g.ids : h \in {ApplyUpdate(g, Rows(U, v), FALSE) : v \in [PubAttributes -> [U -> Values]]}
  BY DEF ModelSets
<1>2. PICK v \in [PubAttributes -> [U -> Values]] : h = ApplyUpdate(g, Rows(U, v), FALSE)
  BY <1>1
<1>3. Rows(U, v) \in Updates(U, PubAttributes)
  BY RowsOfValues
<1> QED BY <1>2, <1>3, SettingContinues

\* Two steps of the model are one.
LEMMA ContinuesTwice ==
  ASSUME NEW known, NEW g, NEW h, NEW l, Continues(g, h, known), Continues(h, l, known)
  PROVE  Continues(g, l, known)
BY DEF Continues

\* Why a model is not ready: it refuses, or needs more.
Lacks(g) == \/ \E a \in RequiredAttributes : ~IsFilled(g.attributes[a])
            \/ \E a \in PubAttributes : g.attributes[a] = None

\* An attempt to initialize leaves the model initialized, or there is a reason.
LEMMA Attempt ==
  ASSUME ConstantsAssumption, NEW known \in Known(Attributes), NEW g, GroupTracks(g, known),
         modelInitialized \in BOOLEAN, refused \in BOOLEAN, latched \subseteq RequiredAttributes,
         NEW o \in TryInitialize(g)
  PROVE  /\ Continues(g, o.group, known)
         /\ o.initialized \in BOOLEAN /\ o.refused \in BOOLEAN /\ o.latched \subseteq RequiredAttributes
         /\ modelInitialized => o.initialized
         /\ ~o.initialized => o.refused \/ Lacks(o.group)
<1>0. InitAttributes \subseteq RequiredAttributes
  BY DEF ConstantsAssumption
<1>1. Continues(g, g, known)
  BY DEF Continues
<1>2. \A L \in Latches(InitAttributes, g, latched) : L \subseteq RequiredAttributes
  BY <1>0 DEF Latches
<1>3. ASSUME ~IsReadyFor(InitAttributes, g, latched) PROVE Lacks(g)
  BY <1>0, <1>3 DEF IsReadyFor, Lacks
<1> DEFINE outcome(h, L, done) ==
             [group |-> h, latched |-> L, initialized |-> done,
              refused |-> IsReadyFor(InitAttributes, g, latched) /\ ~done]
           L0 == Latches(InitAttributes, g, latched)
<1>4. CASE modelInitialized
  <2>1. o = [group |-> g, latched |-> latched, initialized |-> modelInitialized, refused |-> refused]
    BY <1>4 DEF TryInitialize, StillToInitialize
  <2> QED BY <1>1, <1>4, <2>1
<1>5. CASE ~modelInitialized /\ ~IsReadyFor(InitAttributes, g, latched)
  <2>1. PICK L \in L0 : o = outcome(g, L, FALSE)
    BY <1>5 DEF TryInitialize, StillToInitialize
  <2> QED BY <1>1, <1>2, <1>3, <1>5, <2>1
<1>6. CASE ~modelInitialized /\ IsReadyFor(InitAttributes, g, latched)
  <2>1. \/ o \in {outcome(h, L, TRUE) : h \in ModelSets(g), L \in L0}
        \/ o \in {outcome(g, L, FALSE) : L \in L0}
    BY <1>6 DEF TryInitialize, StillToInitialize
  <2>2. CASE \E h \in ModelSets(g), L \in L0 : o = outcome(h, L, TRUE)
    <3>1. PICK h \in ModelSets(g), L \in L0 : o = outcome(h, L, TRUE)
      BY <2>2
    <3>2. Continues(g, h, known)
      BY ModelContinues
    <3>3. o.group = h /\ o.latched = L /\ o.initialized = TRUE /\ o.refused = FALSE
      BY <3>1
    <3> QED BY <1>2, <3>2, <3>3
  <2>3. CASE \E L \in L0 : o = outcome(g, L, FALSE)
    <3>1. PICK L \in L0 : o = outcome(g, L, FALSE)
      BY <2>3
    <3>2. o.group = g /\ o.latched = L /\ o.initialized = FALSE /\ o.refused = TRUE
      BY <1>6, <3>1
    <3> QED BY <1>1, <1>2, <1>6, <3>2
  <2> QED BY <2>1, <2>2, <2>3
<1> QED BY <1>4, <1>5, <1>6

\* reset_tracked_changes: the attributes that are reset have to have the values that are
\* known of them.
LEMMA ResetGroup ==
  ASSUME ConstantsAssumption, NEW g \in Groups, NEW known \in Known(Attributes), NEW F,
         \A a \in Attributes : IF a \in F THEN \A i \in Ids : Value(g.attributes[a], i) = known[a][i]
                                          ELSE Tracks(g.attributes[a], g.ids, known[a])
  PROVE  LET h == ResetTrackedChanges(g, F) IN
         /\ GroupTracks(h, known) /\ h.ids = g.ids
         /\ PubAttributes \subseteq F => GroupExact(h, known)
         /\ \A a \in Attributes : \A i \in Ids : Value(h.attributes[a], i) = Value(g.attributes[a], i)
         /\ Lacks(h) <=> Lacks(g)
<1> DEFINE h == ResetTrackedChanges(g, F)
           attributes == [a \in Attributes |-> IF a \in F THEN Reset(g.attributes[a]) ELSE g.attributes[a]]
<1>1. /\ g = [ids |-> g.ids, attributes |-> g.attributes]
      /\ g.ids \in SUBSET Ids /\ g.attributes \in [Attributes -> MaybeArrays(g.ids)]
      /\ DOMAIN g.attributes = Attributes
  BY GroupHas
<1>2. h = [ids |-> g.ids, attributes |-> attributes]
  <2>1. h = [g EXCEPT !.attributes = attributes]
    BY <1>1 DEF ResetTrackedChanges
  <2> HIDE DEF attributes, h
  <2> QED BY <1>1, <2>1
<1>3. /\ attributes = [a \in Attributes |-> attributes[a]]
      /\ \A a \in Attributes : attributes[a] = IF a \in F THEN Reset(g.attributes[a]) ELSE g.attributes[a]
  OBVIOUS
<1> HIDE DEF attributes, h
<1>4. ASSUME NEW a \in Attributes
      PROVE  /\ attributes[a] \in MaybeArrays(g.ids) /\ Tracks(attributes[a], g.ids, known[a])
             /\ a \in F => Exact(attributes[a], g.ids, known[a])
             /\ \A i \in Ids : Value(attributes[a], i) = Value(g.attributes[a], i)
             /\ attributes[a] = None <=> g.attributes[a] = None
             /\ attributes[a] # None => attributes[a].data = g.attributes[a].data
  <2> DEFINE array == g.attributes[a]
  <2>1. array \in MaybeArrays(g.ids) /\ known[a] \in [Ids -> Maybe]
    BY <1>1 DEF Known
  <2>2. CASE a \in F
    <3>1. \A i \in Ids : Value(array, i) = known[a][i]
      BY <2>2
    <3>2. attributes[a] = Reset(array)
      BY <1>3, <2>2
    <3> HIDE DEF array
    <3>3. LET new == Reset(array) IN
          /\ new \in MaybeArrays(g.ids) /\ Tracks(new, g.ids, known[a]) /\ Exact(new, g.ids, known[a])
          /\ \A i \in Ids : Value(new, i) = known[a][i]
          /\ new = None <=> array = None
          /\ new # None => new.data = array.data
      BY <1>1, <2>1, <3>1, ResetTracks
    <3>4. attributes[a] # None => attributes[a].data = array.data
      BY <3>2, <3>3
    <3> QED BY <3>1, <3>2, <3>3, <3>4 DEF array
  <2>3. CASE a \notin F
    BY <1>3, <2>1, <2>3
  <2> QED BY <2>2, <2>3
<1>5. h \in Groups /\ h.ids = g.ids /\ h.attributes = attributes
  <2>1. attributes \in [Attributes -> MaybeArrays(g.ids)]
    BY <1>3, <1>4
  <2> QED BY <1>1, <1>2, <2>1, GroupHas
<1>6. GroupTracks(h, known)
  BY <1>4, <1>5 DEF GroupTracks
<1>7. PubAttributes \subseteq F => GroupExact(h, known)
  BY <1>4, <1>5 DEF GroupExact, Attributes
<1>8. \A a \in Attributes : IsFilled(attributes[a]) <=> IsFilled(g.attributes[a])
  BY <1>4 DEF IsFilled
<1>9. Lacks(h) <=> Lacks(g)
  <2>1. RequiredAttributes \subseteq Attributes /\ PubAttributes \subseteq Attributes
    BY DEF ConstantsAssumption, Attributes
  <2> QED BY <1>4, <1>5, <1>8, <2>1 DEF Lacks
<1> QED BY <1>4, <1>5, <1>6, <1>7, <1>9 DEF h
\* generate_update: others know the published attributes after it, and an update of exact
\* copies has only what they did not know.
LEMMA Published ==
  ASSUME ConstantsAssumption, NEW known \in Known(Attributes), NEW h, GroupTracks(h, known),
         sent \in Known(PubAttributes), \A a \in PubAttributes : known[a] = sent[a]
  PROVE  LET update == GenerateUpdate(h, PubAttributes) IN
         /\ Told(sent, update) \in Known(PubAttributes)
         /\ \A a \in PubAttributes : \A i \in Ids : Told(sent, update)[a][i] = Value(h.attributes[a], i)
         /\ GroupExact(h, known) => HoldsOnlyChanges(update)
<1> DEFINE news(a) == Changed(h.attributes[a])
           A == {a \in PubAttributes : news(a) # {}}
           U == UNION {news(a) : a \in PubAttributes}
           row(a) == [i \in U |-> IF i \in news(a) THEN h.attributes[a].data[i] ELSE Undefined]
           values == [a \in A |-> row(a)]
           update == GenerateUpdate(h, PubAttributes)
<1>1. update = Rows(U, values)
  BY DEF GenerateUpdate
<1>2. ASSUME NEW a \in PubAttributes
      PROVE  /\ news(a) \subseteq h.ids
             /\ \A i \in Ids : Value(h.attributes[a], i) # sent[a][i] => i \in news(a)
             /\ \A i \in news(a) : /\ h.attributes[a].data[i] # Undefined /\ h.attributes[a].data[i] \in Maybe
                                   /\ h.attributes[a].data[i] = Value(h.attributes[a], i)
             /\ GroupExact(h, known) => \A i \in news(a) : h.attributes[a].data[i] # sent[a][i]
  <2> DEFINE array == h.attributes[a]
  <2>1. /\ h.ids \in SUBSET Ids /\ array \in MaybeArrays(h.ids) /\ Tracks(array, h.ids, known[a])
        /\ known[a] \in [Ids -> Maybe] /\ known[a] = sent[a]
    <3>1. a \in Attributes
      BY DEF Attributes
    <3> QED BY <3>1, GroupHas DEF GroupTracks, Known
  <2>2. GroupExact(h, known) => Exact(array, h.ids, known[a])
    BY DEF GroupExact
  <2> HIDE DEF array
  <2>3. /\ Changed(array) \subseteq h.ids
        /\ \A i \in Ids : Value(array, i) # known[a][i] => i \in Changed(array)
        /\ \A i \in Changed(array) : array.data[i] # Undefined
        /\ Exact(array, h.ids, known[a]) => \A i \in Changed(array) : array.data[i] # known[a][i]
    BY <2>1, ChangesAreFlagged
  <2>4. \A i \in Changed(array) : array.data[i] \in Maybe /\ array.data[i] = Value(array, i)
    <3>1. CASE array = None
      BY <3>1 DEF Changed
    <3>2. CASE array # None
      BY <2>1, <2>3, <3>2 DEF MaybeArrays, ArraysOf, Maybe, Value, Entities
    <3> QED BY <3>1, <3>2
  <2> QED BY <2>1, <2>2, <2>3, <2>4 DEF array
<1>3. h.ids \in SUBSET Ids
  BY GroupHas DEF GroupTracks
<1>4. U \in SUBSET Ids
  BY <1>2, <1>3
<1>5. ASSUME NEW a \in A
      PROVE  /\ row(a) \in [U -> Maybe]
             /\ \A i \in U : row(a)[i] = IF i \in news(a) THEN h.attributes[a].data[i] ELSE Undefined
  <2>1. Undefined \in Maybe /\ \A i \in news(a) : h.attributes[a].data[i] \in Maybe
    BY <1>2 DEF Maybe
  <2> HIDE DEF U, news
  <2> QED BY <2>1
<1>6. values \in [A -> [U -> Maybe]] /\ DOMAIN values = A /\ \A a \in A : values[a] = row(a)
  <2> HIDE DEF row, A, U
  <2> QED BY <1>5
<1>7. A \subseteq PubAttributes /\ \A a \in PubAttributes : (a \in A <=> news(a) # {}) /\ news(a) \subseteq U
  OBVIOUS
<1> HIDE DEF values, row, A, U, update
<1>8. update \in Updates(U, A) /\ update.ids = U /\ update.data = values
  BY <1>1, <1>6 DEF Updates, Rows
<1>9. /\ Told(sent, update) \in Known(PubAttributes)
      /\ \A a \in PubAttributes : \A i \in Ids :
           Told(sent, update)[a][i] =
             IF a \in DOMAIN update.data /\ i \in update.ids /\ update.data[a][i] # Undefined
             THEN update.data[a][i] ELSE sent[a][i]
  BY <1>4, <1>8, ToldValues
<1>10. ASSUME NEW a \in PubAttributes, NEW i \in Ids
       PROVE  Told(sent, update)[a][i] = Value(h.attributes[a], i)
  <2>1. CASE i \in news(a)
    <3>1. a \in A /\ i \in U
      BY <1>7, <2>1
    <3>2. values[a][i] = h.attributes[a].data[i]
      BY <1>5, <1>6, <2>1, <3>1
    <3> HIDE DEF news
    <3> QED BY <1>2, <1>6, <1>8, <1>9, <2>1, <3>1, <3>2
  <2>2. CASE i \notin news(a)
    <3>1. a \in A /\ i \in U => values[a][i] = Undefined
      BY <1>5, <1>6, <2>2
    <3>2. Told(sent, update)[a][i] = sent[a][i]
      BY <1>6, <1>8, <1>9, <3>1
    <3> HIDE DEF news
    <3> QED BY <1>2, <2>2, <3>2
  <2> QED BY <2>1, <2>2
<1>11. ASSUME GroupExact(h, known), NEW a \in A, NEW i \in U, values[a][i] # Undefined
       PROVE  values[a][i] # sent[a][i]
  <2>1. i \in news(a) /\ values[a][i] = h.attributes[a].data[i]
    BY <1>5, <1>6, <1>11
  <2> HIDE DEF news
  <2> QED BY <1>2, <1>7, <1>11, <2>1
<1>12. GroupExact(h, known) => HoldsOnlyChanges(update)
  BY <1>6, <1>8, <1>11 DEF HoldsOnlyChanges
<1> QED BY <1>9, <1>10, <1>12 DEF update

\* Nothing is known of anything.
LEMMA NothingKnown ==
  ASSUME NEW B
  PROVE  Nothing(B) \in Known(B) /\ \A a \in B : \A i \in Ids : Nothing(B)[a][i] = Undefined
<1>1. [i \in Ids |-> Undefined] \in [Ids -> Maybe]
  BY DEF Maybe
<1> QED BY <1>1 DEF Nothing, Known

\* initialize: the group shows the initial data, and has nothing to tell of it.
LEMMA InitialGroup ==
  ASSUME ConstantsAssumption, NEW U \in SUBSET Ids, NEW update \in Updates(U, Attributes),
         NEW known \in Known(Attributes),
         \A a \in Attributes : \A i \in Ids : known[a][i] = Told(Nothing(Attributes), update)[a][i]
  PROVE  LET g == Initialize(Attributes, update) IN
         /\ GroupTracks(g, known) /\ GroupExact(g, known)
         /\ \A a \in Attributes : \A i \in Ids : Value(g.attributes[a], i) = known[a][i]
<1> DEFINE fresh == UndefinedArray(U)
           empty == [ids |-> U, attributes |-> [a \in Attributes |-> fresh]]
           applied == ApplyUpdate(empty, update, FALSE)
<1>1. fresh \in ArraysOf(U, Values) /\ Tracks(fresh, U, [i \in Ids |-> Undefined])
      /\ \A i \in Ids : Value(fresh, i) = Undefined
  <2> DEFINE k == [i \in Ids |-> Undefined]
  <2>1. k \in [Ids -> Maybe] /\ \A i \in Ids : k[i] = Undefined
    BY DEF Maybe
  <2> HIDE DEF k, fresh
  <2>2. Tracks(None, U, k)
    BY <2>1 DEF Tracks
  <2>3. k = [i \in Ids |-> Undefined]
    BY DEF k
  <2> QED BY <2>1, <2>2, <2>3, FreshTracks DEF fresh
<1>2. update.ids = U
  BY DEF Updates, Rows
<1> HIDE DEF fresh
<1>3. empty.ids = U /\ empty \in Groups /\ \A a \in Attributes : empty.attributes[a] = fresh
  <2>1. empty.attributes \in [Attributes -> MaybeArrays(U)]
    BY <1>1 DEF MaybeArrays
  <2> QED BY <2>1 DEF Groups
<1> HIDE DEF empty
<1>4. Nothing(Attributes) \in Known(Attributes)
      /\ \A a \in Attributes : Nothing(Attributes)[a] = [i \in Ids |-> Undefined]
  BY NothingKnown DEF Nothing
<1>5. GroupTracks(empty, Nothing(Attributes))
  BY <1>1, <1>3, <1>4 DEF GroupTracks
<1>6. Applied(empty, applied, Attributes, update, Nothing(Attributes))
  BY <1>3, <1>4, <1>5, AppliedGroup
<1>7. \A a \in Attributes : \A i \in Ids :
        Told(Nothing(Attributes), update)[a][i] =
          IF a \in DOMAIN update.data /\ i \in update.ids /\ update.data[a][i] # Undefined
          THEN update.data[a][i] ELSE Undefined
  BY <1>4, NothingKnown, ToldValues
<1> HIDE DEF applied
<1>8. applied \in Groups /\ applied.ids = U
      /\ \A a \in Attributes : \A i \in Ids : Value(applied.attributes[a], i) = known[a][i]
  BY <1>1, <1>3, <1>6, <1>7 DEF Applied, GroupTracks, NewValue
<1>9. Initialize(Attributes, update) = ResetTrackedChanges(applied, Attributes)
  <2>1. DOMAIN applied.attributes = Attributes
    BY <1>8, GroupHas
  <2>2. Initialize(Attributes, update) =
          [applied EXCEPT !.attributes = [a \in Attributes |-> Reset(applied.attributes[a])]]
    BY <1>2 DEF Initialize, applied, empty, fresh
  <2> QED BY <2>1, <2>2 DEF ResetTrackedChanges
<1>10. LET h == ResetTrackedChanges(applied, Attributes) IN
       /\ GroupTracks(h, known) /\ h.ids = applied.ids
       /\ PubAttributes \subseteq Attributes => GroupExact(h, known)
       /\ \A a \in Attributes : \A i \in Ids : Value(h.attributes[a], i) = Value(applied.attributes[a], i)
  BY <1>8, ResetGroup
<1> QED BY <1>8, <1>9, <1>10 DEF Attributes
-----------------------------------------------------------------------------
(* The invariant.                                                          *)

\* What is known of every attribute without its changes: of subscribed ones what the
\* model has looked at, of published ones what others know.
Reported == [a \in Attributes |-> IF a \in SubAttributes THEN seen[a] ELSE sent[a]]

\* Before it has started, a model knows nothing.
Starting ==
  status = "starting" =>
    /\ group = [ids |-> {}, attributes |-> [a \in Attributes |-> None]]
    /\ now = None /\ ~due /\ request = None /\ result = None /\ shown = None /\ wish = None
    /\ ~modelInitialized /\ seen = world /\ sent = Nothing(PubAttributes) /\ world = Nothing(SubAttributes)

\* A running model has all that it was told in its arrays, and all that is not reported is
\* flagged in them.
Telling ==
  status = "running" =>
    /\ GroupTracks(group, Reported) /\ GroupShows(group, world)
    /\ ~grown => GroupExact(group, Reported)
    /\ result # None => Data(PubAttributes) = sent

\* The time that the model has asked for is remembered twice.
Waking ==
  /\ wish = nextTime /\ (wish # None => modelInitialized)
  /\ status = "running" /\ wish # None => due \/ request = wish
  /\ status = "running" /\ now = None => request = 0 /\ ~due

\* When a time has begun and the model has had its time update, it is ready or there is
\* a reason.
Trying ==
  /\ status = "running" /\ now # None /\ ~due /\ ~modelReadyForUpdate => refused \/ Lacks(group)
  /\ status = "failed" => refused \/ Lacks(group)

AdapterInv == TypeOK /\ group \in Groups /\ Starting /\ Telling /\ Waking /\ Trying

\* The reported values are values.
LEMMA ReportedKnown ==
  ASSUME ConstantsAssumption, seen \in Known(SubAttributes), sent \in Known(PubAttributes)
  PROVE  /\ Reported \in Known(Attributes)
         /\ \A a \in SubAttributes : Reported[a] = seen[a]
         /\ \A a \in PubAttributes : Reported[a] = sent[a]
<1>1. \A a \in PubAttributes : a \notin SubAttributes
  BY DEF ConstantsAssumption
<1>2. \A a \in Attributes : (IF a \in SubAttributes THEN seen[a] ELSE sent[a]) \in [Ids -> Maybe]
  BY DEF Known, Attributes
<1> QED BY <1>1, <1>2 DEF Reported, Known, Attributes

\* The arrays of a group have the types that TypeOK wants.
LEMMA GroupType ==
  ASSUME ConstantsAssumption, NEW g \in Groups
  PROVE  /\ g.ids \subseteq Ids /\ DOMAIN g.attributes = Attributes
         /\ \A a \in Attributes : g.attributes[a] # None =>
              g.attributes[a] \in Arrays /\ Entities(g.attributes[a]) = g.ids
<1>1. g.ids \in SUBSET Ids /\ g.attributes \in [Attributes -> MaybeArrays(g.ids)]
  BY GroupHas
<1>2. ASSUME NEW a \in Attributes, g.attributes[a] # None
      PROVE  g.attributes[a] \in Arrays /\ Entities(g.attributes[a]) = g.ids
  <2>1. g.attributes[a] \in [data : [g.ids -> Maybe], curr : [g.ids -> Maybe] \cup {None}]
    BY <1>1, <1>2 DEF MaybeArrays, ArraysOf, Maybe
  <2>2. g.attributes[a] \in Arrays
    BY <1>1, <2>1 DEF Arrays
  <2>3. Entities(g.attributes[a]) = g.ids
    BY <1>2, <2>1 DEF Entities
  <2> QED BY <2>2, <2>3
<1> QED BY <1>1, <1>2

\* The values of arrays are those that are known.
LEMMA ValuesAreKnown ==
  ASSUME NEW g, NEW B, NEW w \in Known(B)
  PROVE  [a \in B |-> [i \in Ids |-> Value(g.attributes[a], i)]] = w
           <=> \A a \in B : \A i \in Ids : Value(g.attributes[a], i) = w[a][i]
<1> DEFINE values == [a \in B |-> [i \in Ids |-> Value(g.attributes[a], i)]]
<1>1. w = [a \in B |-> [i \in Ids |-> w[a][i]]]
  <2>1. \A a \in B : w[a] = [i \in Ids |-> w[a][i]]
    BY DEF Known
  <2> QED BY <2>1 DEF Known
<1>2. ASSUME \A a \in B : \A i \in Ids : Value(g.attributes[a], i) = w[a][i]
      PROVE  values = w
  <2>1. \A a \in B : [i \in Ids |-> Value(g.attributes[a], i)] = [i \in Ids |-> w[a][i]]
    BY <1>2
  <2> QED BY <1>1, <2>1
<1>3. ASSUME values = w, NEW a \in B, NEW i \in Ids
      PROVE  Value(g.attributes[a], i) = w[a][i]
  <2>1. values[a] = [j \in Ids |-> Value(g.attributes[a], j)]
    OBVIOUS
  <2> QED BY <1>3, <2>1
<1> QED BY <1>2, <1>3

\* Data gives the values of arrays.
LEMMA DataIsKnown ==
  ASSUME NEW B, NEW w \in Known(B)
  PROVE  Data(B) = w <=> \A a \in B : \A i \in Ids : Value(group.attributes[a], i) = w[a][i]
BY ValuesAreKnown DEF Data, Value

\* The model knows nothing when it starts.
LEMMA InitInv == ASSUME ConstantsAssumption, Init PROVE AdapterInv
<1>1. group \in Groups
  <2>1. group.attributes \in [Attributes -> MaybeArrays({})]
    BY DEF Init, MaybeArrays
  <2>2. {} \in SUBSET Ids
    OBVIOUS
  <2> QED BY <2>1, <2>2 DEF Init, Groups
<1>2. world \in Known(SubAttributes) /\ seen \in Known(SubAttributes) /\ sent \in Known(PubAttributes)
  BY NothingKnown DEF Init
<1>3. TypeOK
  BY <1>1, <1>2, GroupType DEF Init, TypeOK
<1>4. Starting
  BY DEF Init, Starting
<1>5. Telling /\ Waking /\ Trying
  BY DEF Init, Telling, Waking, Trying
<1> QED BY <1>1, <1>3, <1>4, <1>5 DEF AdapterInv
-----------------------------------------------------------------------------
(* Every step keeps the invariant.                                         *)

\* The bounds of the numbers.
LEMMA Numbers ==
  ASSUME ConstantsAssumption
  PROVE  End \in Nat /\ None \notin Nat /\ 0 \in Times /\ None \notin Times /\ Times \subseteq Nat
BY DEF ConstantsAssumption, Times

\* The model is started, with an initial dataset or without.
LEMMA InitializeKeeps ==
  ASSUME ConstantsAssumption, AdapterInv, InitializeModel
  PROVE  AdapterInv'
<1>1. /\ status' = "running" /\ request' = 0 /\ seen' = world'
      /\ UNCHANGED <<modelReadyForUpdate, nextTime, now, due, result, shown, wish, grown>>
      /\ status = "starting"
  BY DEF InitializeModel
<1>2. /\ group = [ids |-> {}, attributes |-> [a \in Attributes |-> None]]
      /\ now = None /\ ~due /\ request = None /\ result = None /\ shown = None /\ wish = None
      /\ ~modelInitialized /\ seen = world /\ sent = Nothing(PubAttributes) /\ world = Nothing(SubAttributes)
  BY <1>1 DEF AdapterInv, Starting
<1>3. PICK update \in UNION {IF I = None THEN {None} ELSE Updates(I, Attributes) : I \in InitialIds} :
        LET found == update # None
            g == IF found THEN Initialize(Attributes, update) ELSE group
        IN /\ world' = IF found THEN Told(world, update) ELSE world
           /\ sent' = IF found THEN Told(sent, update) ELSE sent
           /\ \E o \in TryInitialize(g) :
                /\ group' = o.group /\ latched' = o.latched
                /\ modelInitialized' = o.initialized /\ refused' = o.refused
  BY DEF InitializeModel
<1> DEFINE g == IF update # None THEN Initialize(Attributes, update) ELSE group
<1>4. PICK o \in TryInitialize(g) :
        /\ group' = o.group /\ latched' = o.latched
        /\ modelInitialized' = o.initialized /\ refused' = o.refused
  BY <1>3
<1>5. SubAttributes \subseteq Attributes /\ PubAttributes \subseteq Attributes
  BY DEF Attributes
<1>6. /\ world' \in Known(SubAttributes) /\ sent' \in Known(PubAttributes)
      /\ GroupTracks(g, Reported') /\ GroupExact(g, Reported') /\ GroupShows(g, world')
  <2>1. CASE update = None
    <3>1. world' = Nothing(SubAttributes) /\ sent' = Nothing(PubAttributes) /\ g = group
      BY <1>2, <1>3, <2>1
    <3>2. world' \in Known(SubAttributes) /\ sent' \in Known(PubAttributes)
      BY <3>1, NothingKnown
    <3>3. \A a \in Attributes : \A i \in Ids : Reported'[a][i] = Undefined
      BY <1>1, <3>1, NothingKnown DEF Reported, Attributes
    <3>4. g.ids = {} /\ \A a \in Attributes : g.attributes[a] = None
      BY <1>2, <3>1
    <3>5. GroupTracks(g, Reported')
      BY <3>1, <3>3, <3>4 DEF GroupTracks, AdapterInv, Tracks
    <3>6. GroupExact(g, Reported')
      BY <1>5, <3>4 DEF GroupExact, Exact
    <3>7. GroupShows(g, world')
      BY <1>5, <3>1, <3>4, NothingKnown DEF GroupShows, Value, Entities
    <3> QED BY <3>2, <3>5, <3>6, <3>7
  <2>2. CASE update # None
    <3>1. PICK U \in SUBSET Ids : update \in Updates(U, Attributes)
      <4>1. PICK I \in InitialIds : update \in IF I = None THEN {None} ELSE Updates(I, Attributes)
        OBVIOUS
      <4>2. I # None /\ I \in SUBSET Ids
        BY <2>2, <4>1 DEF ConstantsAssumption
      <4> QED BY <4>1, <4>2
    <3>2. /\ world' = Told(Nothing(SubAttributes), update) /\ sent' = Told(Nothing(PubAttributes), update)
          /\ g = Initialize(Attributes, update)
      BY <1>2, <1>3, <2>2
    <3>3. world' \in Known(SubAttributes) /\ sent' \in Known(PubAttributes)
      BY <3>1, <3>2, NothingKnown, ToldValues
    <3>4. \A B : \A a \in B : \A i \in Ids :
             Told(Nothing(B), update)[a][i] =
               IF a \in DOMAIN update.data /\ i \in update.ids /\ update.data[a][i] # Undefined
               THEN update.data[a][i] ELSE Undefined
      <4>1. ASSUME NEW B
            PROVE \A a \in B : \A i \in Ids :
             Told(Nothing(B), update)[a][i] =
               IF a \in DOMAIN update.data /\ i \in update.ids /\ update.data[a][i] # Undefined
               THEN update.data[a][i] ELSE Undefined
        <5> DEFINE w == Nothing(B)
        <5>1. w \in Known(B) /\ \A a \in B : \A i \in Ids : w[a][i] = Undefined
          BY NothingKnown
        <5> HIDE DEF w
        <5>2. \A a \in B : \A i \in Ids :
                Told(w, update)[a][i] =
                  IF a \in DOMAIN update.data /\ i \in update.ids /\ update.data[a][i] # Undefined
                  THEN update.data[a][i] ELSE w[a][i]
          BY <3>1, <5>1, ToldValues
        <5> QED BY <5>1, <5>2 DEF w
      <4> QED BY <4>1
    <3>5. /\ Reported' \in Known(Attributes)
          /\ \A a \in SubAttributes : Reported'[a] = world'[a]
          /\ \A a \in PubAttributes : Reported'[a] = sent'[a]
      <4>1. \A a \in PubAttributes : a \notin SubAttributes
        BY DEF ConstantsAssumption
      <4>2. \A a \in Attributes : (IF a \in SubAttributes THEN world'[a] ELSE sent'[a]) \in [Ids -> Maybe]
        BY <3>3 DEF Known, Attributes
      <4> QED BY <1>1, <4>1, <4>2 DEF Reported, Known, Attributes
    <3>6. \A a \in Attributes : \A i \in Ids : Reported'[a][i] = Told(Nothing(Attributes), update)[a][i]
      BY <3>2, <3>4, <3>5 DEF Attributes
    <3>7. LET h == Initialize(Attributes, update) IN
          /\ GroupTracks(h, Reported') /\ GroupExact(h, Reported')
          /\ \A a \in Attributes : \A i \in Ids : Value(h.attributes[a], i) = Reported'[a][i]
      BY <3>1, <3>5, <3>6, InitialGroup
    <3>8. GroupShows(g, world')
      BY <1>5, <3>2, <3>5, <3>7 DEF GroupShows
    <3> QED BY <3>2, <3>3, <3>7, <3>8
  <2> QED BY <2>1, <2>2
<1> HIDE DEF g
<1>7. Reported' \in Known(Attributes)
  <2>1. \A a \in Attributes : (IF a \in SubAttributes THEN world'[a] ELSE sent'[a]) \in [Ids -> Maybe]
    BY <1>6 DEF Known, Attributes
  <2> QED BY <1>1, <2>1 DEF Reported, Known
<1>8. /\ Continues(g, o.group, Reported')
      /\ o.initialized \in BOOLEAN /\ o.refused \in BOOLEAN /\ o.latched \subseteq RequiredAttributes
  BY <1>6, <1>7, Attempt DEF AdapterInv, TypeOK
<1>9. GroupTracks(group', Reported') /\ GroupExact(group', Reported') /\ GroupShows(group', world')
  BY <1>4, <1>6, <1>8 DEF Continues, GroupShows
<1>10. group' \in Groups
  BY <1>9 DEF GroupTracks
<1>11. TypeOK'
  BY <1>1, <1>2, <1>4, <1>6, <1>8, <1>10, GroupType, Numbers DEF AdapterInv, TypeOK
<1>12. Starting' /\ Waking' /\ Trying'
  BY <1>1, <1>2 DEF AdapterInv, Starting, Waking, Trying
<1>13. Telling'
  BY <1>1, <1>2, <1>9 DEF Telling
<1> QED BY <1>10, <1>11, <1>12, <1>13 DEF AdapterInv

\* A new time, a repeated one, and the end change nothing that the model knows.
LEMMA CommandsKeep ==
  ASSUME ConstantsAssumption, AdapterInv,
         \/ \E t \in Times : NewTime(t)
         \/ RepeatTime
         \/ \E dueToFailure \in BOOLEAN : Close(dueToFailure)
  PROVE  AdapterInv'
<1>1. /\ UNCHANGED <<adapterVars, request, ghostVars>> /\ status = "running"
      /\ result' = None /\ shown' = None /\ status' \in {"running", "failed", "closed"}
      /\ now' \in Times \cup {None} /\ due' \in BOOLEAN
  BY DEF NewTime, RepeatTime, Close, AdapterInv, TypeOK, orchestratorVars
<1>2. TypeOK' /\ group' \in Groups /\ Starting'
  BY <1>1 DEF AdapterInv, TypeOK, Starting, adapterVars, ghostVars
<1>3. Telling'
  BY <1>1 DEF AdapterInv, Telling, Reported, GroupShows, adapterVars, ghostVars
<1>4. CASE \E t \in Times : NewTime(t)
  <2>1. PICK t \in Times : NewTime(t)
    BY <1>4
  <2>2. /\ ~due /\ (now = None => t = 0) /\ (now # None => now < t) /\ now' = t /\ due' = (request = t)
        /\ status' = IF t > 0 /\ ~(modelInitialized /\ modelReadyForUpdate) THEN "failed" ELSE "running"
    BY <2>1 DEF NewTime
  <2>3. t \in Nat /\ t # None /\ (now # None => now \in Nat)
    BY Numbers DEF AdapterInv, TypeOK
  <2>4. Waking'
    BY <1>1, <2>2, <2>3 DEF AdapterInv, Waking, adapterVars, ghostVars
  <2>5. Trying'
    <3>1. CASE now = None
      <4>1. t = 0 /\ request = 0
        BY <1>1, <2>2, <3>1 DEF AdapterInv, Waking
      <4>2. status' = "running"
        BY <2>2, <4>1
      <4>3. due'
        <5>1. request = t /\ due' = (request = t)
          BY <2>2, <4>1
        <5> QED BY ONLY <5>1, Zenon
      <4> QED BY <4>2, <4>3 DEF Trying
    <3>2. CASE now # None
      <4>1. t > 0
        BY <2>2, <2>3, <3>2
      <4>2. ~modelReadyForUpdate => refused \/ Lacks(group)
        BY <1>1, <2>2, <3>2 DEF AdapterInv, Trying
      <4> QED BY <1>1, <2>2, <4>1, <4>2 DEF AdapterInv, TypeOK, Trying, adapterVars, ghostVars
    <3> QED BY <3>1, <3>2
  <2> QED BY <1>2, <1>3, <2>4, <2>5 DEF AdapterInv
<1>5. CASE RepeatTime
  BY <1>1, <1>2, <1>3, <1>5 DEF RepeatTime, AdapterInv, Waking, Trying, adapterVars, ghostVars
<1>6. CASE \E dueToFailure \in BOOLEAN : Close(dueToFailure)
  <2>1. PICK dueToFailure \in BOOLEAN : Close(dueToFailure)
    BY <1>6
  <2>2. /\ dueToFailure \/ (now # None /\ request = None /\ ~due)
        /\ status' = IF ~dueToFailure /\ ~(modelInitialized /\ modelReadyForUpdate)
                     THEN "failed" ELSE "closed"
        /\ UNCHANGED orchestratorVars
    BY <2>1 DEF Close
  <2>3. Waking'
    BY <1>1, <2>2 DEF AdapterInv, Waking, adapterVars, ghostVars
  <2>4. Trying'
    <3>1. CASE dueToFailure
      BY <2>2, <3>1 DEF Trying
    <3>2. CASE ~dueToFailure
      <4>1. ~modelReadyForUpdate => refused \/ Lacks(group)
        BY <1>1, <2>2, <3>2 DEF AdapterInv, Trying
      <4> QED BY <1>1, <2>2, <4>1 DEF AdapterInv, TypeOK, Trying, adapterVars, ghostVars
    <3> QED BY <3>1, <3>2
  <2> QED BY <1>2, <1>3, <2>3, <2>4 DEF AdapterInv
<1> QED BY <1>4, <1>5, <1>6
\* What a calculation for the group g leaves.
KeepsTypes ==
  /\ group' \in Groups /\ latched' \subseteq RequiredAttributes
  /\ modelInitialized' \in BOOLEAN /\ modelReadyForUpdate' \in BOOLEAN
  /\ modelReadyForUpdate' => modelInitialized'
  /\ nextTime' \in Times \cup {None} /\ request' \in Times \cup {None} /\ wish' \in Times \cup {None}
  /\ refused' \in BOOLEAN /\ status' \in {"running", "failed"}
  /\ seen' \in Known(SubAttributes) /\ sent' \in Known(PubAttributes)
KeepsTelling(g) ==
  status' = "running" =>
    /\ GroupTracks(group', Reported') /\ GroupShows(group', world')
    /\ GroupExact(g, Reported) => GroupExact(group', Reported')
    /\ result' # None =>
         /\ GroupExact(group', Reported')
         /\ \A a \in PubAttributes : \A i \in Ids : Value(group'.attributes[a], i) = sent'[a][i]
KeepsWaking ==
  /\ wish' = nextTime' /\ (wish' # None => modelInitialized')
  /\ status' = "running" /\ wish' # None => request' = wish'
KeepsTrying ==
  (status' = "running" /\ ~modelReadyForUpdate') \/ status' = "failed" => refused' \/ Lacks(group')
Reports(g) ==
  /\ group'.ids = g.ids /\ ShowsChanges
  /\ result' # None /\ GroupExact(g, Reported) => HoldsOnlyChanges(result')
KeepsAll(g) == KeepsTypes /\ KeepsTelling(g) /\ KeepsWaking /\ KeepsTrying /\ Reports(g)

\* The outcome o of the attempt to initialize, and whether the model updates.
Asked(o) == o.initialized /\ ~modelReadyForUpdate
Ready(o) == modelReadyForUpdate
              \/ (Asked(o) /\ IsReadyFor(RequiredAttributes, o.group, o.latched))
Latching(o) ==
  /\ latched' \in IF Asked(o) THEN Latches(RequiredAttributes, o.group, o.latched) ELSE {o.latched}
  /\ modelInitialized' = o.initialized /\ refused' = o.refused /\ modelReadyForUpdate' = Ready(o)

\* The branches of try_calculate: the model cannot be initialized, an array that is to be
\* published has no data, or there is a result.
Waits(o) ==
  /\ group' = o.group /\ request' = None /\ result' = None /\ shown' = None
  /\ UNCHANGED <<status, nextTime, wish, seen, sent>>
Raises(h) ==
  /\ \E a \in PubAttributes : h.attributes[a] = None
  /\ status' = "failed" /\ group' = h /\ result' = None /\ shown' = None
  /\ UNCHANGED <<nextTime, request, wish, seen, sent>>
Publishes(h, ready, t) ==
  /\ group' = ResetAfter(h, ready)
  /\ result' = GenerateUpdate(h, PubAttributes) /\ sent' = Told(sent, GenerateUpdate(h, PubAttributes))
  /\ shown' = IF ready THEN Flagged(h, SubAttributes) ELSE None
  /\ seen' = IF ready THEN world' ELSE seen
  /\ nextTime' = t /\ request' = t /\ wish' = t
  /\ UNCHANGED status

\* A calculation takes one of the branches.
LEMMA Branches ==
  ASSUME NEW g, Calculate(g)
  PROVE  \E o \in TryInitialize(g) :
           /\ Latching(o)
           /\ \/ ~o.initialized /\ Waits(o)
              \/ /\ o.initialized
                 /\ \E h \in IF Ready(o) THEN ModelSets(o.group) ELSE {o.group},
                       t \in IF Ready(o) THEN {None} \cup now .. End ELSE {None} :
                      Raises(h) \/ Publishes(h, Ready(o), t)
BY DEF Calculate, Latching, Waits, Raises, Publishes, Asked, Ready

\* What is latched stays what is required, and an updating model is initialized.
LEMMA Latched ==
  ASSUME ConstantsAssumption, AdapterInv, NEW o, o.latched \subseteq RequiredAttributes,
         o.initialized \in BOOLEAN, modelInitialized => o.initialized, Latching(o)
  PROVE  /\ latched' \subseteq RequiredAttributes /\ Ready(o) \in BOOLEAN
         /\ Ready(o) => o.initialized
         /\ o.initialized /\ ~Ready(o) => Lacks(o.group)
<1>1. \A L \in Latches(RequiredAttributes, o.group, o.latched) : L \subseteq RequiredAttributes
  BY DEF Latches
<1>2. latched' \subseteq RequiredAttributes
  BY <1>1 DEF Latching
<1>3. Ready(o) \in BOOLEAN
  BY DEF Ready, AdapterInv, TypeOK
<1>4. Ready(o) => o.initialized
  BY DEF Ready, Asked, AdapterInv, TypeOK
<1>5. o.initialized /\ ~Ready(o) => Lacks(o.group)
  BY DEF Ready, Asked, IsReadyFor, Lacks
<1> QED BY <1>2, <1>3, <1>4, <1>5

\* There is a result: what is published is known, and what was shown is seen.
LEMMA ResultKeeps ==
  ASSUME ConstantsAssumption, seen \in Known(SubAttributes), sent \in Known(PubAttributes),
         world' \in Known(SubAttributes), NEW h, GroupTracks(h, Reported), GroupShows(h, world'),
         NEW ready \in BOOLEAN, NEW t, Publishes(h, ready, t)
  PROVE  /\ seen' \in Known(SubAttributes) /\ sent' \in Known(PubAttributes)
         /\ GroupTracks(group', Reported') /\ GroupShows(group', world') /\ GroupExact(group', Reported')
         /\ \A a \in PubAttributes : \A i \in Ids : Value(group'.attributes[a], i) = sent'[a][i]
         /\ group'.ids = h.ids /\ (Lacks(group') <=> Lacks(h))
         /\ ShowsChanges /\ (GroupExact(h, Reported) => HoldsOnlyChanges(result'))
<1> DEFINE update == GenerateUpdate(h, PubAttributes)
           F == PubAttributes \cup IF ready THEN SubAttributes ELSE {}
<1>1. /\ group' = ResetTrackedChanges(h, F) /\ result' = update /\ sent' = Told(sent, update)
      /\ shown' = IF ready THEN Flagged(h, SubAttributes) ELSE None
      /\ seen' = IF ready THEN world' ELSE seen
  BY DEF Publishes, ResetAfter
<1>2. /\ Reported \in Known(Attributes)
      /\ \A a \in SubAttributes : Reported[a] = seen[a]
      /\ \A a \in PubAttributes : Reported[a] = sent[a]
  BY ReportedKnown
<1>3. /\ Told(sent, update) \in Known(PubAttributes)
      /\ \A a \in PubAttributes : \A i \in Ids : Told(sent, update)[a][i] = Value(h.attributes[a], i)
      /\ GroupExact(h, Reported) => HoldsOnlyChanges(update)
  BY <1>2, Published
<1>4. seen' \in Known(SubAttributes) /\ sent' \in Known(PubAttributes)
  BY <1>1, <1>3
<1>5. \A a \in PubAttributes : a \notin SubAttributes
  BY DEF ConstantsAssumption
<1>6. /\ Reported' \in Known(Attributes)
      /\ \A a \in SubAttributes : Reported'[a] = seen'[a]
      /\ \A a \in PubAttributes : Reported'[a] = sent'[a]
  <2>1. \A a \in Attributes : (IF a \in SubAttributes THEN seen'[a] ELSE sent'[a]) \in [Ids -> Maybe]
    BY <1>4 DEF Known, Attributes
  <2> QED BY <1>5, <2>1 DEF Reported, Known, Attributes
<1> HIDE DEF update, F
<1>7. ASSUME NEW a \in Attributes
      PROVE  IF a \in F THEN \A i \in Ids : Value(h.attributes[a], i) = Reported'[a][i]
                        ELSE Tracks(h.attributes[a], h.ids, Reported'[a])
  <2>1. CASE a \in PubAttributes
    BY <1>1, <1>3, <1>6, <2>1 DEF F
  <2>2. CASE a \notin PubAttributes
    <3>1. a \in SubAttributes
      BY <2>2 DEF Attributes
    <3>2. CASE ready
      <4>1. a \in F /\ Reported'[a] = world'[a]
        BY <1>1, <1>6, <3>1, <3>2 DEF F
      <4> QED BY <3>1, <4>1 DEF GroupShows
    <3>3. CASE ~ready
      <4>1. a \notin F /\ Reported'[a] = Reported[a]
        BY <1>1, <1>2, <1>6, <2>2, <3>1, <3>3 DEF F
      <4> QED BY <4>1 DEF GroupTracks
    <3> QED BY <3>2, <3>3
  <2> QED BY <2>1, <2>2
<1>8. PubAttributes \subseteq F /\ SubAttributes \subseteq Attributes /\ PubAttributes \subseteq Attributes
  BY DEF F, Attributes
<1>9. h \in Groups
  BY DEF GroupTracks
<1> DEFINE after == ResetTrackedChanges(h, F)
           newlyKnown == Reported'
<1>10. newlyKnown \in Known(Attributes)
       /\ \A a \in Attributes : IF a \in F THEN \A i \in Ids : Value(h.attributes[a], i) = newlyKnown[a][i]
                                ELSE Tracks(h.attributes[a], h.ids, newlyKnown[a])
  BY <1>6, <1>7
<1> HIDE DEF newlyKnown
<1>11. /\ GroupTracks(after, newlyKnown) /\ after.ids = h.ids
       /\ PubAttributes \subseteq F => GroupExact(after, newlyKnown)
       /\ \A a \in Attributes : \A i \in Ids : Value(after.attributes[a], i) = Value(h.attributes[a], i)
       /\ Lacks(after) <=> Lacks(h)
  BY <1>9, <1>10, ResetGroup
<1>12. group' = after
  BY <1>1
<1> HIDE DEF after
<1>13. /\ GroupTracks(group', Reported') /\ GroupExact(group', Reported')
       /\ group'.ids = h.ids /\ (Lacks(group') <=> Lacks(h))
  BY <1>8, <1>11, <1>12 DEF newlyKnown
<1>14. GroupShows(group', world')
  BY <1>8, <1>11, <1>12 DEF GroupShows
<1>15. \A a \in PubAttributes : \A i \in Ids : Value(group'.attributes[a], i) = sent'[a][i]
  BY <1>1, <1>3, <1>8, <1>11, <1>12
<1>16. ShowsChanges
  <2>1. CASE ~ready
    BY <1>1, <2>1 DEF ShowsChanges
  <2>2. CASE ready
    <3>1. ASSUME NEW a \in SubAttributes, NEW i \in Ids, world'[a][i] # seen[a][i]
          PROVE  <<a, i>> \in shown'
      <4>1. /\ h.ids \in SUBSET Ids /\ h.attributes[a] \in MaybeArrays(h.ids)
            /\ Reported[a] \in [Ids -> Maybe] /\ Tracks(h.attributes[a], h.ids, Reported[a])
        BY <1>2, <1>8, <1>9, GroupHas DEF GroupTracks, Known
      <4>2. Value(h.attributes[a], i) # Reported[a][i]
        BY <1>2, <3>1 DEF GroupShows
      <4>3. i \in Changed(h.attributes[a])
        BY <4>1, <4>2, ChangesAreFlagged
      <4> QED BY <1>1, <2>2, <4>3 DEF Flagged
    <3> QED BY <3>1 DEF ShowsChanges
  <2> QED BY <2>1, <2>2
<1> QED BY <1>1, <1>3, <1>4, <1>13, <1>14, <1>15, <1>16
\* A calculation loses nothing of what there is to tell, and has a reason not to update.
LEMMA Calculated ==
  ASSUME ConstantsAssumption, AdapterInv, status = "running", now # None,
         NEW g, GroupTracks(g, Reported), world' \in Known(SubAttributes), GroupShows(g, world'),
         Calculate(g)
  PROVE  KeepsAll(g)
<1>1. PICK o \in TryInitialize(g) :
        /\ Latching(o)
        /\ \/ ~o.initialized /\ Waits(o)
           \/ /\ o.initialized
              /\ \E h \in IF Ready(o) THEN ModelSets(o.group) ELSE {o.group},
                    t \in IF Ready(o) THEN {None} \cup now .. End ELSE {None} :
                   Raises(h) \/ Publishes(h, Ready(o), t)
  BY Branches
<1>2. /\ seen \in Known(SubAttributes) /\ sent \in Known(PubAttributes)
      /\ modelInitialized \in BOOLEAN /\ refused \in BOOLEAN /\ latched \subseteq RequiredAttributes
      /\ nextTime \in Times \cup {None} /\ request \in Times \cup {None} /\ wish = nextTime
      /\ now \in Times /\ (wish # None => modelInitialized)
  BY DEF AdapterInv, TypeOK, Waking
<1>3. Reported \in Known(Attributes)
  BY <1>2, ReportedKnown
<1>4. /\ Continues(g, o.group, Reported)
      /\ o.initialized \in BOOLEAN /\ o.refused \in BOOLEAN /\ o.latched \subseteq RequiredAttributes
      /\ modelInitialized => o.initialized
      /\ ~o.initialized => o.refused \/ Lacks(o.group)
  BY <1>2, <1>3, Attempt
<1>5. /\ latched' \subseteq RequiredAttributes /\ Ready(o) \in BOOLEAN
      /\ Ready(o) => o.initialized
      /\ o.initialized /\ ~Ready(o) => Lacks(o.group)
  BY <1>1, <1>4, Latched
<1>6. modelInitialized' = o.initialized /\ refused' = o.refused /\ modelReadyForUpdate' = Ready(o)
  BY <1>1 DEF Latching
<1>7. CASE ~o.initialized /\ Waits(o)
  <2>1. /\ group' = o.group /\ request' = None /\ result' = None /\ shown' = None
        /\ UNCHANGED <<status, nextTime, wish, seen, sent>>
    BY <1>7 DEF Waits
  <2>2. GroupTracks(o.group, Reported) /\ Reported' = Reported
    BY <1>4, <2>1 DEF Continues, Reported
  <2>3. KeepsTypes
    BY <1>2, <1>4, <1>5, <1>6, <1>7, <2>1, <2>2 DEF KeepsTypes, GroupTracks
  <2>4. GroupShows(o.group, world')
    BY <1>4 DEF Continues, GroupShows
  <2>5. KeepsTelling(g)
    BY <1>4, <2>1, <2>2, <2>4 DEF KeepsTelling, Continues
  <2>6. KeepsWaking /\ KeepsTrying
    BY <1>2, <1>4, <1>6, <1>7, <2>1 DEF KeepsWaking, KeepsTrying
  <2>7. Reports(g)
    BY <1>4, <2>1 DEF Reports, ShowsChanges, Continues
  <2> QED BY <2>3, <2>5, <2>6, <2>7 DEF KeepsAll
<1>8. CASE o.initialized /\ \E h \in IF Ready(o) THEN ModelSets(o.group) ELSE {o.group},
                               t \in IF Ready(o) THEN {None} \cup now .. End ELSE {None} :
                              Raises(h) \/ Publishes(h, Ready(o), t)
  <2>1. PICK h \in IF Ready(o) THEN ModelSets(o.group) ELSE {o.group},
             t \in IF Ready(o) THEN {None} \cup now .. End ELSE {None} :
            Raises(h) \/ Publishes(h, Ready(o), t)
    BY <1>8
  <2>2. Continues(g, h, Reported) /\ (~Ready(o) => h = o.group)
    <3>1. CASE Ready(o)
      <4>1. h \in ModelSets(o.group) /\ GroupTracks(o.group, Reported)
        BY <1>4, <2>1, <3>1 DEF Continues
      <4>2. Continues(o.group, h, Reported)
        BY <1>3, <4>1, ModelContinues
      <4> QED BY <1>4, <3>1, <4>2, ContinuesTwice
    <3>2. CASE ~Ready(o)
      <4>1. h = o.group
        BY <2>1, <3>2
      <4> QED BY <1>4, <4>1
    <3> QED BY <3>1, <3>2
  <2>3. /\ GroupTracks(h, Reported) /\ h.ids = g.ids
        /\ GroupExact(g, Reported) => GroupExact(h, Reported)
        /\ GroupShows(h, world')
    BY <2>2 DEF Continues, GroupShows
  <2>4. CASE Raises(h)
    <3>1. /\ \E a \in PubAttributes : h.attributes[a] = None
          /\ status' = "failed" /\ group' = h /\ result' = None /\ shown' = None
          /\ UNCHANGED <<nextTime, request, wish, seen, sent>>
      BY <2>4 DEF Raises
    <3>2. KeepsTypes
      BY <1>2, <1>4, <1>5, <1>6, <1>8, <2>3, <3>1 DEF KeepsTypes, GroupTracks
    <3>3. KeepsTelling(g)
      BY <3>1 DEF KeepsTelling
    <3>4. KeepsWaking /\ KeepsTrying
      BY <1>2, <1>6, <1>8, <3>1 DEF KeepsWaking, KeepsTrying, Lacks
    <3>5. Reports(g)
      BY <2>3, <3>1 DEF Reports, ShowsChanges
    <3> QED BY <3>2, <3>3, <3>4, <3>5 DEF KeepsAll
  <2>5. CASE Publishes(h, Ready(o), t)
    <3>1. nextTime' = t /\ request' = t /\ wish' = t /\ status' = status
      BY <2>5 DEF Publishes
    <3>2. /\ seen' \in Known(SubAttributes) /\ sent' \in Known(PubAttributes)
          /\ GroupTracks(group', Reported') /\ GroupShows(group', world') /\ GroupExact(group', Reported')
          /\ \A a \in PubAttributes : \A i \in Ids : Value(group'.attributes[a], i) = sent'[a][i]
          /\ group'.ids = h.ids /\ (Lacks(group') <=> Lacks(h))
          /\ ShowsChanges /\ (GroupExact(h, Reported) => HoldsOnlyChanges(result'))
      BY <1>2, <1>5, <2>3, <2>5, ResultKeeps
    <3>3. t \in Times \cup {None}
      BY <1>2, <2>1, Numbers DEF Times
    <3>4. KeepsTypes
      BY <1>4, <1>5, <1>6, <3>1, <3>2, <3>3 DEF KeepsTypes, GroupTracks
    <3>5. KeepsTelling(g)
      BY <3>2 DEF KeepsTelling
    <3>6. KeepsWaking /\ KeepsTrying
      BY <1>5, <1>6, <1>8, <2>2, <3>1, <3>2 DEF KeepsWaking, KeepsTrying
    <3>7. Reports(g)
      BY <2>3, <3>2 DEF Reports
    <3> QED BY <3>4, <3>5, <3>6, <3>7 DEF KeepsAll
  <2> QED BY <2>1, <2>4, <2>5
<1> QED BY <1>1, <1>7, <1>8
\* The updates that wait for the model are processed, and calculated with if there is a
\* reason to.
LEMMA UpdatesKeep ==
  ASSUME ConstantsAssumption, AdapterInv, NEW n \in Nat \ {0}, NEW items \in [1 .. n -> Items],
         UpdateSeries(items)
  PROVE  AdapterInv' /\ ShowsChanges /\ RepublishesAfterGrowthOnly
<1> DEFINE g == ProcessSeries(items)
<1>1. /\ status = "running" /\ now # None /\ due' = FALSE /\ world' = WorldAfter(items)
      /\ grown' = (result' = None /\ (grown \/ group'.ids # group.ids)) /\ now' = now
      /\ (items[1] = None) = due
  <2>1. items \in Seq(Items) /\ items # <<>>
    OBVIOUS
  <2>2. Head(items) = items[1]
    BY <2>1
  <2> QED BY <2>2 DEF UpdateSeries
<1>2. /\ IF \E k \in DOMAIN items : ShouldCalculate(items[k]) THEN Calculate(g)
         ELSE /\ group' = g /\ request' = NextTimeWithoutUpdate
              /\ result' = None /\ shown' = None
              /\ UNCHANGED <<latched, modelInitialized, modelReadyForUpdate, nextTime, status,
                             wish, refused, seen, sent>>
  BY DEF UpdateSeries
<1>3. /\ seen \in Known(SubAttributes) /\ sent \in Known(PubAttributes) /\ world \in Known(SubAttributes)
      /\ GroupTracks(group, Reported) /\ GroupShows(group, world)
      /\ ~grown => GroupExact(group, Reported)
      /\ now \in Times /\ grown \in BOOLEAN
  BY <1>1 DEF AdapterInv, TypeOK, Telling
<1>4. Reported \in Known(Attributes)
  BY <1>3, ReportedKnown
<1>5. /\ GroupTracks(g, Reported)
      /\ g.ids = group.ids /\ GroupExact(group, Reported) => GroupExact(g, Reported)
      /\ world' \in Known(SubAttributes) /\ GroupShows(g, world')
      /\ (\A k \in 1 .. n : ~IsData(items[k])) => g = group /\ world' = world
  BY <1>1, <1>3, <1>4, SeriesKeeps
<1> HIDE DEF g
<1>6. CASE \E k \in DOMAIN items : ShouldCalculate(items[k])
  <2>1. KeepsAll(g)
    BY <1>1, <1>2, <1>5, <1>6, Calculated
  <2>2. KeepsTypes /\ KeepsTelling(g) /\ KeepsWaking /\ KeepsTrying /\ Reports(g)
    BY <2>1 DEF KeepsAll
  <2>3. ~grown /\ group'.ids = group.ids => GroupExact(g, Reported)
    BY <1>3, <1>5, <2>2 DEF Reports
  <2>4. grown' \in BOOLEAN /\ (~grown' => result' # None \/ (~grown /\ group'.ids = group.ids))
    BY <1>1
  <2>5. TypeOK'
    <3>1. /\ group'.ids \subseteq Ids /\ DOMAIN group'.attributes = Attributes
          /\ \A a \in Attributes : group'.attributes[a] # None =>
               group'.attributes[a] \in Arrays /\ Entities(group'.attributes[a]) = group'.ids
      BY <2>2, GroupType DEF KeepsTypes
    <3> QED BY <1>1, <1>3, <1>5, <2>2, <2>4, <3>1 DEF KeepsTypes, TypeOK
  <2>6. Starting' /\ Waking' /\ Trying'
    BY <1>1, <1>3, <2>2, Numbers DEF KeepsTypes, KeepsWaking, KeepsTrying, Starting, Waking, Trying
  <2>7. Telling'
    <3>1. SUFFICES ASSUME status' = "running"
                   PROVE  /\ GroupTracks(group', Reported') /\ GroupShows(group', world')
                          /\ ~grown' => GroupExact(group', Reported')
                          /\ result' # None => Data(PubAttributes)' = sent'
      BY DEF Telling
    <3>2. ~grown' => GroupExact(group', Reported')
      BY <2>2, <2>3, <2>4, <3>1 DEF KeepsTelling
    <3>3. result' # None => Data(PubAttributes)' = sent'
      <4>1. Data(PubAttributes)' = [a \in PubAttributes |-> [i \in Ids |-> Value(group'.attributes[a], i)]]
        BY DEF Data, Value
      <4>2. sent' \in Known(PubAttributes)
        BY <2>2 DEF KeepsTypes
      <4>3. ASSUME result' # None
            PROVE \A a \in PubAttributes : \A i \in Ids : Value(group'.attributes[a], i) = sent'[a][i]
        BY <2>2, <3>1, <4>3 DEF KeepsTelling
      <4> QED BY <4>1, <4>2, <4>3, ValuesAreKnown
    <3> QED BY <2>2, <3>1, <3>2, <3>3 DEF KeepsTelling
  <2>8. ShowsChanges /\ RepublishesAfterGrowthOnly
    BY <2>2, <2>3 DEF Reports, RepublishesAfterGrowthOnly
  <2> QED BY <2>2, <2>5, <2>6, <2>7, <2>8 DEF AdapterInv, KeepsTypes
<1>7. CASE ~ \E k \in DOMAIN items : ShouldCalculate(items[k])
  <2>1. /\ group' = g /\ request' = nextTime /\ result' = None /\ shown' = None
        /\ UNCHANGED <<latched, modelInitialized, modelReadyForUpdate, nextTime, status,
                       wish, refused, seen, sent>>
    BY <1>2, <1>7 DEF NextTimeWithoutUpdate
  <2>2. \A k \in 1 .. n : items[k] = NoRows
    BY <1>7 DEF ShouldCalculate
  <2>3. group' = group /\ world' = world
    BY <1>5, <2>1, <2>2 DEF IsData
  <2>4. items[1] # None
    BY <2>2 DEF ConstantsAssumption
  <2>5. ~due
    BY <1>1, <2>4
  <2>6. grown' \in BOOLEAN /\ (~grown' => ~grown)
    BY <1>1, <2>1, <2>3
  <2>7. TypeOK'
    BY <1>1, <1>5, <2>1, <2>3, <2>6 DEF AdapterInv, TypeOK
  <2>8. Starting' /\ Waking' /\ Trying'
    BY <1>1, <2>1, <2>3, <2>5 DEF AdapterInv, Starting, Waking, Trying
  <2>9. Telling'
    BY <1>1, <2>1, <2>3, <2>6 DEF AdapterInv, Telling, Reported, GroupShows
  <2> QED BY <2>1, <2>3, <2>7, <2>8, <2>9 DEF AdapterInv, ShowsChanges, RepublishesAfterGrowthOnly
<1> QED BY <1>6, <1>7
\* Every step keeps the invariant, shows the model what has changed, and publishes nothing
\* twice.
LEMMA NextKeeps ==
  ASSUME ConstantsAssumption, AdapterInv, Next
  PROVE  AdapterInv' /\ ShowsChanges /\ RepublishesAfterGrowthOnly
<1>1. CASE InitializeModel
  <2>1. AdapterInv'
    BY <1>1, InitializeKeeps
  <2>2. result' = None /\ shown' = None
    BY <1>1 DEF InitializeModel, AdapterInv, Starting
  <2> QED BY <2>1, <2>2 DEF ShowsChanges, RepublishesAfterGrowthOnly
<1>2. CASE \/ \E t \in Times : NewTime(t)
           \/ RepeatTime
           \/ \E dueToFailure \in BOOLEAN : Close(dueToFailure)
  <2>1. AdapterInv'
    BY <1>2, CommandsKeep
  <2>2. result' = None /\ shown' = None
    BY <1>2 DEF NewTime, RepeatTime, Close
  <2> QED BY <2>1, <2>2 DEF ShowsChanges, RepublishesAfterGrowthOnly
<1>3. CASE \E n \in 1 .. MaxSeries : \E items \in [1 .. n -> Items] : UpdateSeries(items)
  <2>1. PICK n \in 1 .. MaxSeries : \E items \in [1 .. n -> Items] : UpdateSeries(items)
    BY <1>3
  <2>2. PICK items \in [1 .. n -> Items] : UpdateSeries(items)
    BY <2>1
  <2>3. n \in Nat \ {0}
    BY <2>1 DEF ConstantsAssumption
  <2> QED BY <2>2, <2>3, UpdatesKeep
<1> QED BY <1>1, <1>2, <1>3 DEF Next

\* What the invariant says of the arrays, in terms of what others know.
LEMMA Consequences ==
  ASSUME ConstantsAssumption, AdapterInv
  PROVE  StateIsCurrent /\ EverythingIsPublished /\ WakeUpsAreKept /\ FailsOnlyIfNotReady
<1>1. SubAttributes \subseteq Attributes /\ PubAttributes \subseteq Attributes
  BY DEF Attributes
<1>2. /\ seen \in Known(SubAttributes) /\ sent \in Known(PubAttributes) /\ world \in Known(SubAttributes)
  BY DEF AdapterInv, TypeOK
<1>3. StateIsCurrent
  BY <1>2, DataIsKnown DEF AdapterInv, Telling, GroupShows, StateIsCurrent
<1>4. EverythingIsPublished
  <2>1. SUFFICES ASSUME status = "running"
                 PROVE  \A a \in PubAttributes : \A i \in Ids :
                          Data(PubAttributes)[a][i] # sent[a][i] => i \in Changed(group.attributes[a])
    BY DEF EverythingIsPublished, AdapterInv, Telling
  <2>2. /\ Reported \in Known(Attributes)
        /\ \A a \in PubAttributes : Reported[a] = sent[a]
        /\ GroupTracks(group, Reported)
    BY <1>2, <2>1, ReportedKnown DEF AdapterInv, Telling
  <2>3. ASSUME NEW a \in PubAttributes, NEW i \in Ids, Data(PubAttributes)[a][i] # sent[a][i]
        PROVE  i \in Changed(group.attributes[a])
    <3>1. /\ group.ids \in SUBSET Ids /\ group.attributes[a] \in MaybeArrays(group.ids)
          /\ Reported[a] \in [Ids -> Maybe] /\ Tracks(group.attributes[a], group.ids, Reported[a])
      BY <1>1, <2>2, GroupHas DEF GroupTracks, Known
    <3>2. Data(PubAttributes)[a][i] = Value(group.attributes[a], i)
      BY DEF Data, Value
    <3>3. Value(group.attributes[a], i) # Reported[a][i]
      BY <2>2, <2>3, <3>2
    <3> QED BY <3>1, <3>3, ChangesAreFlagged
  <2> QED BY <2>3
<1>5. WakeUpsAreKept
  BY DEF AdapterInv, Waking, WakeUpsAreKept
<1>6. FailsOnlyIfNotReady
  BY DEF AdapterInv, Trying, Lacks, FailsOnlyIfNotReady
<1> QED BY <1>3, <1>4, <1>5, <1>6

\* The invariant holds in every state.
LEMMA Invariance ==
  ASSUME ConstantsAssumption
  PROVE  Spec => []AdapterInv
<1>1. Init => AdapterInv
  BY InitInv
<1>2. AdapterInv /\ [Next]_vars => AdapterInv'
  <2>1. CASE Next
    BY <2>1, NextKeeps
  <2>2. CASE UNCHANGED vars
    BY <2>2 DEF vars, adapterVars, orchestratorVars, ghostVars, AdapterInv, TypeOK, Starting,
                Telling, Waking, Trying, Reported, GroupShows, Data
  <2> QED BY <2>1, <2>2
<1> QED BY <1>1, <1>2, PTL DEF Spec
-----------------------------------------------------------------------------
(* The theorems: a tracked model, with whatever it subscribes to and       *)
(* publishes, in whichever order the updates come.                         *)

\* The adapter, what it has told the orchestrator, and its arrays have their types.
THEOREM TypeCorrect ==
  ASSUME ConstantsAssumption
  PROVE  Spec => []TypeOK
<1>1. AdapterInv => TypeOK
  BY DEF AdapterInv
<1> QED BY <1>1, Invariance, PTL

\* What a running model has in its arrays is what it has been told, in however many
\* updates at once, before or after it was ready: process_input misses nothing.
THEOREM StateFollowsTheUpdates ==
  ASSUME ConstantsAssumption
  PROVE  Spec => []StateIsCurrent
<1>1. AdapterInv => StateIsCurrent
  BY Consequences
<1> QED BY <1>1, Invariance, PTL

\* What a model has set and others do not know is flagged for its next result, and with a
\* result others know all of it: generate_update and the reset that follows agree.
THEOREM PublishesEverything ==
  ASSUME ConstantsAssumption
  PROVE  Spec => []EverythingIsPublished
<1>1. AdapterInv => EverythingIsPublished
  BY Consequences
<1> QED BY <1>1, Invariance, PTL

\* The next time that a model has asked for outlives the updates without data for it.
THEOREM WakesUp ==
  ASSUME ConstantsAssumption
  PROVE  Spec => []WakeUpsAreKept
<1>1. AdapterInv => WakeUpsAreKept
  BY Consequences
<1> QED BY <1>1, Invariance, PTL

\* A model fails only if it refused, or was never given all that it needs.
THEOREM FailsForAReason ==
  ASSUME ConstantsAssumption
  PROVE  Spec => []FailsOnlyIfNotReady
<1>1. AdapterInv => FailsOnlyIfNotReady
  BY Consequences
<1> QED BY <1>1, Invariance, PTL

\* A model that updates is shown every change since it last did, also of updates that came
\* while it could not, and of entities that were added.
THEOREM ShowsEveryChange ==
  ASSUME ConstantsAssumption
  PROVE  Spec => [][ShowsChanges]_vars
<1>1. AdapterInv /\ [Next]_vars => [ShowsChanges]_vars
  BY NextKeeps
<1> QED BY <1>1, Invariance, PTL DEF Spec

\* A result holds nothing that others know, unless entities came since the last result.
THEOREM RepublishesOnlyAfterGrowth ==
  ASSUME ConstantsAssumption
  PROVE  Spec => [][RepublishesAfterGrowthOnly]_vars
<1>1. AdapterInv /\ [Next]_vars => [RepublishesAfterGrowthOnly]_vars
  BY NextKeeps
<1> QED BY <1>1, Invariance, PTL DEF Spec
=============================================================================
