----------------------------- MODULE ArchiveProofs -----------------------------
(***************************************************************************)
(* Proofs about Archive, for any collectors, datasets and directories: a   *)
(* database of a collector that has closed tells the history of that run   *)
(* and no other.                                                           *)
(***************************************************************************)
EXTENDS Archive, FiniteSetTheorems, TLAPS

Uses(c) == col[c].phase # "off"

\* What the collector has stored of the initial datasets, or found no file of.
Done(c) == {n \in Datasets : \A i \in DOMAIN col[c].todo : col[c].todo[i] # n}

States ==
  [phase : {"off", "initializing", "running", "failed", "closed"}, path : Paths \cup {None},
   todo : Seq(Datasets), time : Nat, iteration : Nat, jobs : SUBSET Updates]

Typed ==
  /\ second \in 0..1
  /\ db \in [Paths -> Databases \cup {None}]
  /\ col \in [Collectors -> States]
  /\ sent \in [Collectors -> Seq(Updates)]

\* A collector that is used has a database, and records nothing before it has stored the
\* initial datasets.
Lives ==
  \A c \in Collectors :
    /\ Uses(c) => col[c].path \in Paths /\ db[col[c].path] # None
    /\ col[c].phase \in {"off", "initializing"} => sent[c] = <<>> /\ col[c].jobs = {}
    /\ col[c].phase \in {"running", "closed"} \/ sent[c] # <<>> => col[c].todo = <<>>
    /\ col[c].phase = "closed" => col[c].jobs = {}
    /\ col[c].phase = "initializing" => dir # None

\* Of every initial dataset a database has what the file is, once it was stored, and of two
\* collectors with the same database only one has stored it.
InitialsFit ==
  dir # None =>
    /\ \A p \in Paths, n \in Datasets : db[p] # None => db[p].initial[n] \in {None, FileOf(n)}
    /\ \A c \in Collectors, n \in Datasets :
         Uses(c) /\ n \in Done(c) => db[col[c].path].initial[n] = FileOf(n)
    /\ \A c, e \in Collectors, n \in Datasets :
         /\ c # e /\ Uses(c) /\ Uses(e) /\ col[c].path = col[e].path
         /\ FileOf(n) # None /\ n \in Done(c)
         => n \notin Done(e)

\* What is recorded later has a later time or iteration.
Ordered ==
  \A c \in Collectors :
    /\ \A i, j \in DOMAIN sent[c] : i < j => Earlier(sent[c][i], sent[c][j])
    /\ \A i \in DOMAIN sent[c] :
         \/ sent[c][i].timestamp < col[c].time
         \/ sent[c][i].timestamp = col[c].time /\ sent[c][i].iteration < col[c].iteration

\* What is in a database was recorded by a collector that has it, and what a collector has
\* recorded, and nothing else, is in its database or is yet to be stored.
Recordings ==
  /\ \A c \in Collectors : \A info \in col[c].jobs :
       \E i \in Nat : i \in DOMAIN sent[c] /\ sent[c][i] = info
  /\ \A p \in Paths : db[p] # None => \A k \in DOMAIN db[p].updates :
       \E c \in Collectors, i \in Nat : /\ col[c].path = p /\ i \in DOMAIN sent[c]
                                        /\ sent[c][i] = db[p].updates[k]
  /\ \A c \in Collectors : \A i \in DOMAIN sent[c] :
       \/ sent[c][i] \in col[c].jobs
       \/ \E k \in Nat : /\ k \in DOMAIN db[col[c].path].updates
                         /\ db[col[c].path].updates[k] = sent[c][i]

ArchiveInv == Typed /\ Lives /\ InitialsFit /\ Ordered /\ Recordings

-----------------------------------------------------------------------------
(* Finite sets and sorted sequences.                                       *)

\* The datasets of the settings are all there.
LEMMA NamesAreAll ==
  ASSUME ConstantsAssumption
  PROVE  Names \in Seq(Datasets) /\ \A n \in Datasets : \E i \in DOMAIN Names : Names[i] = n
<1> DEFINE k == Cardinality(Datasets)
<1>1. IsFiniteSet(Datasets) /\ k \in Nat /\ ExistsBijection(1..k, Datasets)
  BY FS_CardinalityType DEF ConstantsAssumption
<1>2. \E f \in [1..k -> Datasets] : IsInjective(f)
  BY <1>1 DEF IsInjective, ExistsBijection, Bijection, Injection
<1>3. Names \in [1..k -> Datasets] /\ IsInjective(Names)
  BY <1>2 DEF Names, SetToSeq
<1>4. IsFiniteSet(1..k) /\ Cardinality(1..k) = k
  BY <1>1, FS_Interval
<1>5. Names \in Injection(1..k, Datasets)
  BY <1>3 DEF Injection
<1>6. Names \in Surjection(1..k, Datasets)
  BY <1>1, <1>4, <1>5, FS_Injection
<1> HIDE DEF k
<1> QED BY <1>1, <1>3, <1>6 DEF Surjection

\* The places of some items of a list can be taken in their order.
LEMMA InOrder ==
  ASSUME NEW n \in Nat, NEW I \in SUBSET (1..n)
  PROVE  /\ Cardinality(I) \in Nat /\ IsFiniteSet(I)
         /\ \E f \in [1..Cardinality(I) -> I] : \A i, j \in 1..Cardinality(I) : i < j => f[i] < f[j]
<1> DEFINE m == Cardinality(I)
           Upto(i) == {j \in I : j <= i}
           r == [i \in I |-> Cardinality(Upto(i))]
<1>1. IsFiniteSet(I) /\ m \in Nat
  <2>1. IsFiniteSet(1..n)
    BY FS_Interval
  <2> QED BY <2>1, FS_Subset, FS_CardinalityType
<1>2. ASSUME NEW i \in I
      PROVE  IsFiniteSet(Upto(i)) /\ r[i] \in 1..m
  <2>1. IsFiniteSet(Upto(i)) /\ Cardinality(Upto(i)) <= m
    BY <1>1, FS_Subset
  <2>2. Cardinality(Upto(i)) \in Nat
    BY <2>1, FS_CardinalityType
  <2>3. i \in Upto(i)
    OBVIOUS
  <2>4. Cardinality(Upto(i)) # 0
    BY <2>1, <2>3, FS_EmptySet
  <2> QED BY <1>1, <2>1, <2>2, <2>4
<1>3. ASSUME NEW i \in I, NEW j \in I, i < j
      PROVE  r[i] < r[j]
  <2>1. Upto(i) \in SUBSET Upto(j) /\ j \in Upto(j) /\ j \notin Upto(i)
    <3>1. i \in 1..n /\ j \in 1..n
      OBVIOUS
    <3>2. \A k \in 1..n : k <= i => k <= j
      BY <1>3, <3>1
    <3>3. \A k \in Upto(i) : k \in I /\ k \in 1..n /\ k <= i
      OBVIOUS
    <3>4. \A k \in Upto(i) : k \in Upto(j)
      BY <3>2, <3>3
    <3>5. j \in Upto(j) /\ j \notin Upto(i)
      BY <1>3, <3>1
    <3> HIDE DEF Upto
    <3> QED BY <3>4, <3>5
  <2>2. Cardinality(Upto(i)) <= Cardinality(Upto(j)) /\ Cardinality(Upto(i)) # Cardinality(Upto(j))
    BY <1>2, <2>1, FS_Subset
  <2>3. r[i] = Cardinality(Upto(i)) /\ r[j] = Cardinality(Upto(j)) /\ r[i] \in Nat /\ r[j] \in Nat
    BY <1>1, <1>2
  <2> QED BY <2>2, <2>3
<1>4. r \in [I -> 1..m]
  BY <1>2
<1> HIDE DEF r, m
<1>5. r \in Injection(I, 1..m)
  <2>1. \A i, j \in I : r[i] = r[j] => i = j
    <3> SUFFICES ASSUME NEW i \in I, NEW j \in I, i # j PROVE r[i] # r[j]
      OBVIOUS
    <3>1. i < j \/ j < i
      OBVIOUS
    <3>2. r[i] < r[j] \/ r[j] < r[i]
      BY <1>3, <3>1
    <3>3. r[i] \in Nat /\ r[j] \in Nat
      BY <1>1, <1>4
    <3> QED BY <3>2, <3>3
  <2> QED BY <1>4, <2>1 DEF Injection, IsInjective
<1>6. IsFiniteSet(1..m) /\ Cardinality(1..m) = m
  BY <1>1, FS_Interval
<1>7. r \in Surjection(I, 1..m)
  BY <1>5, <1>6, FS_Injection DEF m
<1> DEFINE f == [k \in 1..m |-> CHOOSE i \in I : r[i] = k]
<1>8. \A k \in 1..m : f[k] \in I /\ r[f[k]] = k
  BY <1>7 DEF Surjection
<1>9. f \in [1..m -> I]
  BY <1>8
<1> HIDE DEF f
<1>10. ASSUME NEW i \in 1..m, NEW j \in 1..m, i < j
       PROVE  f[i] < f[j]
  <2>1. f[i] \in 1..n /\ f[j] \in 1..n
    BY <1>8
  <2>2. f[j] < f[i] => r[f[j]] < r[f[i]]
    BY <1>3, <1>8
  <2>3. f[i] # f[j]
    BY <1>8, <1>10
  <2> QED BY <1>1, <1>8, <1>10, <2>1, <2>2, <2>3
<1> QED BY <1>1, <1>9, <1>10 DEF m

\* Sorting some of the updates of a history gives them in the order of the history.
LEMMA SortedIsInOrder ==
  ASSUME NEW h \in Seq(Updates), \A i, j \in DOMAIN h : i < j => Earlier(h[i], h[j]),
         NEW I \in SUBSET DOMAIN h, NEW rows, rows = {h[i] : i \in I}
  PROVE  Takes(OrderBy(rows), h, I)
<1> DEFINE m == Cardinality(I)
           s == OrderBy(rows)
<1>1. Len(h) \in Nat /\ DOMAIN h = 1..Len(h) /\ \A i \in DOMAIN h : h[i] \in Updates
  OBVIOUS
<1>2. m \in Nat /\ IsFiniteSet(I)
      /\ \E f \in [1..m -> I] : \A i, j \in 1..m : i < j => f[i] < f[j]
  BY <1>1, InOrder
<1> HIDE DEF m
<1>3. \A i, j \in DOMAIN h : Earlier(h[i], h[j]) => i < j
  <2> SUFFICES ASSUME NEW i \in DOMAIN h, NEW j \in DOMAIN h, Earlier(h[i], h[j]), ~ (i < j) PROVE FALSE
    OBVIOUS
  <2>1. i = j \/ j < i
    BY <1>1
  <2>2. h[i] = h[j] \/ Earlier(h[j], h[i])
    BY <2>1
  <2>3. h[i] \in Updates /\ h[j] \in Updates
    BY <1>1
  <2> QED BY <2>2, <2>3 DEF Earlier, Updates
<1>4. \A i, j \in DOMAIN h : h[i] = h[j] => i = j
  <2> SUFFICES ASSUME NEW i \in DOMAIN h, NEW j \in DOMAIN h, h[i] = h[j], i # j PROVE FALSE
    OBVIOUS
  <2>1. i < j \/ j < i
    BY <1>1
  <2>2. Earlier(h[i], h[j])
    BY <2>1
  <2> QED BY <1>1, <2>2 DEF Earlier, Updates
<1>5. IsFiniteSet(rows) /\ Cardinality(rows) = m
  <2> DEFINE b == [i \in I |-> h[i]]
  <2>1. b \in Bijection(I, rows)
    <3>1. b \in [I -> rows] /\ \A r \in rows : \E i \in I : b[i] = r
      OBVIOUS
    <3>2. \A i, j \in I : b[i] = b[j] => i = j
      BY <1>4
    <3> QED BY <3>1, <3>2 DEF Bijection, Injection, Surjection, IsInjective
  <2>2. ExistsBijection(I, rows)
    BY <2>1 DEF ExistsBijection
  <2> QED BY <1>2, <2>2, FS_Bijection DEF m
<1>6. \E q \in [1..m -> rows] : \A i, j \in DOMAIN q : i < j => Earlier(q[i], q[j])
  <2>1. PICK f \in [1..m -> I] : \A i, j \in 1..m : i < j => f[i] < f[j]
    BY <1>2
  <2> DEFINE q == [k \in 1..m |-> h[f[k]]]
  <2>2. q \in [1..m -> rows]
    BY <2>1
  <2>3. \A i, j \in DOMAIN q : i < j => Earlier(q[i], q[j])
    BY <2>1
  <2> QED BY <2>2, <2>3
<1>7. s \in [1..m -> rows] /\ \A i, j \in 1..m : i < j => Earlier(s[i], s[j])
  BY <1>5, <1>6 DEF OrderBy
<1> HIDE DEF s
<1> DEFINE at == [k \in 1..m |-> CHOOSE i \in I : h[i] = s[k]]
<1>8. \A k \in 1..m : at[k] \in I /\ h[at[k]] = s[k]
  <2>1. ASSUME NEW k \in 1..m PROVE \E i \in I : h[i] = s[k]
    <3>1. s[k] \in rows
      BY <1>7
    <3> QED BY <3>1
  <2>2. \A k \in 1..m : at[k] = CHOOSE i \in I : h[i] = s[k]
    OBVIOUS
  <2> QED BY <2>1, <2>2
<1>9. at \in [1..m -> I] /\ DOMAIN s = 1..m
  BY <1>7, <1>8
<1> HIDE DEF at
<1>10. \A i, j \in 1..m : i < j => at[i] < at[j]
  BY <1>3, <1>7, <1>8
<1>11. at \in Surjection(1..m, I)
  <2>1. \A i, j \in 1..m : at[i] = at[j] => i = j
    <3> SUFFICES ASSUME NEW i \in 1..m, NEW j \in 1..m, at[i] = at[j], i # j PROVE FALSE
      OBVIOUS
    <3>1. i < j \/ j < i
      BY <1>2
    <3>2. at[i] < at[j] \/ at[j] < at[i]
      BY <1>10, <3>1
    <3>3. at[i] \in 1..Len(h)
      BY <1>1, <1>8
    <3> QED BY <3>2, <3>3
  <2>2. at \in Injection(1..m, I)
    BY <1>9, <2>1 DEF Injection, IsInjective
  <2>3. Cardinality(1..m) = m
    BY <1>2, FS_Interval
  <2> QED BY <1>2, <2>2, <2>3, FS_Injection DEF m
<1>12. {at[i] : i \in 1..m} = I
  BY <1>9, <1>11 DEF Surjection
<1>13. at \in [DOMAIN s -> DOMAIN h]
  BY <1>9
<1>14. \A i \in DOMAIN s : s[i] = h[at[i]]
  BY <1>8, <1>9
<1> QED BY <1>9, <1>10, <1>12, <1>13, <1>14 DEF s, Takes

-----------------------------------------------------------------------------
(* The steps.                                                              *)

\* Nothing is there yet.
LEMMA InitArchive ==
  ASSUME Init
  PROVE  ArchiveInv
<1>1. Typed
  BY DEF Init, Typed, NoCollector, States, Paths
<1>2. Lives /\ InitialsFit /\ Ordered /\ Recordings
  BY DEF Init, NoCollector, Lives, InitialsFit, Ordered, Recordings, Uses
<1> QED BY <1>1, <1>2 DEF ArchiveInv

\* The file of an initial dataset has one of the formats.
LEMMA FileOfType ==
  ASSUME NEW n
  PROVE  FileOf(n) \in Formats \cup {None}
BY DEF FileOf, Json, Formats

\* A collector that starts creates its database or takes over one that is there, and has
\* stored nothing of its own in it.
LEMMA StartKeeps ==
  ASSUME ArchiveInv, ConstantsAssumption, NEW c \in Collectors, Start(c)
  PROVE  ArchiveInv'
<1>1. PICK path \in {Fixed, second} :
        /\ db' = [db EXCEPT ![path] = Created(@)]
        /\ col' = [col EXCEPT ![c] = Started(path)]
  BY DEF Start
<1>2. /\ col[c].phase = "off" /\ UNCHANGED <<dir, second, sent>>
      /\ sent[c] = <<>> /\ col[c].jobs = {}
  BY DEF Start, ArchiveInv, Lives
<1>3. path \in Paths
  BY DEF ArchiveInv, Typed, Paths
<1>4. /\ db' \in [Paths -> Databases \cup {None}]
      /\ \A p \in Paths : db[p] # None => db'[p] = db[p]
      /\ db'[path] # None
      /\ \A p \in Paths : db[p] = None =>
           \/ db'[p] = None
           \/ db'[p].updates = <<>> /\ \A n \in Datasets : db'[p].initial[n] = None
  <2>1. [initial |-> [n \in Datasets |-> None], updates |-> <<>>] \in Databases
    BY DEF Databases
  <2> QED BY <1>1, <1>3, <2>1 DEF ArchiveInv, Typed, Created, ConstantsAssumption
<1>5. Names \in Seq(Datasets) /\ \A n \in Datasets : \E i \in DOMAIN Names : Names[i] = n
  BY NamesAreAll
<1>6. /\ \A e \in Collectors \ {c} : col'[e] = col[e]
      /\ col'[c].path = path /\ col'[c].time = 0 /\ col'[c].iteration = 0 /\ col'[c].jobs = {}
      /\ col'[c].phase = IF dir = None THEN "running" ELSE "initializing"
      /\ col'[c].todo = IF dir = None THEN <<>> ELSE Names
      /\ col' \in [Collectors -> States]
  <2>2. Started(path).todo \in Seq(Datasets)
    BY <1>5 DEF Started
  <2>3. Started(path) \in States
    BY <1>3, <2>2 DEF States, Started
  <2>4. col' = [col EXCEPT ![c] = Started(path)] /\ col \in [Collectors -> States]
    BY <1>1 DEF ArchiveInv, Typed
  <2>5. col'[c] = Started(path) /\ \A e \in Collectors \ {c} : col'[e] = col[e]
    BY <2>4
  <2>6. col' \in [Collectors -> States]
    BY <2>3, <2>4
  <2> QED BY <2>5, <2>6 DEF Started
<1>7. Typed'
  BY <1>2, <1>4, <1>6 DEF ArchiveInv, Typed
<1>8. Lives'
  <2>1. \A e \in Collectors \ {c} : Uses(e) => col[e].path \in Paths /\ db'[col[e].path] # None
    BY <1>4 DEF ArchiveInv, Lives
  <2>2. dir = None => col'[c].todo = <<>>
    BY <1>6
  <2> QED BY <1>2, <1>3, <1>4, <1>6, <2>1, <2>2 DEF ArchiveInv, Lives, Uses
<1>9. InitialsFit'
  <2>1. dir # None => Done(c)' = {}
    BY <1>5, <1>6 DEF Done
  <2>2. \A e \in Collectors \ {c} : Done(e)' = Done(e) /\ Uses(e)' = Uses(e) /\ col'[e].path = col[e].path
    BY <1>6 DEF Done, Uses
  <2>3. \A n : FileOf(n)' = FileOf(n)
    BY <1>2 DEF FileOf
  <2>4. \A e \in Collectors \ {c} : Uses(e) => db'[col[e].path] = db[col[e].path]
    BY <1>4 DEF ArchiveInv, Lives
  <2> QED BY <1>2, <1>4, <2>1, <2>2, <2>3, <2>4 DEF ArchiveInv, InitialsFit
<1>10. Ordered'
  BY <1>2, <1>6 DEF ArchiveInv, Ordered
<1>11. Recordings'
  <2>1. ASSUME NEW p \in Paths, db'[p] # None, NEW k \in DOMAIN db'[p].updates
        PROVE  \E e \in Collectors, i \in Nat : /\ col'[e].path = p /\ i \in DOMAIN sent'[e]
                                                /\ sent'[e][i] = db'[p].updates[k]
    <3>1. db[p] # None /\ db'[p] = db[p]
      BY <1>4, <2>1
    <3>2. PICK e \in Collectors, i \in Nat : /\ col[e].path = p /\ i \in DOMAIN sent[e]
                                             /\ sent[e][i] = db[p].updates[k]
      BY <2>1, <3>1 DEF ArchiveInv, Recordings
    <3>3. e # c
      BY <1>2, <3>2
    <3> QED BY <1>2, <1>6, <3>1, <3>2, <3>3
  <2>2. ASSUME NEW e \in Collectors, NEW i \in DOMAIN sent'[e]
        PROVE  \/ sent'[e][i] \in col'[e].jobs
               \/ \E k \in Nat : /\ k \in DOMAIN db'[col'[e].path].updates
                                 /\ db'[col'[e].path].updates[k] = sent'[e][i]
    <3>1. e # c /\ i \in DOMAIN sent[e] /\ col'[e] = col[e] /\ sent' = sent
      BY <1>2, <1>6, <2>2
    <3>2. Uses(e)
      BY <3>1 DEF ArchiveInv, Lives, Uses
    <3>3. db'[col'[e].path] = db[col[e].path]
      BY <1>4, <3>1, <3>2 DEF ArchiveInv, Lives
    <3> QED BY <3>1, <3>3 DEF ArchiveInv, Recordings
  <2>3. \A e \in Collectors : \A info \in col'[e].jobs :
           \E i \in Nat : i \in DOMAIN sent'[e] /\ sent'[e][i] = info
    BY <1>2, <1>6 DEF ArchiveInv, Recordings
  <2> QED BY <2>1, <2>2, <2>3 DEF Recordings
<1> QED BY <1>7, <1>8, <1>9, <1>10, <1>11 DEF ArchiveInv

\* A step of a collector that changes nothing but its phase.
LEMMA PhaseKeeps ==
  ASSUME ArchiveInv, NEW c \in Collectors, NEW phase \in {"running", "failed", "closed"},
         col[c].phase \in {"initializing", "running"},
         phase # "failed" => col[c].todo = <<>>,
         phase = "closed" => col[c].jobs = {},
         col' = [col EXCEPT ![c].phase = phase], UNCHANGED <<dir, second, db, sent>>
  PROVE  ArchiveInv'
<1>1. /\ \A e \in Collectors : /\ col'[e].path = col[e].path /\ col'[e].todo = col[e].todo
                               /\ col'[e].time = col[e].time /\ col'[e].jobs = col[e].jobs
                               /\ col'[e].iteration = col[e].iteration
      /\ \A e \in Collectors \ {c} : col'[e].phase = col[e].phase
      /\ col'[c].phase = phase
      /\ col' \in [Collectors -> States]
  BY DEF ArchiveInv, Typed, States
<1>2. \A e \in Collectors : Done(e)' = Done(e) /\ Uses(e)' = Uses(e)
  BY <1>1 DEF Done, Uses
<1>3. \A n : FileOf(n)' = FileOf(n)
  BY DEF FileOf
<1>4. Typed'
  BY <1>1 DEF ArchiveInv, Typed
<1>5. Lives'
  BY <1>1, <1>2 DEF ArchiveInv, Lives
<1>6. InitialsFit'
  BY <1>1, <1>2, <1>3 DEF ArchiveInv, InitialsFit
<1>7. Ordered' /\ Recordings'
  BY <1>1 DEF ArchiveInv, Ordered, Recordings
<1> QED BY <1>4, <1>5, <1>6, <1>7 DEF ArchiveInv

\* A collector goes through the datasets in their order.
LEMMA TailHolds ==
  ASSUME NEW S, NEW t \in Seq(S), t # <<>>, NEW i \in DOMAIN t, t[i] # Head(t)
  PROVE  i - 1 \in DOMAIN Tail(t) /\ Tail(t)[i - 1] = t[i]
<1>1. Len(t) \in Nat /\ DOMAIN t = 1..Len(t) /\ Head(t) = t[1]
  OBVIOUS
<1>2. DOMAIN Tail(t) = 1..(Len(t) - 1) /\ \A j \in 1..(Len(t) - 1) : Tail(t)[j] = t[j + 1]
  BY <1>1
<1>3. i \in 2..Len(t)
  BY <1>1
<1> QED BY <1>1, <1>2, <1>3

\* Databases whose updates stay are told of as before.
LEMMA RecordingsStay ==
  ASSUME ArchiveInv, UNCHANGED sent,
         \A e \in Collectors : col'[e].path = col[e].path /\ col'[e].jobs = col[e].jobs,
         \A p \in Paths : /\ db'[p] = None <=> db[p] = None
                          /\ db[p] # None => db'[p].updates = db[p].updates
  PROVE  Recordings'
<1>1. ASSUME NEW e \in Collectors, NEW i \in DOMAIN sent[e]
      PROVE  Uses(e) /\ db'[col[e].path].updates = db[col[e].path].updates
  <2>1. Uses(e)
    BY <1>1 DEF ArchiveInv, Lives, Uses
  <2> QED BY <2>1 DEF ArchiveInv, Lives
<1>2. Recordings
  BY DEF ArchiveInv
<1> QED BY <1>1, <1>2 DEF Recordings

\* One initial dataset is stored, has no file, or was stored by another collector, which ends
\* this one.
LEMMA StoreNextKeeps ==
  ASSUME ArchiveInv, ConstantsAssumption, NEW c \in Collectors, StoreNext(c)
  PROVE  ArchiveInv'
<1> DEFINE path == col[c].path
           name == Head(col[c].todo)
           stored == IF FileOf(name) = None THEN db[path] ELSE StoreInitial(db[path], name)
<1>1. /\ col[c].phase = "initializing" /\ UNCHANGED <<dir, second, sent>>
      /\ sent[c] = <<>> /\ col[c].jobs = {}
      /\ path \in Paths /\ db[path] # None /\ db[path] \in Databases /\ dir # None
  BY DEF StoreNext, ArchiveInv, Lives, Uses, Typed
<1>2. CASE col[c].todo = <<>>
  <2>1. col' = [col EXCEPT ![c].phase = "running"] /\ UNCHANGED db
    BY <1>2 DEF StoreNext
  <2> QED BY <1>1, <1>2, <2>1, PhaseKeeps
<1>3. CASE col[c].todo # <<>> /\ stored = None
  <2>1. col' = [col EXCEPT ![c].phase = "failed"] /\ UNCHANGED db
    BY <1>3 DEF StoreNext
  <2> QED BY <1>1, <2>1, PhaseKeeps
<1>4. CASE col[c].todo # <<>> /\ stored # None
  <2>1. db' = [db EXCEPT ![path] = stored] /\ col' = [col EXCEPT ![c].todo = Tail(@)]
    BY <1>4 DEF StoreNext
  <2>2. col[c].todo \in Seq(Datasets) /\ name \in Datasets /\ Tail(col[c].todo) \in Seq(Datasets)
    BY <1>4 DEF ArchiveInv, Typed, States
  <2>3. /\ stored \in Databases /\ stored.updates = db[path].updates
        /\ \A n \in Datasets : stored.initial[n] = IF n = name THEN FileOf(name) ELSE db[path].initial[n]
        /\ FileOf(name) # None => db[path].initial[name] = None
    <3>1. db[path] \in [initial : [Datasets -> Formats \cup {None}], updates : Seq(Updates)]
      BY <1>1 DEF Databases
    <3>2. CASE FileOf(name) = None
      <4>1. stored = db[path]
        BY <3>2
      <4> HIDE DEF stored
      <4>2. db[path].initial[name] = FileOf(name)
        BY <1>1, <2>2, <3>2 DEF ArchiveInv, InitialsFit
      <4> QED BY <1>1, <3>2, <4>1, <4>2
    <3>3. CASE FileOf(name) # None
      <4>1. db[path].initial[name] = None /\ stored = [db[path] EXCEPT !.initial[name] = FileOf(name)]
        BY <1>4, <3>3 DEF StoreInitial
      <4>2. FileOf(name) \in Formats \cup {None}
        BY FileOfType
      <4>3. stored = [db[path] EXCEPT !.initial = [db[path].initial EXCEPT ![name] = FileOf(name)]]
        BY <3>1, <4>1
      <4> HIDE DEF stored
      <4> QED BY <3>1, <2>2, <4>1, <4>2, <4>3 DEF Databases
    <3> QED BY <3>2, <3>3
  <2>4. /\ \A e \in Collectors : /\ col'[e].path = col[e].path /\ col'[e].phase = col[e].phase
                                 /\ col'[e].time = col[e].time /\ col'[e].jobs = col[e].jobs
                                 /\ col'[e].iteration = col[e].iteration
        /\ \A e \in Collectors \ {c} : col'[e].todo = col[e].todo
        /\ col'[c].todo = Tail(col[c].todo)
        /\ col' \in [Collectors -> States]
    BY <2>1, <2>2 DEF ArchiveInv, Typed, States
  <2>5. /\ db' \in [Paths -> Databases \cup {None}] /\ db'[path] = stored
        /\ \A p \in Paths \ {path} : db'[p] = db[p]
    BY <1>1, <2>1, <2>3 DEF ArchiveInv, Typed
  <2>6. /\ Done(c)' \subseteq Done(c) \cup {name}
        /\ \A e \in Collectors \ {c} : Done(e)' = Done(e)
        /\ \A e \in Collectors : Uses(e)' = Uses(e)
    <3>1. \A n \in Datasets : n \in Done(c)' => n \in Done(c) \cup {name}
      <4> SUFFICES ASSUME NEW n \in Datasets, n \in Done(c)', n # name,
                          NEW i \in DOMAIN col[c].todo, col[c].todo[i] = n
                   PROVE  FALSE
        BY DEF Done
      <4>1. i - 1 \in DOMAIN Tail(col[c].todo) /\ Tail(col[c].todo)[i - 1] = n
        BY <2>2, <1>4, TailHolds
      <4> QED BY <2>4, <4>1 DEF Done
    <3> QED BY <2>4, <3>1 DEF Done, Uses
  <2>7. \A n : FileOf(n)' = FileOf(n)
    BY <1>1 DEF FileOf
  <2>8. Typed'
    BY <1>1, <2>4, <2>5 DEF ArchiveInv, Typed
  <2>9. Lives'
    BY <1>1, <2>3, <2>4, <2>5, <2>6 DEF ArchiveInv, Lives, ConstantsAssumption
  <2>10. InitialsFit'
    <3>1. \A p \in Paths, n \in Datasets : db'[p] # None => db'[p].initial[n] \in {None, FileOf(n)}
      BY <1>1, <2>3, <2>5 DEF ArchiveInv, InitialsFit
    <3>2. ASSUME NEW e \in Collectors, NEW n \in Datasets, Uses(e), n \in Done(e)'
          PROVE  db'[col[e].path].initial[n] = FileOf(n)
      <4>1. col[e].path \in Paths /\ db[col[e].path] # None
        BY <3>2 DEF ArchiveInv, Lives
      <4>2. n \in Done(e) \/ (e = c /\ n = name)
        BY <2>6, <3>2
      <4>3. n \in Done(e) => db[col[e].path].initial[n] = FileOf(n)
        BY <1>1, <3>2 DEF ArchiveInv, InitialsFit
      <4> QED BY <2>3, <2>5, <4>1, <4>2, <4>3
    <3>3. ASSUME NEW e \in Collectors, NEW f \in Collectors, NEW n \in Datasets,
                 e # f, Uses(e), Uses(f), col[e].path = col[f].path, FileOf(n) # None,
                 n \in Done(e)', n \in Done(f)'
          PROVE  FALSE
      <4>1. \A a \in Collectors : Uses(a) /\ n \in Done(a) => db[col[a].path].initial[n] = FileOf(n)
        BY <1>1 DEF ArchiveInv, InitialsFit
      <4>2. ~(n \in Done(e) /\ n \in Done(f))
        BY <1>1, <3>3 DEF ArchiveInv, InitialsFit
      <4> QED BY <2>3, <2>6, <3>3, <4>1, <4>2
    <3> QED BY <1>1, <2>4, <2>6, <2>7, <3>1, <3>2, <3>3 DEF InitialsFit
  <2>11. Ordered'
    BY <1>1, <2>4 DEF ArchiveInv, Ordered
  <2>12. Recordings'
    <3>1. \A p \in Paths : /\ db'[p] = None <=> db[p] = None
                           /\ db[p] # None => db'[p].updates = db[p].updates
      BY <1>1, <1>4, <2>3, <2>5
    <3> QED BY <1>1, <2>4, <3>1, RecordingsStay
  <2> QED BY <2>8, <2>9, <2>10, <2>11, <2>12 DEF ArchiveInv
<1> QED BY <1>2, <1>3, <1>4

\* What a collector has recorded, or a database holds, is an update.
LEMMA EntriesAreUpdates ==
  ASSUME Typed, NEW c \in Collectors, NEW i \in DOMAIN sent[c]
  PROVE  sent[c][i] \in Updates
<1>1. sent[c] \in Seq(Updates)
  BY DEF Typed
<1> QED BY <1>1

\* The jobs without one of them are those of before.
LEMMA OneJobLess ==
  ASSUME NEW r \in States, NEW info, NEW q, q = [r EXCEPT !.jobs = r.jobs \ {info}]
  PROVE  /\ q \in States /\ q.path = r.path /\ q.phase = r.phase /\ q.time = r.time
         /\ q.todo = r.todo /\ q.iteration = r.iteration /\ q.jobs = r.jobs \ {info}
<1>1. q = [phase |-> r.phase, path |-> r.path, todo |-> r.todo, time |-> r.time,
           iteration |-> r.iteration, jobs |-> r.jobs \ {info}]
  BY DEF States
<1> QED BY <1>1 DEF States

\* A list with one more item at its end.
LEMMA OneMoreItem ==
  ASSUME NEW S, NEW l \in Seq(S), NEW x \in S, NEW q, q = Append(l, x)
  PROVE  /\ q \in Seq(S) /\ Len(l) \in Nat
         /\ DOMAIN l = 1..Len(l) /\ DOMAIN q = 1..(Len(l) + 1)
         /\ \A i \in DOMAIN l : i \in DOMAIN q /\ q[i] = l[i]
         /\ q[Len(l) + 1] = x
OBVIOUS

\* A database with one more row at the end of its updates.
LEMMA OneMoreRow ==
  ASSUME NEW d \in Databases, NEW info \in Updates, NEW q,
         q = [d EXCEPT !.updates = Append(d.updates, info)]
  PROVE  /\ q \in Databases /\ q.initial = d.initial
         /\ d.updates \in Seq(Updates) /\ q.updates = Append(d.updates, info)
<1>1. d.updates \in Seq(Updates) /\ d.initial \in [Datasets -> Formats \cup {None}]
  BY DEF Databases
<1>2. q = [initial |-> d.initial, updates |-> Append(d.updates, info)]
  BY DEF Databases
<1>3. Append(d.updates, info) \in Seq(Updates)
  BY <1>1
<1> QED BY <1>1, <1>2, <1>3 DEF Databases

\* A collector that is told a new time.
LEMMA OneTimeLater ==
  ASSUME NEW r \in States, NEW q, q = [r EXCEPT !.time = r.time + 1, !.iteration = 0]
  PROVE  /\ q \in States /\ q.path = r.path /\ q.phase = r.phase /\ q.jobs = r.jobs /\ q.todo = r.todo
         /\ q.time = r.time + 1 /\ r.time \in Nat
<1>1. q = [phase |-> r.phase, path |-> r.path, todo |-> r.todo, time |-> r.time + 1,
           iteration |-> 0, jobs |-> r.jobs]
  BY DEF States
<1> QED BY <1>1 DEF States

\* What is recorded is a job, and later than all that was recorded before.
LEMMA FlushKeeps ==
  ASSUME ArchiveInv, NEW c \in Collectors, NEW name \in Datasets, Flush(c, name)
  PROVE  ArchiveInv'
<1> DEFINE info == [timestamp |-> col[c].time, iteration |-> col[c].iteration,
                    name |-> name, data |-> <<c, Len(sent[c])>>]
<1>1. /\ col[c].phase = "running" /\ UNCHANGED <<dir, second, db>>
      /\ col' = [col EXCEPT ![c].iteration = @ + 1, ![c].jobs = @ \cup {info}]
      /\ sent' = [sent EXCEPT ![c] = Append(@, info)]
  BY DEF Flush
<1>2. info \in Updates /\ info.timestamp = col[c].time /\ info.iteration = col[c].iteration
  BY DEF ArchiveInv, Typed, States, Updates
<1> HIDE DEF info
<1>3. /\ \A e \in Collectors : /\ col'[e].path = col[e].path /\ col'[e].phase = col[e].phase
                               /\ col'[e].time = col[e].time /\ col'[e].todo = col[e].todo
      /\ \A e \in Collectors \ {c} : col'[e].iteration = col[e].iteration /\ col'[e].jobs = col[e].jobs
      /\ col'[c].iteration = col[c].iteration + 1 /\ col'[c].jobs = col[c].jobs \cup {info}
      /\ col' \in [Collectors -> States]
  <2>1. col \in [Collectors -> States]
    BY DEF ArchiveInv, Typed
  <2>2. \A e \in Collectors \ {c} : col'[e] = col[e]
    BY <1>1, <2>1
  <2>3. col'[c] = [col[c] EXCEPT !.iteration = col[c].iteration + 1, !.jobs = col[c].jobs \cup {info}]
    BY <1>1, <2>1
  <2>4. /\ col'[c].path = col[c].path /\ col'[c].phase = col[c].phase
        /\ col'[c].time = col[c].time /\ col'[c].todo = col[c].todo
        /\ col'[c].iteration = col[c].iteration + 1 /\ col'[c].jobs = col[c].jobs \cup {info}
        /\ col'[c] \in States
    <3>1. col[c] \in States
      BY <2>1
    <3> DEFINE r == col[c]
               q == col'[c]
    <3>2. r \in States /\ q = [r EXCEPT !.iteration = r.iteration + 1, !.jobs = r.jobs \cup {info}]
      BY <2>3, <3>1
    <3> HIDE DEF r, q
    <3>3. /\ q \in States /\ q.path = r.path /\ q.phase = r.phase /\ q.time = r.time /\ q.todo = r.todo
          /\ q.iteration = r.iteration + 1 /\ q.jobs = r.jobs \cup {info}
      <4>1. q = [phase |-> r.phase, path |-> r.path, todo |-> r.todo, time |-> r.time,
                 iteration |-> r.iteration + 1, jobs |-> r.jobs \cup {info}]
        BY <3>2 DEF States
      <4> QED BY <1>2, <3>2, <4>1 DEF States
    <3> QED BY <3>3 DEF r, q
  <2>5. DOMAIN col' = Collectors /\ col' = [e \in Collectors |-> col'[e]]
    BY <1>1, <2>1
  <2> QED BY <2>1, <2>2, <2>4, <2>5
<1>4. /\ \A e \in Collectors \ {c} : sent'[e] = sent[e]
      /\ sent'[c] = Append(sent[c], info) /\ sent[c] \in Seq(Updates)
      /\ sent' \in [Collectors -> Seq(Updates)]
  BY <1>1, <1>2 DEF ArchiveInv, Typed
<1>5. /\ DOMAIN sent[c] = 1..Len(sent[c]) /\ Len(sent[c]) \in Nat
      /\ DOMAIN sent'[c] = 1..(Len(sent[c]) + 1)
      /\ \A i \in DOMAIN sent[c] : i \in DOMAIN sent'[c] /\ sent'[c][i] = sent[c][i]
      /\ sent'[c][Len(sent[c]) + 1] = info
  BY <1>2, <1>4, OneMoreItem
<1>6. Typed'
  BY <1>1, <1>3, <1>4 DEF ArchiveInv, Typed
<1>7. \A e \in Collectors : Done(e)' = Done(e) /\ Uses(e)' = Uses(e)
  BY <1>3 DEF Done, Uses
<1>8. Lives'
  BY <1>1, <1>3, <1>4, <1>7 DEF ArchiveInv, Lives
<1>9. InitialsFit'
  <2>1. \A n : FileOf(n)' = FileOf(n)
    BY <1>1 DEF FileOf
  <2> QED BY <1>1, <1>3, <1>7, <2>1 DEF ArchiveInv, InitialsFit
<1>10. Ordered'
  <2>1. ASSUME NEW i \in DOMAIN sent'[c], NEW j \in DOMAIN sent'[c], i < j
        PROVE  Earlier(sent'[c][i], sent'[c][j])
    <3>1. i \in DOMAIN sent[c]
      BY <1>5, <2>1
    <3>2. CASE j \in DOMAIN sent[c]
      BY <1>5, <2>1, <3>1, <3>2 DEF ArchiveInv, Ordered
    <3>3. CASE j = Len(sent[c]) + 1
      BY <1>2, <1>5, <3>1, <3>3 DEF ArchiveInv, Ordered, Earlier
    <3> QED BY <1>5, <3>2, <3>3
  <2>2. ASSUME NEW i \in DOMAIN sent'[c]
        PROVE  \/ sent'[c][i].timestamp < col'[c].time
               \/ sent'[c][i].timestamp = col'[c].time /\ sent'[c][i].iteration < col'[c].iteration
    <3>1. col[c].time \in Nat /\ col[c].iteration \in Nat
      BY DEF ArchiveInv, Typed, States
    <3>2. CASE i \in DOMAIN sent[c]
      <4>1. sent[c][i].iteration \in Nat /\ sent'[c][i] = sent[c][i]
        BY <1>5, <3>2, EntriesAreUpdates DEF ArchiveInv, Updates
      <4> QED BY <1>3, <3>1, <3>2, <4>1 DEF ArchiveInv, Ordered
    <3>3. CASE i = Len(sent[c]) + 1
      BY <1>2, <1>3, <1>5, <3>1, <3>3
    <3> QED BY <1>5, <3>2, <3>3
  <2>3. ASSUME NEW e \in Collectors \ {c}
        PROVE  sent'[e] = sent[e] /\ col'[e].time = col[e].time /\ col'[e].iteration = col[e].iteration
    BY <1>3, <1>4
  <2> QED BY <2>1, <2>2, <2>3 DEF ArchiveInv, Ordered
<1>11. Recordings'
  <2>1. ASSUME NEW p \in Paths, db[p] # None, NEW k \in DOMAIN db[p].updates
        PROVE  \E e \in Collectors, i \in Nat : /\ col'[e].path = p /\ i \in DOMAIN sent'[e]
                                                /\ sent'[e][i] = db[p].updates[k]
    <3>1. PICK e \in Collectors, i \in Nat : /\ col[e].path = p /\ i \in DOMAIN sent[e]
                                             /\ sent[e][i] = db[p].updates[k]
      BY <2>1 DEF ArchiveInv, Recordings
    <3>2. i \in DOMAIN sent'[e] /\ sent'[e][i] = sent[e][i]
      BY <1>4, <1>5, <3>1
    <3> QED BY <1>3, <3>1, <3>2
  <2>2. ASSUME NEW e \in Collectors, NEW i \in DOMAIN sent'[e]
        PROVE  \/ sent'[e][i] \in col'[e].jobs
               \/ \E k \in Nat : /\ k \in DOMAIN db[col[e].path].updates
                                 /\ db[col[e].path].updates[k] = sent'[e][i]
    <3>1. CASE e = c /\ i = Len(sent[c]) + 1
      BY <1>3, <1>5, <3>1
    <3>2. CASE i \in DOMAIN sent[e]
      <4>1. sent'[e][i] = sent[e][i] /\ (sent[e][i] \in col[e].jobs => sent[e][i] \in col'[e].jobs)
        BY <1>3, <1>4, <1>5, <3>2
      <4> QED BY <3>2, <4>1 DEF ArchiveInv, Recordings
    <3> QED BY <1>4, <1>5, <2>2, <3>1, <3>2
  <2>3. ASSUME NEW e \in Collectors, NEW job \in col'[e].jobs
        PROVE  \E i \in Nat : i \in DOMAIN sent'[e] /\ sent'[e][i] = job
    <3>1. CASE e = c /\ job = info
      BY <1>5, <3>1
    <3>2. CASE job \in col[e].jobs
      <4>1. PICK i \in Nat : i \in DOMAIN sent[e] /\ sent[e][i] = job
        BY <3>2 DEF ArchiveInv, Recordings
      <4> QED BY <1>4, <1>5, <4>1
    <3> QED BY <1>3, <2>3, <3>1, <3>2
  <2>4. db' = db /\ \A e \in Collectors : col'[e].path = col[e].path
    BY <1>1, <1>3
  <2> QED BY <2>1, <2>2, <2>3, <2>4 DEF Recordings
<1> QED BY <1>6, <1>8, <1>9, <1>10, <1>11 DEF ArchiveInv

\* At a new time the iterations begin again, after all that was recorded.
LEMMA NewTimeKeeps ==
  ASSUME ArchiveInv, NEW c \in Collectors, NewTime(c)
  PROVE  ArchiveInv'
<1>1. /\ col[c].phase = "running" /\ UNCHANGED <<dir, second, db, sent>>
      /\ col' = [col EXCEPT ![c].time = @ + 1, ![c].iteration = 0]
  BY DEF NewTime
<1>2. /\ \A e \in Collectors : /\ col'[e].path = col[e].path /\ col'[e].phase = col[e].phase
                               /\ col'[e].jobs = col[e].jobs /\ col'[e].todo = col[e].todo
      /\ \A e \in Collectors \ {c} : col'[e].iteration = col[e].iteration /\ col'[e].time = col[e].time
      /\ col'[c].time = col[c].time + 1 /\ col[c].time \in Nat
      /\ col' \in [Collectors -> States]
  <2>1. col \in [Collectors -> States]
    BY DEF ArchiveInv, Typed
  <2>2. \A e \in Collectors \ {c} : col'[e] = col[e]
    BY <1>1, <2>1
  <2>3. col'[c] = [col[c] EXCEPT !.time = col[c].time + 1, !.iteration = 0]
    BY <1>1, <2>1
  <2>4. /\ col'[c].path = col[c].path /\ col'[c].phase = col[c].phase
        /\ col'[c].jobs = col[c].jobs /\ col'[c].todo = col[c].todo
        /\ col'[c].time = col[c].time + 1 /\ col[c].time \in Nat /\ col'[c] \in States
    BY <2>1, <2>3, OneTimeLater
  <2>5. DOMAIN col' = Collectors /\ col' = [e \in Collectors |-> col'[e]]
    BY <1>1, <2>1
  <2> QED BY <2>1, <2>2, <2>4, <2>5
<1>3. \A e \in Collectors : Done(e)' = Done(e) /\ Uses(e)' = Uses(e)
  BY <1>2 DEF Done, Uses
<1>4. \A n : FileOf(n)' = FileOf(n)
  BY <1>1 DEF FileOf
<1>5. Typed' /\ Lives' /\ InitialsFit'
  BY <1>1, <1>2, <1>3, <1>4 DEF ArchiveInv, Typed, Lives, InitialsFit
<1>6. Ordered'
  <2>1. \A i \in DOMAIN sent[c] : sent[c][i].timestamp \in Nat
    BY EntriesAreUpdates DEF ArchiveInv, Updates
  <2>2. \A i \in DOMAIN sent[c] : sent[c][i].timestamp < col[c].time + 1
    BY <1>2, <2>1 DEF ArchiveInv, Ordered
  <2> QED BY <1>1, <1>2, <2>2 DEF ArchiveInv, Ordered
<1>7. Recordings'
  BY <1>1, <1>2 DEF ArchiveInv, Recordings
<1> QED BY <1>5, <1>6, <1>7 DEF ArchiveInv

\* The row that a worker adds is the job it has done; nothing else is lost.
LEMMA StoreKeeps ==
  ASSUME ArchiveInv, ConstantsAssumption, NEW c \in Collectors, Store(c)
  PROVE  ArchiveInv'
<1> DEFINE path == col[c].path
<1>1. PICK info \in col[c].jobs :
        IF Refuses(db[path], info)
        THEN col' = [col EXCEPT ![c].phase = "failed"] /\ UNCHANGED db
        ELSE /\ db' = [db EXCEPT ![path].updates = Append(@, info)]
             /\ col' = [col EXCEPT ![c].jobs = @ \ {info}]
  BY DEF Store
<1>2. /\ col[c].phase = "running" /\ UNCHANGED <<dir, second, sent>>
      /\ path \in Paths /\ db[path] # None /\ db[path] \in Databases
      /\ info \in Updates
  BY DEF Store, ArchiveInv, Lives, Uses, Typed, States
<1>3. CASE Refuses(db[path], info)
  BY <1>1, <1>2, <1>3, PhaseKeeps
<1>4. CASE ~Refuses(db[path], info)
  <2> DEFINE d == [db[path] EXCEPT !.updates = Append(db[path].updates, info)]
  <2>1. /\ d \in Databases /\ d.initial = db[path].initial
        /\ d.updates = Append(db[path].updates, info) /\ db[path].updates \in Seq(Updates)
    BY <1>2, OneMoreRow
  <2> HIDE DEF d
  <2>2. /\ db' \in [Paths -> Databases \cup {None}] /\ db'[path] = d
        /\ \A p \in Paths \ {path} : db'[p] = db[p]
    <3>1. db' = [db EXCEPT ![path] = d]
      BY <1>1, <1>4 DEF d
    <3> QED BY <1>2, <2>1, <3>1 DEF ArchiveInv, Typed
  <2>3. /\ \A e \in Collectors : /\ col'[e].path = col[e].path /\ col'[e].phase = col[e].phase
                                 /\ col'[e].time = col[e].time /\ col'[e].todo = col[e].todo
                                 /\ col'[e].iteration = col[e].iteration
        /\ \A e \in Collectors \ {c} : col'[e].jobs = col[e].jobs
        /\ col'[c].jobs = col[c].jobs \ {info}
        /\ col' \in [Collectors -> States]
    <3>1. col \in [Collectors -> States] /\ col' = [col EXCEPT ![c].jobs = @ \ {info}]
      BY <1>1, <1>4 DEF ArchiveInv, Typed
    <3>2. \A e \in Collectors \ {c} : col'[e] = col[e]
      BY <3>1
    <3>3. col'[c] = [col[c] EXCEPT !.jobs = col[c].jobs \ {info}]
      BY <3>1
    <3>4. /\ col'[c].path = col[c].path /\ col'[c].phase = col[c].phase
          /\ col'[c].time = col[c].time /\ col'[c].todo = col[c].todo
          /\ col'[c].iteration = col[c].iteration /\ col'[c].jobs = col[c].jobs \ {info}
          /\ col'[c] \in States
      BY <3>1, <3>3, OneJobLess
    <3>5. DOMAIN col' = Collectors /\ col' = [e \in Collectors |-> col'[e]]
      BY <3>1
    <3> QED BY <3>1, <3>2, <3>4, <3>5
  <2>4. /\ DOMAIN db[path].updates = 1..Len(db[path].updates) /\ Len(db[path].updates) \in Nat
        /\ DOMAIN d.updates = 1..(Len(db[path].updates) + 1)
        /\ \A k \in DOMAIN db[path].updates : d.updates[k] = db[path].updates[k]
        /\ d.updates[Len(db[path].updates) + 1] = info
    <3> DEFINE l == db[path].updates
               q == d.updates
    <3>1. l \in Seq(Updates) /\ q = Append(l, info)
      BY <2>1
    <3> HIDE DEF l, q
    <3>2. /\ DOMAIN l = 1..Len(l) /\ Len(l) \in Nat /\ DOMAIN q = 1..(Len(l) + 1)
          /\ \A k \in DOMAIN l : q[k] = l[k]
          /\ q[Len(l) + 1] = info
      BY <1>2, <3>1, OneMoreItem
    <3> QED BY <3>2 DEF l, q
  <2>5. \A e \in Collectors : Done(e)' = Done(e) /\ Uses(e)' = Uses(e)
    BY <2>3 DEF Done, Uses
  <2>6. \A n : FileOf(n)' = FileOf(n)
    BY <1>2 DEF FileOf
  <2>7. d # None
    BY <2>1 DEF ConstantsAssumption
  <2>8. Typed'
    BY <1>2, <2>2, <2>3 DEF ArchiveInv, Typed
  <2>9. Lives'
    BY <1>2, <2>2, <2>3, <2>5, <2>7 DEF ArchiveInv, Lives
  <2>10. InitialsFit'
    <3>1. \A e \in Collectors : Uses(e) => col[e].path \in Paths /\ db'[col[e].path].initial = db[col[e].path].initial
      BY <2>1, <2>2 DEF ArchiveInv, Lives
    <3>2. \A p \in Paths : db'[p] # None => db[p] # None /\ db'[p].initial = db[p].initial
      BY <1>2, <2>1, <2>2
    <3> QED BY <1>2, <2>3, <2>5, <2>6, <3>1, <3>2 DEF ArchiveInv, InitialsFit
  <2>11. Ordered'
    BY <1>2, <2>3 DEF ArchiveInv, Ordered
  <2>12. Recordings'
    <3>1. ASSUME NEW p \in Paths, db'[p] # None, NEW k \in DOMAIN db'[p].updates
          PROVE  \E e \in Collectors, i \in Nat : /\ col[e].path = p /\ i \in DOMAIN sent[e]
                                                  /\ sent[e][i] = db'[p].updates[k]
      <4>1. CASE p = path /\ k = Len(db[path].updates) + 1
        <5>1. \E i \in Nat : i \in DOMAIN sent[c] /\ sent[c][i] = info
          BY DEF ArchiveInv, Recordings
        <5> QED BY <2>2, <2>4, <4>1, <5>1
      <4>2. CASE ~(p = path /\ k = Len(db[path].updates) + 1)
        <5>1. db[p] # None /\ k \in DOMAIN db[p].updates /\ db'[p].updates[k] = db[p].updates[k]
          <6>1. CASE p = path
            <7>1. k \in 1..(Len(db[path].updates) + 1) /\ k # Len(db[path].updates) + 1
              BY <2>2, <2>4, <3>1, <4>2, <6>1
            <7>2. k \in DOMAIN db[path].updates
              BY <2>4, <7>1
            <7> QED BY <1>2, <2>2, <2>4, <6>1, <7>2
          <6>2. CASE p # path
            BY <2>2, <3>1, <6>2
          <6> QED BY <6>1, <6>2
        <5> QED BY <5>1 DEF ArchiveInv, Recordings
      <4> QED BY <4>1, <4>2
    <3>2. ASSUME NEW e \in Collectors, NEW i \in DOMAIN sent[e]
          PROVE  \/ sent[e][i] \in col'[e].jobs
                 \/ \E k \in Nat : /\ k \in DOMAIN db'[col[e].path].updates
                                   /\ db'[col[e].path].updates[k] = sent[e][i]
      <4>1. col[e].path \in Paths
        BY <3>2 DEF ArchiveInv, Lives, Uses
      <4>2. \A k \in Nat : k \in DOMAIN db[col[e].path].updates =>
              /\ k \in DOMAIN db'[col[e].path].updates
              /\ db'[col[e].path].updates[k] = db[col[e].path].updates[k]
        BY <2>2, <2>4, <4>1
      <4>3. CASE sent[e][i] \in col[e].jobs /\ sent[e][i] \notin col'[e].jobs
        <5>1. e = c /\ sent[e][i] = info
          BY <2>3, <4>3
        <5> QED BY <2>2, <2>4, <5>1
      <4>4. CASE \E k \in Nat : /\ k \in DOMAIN db[col[e].path].updates
                                /\ db[col[e].path].updates[k] = sent[e][i]
        BY <4>2, <4>4
      <4> QED BY <3>2, <4>3, <4>4 DEF ArchiveInv, Recordings
    <3>3. \A e \in Collectors : \A job \in col'[e].jobs : job \in col[e].jobs
      BY <2>3
    <3> QED BY <1>2, <2>3, <3>1, <3>2, <3>3 DEF ArchiveInv, Recordings
  <2> QED BY <2>8, <2>9, <2>10, <2>11, <2>12 DEF ArchiveInv
<1> QED BY <1>3, <1>4

\* Every step of every collector keeps the invariant.
LEMMA ArchiveNext ==
  ASSUME ArchiveInv, ConstantsAssumption, [Next]_vars
  PROVE  ArchiveInv'
<1>1. CASE UNCHANGED vars \/ ClockTicks
  <2>1. UNCHANGED <<dir, db, col, sent>> /\ second' \in 0..1
    BY <1>1 DEF ClockTicks, vars, ArchiveInv, Typed
  <2>2. \A e \in Collectors : Done(e)' = Done(e) /\ Uses(e)' = Uses(e)
    BY <2>1 DEF Done, Uses
  <2>3. \A n : FileOf(n)' = FileOf(n)
    BY <2>1 DEF FileOf
  <2> QED BY <2>1, <2>2, <2>3 DEF ArchiveInv, Typed, Lives, InitialsFit, Ordered, Recordings
<1>2. ASSUME NEW c \in Collectors, Close(c)
      PROVE  ArchiveInv'
  <2>1. /\ col[c].phase = "running" /\ col[c].jobs = {}
        /\ col' = [col EXCEPT ![c].phase = "closed"] /\ UNCHANGED <<dir, second, db, sent>>
    BY <1>2 DEF Close
  <2>2. col[c].todo = <<>>
    BY <2>1 DEF ArchiveInv, Lives
  <2> QED BY <2>1, <2>2, PhaseKeeps
<1> QED BY <1>1, <1>2, StartKeeps, StoreNextKeeps, FlushKeeps, NewTimeKeeps, StoreKeeps DEF Next

-----------------------------------------------------------------------------
\* When a collector has closed, its database has what it has recorded, and if another has the
\* same one, that other has not got beyond the initial datasets.
LEMMA ClosedAlone ==
  ASSUME ArchiveInv, NEW c \in Collectors, col[c].phase = "closed", Shares(c) => Protected,
         NEW n
  PROVE  {db[col[c].path].updates[k] :
            k \in {j \in DOMAIN db[col[c].path].updates : db[col[c].path].updates[j].name = n}}
         = {sent[c][i] : i \in {j \in DOMAIN sent[c] : sent[c][j].name = n}}
<1> DEFINE path == col[c].path
           u == db[path].updates
<1>1. path \in Paths /\ db[path] # None /\ col[c].jobs = {} /\ col[c].todo = <<>>
  BY DEF ArchiveInv, Lives, Uses
<1>2. ASSUME NEW e \in Collectors, e # c, col[e].path = path, sent[e] # <<>>
      PROVE  FALSE
  <2>1. Shares(c) /\ Protected
    BY <1>2 DEF Shares
  <2>2. PICK m \in Datasets : FileOf(m) # None
    BY <2>1 DEF Protected
  <2>3. Uses(c) /\ Uses(e) /\ col[e].todo = <<>>
    BY <1>2 DEF ArchiveInv, Lives, Uses
  <2>4. m \in Done(c) /\ m \in Done(e)
    BY <1>1, <2>3 DEF Done
  <2> QED BY <1>2, <2>1, <2>2, <2>3, <2>4 DEF ArchiveInv, InitialsFit, Protected
<1>3. ASSUME NEW k \in DOMAIN u
      PROVE  \E i \in DOMAIN sent[c] : sent[c][i] = u[k]
  <2>1. PICK e \in Collectors, i \in Nat : /\ col[e].path = path /\ i \in DOMAIN sent[e]
                                           /\ sent[e][i] = u[k]
    BY <1>1 DEF ArchiveInv, Recordings
  <2>2. sent[e] # <<>>
    BY <2>1
  <2> QED BY <1>2, <2>1, <2>2
<1>4. ASSUME NEW i \in DOMAIN sent[c]
      PROVE  \E k \in DOMAIN u : u[k] = sent[c][i]
  BY <1>1 DEF ArchiveInv, Recordings
<1> HIDE DEF u
<1>5. {u[k] : k \in {j \in DOMAIN u : u[j].name = n}} = {sent[c][i] : i \in {j \in DOMAIN sent[c] : sent[c][j].name = n}}
  BY <1>3, <1>4
<1> QED BY <1>5 DEF u

\* The database of a collector that has closed gives, for every dataset that can be opened,
\* the updates that this run recorded, each once and in the order in which they were made, and has
\* its initial data: for any number of collectors, datasets and threads' orders of storing,
\* unless the database is shared and holds no initial data (Archive: Start, StoreNext,
\* Flush, Store, Close, DatasetUpdates).
THEOREM ArchivesTellOneRun == ConstantsAssumption /\ Spec => []ArchiveTellsOneRun
<1> SUFFICES ASSUME ConstantsAssumption PROVE Spec => []ArchiveTellsOneRun
  OBVIOUS
<1>1. Init => ArchiveInv
  BY InitArchive
<1>2. ArchiveInv /\ [Next]_vars => ArchiveInv'
  BY ArchiveNext
<1>3. ArchiveInv => ArchiveTellsOneRun
  <2> SUFFICES ASSUME ArchiveInv, NEW c \in Collectors, col[c].phase = "closed",
                      Shares(c) => Protected, NEW n \in Datasets
               PROVE  /\ Recorded(DatasetUpdates(db[col[c].path], n), c, n)
                      /\ dir # None => db[col[c].path].initial[n] = FileOf(n)
    BY DEF ArchiveTellsOneRun, Read
  <2> DEFINE h == sent[c]
             I == {j \in DOMAIN h : h[j].name = n}
             rows == {h[i] : i \in I}
             s == OrderBy(rows)
  <2>1. h \in Seq(Updates) /\ \A i, j \in DOMAIN h : i < j => Earlier(h[i], h[j])
    BY DEF ArchiveInv, Typed, Ordered
  <2>2. Takes(s, h, I)
    <3> HIDE DEF h
    <3>1. I \in SUBSET DOMAIN h
      OBVIOUS
    <3> HIDE DEF I
    <3>2. rows = {h[i] : i \in I}
      OBVIOUS
    <3> HIDE DEF rows
    <3> QED BY <2>1, <3>1, <3>2, SortedIsInOrder
  <2>3. DatasetUpdates(db[col[c].path], n) = s
    BY ClosedAlone DEF DatasetUpdates
  <2> HIDE DEF s
  <2>4. Recorded(DatasetUpdates(db[col[c].path], n), c, n)
    BY <2>2, <2>3 DEF Recorded
  <2>5. dir # None => db[col[c].path].initial[n] = FileOf(n)
    <3>1. Uses(c) /\ n \in Done(c)
      BY DEF ArchiveInv, Lives, Uses, Done
    <3> QED BY <3>1 DEF ArchiveInv, InitialsFit
  <2> QED BY <2>4, <2>5
<1> QED BY <1>1, <1>2, <1>3, PTL DEF Spec
=============================================================================
