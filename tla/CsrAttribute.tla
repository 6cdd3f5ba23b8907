---------------------------- MODULE CsrAttribute ----------------------------
(***************************************************************************)
(* An attribute whose values are lists: the rows of all entities one after *)
(* the other in data, and in row_ptr where each row begins.  A model       *)
(* writes rows, receives them, and publishes what has changed to another   *)
(* model, which numbers the same entities in its own order.                *)
(*                                                                         *)
(* Positions are counted from 1 here, the entries of row_ptr from 0 as in  *)
(* the arrays: row i is data[row_ptr[i] + 1 .. row_ptr[i + 1]].            *)
(***************************************************************************)
EXTENDS Integers, Sequences, FiniteSets, SequencesExt

CONSTANTS
  Ids,        \* the entities
  Known,      \* per model, the ids of the first data in their order
  RowValues,  \* the rows that the model writes
  Incoming,   \* the rows it receives
  Matrices,   \* the matrices that calculations write, for the entities first known
  Undefined, Empty

VARIABLES
  own, other,  \* the attribute at the model that publishes and at the one that subscribes
  touched,     \* the entities of which another published attribute has changed: the first, or none
  want,        \* history: the row each entity should have
  sent         \* history: the rows at the last publication

vars == <<own, other, touched, want, sent>>

UndefinedRow == <<Undefined>>
Size(csr) == Len(csr.row_ptr) - 1
Positions(flags) == SelectSeq([i \in DOMAIN flags |-> i], LAMBDA i : flags[i])

----------------------------------------------------------------------------
\* csr.py: rows of arrays

GetRow(csr, i) == SubSeq(csr.data, csr.row_ptr[i] + 1, csr.row_ptr[i + 1])
SetRow(csr, i, row) ==
  [csr EXCEPT !.data = [k \in DOMAIN csr.data |->
     IF k \in csr.row_ptr[i] + 1 .. csr.row_ptr[i + 1] THEN row[k - csr.row_ptr[i]]
     ELSE csr.data[k]]]
Lengths(csr) == [i \in 1 .. Size(csr) |-> csr.row_ptr[i + 1] - csr.row_ptr[i]]

\* get_new_csr_array: what the data is before it is written is left open.
NewCsr(lengths) ==
  LET Sum(n) == FoldLeft(LAMBDA a, b : a + b, 0, SubSeq(lengths, 1, n))
  IN [data |-> [k \in 1 .. Sum(Len(lengths)) |-> Empty],
      row_ptr |-> [i \in 1 .. Len(lengths) + 1 |-> Sum(i - 1)]]

\* Copies rows into a new array: Fill(new, rows) with rows a function of positions.
Fill(new, rows) == FoldLeft(LAMBDA csr, i : SetRow(csr, i, rows[i]), new, [i \in DOMAIN rows |-> i])

Slice(csr, positions) ==
  Fill(NewCsr([k \in DOMAIN positions |-> Lengths(csr)[positions[k]]]),
       [k \in DOMAIN positions |-> GetRow(csr, positions[k])])

\* update_csr_array: the new array, and which rows are different from before.
UpdateCsr_ByLength(csr, upd, at) ==
  LET Final(i) == CHOOSE k \in DOMAIN at : at[k] = i /\ \A j \in k + 1 .. Len(at) : at[j] # i
      rows == [i \in 1 .. Size(csr) |-> IF i \in Range(at) THEN GetRow(upd, Final(i))
                                        ELSE GetRow(csr, i)]
  IN [csr |-> Fill(NewCsr([i \in 1 .. Size(csr) |-> Len(rows[i])]), rows),
      changes |-> [i \in 1 .. Size(csr) |-> i \in Range(at) /\ Len(rows[i]) # Lengths(csr)[i]]]
UpdateCsr(csr, upd, at) ==
  LET Final(i) == CHOOSE k \in DOMAIN at : at[k] = i /\ \A j \in k + 1 .. Len(at) : at[j] # i
      lengths == [i \in 1 .. Size(csr) |-> IF i \in Range(at) THEN Lengths(upd)[Final(i)]
                                           ELSE Lengths(csr)[i]]
      rows == [i \in 1 .. Size(csr) |-> IF i \in Range(at) THEN GetRow(upd, Final(i))
                                        ELSE GetRow(csr, i)]
  IN [csr |-> Fill(NewCsr(lengths), rows),
      changes |-> [i \in 1 .. Size(csr) |-> i \in Range(at) /\ rows[i] # GetRow(csr, i)]]

\* remove_undefined_csr and CSRAttribute.strip_undefined: the rows that are one undefined
\* value are left out.  The sizes count undefined values, which is right for rows that are
\* either undefined or free of undefined values.
StripUndefined(upd, at) ==
  LET kept == SelectSeq([k \in DOMAIN at |-> k], LAMBDA k : GetRow(upd, k) # UndefinedRow)
  IN [upd |-> Slice(upd, kept), at |-> [k \in DOMAIN kept |-> at[kept[k]]]]

\* generate_update: the rows of the mask, undefined where nothing has changed.
GenerateUpdate(csr, mask, changed) ==
  LET at == Positions(mask)
      lengths == [k \in DOMAIN at |-> IF changed[at[k]] THEN Lengths(csr)[at[k]] ELSE 1]
  IN Fill(NewCsr(lengths),
          [k \in DOMAIN at |-> IF changed[at[k]] THEN GetRow(csr, at[k]) ELSE UndefinedRow])

----------------------------------------------------------------------------
\* CSRAttribute and EntityDataHandler: an attribute has the ids of the index, the array and
\* the flags of its rows.

Pos(a, id) == CHOOSE i \in DOMAIN a.ids : a.ids[i] = id
Row(a, id) == IF id \in Range(a.ids) THEN GetRow(a.csr, Pos(a, id)) ELSE UndefinedRow

FromRows(rows) == Fill(NewCsr([k \in DOMAIN rows |-> Len(rows[k])]), rows)

\* TrackedCSRArray.update
Updated(a, upd, at) ==
  LET u == UpdateCsr(a.csr, upd, at)
  IN [a EXCEPT !.csr = u.csr,
               !.changed = [i \in DOMAIN a.changed |-> a.changed[i] \/ u.changes[i]]]

\* _do_resize: the new rows are undefined and no news.
Resized(a, new) ==
  LET n == Len(a.csr.data)
  IN [ids |-> a.ids \o new,
      csr |-> [data |-> a.csr.data \o [k \in DOMAIN new |-> Undefined],
               row_ptr |-> a.csr.row_ptr \o [k \in DOMAIN new |-> n + k]],
      changed |-> a.changed \o [k \in DOMAIN new |-> FALSE]]

\* receive_update: new entities are added first.
Received(a, ids, upd) ==
  LET grown == Resized(a, SelectSeq(ids, LAMBDA id : id \notin Range(a.ids)))
      s == StripUndefined(upd, [k \in DOMAIN ids |-> Pos(grown, ids[k])])
  IN IF s.at = <<>> THEN grown ELSE Updated(grown, s.upd, s.at)

\* update_from_matrix: in place when the rows have the width of the matrix already.
FromMatrix(a, matrix) ==
  LET width == Len(matrix[1])
  IN IF \A i \in 1 .. Size(a.csr) : Lengths(a.csr)[i] = width
     THEN [a EXCEPT !.csr.data = FlattenSeq(matrix),
                    !.changed = [i \in DOMAIN a.changed |->
                                   a.changed[i] \/ GetRow(a.csr, i) # matrix[i]]]
     ELSE Updated(a, FromRows(matrix), [i \in 1 .. Size(a.csr) |-> i])

Initial(ids) == [ids |-> ids, csr |-> FromRows([k \in DOMAIN ids |-> UndefinedRow]),
                 changed |-> [k \in DOMAIN ids |-> FALSE]]

----------------------------------------------------------------------------
Init ==
  /\ own = Initial(Known[1]) /\ other = Initial(Known[2])
  /\ touched = {}
  /\ want = [id \in Ids |-> UndefinedRow] /\ sent = want

\* n different positions, with a row for each.
Writes(S, n, rows) ==
  {[at |-> at, rows |-> r] : at \in {s \in [1 .. n -> S] : IsInjective(s)}, r \in [1 .. n -> rows]}

Write ==
  /\ \E w \in Writes(DOMAIN own.ids, 1, RowValues) :
       /\ own' = Updated(own, FromRows(w.rows), w.at)
       /\ want' = [id \in Ids |-> IF \E k \in DOMAIN w.at : own.ids[w.at[k]] = id
                                  THEN w.rows[CHOOSE k \in DOMAIN w.at : own.ids[w.at[k]] = id]
                                  ELSE want[id]]
  /\ UNCHANGED <<other, touched, sent>>

Calculate ==
  /\ \E m \in {x \in Matrices : Len(x) = Size(own.csr)} :
       /\ own' = FromMatrix(own, m)
       /\ want' = [id \in Ids |-> IF id \in Range(own.ids) THEN m[Pos(own, id)] ELSE want[id]]
  /\ UNCHANGED <<other, touched, sent>>

\* An update from a third model reaches both; a row of it may be undefined.
Receive ==
  /\ \E w \in Writes(Ids, 2, Incoming \cup {UndefinedRow}) :
       LET upd == FromRows(w.rows)
           New(f) == [id \in Ids |->
                        IF \E k \in DOMAIN w.at : w.at[k] = id /\ w.rows[k] # UndefinedRow
                        THEN w.rows[CHOOSE k \in DOMAIN w.at : w.at[k] = id] ELSE f[id]]
       IN /\ own' = Received(own, w.at, upd) /\ other' = Received(other, w.at, upd)
          /\ want' = New(want) /\ sent' = New(sent)
  /\ UNCHANGED touched

Touch ==
  /\ touched' = {own.ids[1]} /\ touched = {}
  /\ UNCHANGED <<own, other, want, sent>>

\* Handler.generate_update and reset_tracked_changes, and the other model's receive_update:
\* the attribute is left out when nothing of it has changed.
Publish ==
  /\ \E i \in DOMAIN own.changed : own.changed[i] \/ own.ids[i] \in touched
  /\ LET mask == [i \in DOMAIN own.ids |-> own.changed[i] \/ own.ids[i] \in touched]
         ids == [k \in DOMAIN Positions(mask) |-> own.ids[Positions(mask)[k]]]
         new == SelectSeq(ids, LAMBDA id : id \notin Range(other.ids))
     IN other' = IF \E i \in DOMAIN own.changed : own.changed[i]
                 THEN Received(other, ids, GenerateUpdate(own.csr, mask, own.changed))
                 ELSE Resized(other, new)
  /\ own' = [own EXCEPT !.changed = [i \in DOMAIN own.changed |-> FALSE]]
  /\ touched' = {} /\ sent' = want /\ UNCHANGED want

Next == Write \/ Calculate \/ Receive \/ Touch \/ Publish
Spec == Init /\ [][Next]_vars

----------------------------------------------------------------------------
\* Every entity has the row that was last written for it, at the model that publishes and,
\* up to the last publication, at the model that subscribes: rows that grow or shrink move
\* no other row, new entities move none, an undefined row overwrites nothing and a changed
\* row reaches its own entity at a model with another order of ids (csr.py, arrays.py:
\* TrackedCSRArray, attribute.py: CSRAttribute).
RowsAreKept ==
  \A id \in Ids : Row(own, id) = want[id] /\ Row(other, id) = sent[id]
=============================================================================
