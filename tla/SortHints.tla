------------------------------ MODULE SortHints ------------------------------
(***************************************************************************)
(* The hint tables by which rows are shown to be sorted: the rows in       *)
(* order, the rows rotated by one, which prefixes of a row tie with the    *)
(* next row's, and the differences to it; and the columns of field         *)
(* elements they become.                                                   *)
(*                                                                         *)
(* A row is a function of column names: 1, 2, .. for data, 0 for the       *)
(* activator, -1 for the row id.                                           *)
(***************************************************************************)
EXTENDS Integers, Sequences, FiniteSets, Selections

CONSTANTS
  FieldSize, Byte, None,   \* see SignCheck
  Null,         \* SQL's NULL
  MaxCols       \* how many data columns there may be

Over(Rows) == INSTANCE SignCheck

\* The field is the one of SignCheck.
ASSUME SortAssumption ==
  /\ MaxCols \in Nat \ {0} /\ Null \notin Int
  /\ Byte \in Nat /\ Byte > 1 /\ FieldSize \in Nat /\ FieldSize > 4 * Over({})!Long

Act == 0
RowId == -1
\* The tie column that holds of the empty prefix; tie j is named j.
FirstTie == MaxCols

(***************************************************************************)
(* Frames: the hint tables.                                                *)
(***************************************************************************)
Frame(fields, rows, mat) == [fields |-> fields, rows |-> rows, mat |-> mat]
Names(f) == {f.fields[i] : i \in DOMAIN f.fields}
Strip(f) == [f EXCEPT !.fields = Kept(@, Names(f) \ {RowId})]

\* ORDER BY one key.
KeyBefore(spec, a, b) ==
  IF Null \in {a, b} THEN a # b /\ (a = Null <=> spec.nullsFirst)
  ELSE IF spec.asc THEN a < b ELSE b < a
SameUpTo(r, s, k) == \A j \in 1..k : r[j] = s[j]
\* Active rows first, then the keys in turn, then the row id.
RowBefore(specs, r, s) ==
  \/ r[Act] > s[Act]
  \/ /\ r[Act] = s[Act]
     /\ \/ \E k \in DOMAIN specs :
             SameUpTo(r, s, k - 1) /\ KeyBefore(specs[k], r[k], s[k])
        \/ SameUpTo(r, s, Len(specs)) /\ r[RowId] < s[RowId]
Sorted(rows, specs) ==
  [i \in DOMAIN rows |->
    LET n == CHOOSE n \in DOMAIN rows :
          Cardinality({m \in DOMAIN rows : RowBefore(specs, rows[m], rows[n])}) = i - 1
    IN  rows[n]]

\* contig_sort knows the query's NULL order and sorts them last all the same.
NullsLast(specs) == [k \in DOMAIN specs |-> [specs[k] EXCEPT !.nullsFirst = FALSE]]

TwoTo[k \in Nat] == IF k = 0 THEN 1 ELSE 2 * TwoTo[k - 1]
PowerOfTwo(n) ==
  IF n = 0 THEN 2 ELSE CHOOSE p \in {TwoTo[k] : k \in 0..n} : p >= n /\ p < 2 * n
NullRow(i) ==
  [n \in -1..MaxCols |-> CASE n = Act -> 0 [] n = RowId -> i - 1 [] OTHER -> Null]
\* Inactive copies of the last row, the row ids counted on.
Padded(rows) ==
  [i \in 1..PowerOfTwo(Len(rows)) |->
    IF i <= Len(rows) THEN rows[i]
    ELSE IF rows = <<>> THEN NullRow(i)
    ELSE [rows[Len(rows)] EXCEPT ![Act] = 0, ![RowId] = @ + i - Len(rows)]]

\* Row i of the rotated table is row i + 1, and the last is the first.
Rotated(rows) == [i \in DOMAIN rows |-> rows[(i % Len(rows)) + 1]]

\* Does row i agree with the next one in its first j keys?  Not the last row.
Tie(rows, j, i) == i < Len(rows) /\ SameUpTo(rows[i], rows[i + 1], j)
\* One key: whether there is a next row.  More: the proper prefixes but the empty.
TieFields(k) == IF k = 1 THEN <<FirstTie>> ELSE [j \in 1..(k - 1) |-> j]
TieRows(rows) ==
  [i \in DOMAIN rows |->
    [j \in -1..MaxCols |->
      IF Tie(rows, IF j = FirstTie THEN 0 ELSE j, i) THEN 1 ELSE 0]]

\* The difference of two values of type t, which wraps to the type's width.
Diff(t, a, b) ==
  LET bytes == Over({})!Bytes[t]
  IN  IF Null \in {a, b} THEN Null
      ELSE IF Over({})!Signed(t) THEN Over({})!Wrap(a - b, bytes)
      ELSE (a - b) % Over({})!Size(bytes)
\* Of types that are not numbers only the sign of a difference is taken, which
\* is an Int64 and, where there is a NULL, zero.
SignOnly == {"Boolean", "Date64", "Timestamp"}
Sign(a, b) == IF Null \in {a, b} \/ a = b THEN 0 ELSE IF a > b THEN 1 ELSE -1
KeyDiff(t, a, b) == IF t \in SignOnly THEN Sign(a, b) ELSE Diff(t, a, b)
DiffType(t) == IF t \in SignOnly THEN "Int64" ELSE IF t = "Date32" THEN "Int32" ELSE t

\* One key of another type than these, and DataFusion's windows make the
\* differences of all keys.
Explicit == {"Int8", "Int16", "Int32", "Int64", "Date32"}
ByWindows(types) == \E k \in DOMAIN types : types[k] \notin Explicit
\* The keys of the next row.  The windows take a NULL for the end of the table,
\* which the first row follows.
NextKeys(types, rows) ==
  LET next == Rotated(rows)
  IN  [i \in DOMAIN rows |->
        [k \in -1..MaxCols |->
          IF ByWindows(types) /\ next[i][k] = Null THEN rows[1][k] ELSE next[i][k]]]

\* Bug: the direction of a key is not looked at.
DiffRowsAscending(types, specs, rows) ==
  LET next == NextKeys(types, rows)
  IN  [i \in DOMAIN rows |->
        [k \in -1..MaxCols |->
          IF k \in DOMAIN specs THEN KeyDiff(types[k], next[i][k], rows[i][k]) ELSE Null]]
\* Of neighbours in a sorted table never negative, whichever way a key is
\* sorted, unless the next row's key is NULL.
DiffRows(types, specs, rows) ==
  LET next == NextKeys(types, rows)
  IN  [i \in DOMAIN rows |->
        [k \in -1..MaxCols |->
          IF k \notin DOMAIN specs THEN Null
          ELSE IF specs[k].asc THEN KeyDiff(types[k], next[i][k], rows[i][k])
          ELSE KeyDiff(types[k], rows[i][k], next[i][k])]]
\* Differences the code takes itself, the last row's to the first included, do
\* not wrap in a build that checks arithmetic: one that does not fit is a panic.
Overflows(types, specs, rows) ==
  LET next == Rotated(rows)
  IN  /\ ~ByWindows(types)
      /\ \E i \in DOMAIN rows, k \in DOMAIN specs :
           /\ Null \notin {rows[i][k], next[i][k]}
           /\ IF specs[k].asc THEN Diff(types[k], next[i][k], rows[i][k]) # next[i][k] - rows[i][k]
              ELSE Diff(types[k], rows[i][k], next[i][k]) # rows[i][k] - next[i][k]

(***************************************************************************)
(* Materialized columns: rows in the order of their ids if they have any,  *)
(* as they are otherwise, padded and encoded.                              *)
(***************************************************************************)
ById(rows) ==
  LET Before(m, n) ==
        \/ rows[m][RowId] < rows[n][RowId]
        \/ rows[m][RowId] = rows[n][RowId] /\ m < n
  IN  [i \in DOMAIN rows |->
        rows[CHOOSE n \in DOMAIN rows : Cardinality({m \in DOMAIN rows : Before(m, n)}) = i - 1]]
InOrder(f) == Padded(IF RowId \in Names(f) THEN ById(f.rows) ELSE f.rows)
Enc(v) == IF v = Null THEN 0 ELSE v % FieldSize
\* The columns of a frame that are committed, and those names in schema order.
EncodedColumns(f) ==
  LET rows == InOrder(f)
  IN  [n \in f.mat |-> [i \in DOMAIN rows |-> Enc(rows[i][n])]]
MatFields(f) == Kept(f.fields, f.mat)
Commitments(f) ==
  LET columns == EncodedColumns(f)
  IN  [i \in DOMAIN MatFields(f) |-> columns[MatFields(f)[i]]]
=============================================================================
