--------------------------- MODULE SortCheck_proofs ---------------------------
(***************************************************************************)
(* Proofs that a table is sorted, for tables of any size with any number   *)
(* of keys: the verifier makes the prover's claims, the order shown is the *)
(* output's, repeated rows do not verify, and every order that can be      *)
(* expressed is proved.                                                    *)
(***************************************************************************)
EXTENDS SortCheck, SortHints_proofs

-----------------------------------------------------------------------------
(* The query.                                                              *)

\* The query is a sort or a NoDup of n rows by k keys.
QueryIs(n, k) ==
  /\ n \in Nat /\ k \in 1..MaxCols /\ KeyCount = k /\ query.gadget \in {"sort", "nodup"}
  /\ query.types \in [1..k -> Types] /\ SpecsFor(query.specs, k) /\ RowsFor(query.rows, n, k)
  /\ \A i \in 1..n : query.rows[i][RowId] = i - 1
  /\ query.gadget = "nodup" =>
       query.specs = [j \in 1..k |-> [asc |-> FALSE, nullsFirst |-> FALSE]]
QueryOk == \E n \in Nat, k \in 1..MaxCols : QueryIs(n, k)

LEMMA QueryStarts == Init => QueryOk
<1> SUFFICES ASSUME Init PROVE QueryOk
  OBVIOUS
<1>1. PICK g \in {"sort", "nodup"}, k \in 1..MaxCols, honest \in BOOLEAN :
        \E t \in [1..k -> Types], specs \in Specs(g, k) : \E rows \in Inputs(t) :
          query = [gadget |-> g, types |-> t, specs |-> specs, honest |-> honest,
                   rows |-> [i \in DOMAIN rows |-> [n \in -1..MaxCols |->
                     CASE n = Act -> rows[i][Act] [] n = RowId -> i - 1
                       [] n \in 1..k -> rows[i][n] [] OTHER -> Null]]]
  BY DEF Init
<1>2. PICK t \in [1..k -> Types], specs \in Specs(g, k) : \E rows \in Inputs(t) :
        query = [gadget |-> g, types |-> t, specs |-> specs, honest |-> honest,
                 rows |-> [i \in DOMAIN rows |-> [n \in -1..MaxCols |->
                   CASE n = Act -> rows[i][Act] [] n = RowId -> i - 1
                     [] n \in 1..k -> rows[i][n] [] OTHER -> Null]]]
  BY <1>1
<1>0. PICK rows \in Inputs(t) :
        query = [gadget |-> g, types |-> t, specs |-> specs, honest |-> honest,
                 rows |-> [i \in DOMAIN rows |-> [n \in -1..MaxCols |->
                   CASE n = Act -> rows[i][Act] [] n = RowId -> i - 1
                     [] n \in 1..k -> rows[i][n] [] OTHER -> Null]]]
  BY <1>2
<1> DEFINE n == Len(rows)
           cell(i, m) == CASE m = Act -> rows[i][Act] [] m = RowId -> i - 1
                           [] m \in 1..k -> rows[i][m] [] OTHER -> Null
           full == [i \in DOMAIN rows |-> [m \in -1..MaxCols |-> cell(i, m)]]
<1>3. query.gadget = g /\ query.types = t /\ query.specs = specs /\ query.rows = full
  BY <1>0
<1>4. rows \in Seq([0..k -> Int \cup {Null}]) /\ \A i \in DOMAIN rows : rows[i][Act] \in {0, 1}
  BY InputAssumption
<1>5. n \in Nat /\ DOMAIN rows = 1..n /\ \A i \in 1..n : rows[i] \in [0..k -> Int \cup {Null}]
  BY <1>4
<1>6. Len(full) = n /\ DOMAIN full = 1..n
      /\ \A i \in 1..n : DOMAIN full[i] = RowNames /\ \A m \in RowNames : full[i][m] = cell(i, m)
  <2>1. DOMAIN full = 1..n
        /\ \A i \in 1..n : full[i] = [m \in RowNames |-> cell(i, m)]
    BY <1>5 DEF RowNames
  <2>2. \A i \in 1..n : DOMAIN full[i] = RowNames /\ \A m \in RowNames : full[i][m] = cell(i, m)
    <3> HIDE DEF full, cell
    <3> QED BY <2>1
  <2>3. full = [i \in 1..n |-> full[i]]
    <3>1. full = [i \in DOMAIN full |-> full[i]]
      OBVIOUS
    <3> HIDE DEF full
    <3> QED BY <2>1, <3>1
  <2> HIDE DEF full, cell, n
  <2>4. Len(full) = n
    BY <1>5, <2>3
  <2> QED BY <2>1, <2>2, <2>4
<1> HIDE DEF full, n
<1>7. MaxCols \in Nat /\ k \in Nat /\ k <= MaxCols
  BY SortAssumption
<1>8. \A i \in 1..n : full[i][Act] = rows[i][Act] /\ full[i][RowId] = i - 1
  <2>1. \A i \in 1..n : cell(i, Act) = rows[i][Act] /\ cell(i, RowId) = i - 1
    <3> TAKE i \in 1..n
    <3>1. ~(RowId \in 1..k) /\ ~(Act \in 1..k) /\ RowId # Act
      BY <1>7 DEF RowId, Act
    <3>2. cell(i, Act) = rows[i][Act]
      BY <3>1
    <3>3. cell(i, RowId) = i - 1
      BY <3>1
    <3> QED BY <3>2, <3>3
  <2> HIDE DEF cell
  <2> QED BY <1>6, <2>1, NamesOfRows
<1>9. \A c \in 1..k : c \in RowNames /\ c # Act /\ c # RowId /\ c \in 0..k
  BY <1>7 DEF RowNames, Act, RowId
<1>10. \A i \in 1..n : \A c \in 1..k : full[i][c] = rows[i][c] /\ full[i][c] \in Int \cup {Null}
  <2> TAKE i \in 1..n
  <2> TAKE c \in 1..k
  <2>1. full[i][c] = rows[i][c]
    BY <1>6, <1>9
  <2> QED BY <1>5, <1>9, <2>1
<1>11. RowsFor(full, n, k)
  <2>1. \A i, j \in 1..n : full[i][RowId] = full[j][RowId] => i = j
    <3> TAKE i, j \in 1..n
    <3>1. full[i][RowId] = i - 1 /\ full[j][RowId] = j - 1
      BY <1>8
    <3> QED BY <1>5, <3>1
  <2>2. \A i \in 1..n : full[i][Act] \in {0, 1} /\ full[i][RowId] \in Int
    <3> TAKE i \in 1..n
    <3>1. full[i][RowId] = i - 1 /\ i - 1 \in Int
      BY <1>5, <1>8
    <3> QED BY <1>4, <1>5, <1>8, <3>1
  <2> QED BY <1>5, <1>6, <1>10, <2>1, <2>2 DEF RowsFor
<1>12. SpecsFor(specs, k) /\ Len(specs) = k
  <2>1. CASE g = "nodup"
    <3>1. specs = [j \in 1..k |-> [asc |-> FALSE, nullsFirst |-> FALSE]]
      BY <2>1 DEF Specs
    <3>2. \A c \in 1..k : specs[c] \in [asc : BOOLEAN, nullsFirst : BOOLEAN]
      BY <3>1
    <3>3. DOMAIN specs = 1..k
      BY <3>1
    <3>4. Len(specs) = k
      BY <1>7, <3>1
    <3> HIDE DEF full
    <3> QED BY <1>7, <3>2, <3>3, <3>4 DEF SpecsFor
  <2>2. CASE g # "nodup"
    <3>1. specs \in [1..k -> {[asc |-> a, nullsFirst |-> ~a] : a \in BOOLEAN}]
      BY <2>2 DEF Specs
    <3>2. \A c \in 1..k : specs[c] \in [asc : BOOLEAN, nullsFirst : BOOLEAN]
      <4> TAKE c \in 1..k
      <4>1. PICK a \in BOOLEAN : specs[c] = [asc |-> a, nullsFirst |-> ~a]
        BY <3>1
      <4> QED BY <4>1
    <3>3. DOMAIN specs = 1..k
      BY <3>1
    <3>4. Len(specs) = k
      BY <1>7, <3>1
    <3> HIDE DEF full
    <3> QED BY <1>7, <3>2, <3>3, <3>4 DEF SpecsFor
  <2> QED BY <2>1, <2>2
<1>13. g = "nodup" => specs = [j \in 1..k |-> [asc |-> FALSE, nullsFirst |-> FALSE]]
  BY DEF Specs
<1>14. QueryIs(n, k)
  BY <1>3, <1>5, <1>8, <1>11, <1>12, <1>13 DEF QueryIs, KeyCount
<1> QED BY <1>5, <1>14 DEF QueryOk

-----------------------------------------------------------------------------
(* The query does not change, and neither does what is computed from it.   *)

LEMMA SamePlan ==
  ASSUME query' = query
  PROVE  /\ KeyCount' = KeyCount /\ KeySeq' = KeySeq /\ (Strictly' <=> Strictly)
         /\ ActiveRows' = ActiveRows /\ Planned' = Planned
         /\ \A t, m : WithActivator(t, m)' = WithActivator(t, m)
         /\ \A l : Schema(l)' = Schema(l)
         /\ SchemaColumns' = SchemaColumns
<1>1. KeyCount' = KeyCount
  BY DEF KeyCount
<1>2. KeySeq' = KeySeq /\ (Strictly' <=> Strictly) /\ ActiveRows' = ActiveRows
  BY <1>1 DEF KeySeq, Strictly, ActiveRows
<1>3. InputFrame' = InputFrame
  BY <1>2 DEF InputFrame
<1>4. SortOutput' = SortOutput /\ LexSorted' = LexSorted
  BY <1>3 DEF SortOutput, LexSorted
<1>5. OutputFrame' = OutputFrame /\ ContigRows' = ContigRows
  BY <1>4 DEF OutputFrame, ContigRows
<1>6. TableFrame' = TableFrame /\ RotatedFrame' = RotatedFrame
  BY <1>3, <1>5 DEF TableFrame, RotatedFrame
<1>7. TieFrame' = TieFrame /\ DiffFrame' = DiffFrame
  BY <1>1, <1>2, <1>5 DEF TieFrame, DiffFrame
<1>8. Planned' = Planned
  BY <1>3, <1>5, <1>6, <1>7 DEF Planned
<1>9. \A t, m : WithActivator(t, m)' = WithActivator(t, m)
  BY DEF WithActivator
<1>10. \A l : Schema(l)' = Schema(l)
  BY <1>1, <1>2 DEF Schema
<1>11. SchemaColumns' = SchemaColumns
  BY <1>10 DEF SchemaColumns
<1> QED BY <1>1, <1>2, <1>8, <1>9, <1>10, <1>11

LEMMA SameClaims ==
  ASSUME query' = query
  PROVE  \A t, x, y : SortClaims(t, x, y)' = SortClaims(t, x, y)
<1>1. KeyCount' = KeyCount /\ (Strictly' <=> Strictly)
  BY SamePlan
<1>2. \A t : AllTies(t)' = AllTies(t)
  BY <1>1 DEF AllTies
<1>3. \A t, k : MaskedDiff(t, k)' = MaskedDiff(t, k)
  BY <1>1, <1>2 DEF MaskedDiff
<1>4. \A t, k : SignClaims(t, k)' = SignClaims(t, k)
  BY <1>3 DEF SignClaims
<1>5. \A t : StrictClaim(t)' = StrictClaim(t)
  BY <1>1, <1>3, Zenon DEF StrictClaim
<1>6. \A t : NeqClaim(t)' = NeqClaim(t)
  <2> TAKE t
  <2>1. AllTies(t)' = AllTies(t)
    BY <1>2
  <2> QED BY <1>1, <2>1 DEF NeqClaim
<1>7. \A t : PrefixTies(t)' = PrefixTies(t) /\ TiesAreEqual(t)' = TiesAreEqual(t)
  BY <1>1, <1>2 DEF PrefixTies, TiesAreEqual
<1>8. \A t, j : BoolClaim(t, j)' = BoolClaim(t, j)
  BY <1>2 DEF BoolClaim
<1>9. \A tab : Columns(tab)' = Columns(tab)
  BY <1>1 DEF Columns
<1>10. \A t, x, y : RotationClaim(t, x, y)' = RotationClaim(t, x, y)
  BY <1>9 DEF RotationClaim
<1> QED BY <1>1, <1>4, <1>5, <1>6, <1>7, <1>8, <1>9, <1>10 DEF SortClaims

-----------------------------------------------------------------------------
(* What is committed of the frames, and what the verifier takes it for.    *)

\* The fields of the input and of a table without row ids.
LEMMA FieldsAre ==
  ASSUME NEW k \in 1..MaxCols, KeyCount = k
  PROVE  /\ DOMAIN KeySeq = 1..k /\ Len(KeySeq) = k /\ \A i \in 1..k : KeySeq[i] = i
         /\ DOMAIN (KeySeq \o <<Act, RowId>>) = 1..(k + 2)
         /\ \A i \in 1..(k + 2) :
              (KeySeq \o <<Act, RowId>>)[i] =
                IF i <= k THEN i ELSE IF i = k + 1 THEN Act ELSE RowId
         /\ Append(KeySeq, Act) = [i \in 1..(k + 1) |-> IF i <= k THEN i ELSE Act]
         /\ Append(KeySeq, Act) \in Seq(Int) /\ KeySeq \in Seq(Int)
<1>1. k \in Nat /\ k > 0
  BY SortAssumption
<1>2. KeySeq = [i \in 1..k |-> i]
  BY DEF KeySeq
<1>3. KeySeq \in Seq(Int) /\ Len(KeySeq) = k /\ DOMAIN KeySeq = 1..k /\ \A i \in 1..k : KeySeq[i] = i
  <2>1. KeySeq \in [1..k -> Int]
    BY <1>1, <1>2
  <2>2. DOMAIN KeySeq = 1..k /\ \A i \in 1..k : KeySeq[i] = i
    BY <1>2
  <2> HIDE DEF KeySeq
  <2> QED BY <1>1, <2>1, <2>2, ListOf
<1> HIDE DEF KeySeq
<1> DEFINE ends == <<Act, RowId>>
<1>4. ends \in Seq(Int) /\ Len(ends) = 2 /\ ends[1] = Act /\ ends[2] = RowId
  BY DEF Act, RowId
<1> HIDE DEF ends
<1> DEFINE c == KeySeq \o ends
           two == 2
<1>5. c \in Seq(Int) /\ Len(c) = k + 2 /\ (\A i \in 1..k : c[i] = KeySeq[i])
      /\ \A i \in 1..2 : c[k + i] = ends[i]
  <2>1. two = Len(ends) /\ k = Len(KeySeq)
    BY <1>3, <1>4
  <2> HIDE DEF two
  <2>2. c \in Seq(Int) /\ ConsistsOf(c, KeySeq, k, ends, two)
    BY <1>3, <1>4, <2>1, Joined
  <2> QED BY <2>2 DEF ConsistsOf, two
<1> HIDE DEF c
<1>6. DOMAIN c = 1..(k + 2)
  BY <1>5
<1>7. \A i \in 1..(k + 2) : c[i] = IF i <= k THEN i ELSE IF i = k + 1 THEN Act ELSE RowId
  <2> TAKE i \in 1..(k + 2)
  <2>1. CASE i <= k
    BY <1>1, <1>3, <1>5, <2>1
  <2>2. CASE i = k + 1
    BY <1>1, <1>4, <1>5, <2>2
  <2>3. CASE i = k + 2
    BY <1>1, <1>4, <1>5, <2>3
  <2> QED BY <1>1, <2>1, <2>2, <2>3
<1> DEFINE some == Append(KeySeq, Act)
<1>8. some \in Seq(Int) /\ Len(some) = k + 1
      /\ \A i \in 1..(k + 1) : some[i] = IF i <= k THEN i ELSE Act
  <2>1. Act \in Int
    BY DEF Act
  <2>2. some \in Seq(Int) /\ Len(some) = Len(KeySeq) + 1
        /\ (\A i \in 1..Len(KeySeq) : some[i] = KeySeq[i]) /\ some[Len(KeySeq) + 1] = Act
    BY <1>3, <2>1, AppendProperties
  <2> HIDE DEF some
  <2> QED BY <1>1, <1>3, <2>2
<1> HIDE DEF some
<1>9. some = [i \in 1..(k + 1) |-> IF i <= k THEN i ELSE Act]
  <2>1. some = [i \in 1..(k + 1) |-> some[i]]
    BY <1>8
  <2> QED BY <1>8, <2>1
<1> QED BY <1>3, <1>6, <1>7, <1>8, <1>9 DEF c, ends, some

\* A frame's committed fields are list, which names the columns it commits.
Commits(f, list) ==
  MatFields(f) = list /\ f.mat = {list[i] : i \in DOMAIN list} /\ list \in Seq(Int)

\* A frame of these rows, which have no ids.
Plain(f, rows) == f.rows = rows /\ RowId \notin Names(f)
\* The rows contig_sort is given, sorted again.
Again == Sorted(ContigRows, NullsLast(query.specs))

LEMMA FramesCommit ==
  ASSUME NEW n, NEW k, QueryIs(n, k), NEW l \in Range(Labels)
  PROVE  /\ Commits(Planned[l], Schema(l))
         /\ Plain(Planned.rotated, Rotated(Again)) /\ Plain(Planned.ties, TieRows(Again))
         /\ Plain(Planned.diffs, DiffRows(query.types, query.specs, Again))
         /\ query.gadget = "sort" =>
              /\ Plain(Planned.output, Sorted(query.rows, query.specs))
              /\ Plain(Planned.table, ContigRows)
<1> DEFINE all == KeySeq \o <<Act, RowId>>
           some == Append(KeySeq, Act)
           data == Data(all)
           mat == data \cup {Act}
<1>1. k \in 1..MaxCols /\ KeyCount = k /\ query.gadget \in {"sort", "nodup"} /\ k \in Nat /\ k > 0
  BY SortAssumption DEF QueryIs
<1>2. DOMAIN KeySeq = 1..k /\ Len(KeySeq) = k /\ KeySeq = [i \in 1..k |-> i]
      /\ DOMAIN all = 1..(k + 2)
      /\ \A i \in 1..(k + 2) : all[i] = IF i <= k THEN i ELSE IF i = k + 1 THEN Act ELSE RowId
  BY <1>1, FieldsAre DEF KeySeq
<1>3. some = [i \in 1..(k + 1) |-> IF i <= k THEN i ELSE Act]
      /\ some \in Seq(Int) /\ KeySeq \in Seq(Int)
  BY <1>1, FieldsAre
<1>4. RowId \notin 1..k /\ Act \notin 1..k /\ Act # RowId
  BY DEF Act, RowId
<1> HIDE DEF all, some
<1>5. data = 1..k
  <2>1. \A x : x \in data <=> (\E i \in 1..(k + 2) : all[i] = x) /\ x # Act /\ x # RowId
    BY <1>2 DEF Data
  <2> HIDE DEF data
  <2>2. \A x \in 1..k : x \in data
    <3> TAKE x \in 1..k
    <3>1. x \in 1..(k + 2) /\ all[x] = x
      BY <1>1, <1>2
    <3> QED BY <1>4, <2>1, <3>1
  <2>3. \A x : x \in data => x \in 1..k
    <3> SUFFICES ASSUME NEW x \in data PROVE x \in 1..k
      OBVIOUS
    <3>1. PICK i \in 1..(k + 2) : all[i] = x
      BY <2>1
    <3> QED BY <1>1, <1>2, <2>1, <3>1
  <2> QED BY <2>2, <2>3
<1>6. \A i \in 1..(k + 2) : (all[i] \in 1..k <=> i \in 1..k) /\ (all[i] \in 1..k \cup {Act} <=> i \in 1..(k + 1))
  <2> TAKE i \in 1..(k + 2)
  <2>1. CASE i <= k
    BY <1>1, <1>2, <2>1
  <2>2. CASE i = k + 1
    BY <1>1, <1>2, <1>4, <2>2
  <2>3. CASE i = k + 2
    BY <1>1, <1>2, <1>4, <2>3
  <2> QED BY <1>1, <2>1, <2>2, <2>3
<1>7. Kept(all, mat) = some
  <2>1. \A i \in 1..(k + 2) : all[i] \in mat <=> i \in (0 + 1)..(0 + (k + 1))
    <3>1. mat = 1..k \cup {Act}
      BY <1>5
    <3>2. (0 + 1)..(0 + (k + 1)) = 1..(k + 1)
      BY <1>1
    <3> HIDE DEF mat
    <3> QED BY <1>6, <3>1, <3>2
  <2>2. k + 1 \in Nat /\ k + 2 \in Nat /\ 0 + (k + 1) <= k + 2
    BY <1>1
  <2> HIDE DEF mat
  <2>3. Kept(all, mat) = Part(all, 0, k + 1)
    BY <1>2, <2>1, <2>2, KeptPart
  <2>4. \A i \in 1..(k + 1) : all[0 + i] = IF i <= k THEN i ELSE Act
    BY <1>1, <1>2
  <2> QED BY <1>3, <2>3, <2>4 DEF Part
<1>8. Kept(all, 1..k) = KeySeq
  <2>1. \A i \in 1..(k + 2) : all[i] \in 1..k <=> i \in (0 + 1)..(0 + k)
    BY <1>1, <1>6
  <2>2. k + 2 \in Nat /\ 0 + k <= k + 2
    BY <1>1
  <2>3. Kept(all, 1..k) = Part(all, 0, k)
    BY <1>1, <1>2, <2>1, <2>2, KeptPart
  <2>4. \A i \in 1..k : all[0 + i] = i
    BY <1>1, <1>2
  <2> QED BY <1>2, <2>3, <2>4 DEF Part
<1>9. Kept(all, {}) = <<>>
  <2>1. Kept(all, {}) = Part(all, 0, 0)
    BY <1>1, <1>2, KeptPart
  <2> QED BY <2>1 DEF Part
<1>10. Kept(some, mat) = some
  <2>1. DOMAIN some = 1..(k + 1) /\ \A i \in 1..(k + 1) : some[i] \in mat
    BY <1>3, <1>5
  <2>2. k + 1 \in Nat /\ 0 + (k + 1) <= k + 1
        /\ \A i \in 1..(k + 1) : i \in (0 + 1)..(0 + (k + 1))
    BY <1>1
  <2> HIDE DEF mat
  <2>3. \A i \in 1..(k + 1) : some[i] \in mat <=> i \in (0 + 1)..(0 + (k + 1))
    BY <2>1, <2>2
  <2>4. Kept(some, mat) = Part(some, 0, k + 1)
    BY <2>1, <2>2, <2>3, KeptPart
  <2>5. \A i \in 1..(k + 1) : some[0 + i] = some[i]
    BY <1>1
  <2>6. Part(some, 0, k + 1) = [i \in 1..(k + 1) |-> some[i]]
    BY <2>5 DEF Part
  <2>7. some = [i \in 1..(k + 1) |-> some[i]]
    BY <1>3
  <2> QED BY <2>4, <2>6, <2>7
<1>11. Kept(KeySeq, Range(KeySeq)) = KeySeq
  <2>1. \A i \in 1..k : KeySeq[i] \in Range(KeySeq)
    BY <1>2 DEF Range
  <2>2. 0 + k <= k /\ \A i \in 1..k : i \in (0 + 1)..(0 + k)
    BY <1>1
  <2>3. Kept(KeySeq, Range(KeySeq)) = Part(KeySeq, 0, k)
    BY <1>1, <1>2, <2>1, <2>2, KeptPart
  <2>4. \A i \in 1..k : KeySeq[0 + i] = KeySeq[i]
    BY <1>1
  <2> QED BY <1>2, <2>3, <2>4 DEF Part
<1>12. mat = {some[i] : i \in DOMAIN some}
  <2>1. DOMAIN some = 1..(k + 1) /\ \A i \in 1..(k + 1) : some[i] \in mat
    BY <1>3, <1>5
  <2>2. \A x \in mat : \E i \in 1..(k + 1) : some[i] = x
    <3> TAKE x \in mat
    <3>1. CASE x \in 1..k
      <4>1. x \in 1..(k + 1) /\ x <= k
        BY <1>1, <3>1
      <4> QED BY <1>3, <4>1
    <3>2. CASE x = Act
      <4>1. k + 1 \in 1..(k + 1) /\ ~(k + 1 <= k)
        BY <1>1
      <4> QED BY <1>3, <3>2, <4>1
    <3> QED BY <1>5, <3>1, <3>2
  <2> HIDE DEF mat
  <2> QED BY <2>1, <2>2
<1>13. 1..k = {KeySeq[i] : i \in DOMAIN KeySeq}
  BY <1>2
<1>14. {all[i] : i \in DOMAIN all} \ {RowId} = mat
  <2> DEFINE names == {all[i] : i \in DOMAIN all}
  <2>1. names = mat \cup {RowId}
    <3>1. \A i \in 1..(k + 2) : all[i] \in 1..k \cup {Act, RowId}
      <4> TAKE i \in 1..(k + 2)
      <4>1. CASE i <= k
        BY <1>1, <1>2, <4>1
      <4>2. CASE i > k
        BY <1>1, <1>2, <4>2
      <4> QED BY <1>1, <4>1, <4>2
    <3>2. \A x \in 1..k : x \in 1..(k + 2) /\ all[x] = x
      BY <1>1, <1>2
    <3>3. k + 1 \in 1..(k + 2) /\ k + 2 \in 1..(k + 2) /\ all[k + 1] = Act /\ all[k + 2] = RowId
      BY <1>1, <1>2
    <3>4. \A x : x \in names <=> \E i \in 1..(k + 2) : all[i] = x
      BY <1>2
    <3> HIDE DEF names
    <3>5. \A x : x \in names => x \in 1..k \cup {Act, RowId}
      BY <3>1, <3>4
    <3>6. \A x \in 1..k \cup {Act, RowId} : x \in names
      BY <3>2, <3>3, <3>4
    <3>7. mat \cup {RowId} = 1..k \cup {Act, RowId}
      BY <1>5
    <3> QED BY <3>5, <3>6, <3>7
  <2>2. RowId \notin mat
    BY <1>4, <1>5
  <2> HIDE DEF names, mat
  <2>3. names \ {RowId} = mat
    BY <2>1, <2>2
  <2> QED BY <2>3 DEF names
<1>15. ASSUME NEW r, NEW m
       PROVE  Strip([fields |-> all, rows |-> r, mat |-> m]) = [fields |-> some, rows |-> r, mat |-> m]
  <2> DEFINE f == [fields |-> all, rows |-> r, mat |-> m]
  <2>1. Names(f) \ {RowId} = mat
    BY <1>14 DEF Names
  <2>2. Strip(f) = [f EXCEPT !.fields = Kept(all, mat)]
    BY <2>1 DEF Strip
  <2> HIDE DEF mat
  <2> QED BY <1>7, <2>2
<1>16. InputFrame = [fields |-> all, rows |-> query.rows, mat |-> mat]
  BY DEF InputFrame, Frame, all
<1>17. mat \ {Act} = data
  <2>1. Act \notin data
    BY <1>4, <1>5
  <2> HIDE DEF data
  <2> QED BY <2>1
<1> HIDE DEF mat, data
<1>18. \A r : [InputFrame EXCEPT !.rows = r] = [fields |-> all, rows |-> r, mat |-> mat]
  BY <1>16
<1> DEFINE sorted == Sorted(query.rows, query.specs)
           ids == [i \in DOMAIN sorted |-> [sorted[i] EXCEPT ![RowId] = i - 1]]
           rotated == Rotated(Again)
           differences == DiffRows(query.types, query.specs, Again)
           tied == TieRows(Again)
<1>19. LexSorted.fields = all /\ LexSorted.mat = data
  <2> DEFINE f == [fields |-> all, rows |-> query.rows, mat |-> mat]
  <2> HIDE DEF ids
  <2>1. [f EXCEPT !.rows = ids, !.mat = @ \ {Act}].fields = all
    OBVIOUS
  <2>2. [f EXCEPT !.rows = ids, !.mat = @ \ {Act}].mat = mat \ {Act}
    OBVIOUS
  <2> HIDE DEF f
  <2>3. InputFrame = f
    BY <1>16 DEF f
  <2>4. LexSorted = [InputFrame EXCEPT !.rows = ids, !.mat = @ \ {Act}]
    BY DEF LexSorted, ids
  <2> QED BY <1>17, <2>1, <2>2, <2>3, <2>4
<1>21. SortOutput = [fields |-> some, rows |-> sorted, mat |-> mat]
  <2>1. SortOutput = Strip([InputFrame EXCEPT !.rows = sorted])
    BY <1>16 DEF SortOutput
  <2> HIDE DEF sorted
  <2> QED BY <1>15, <1>18, <2>1
<1>22. TableFrame = IF query.gadget = "sort" THEN [fields |-> some, rows |-> ContigRows, mat |-> mat]
                    ELSE [fields |-> all, rows |-> ContigRows, mat |-> {}]
  <2> DEFINE f == [fields |-> all, rows |-> ContigRows, mat |-> mat]
  <2>1. [InputFrame EXCEPT !.rows = ContigRows] = f
    BY <1>18
  <2>2. Strip(f) = [fields |-> some, rows |-> ContigRows, mat |-> mat]
    BY <1>15
  <2>3. [f EXCEPT !.mat = {}] = [fields |-> all, rows |-> ContigRows, mat |-> {}]
    OBVIOUS
  <2> HIDE DEF f
  <2> QED BY <2>1, <2>2, <2>3 DEF TableFrame
<1>23. RotatedFrame = [fields |-> some, rows |-> rotated, mat |-> mat]
  <2>1. RotatedFrame = Strip([InputFrame EXCEPT !.rows = rotated])
    BY DEF RotatedFrame, Again
  <2> HIDE DEF rotated
  <2> QED BY <1>15, <1>18, <2>1
<1>24. DiffFrame = [fields |-> KeySeq, rows |-> differences, mat |-> Range(KeySeq)]
  BY DEF DiffFrame, Frame, Again
<1>25. TieFrame = [fields |-> TieFields(k), rows |-> tied, mat |-> Range(TieFields(k))]
  BY <1>1 DEF TieFrame, Frame, Again
<1> HIDE DEF sorted, ids, rotated, differences, tied
<1>26. Commits(InputFrame, some) /\ Commits(SortOutput, some) /\ Commits(RotatedFrame, some)
  BY <1>3, <1>7, <1>10, <1>12, <1>16, <1>21, <1>23 DEF Commits, MatFields
<1>27. Commits(LexSorted, KeySeq)
  BY <1>3, <1>5, <1>8, <1>13, <1>19 DEF Commits, MatFields
<1>28. Commits(DiffFrame, KeySeq)
  BY <1>3, <1>11, <1>24 DEF Commits, MatFields, Range
<1>29. Commits(TableFrame, IF query.gadget = "sort" THEN some ELSE <<>>)
  <2>1. CASE query.gadget = "sort"
    BY <1>3, <1>10, <1>12, <1>22, <2>1 DEF Commits, MatFields
  <2>2. CASE query.gadget # "sort"
    <3>1. MatFields(TableFrame) = <<>> /\ TableFrame.mat = {}
      BY <1>9, <1>22, <2>2 DEF MatFields
    <3>2. <<>> \in Seq(Int) /\ DOMAIN <<>> = {}
      OBVIOUS
    <3> QED BY <2>2, <3>1, <3>2 DEF Commits
  <2> QED BY <2>1, <2>2
<1>30. Commits(TieFrame, TieFields(k))
  <2> DEFINE list == TieFields(k)
             m == IF k = 1 THEN 1 ELSE k - 1
  <2>1. m \in Nat /\ list \in [1..m -> Int]
    BY <1>1, SortAssumption DEF TieFields, FirstTie
  <2> HIDE DEF list, m
  <2>2. list \in Seq(Int) /\ Len(list) = m /\ DOMAIN list = 1..m
    BY <2>1, ListOf
  <2>3. \A i \in 1..m : list[i] \in Range(list) /\ i \in (0 + 1)..(0 + m)
    BY <2>1, <2>2 DEF Range
  <2>4. Kept(list, Range(list)) = Part(list, 0, m)
    BY <2>1, <2>2, <2>3, KeptPart
  <2>5. Kept(list, Range(list)) = list
    BY <2>1, <2>4 DEF Part
  <2>6. TieFrame = [fields |-> list, rows |-> tied, mat |-> Range(list)]
    BY <1>25 DEF list
  <2>7. Commits(TieFrame, list)
    BY <2>2, <2>5, <2>6 DEF Commits, MatFields, Range
  <2> QED BY <2>7 DEF list
<1>31. Schema("ties") = TieFields(k)
  BY <1>1 DEF Schema, TieFields
<1>32. Schema("input") = some /\ Schema("rotated") = some /\ Schema("diffs") = KeySeq
       /\ Schema("output") = (IF query.gadget = "sort" THEN some ELSE KeySeq)
       /\ Schema("table") = (IF query.gadget = "sort" THEN some ELSE <<>>)
  BY DEF Schema, some
<1>33. Commits(OutputFrame, Schema("output"))
  BY <1>1, <1>26, <1>27, <1>32 DEF OutputFrame
<1>34. l \in {"input", "output", "table", "rotated", "ties", "diffs"}
  BY DEF Labels, Range
<1>35. Commits(Planned[l], Schema(l))
  BY <1>26, <1>28, <1>29, <1>30, <1>31, <1>32, <1>33, <1>34 DEF Planned
<1>36. (\A i \in DOMAIN some : some[i] # RowId) /\ (\A i \in DOMAIN KeySeq : KeySeq[i] # RowId)
       /\ \A i \in DOMAIN TieFields(k) : TieFields(k)[i] # RowId
  BY <1>1, <1>2, <1>3, <1>4, SortAssumption DEF TieFields, FirstTie, RowId
<1>37. Plain(RotatedFrame, rotated) /\ Plain(SortOutput, sorted)
       /\ (query.gadget = "sort" => Plain(TableFrame, ContigRows))
  BY <1>21, <1>22, <1>23, <1>36 DEF Plain, Names
<1>38. Plain(DiffFrame, differences) /\ Plain(TieFrame, tied)
  BY <1>24, <1>25, <1>36 DEF Plain, Names
<1>39. query.gadget = "sort" => Plain(OutputFrame, sorted)
  BY <1>37 DEF OutputFrame
<1> QED BY <1>35, <1>37, <1>38, <1>39 DEF Planned, rotated, differences, tied, sorted

\* Six lists one after the other.
SixLists(L) == L = [i \in 1..6 |-> L[i]]
LEMMA FlattenSix ==
  ASSUME NEW L, SixLists(L)
  PROVE  FlattenSeq(L) = L[1] \o L[2] \o L[3] \o L[4] \o L[5] \o L[6]
<1> DEFINE join(x, i) == x \o L[i]
           p2 == join(L[1], 2)
           p3 == join(p2, 3)
           p4 == join(p3, 4)
           p5 == join(p4, 5)
           p6 == join(p5, 6)
           Is(f) == f = [i \in 1..6 |-> IF i = 1 THEN L[i] ELSE join(f[i - 1], i)]
           g == [i \in 1..6 |-> CASE i = 1 -> L[1] [] i = 2 -> p2 [] i = 3 -> p3
                                  [] i = 4 -> p4 [] i = 5 -> p5 [] i = 6 -> p6]
           h == CHOOSE f : Is(f)
<1> USE DEF SixLists
<1>1. L[1] \o L[2] \o L[3] \o L[4] \o L[5] \o L[6] = p6 /\ Len(L) = 6
  OBVIOUS
<1>2. FlattenSeq(L) = h[6]
  BY <1>1 DEF FlattenSeq
<1> HIDE DEF join
<1>3. Is(g)
  <2>1. g[1] = L[1] /\ g[2] = p2 /\ g[3] = p3 /\ g[4] = p4 /\ g[5] = p5 /\ g[6] = p6
    <3> HIDE DEF p2, p3, p4, p5, p6
    <3> QED OBVIOUS
  <2>2. g = [i \in 1..6 |-> g[i]]
    OBVIOUS
  <2> HIDE DEF g
  <2>3. \A i \in 1..6 : g[i] = IF i = 1 THEN L[i] ELSE join(g[i - 1], i)
    <3> TAKE i \in 1..6
    <3>1. g[2] = join(g[1], 2) /\ g[3] = join(g[2], 3) /\ g[4] = join(g[3], 4)
          /\ g[5] = join(g[4], 5) /\ g[6] = join(g[5], 6)
      BY <2>1
    <3>2. i = 1 \/ i = 2 \/ i = 3 \/ i = 4 \/ i = 5 \/ i = 6
      OBVIOUS
    <3> QED BY <2>1, <3>1, <3>2
  <2> QED BY <2>2, <2>3
<1>4. Is(h)
  <2> HIDE DEF Is
  <2> QED BY <1>3
<1> HIDE DEF h
<1>5. h[1] = L[1] /\ h[2] = join(h[1], 2) /\ h[3] = join(h[2], 3) /\ h[4] = join(h[3], 4)
      /\ h[5] = join(h[4], 5) /\ h[6] = join(h[5], 6)
  BY <1>4
<1> QED BY <1>1, <1>2, <1>5

\* Column c of hint table l, for x = <<l, c>>.
ColumnOf(x) == EncodedColumns(Planned[x[1]])[x[2]]
ColumnNames == Range(Labels) \X Int
\* A list of columns, by names; there are columns of all the names in some.
Listed(names, columns, some) ==
  /\ names \in Seq(ColumnNames) /\ columns \in Seq({ColumnOf(x) : x \in ColumnNames})
  /\ Len(columns) = Len(names)
  /\ \A i \in 1..Len(names) : columns[i] = ColumnOf(names[i])
  /\ \A x \in some : \E i \in 1..Len(names) : names[i] = x

LEMMA ListedJoin ==
  ASSUME NEW a, NEW b, NEW x, NEW c, NEW d, NEW y, Listed(a, b, x), Listed(c, d, y)
  PROVE  Listed(a \o c, b \o d, x \cup y)
<1> DEFINE m == Len(a)
           n == Len(c)
           T == {ColumnOf(z) : z \in ColumnNames}
<1>1. a \in Seq(ColumnNames) /\ c \in Seq(ColumnNames) /\ b \in Seq(T) /\ d \in Seq(T)
  BY DEF Listed
<1>2. m \in Nat /\ n \in Nat /\ m = Len(a) /\ n = Len(c) /\ m = Len(b) /\ n = Len(d)
  BY DEF Listed
<1>3. /\ \A i \in 1..m : b[i] = ColumnOf(a[i])
      /\ \A i \in 1..n : d[i] = ColumnOf(c[i])
      /\ \A z \in x : \E i \in 1..m : a[i] = z
      /\ \A z \in y : \E i \in 1..n : c[i] = z
  BY DEF Listed
<1> HIDE DEF m, n, T
<1> DEFINE u == a \o c
           v == b \o d
<1>4. u \in Seq(ColumnNames) /\ ConsistsOf(u, a, m, c, n)
  BY <1>1, <1>2, Joined
<1>5. v \in Seq(T) /\ ConsistsOf(v, b, m, d, n)
  BY <1>1, <1>2, Joined
<1> HIDE DEF u, v
<1>6. Len(u) = m + n /\ Len(v) = m + n /\ (\A i \in 1..m : u[i] = a[i] /\ v[i] = b[i])
      /\ \A i \in 1..n : u[m + i] = c[i] /\ v[m + i] = d[i]
  BY <1>4, <1>5 DEF ConsistsOf
<1>7. \A i \in 1..(m + n) : v[i] = ColumnOf(u[i])
  <2> TAKE i \in 1..(m + n)
  <2>1. CASE i <= m
    BY <1>2, <1>3, <1>6, <2>1
  <2>2. CASE i > m
    <3>1. i - m \in 1..n /\ m + (i - m) = i
      BY <1>2, <2>2
    <3> QED BY <1>3, <1>6, <3>1
  <2> QED BY <1>2, <2>1, <2>2
<1>8. \A z \in x \cup y : \E i \in 1..(m + n) : u[i] = z
  <2> TAKE z \in x \cup y
  <2>1. CASE z \in x
    <3>1. PICK i \in 1..m : a[i] = z
      BY <1>3, <2>1
    <3>2. i \in 1..(m + n)
      BY <1>2
    <3> QED BY <1>6, <3>1, <3>2
  <2>2. CASE z \in y
    <3>1. PICK i \in 1..n : c[i] = z
      BY <1>3, <2>2
    <3>2. m + i \in 1..(m + n)
      BY <1>2
    <3> QED BY <1>6, <3>1, <3>2
  <2> QED BY <2>1, <2>2
<1>9. v \in Seq({ColumnOf(z) : z \in ColumnNames})
  BY <1>5 DEF T
<1> QED BY <1>4, <1>6, <1>7, <1>8, <1>9 DEF Listed, u, v

\* The names of a frame's columns, and these columns.
NamesOf(l) == [i \in DOMAIN Schema(l) |-> <<l, Schema(l)[i]>>]
ColumnsNamed(l) == {<<l, c>> : c \in Range(Schema(l))}

LEMMA FrameListed ==
  ASSUME NEW n, NEW k, QueryIs(n, k), NEW l \in Range(Labels)
  PROVE  Listed(NamesOf(l), Commitments(Planned[l]), ColumnsNamed(l))
<1> DEFINE list == Schema(l)
           f == Planned[l]
           e == EncodedColumns(f)
           m == Len(list)
           T == {ColumnOf(x) : x \in ColumnNames}
           cs == Commitments(f)
           names == NamesOf(l)
<1>1. MatFields(f) = list /\ list \in Seq(Int)
  BY FramesCommit DEF Commits
<1>2. cs = [i \in DOMAIN list |-> e[list[i]]]
  BY <1>1 DEF Commitments
<1>3. m \in Nat /\ DOMAIN list = 1..m /\ \A i \in 1..m : list[i] \in Int
  BY <1>1
<1>4. \A i \in 1..m : <<l, list[i]>> \in ColumnNames /\ ColumnOf(<<l, list[i]>>) = e[list[i]]
  BY <1>3 DEF ColumnNames, ColumnOf
<1>5. names = [i \in 1..m |-> <<l, list[i]>>]
  BY <1>3 DEF NamesOf
<1> HIDE DEF names, list, f, e, m, cs
<1>6. names \in Seq(ColumnNames) /\ Len(names) = m
  <2>1. names \in [1..m -> ColumnNames]
    BY <1>4, <1>5
  <2> QED BY <1>3, <2>1, ListOf
<1>7. cs \in Seq(T) /\ Len(cs) = m
  <2>1. \A i \in 1..m : e[list[i]] \in T
    BY <1>4
  <2> HIDE DEF T
  <2>2. cs \in [1..m -> T]
    BY <1>2, <1>3, <2>1
  <2> QED BY <1>3, <2>2, ListOf
<1>8. \A i \in 1..m : cs[i] = ColumnOf(names[i])
  BY <1>2, <1>3, <1>4, <1>5
<1>9. \A x \in ColumnsNamed(l) : \E i \in 1..m : names[i] = x
  <2> TAKE x \in ColumnsNamed(l)
  <2>1. PICK c \in Range(list) : x = <<l, c>>
    BY DEF ColumnsNamed, list
  <2>2. PICK i \in 1..m : list[i] = c
    BY <1>3 DEF Range
  <2> QED BY <1>5, <2>1, <2>2
<1>10. Listed(names, cs, ColumnsNamed(l))
  BY <1>6, <1>7, <1>8, <1>9 DEF Listed
<1> QED BY <1>10 DEF names, cs, f

\* What the proof holds, the tables the prover has, and what the verifier reads.
PlannedComs == FlattenSeq([l \in DOMAIN Labels |-> Commitments(Planned[Labels[l]])])
PlannedTables == [l \in Range(Labels) |-> EncodedColumns(Planned[l])]
ReadOff(list) ==
  [l \in Range(Labels) |-> [c \in Range(Schema(l)) |->
    list[CHOOSE i \in DOMAIN SchemaColumns : SchemaColumns[i] = <<l, c>>]]]

LEMMA LabelsAre ==
  DOMAIN Labels = 1..6 /\ Range(Labels) = {"input", "output", "table", "rotated", "ties", "diffs"}
<1>1. DOMAIN Labels = 1..6 /\ \A i \in 1..6 : Labels[i] \in {"input", "output", "table", "rotated", "ties", "diffs"}
  BY DEF Labels
<1>2. Labels[1] = "input" /\ Labels[2] = "output" /\ Labels[3] = "table" /\ Labels[4] = "rotated"
      /\ Labels[5] = "ties" /\ Labels[6] = "diffs"
  BY DEF Labels
<1> QED BY <1>1, <1>2 DEF Range

LEMMA ColumnsRead ==
  ASSUME NEW n, NEW k, QueryIs(n, k)
  PROVE  ReadOff(PlannedComs) = PlannedTables
<1> DEFINE names == [l \in DOMAIN Labels |-> NamesOf(Labels[l])]
           lists == [l \in DOMAIN Labels |-> Commitments(Planned[Labels[l]])]
           N(l) == NamesOf(Labels[l])
           C(l) == Commitments(Planned[Labels[l]])
           X(l) == ColumnsNamed(Labels[l])
<1>1. DOMAIN Labels = 1..6 /\ \A l \in 1..6 : Labels[l] \in Range(Labels)
  BY LabelsAre DEF Range
<1>2. \A l \in 1..6 : Listed(N(l), C(l), X(l))
  BY <1>1, FrameListed
<1>3. FlattenSeq(names) = N(1) \o N(2) \o N(3) \o N(4) \o N(5) \o N(6)
  <2>1. SixLists(names) /\ \A l \in 1..6 : names[l] = N(l)
    BY <1>1 DEF SixLists
  <2> HIDE DEF names, N
  <2>2. FlattenSeq(names) = names[1] \o names[2] \o names[3] \o names[4] \o names[5] \o names[6]
    BY <2>1, FlattenSix
  <2>3. names[1] = N(1) /\ names[2] = N(2) /\ names[3] = N(3) /\ names[4] = N(4)
        /\ names[5] = N(5) /\ names[6] = N(6)
    BY <2>1
  <2> QED BY <2>2, <2>3
<1>4. FlattenSeq(lists) = C(1) \o C(2) \o C(3) \o C(4) \o C(5) \o C(6)
  <2>1. SixLists(lists) /\ \A l \in 1..6 : lists[l] = C(l)
    BY <1>1 DEF SixLists
  <2> HIDE DEF lists, C
  <2>2. FlattenSeq(lists) = lists[1] \o lists[2] \o lists[3] \o lists[4] \o lists[5] \o lists[6]
    BY <2>1, FlattenSix
  <2>3. lists[1] = C(1) /\ lists[2] = C(2) /\ lists[3] = C(3) /\ lists[4] = C(4)
        /\ lists[5] = C(5) /\ lists[6] = C(6)
    BY <2>1
  <2> QED BY <2>2, <2>3
<1>5. SchemaColumns = FlattenSeq(names) /\ PlannedComs = FlattenSeq(lists)
  BY DEF SchemaColumns, NamesOf, PlannedComs
<1> HIDE DEF names, lists, N, C
<1> DEFINE all == X(1) \cup X(2) \cup X(3) \cup X(4) \cup X(5) \cup X(6)
<1>6. Listed(SchemaColumns, PlannedComs, all)
  <2> HIDE DEF X
  <2>1. Listed(N(1) \o N(2), C(1) \o C(2), X(1) \cup X(2))
    BY <1>2, ListedJoin
  <2>2. Listed(N(1) \o N(2) \o N(3), C(1) \o C(2) \o C(3), X(1) \cup X(2) \cup X(3))
    BY <1>2, <2>1, ListedJoin
  <2>3. Listed(N(1) \o N(2) \o N(3) \o N(4), C(1) \o C(2) \o C(3) \o C(4),
               X(1) \cup X(2) \cup X(3) \cup X(4))
    BY <1>2, <2>2, ListedJoin
  <2>4. Listed(N(1) \o N(2) \o N(3) \o N(4) \o N(5), C(1) \o C(2) \o C(3) \o C(4) \o C(5),
               X(1) \cup X(2) \cup X(3) \cup X(4) \cup X(5))
    BY <1>2, <2>3, ListedJoin
  <2>5. Listed(N(1) \o N(2) \o N(3) \o N(4) \o N(5) \o N(6),
               C(1) \o C(2) \o C(3) \o C(4) \o C(5) \o C(6), all)
    BY <1>2, <2>4, ListedJoin
  <2> QED BY <1>3, <1>4, <1>5, <2>5
<1>7. \A l \in Range(Labels) : ColumnsNamed(l) \subseteq all
  <2> TAKE l \in Range(Labels)
  <2>1. PICK i \in 1..6 : Labels[i] = l
    BY <1>1 DEF Range
  <2>2. ColumnsNamed(l) = X(i)
    BY <2>1
  <2> HIDE DEF X
  <2>3. i = 1 \/ i = 2 \/ i = 3 \/ i = 4 \/ i = 5 \/ i = 6
    OBVIOUS
  <2> QED BY <2>2, <2>3
<1> HIDE DEF all
<1>8. ASSUME NEW l \in Range(Labels), NEW c \in Range(Schema(l))
      PROVE  PlannedComs[CHOOSE i \in DOMAIN SchemaColumns : SchemaColumns[i] = <<l, c>>]
             = EncodedColumns(Planned[l])[c]
  <2> DEFINE at == CHOOSE i \in DOMAIN SchemaColumns : SchemaColumns[i] = <<l, c>>
  <2>1. <<l, c>> \in all
    BY <1>7 DEF ColumnsNamed
  <2>2. \E i \in 1..Len(SchemaColumns) : SchemaColumns[i] = <<l, c>>
    BY <1>6, <2>1 DEF Listed
  <2>3. DOMAIN SchemaColumns = 1..Len(SchemaColumns)
    BY <1>6 DEF Listed
  <2>4. at \in 1..Len(SchemaColumns) /\ SchemaColumns[at] = <<l, c>>
    BY <2>2, <2>3
  <2> HIDE DEF at
  <2>5. PlannedComs[at] = ColumnOf(<<l, c>>)
    BY <1>6, <2>4 DEF Listed
  <2> QED BY <2>5 DEF ColumnOf, at
<1>9. \A l \in Range(Labels) : EncodedColumns(Planned[l]) = [c \in Range(Schema(l)) |-> EncodedColumns(Planned[l])[c]]
  <2> TAKE l \in Range(Labels)
  <2> DEFINE f == Planned[l]
  <2>1. f.mat = Range(Schema(l))
    BY FramesCommit DEF Commits, Range
  <2> HIDE DEF f
  <2>2. EncodedColumns(f) = [c \in f.mat |-> EncodedColumns(f)[c]]
    BY DEF EncodedColumns
  <2> QED BY <2>1, <2>2 DEF f
<1>10. \A l \in Range(Labels) :
         [c \in Range(Schema(l)) |->
           PlannedComs[CHOOSE i \in DOMAIN SchemaColumns : SchemaColumns[i] = <<l, c>>]]
         = EncodedColumns(Planned[l])
  BY <1>8, <1>9
<1> QED BY <1>10 DEF ReadOff, PlannedTables

-----------------------------------------------------------------------------
(* The shift: what the verifier evaluates by its bits is the rotation.     *)

LEMMA Quotients ==
  ASSUME NEW a \in Nat, NEW b \in Nat, b > 0
  PROVE  /\ a < b => a \div b = 0
         /\ b <= a /\ a < 2 * b => a \div b = 1
OBVIOUS

\* Bits of a number below 2^bits, compared with one's.
LEMMA AtLeastOne ==
  ASSUME NEW bits \in Nat \ {0}, NEW x \in Nat, x < TwoTo[bits]
  PROVE  AtLeast(x, 1, bits) <=> x >= 1
<1>1. \A j \in Nat : TwoTo[j] \in Nat /\ TwoTo[j] > j
  BY PowerAbove
<1>2. Bit(1, 0) = 1 /\ Bit(0, 0) = 0
  BY Doubling DEF Bit
<1>3. \A j \in Nat : j > 0 => Bit(1, j) = 0
  <2> TAKE j \in Nat
  <2> HAVE j > 0
  <2> DEFINE b == TwoTo[j]
  <2>1. b \in Nat /\ 1 < b
    BY <1>1
  <2> HIDE DEF b
  <2>2. 1 \div b = 0
    BY <2>1, Quotients
  <2> QED BY <2>2 DEF Bit, b
<1>4. \A j \in Nat : Bit(0, j) = 0
  <2> TAKE j \in Nat
  <2> DEFINE b == TwoTo[j]
  <2>1. b \in Nat /\ 0 < b
    BY <1>1
  <2> HIDE DEF b
  <2>2. 0 \div b = 0
    BY <2>1, Quotients
  <2> QED BY <2>2 DEF Bit, b
<1>5. CASE x = 0
  <2>1. \A j \in 0..(bits - 1) : Bit(x, j) # 1
    BY <1>4, <1>5
  <2>2. 0 \in 0..(bits - 1) /\ Bit(x, 0) # Bit(1, 0)
    BY <1>2, <1>5
  <2> QED BY <1>5, <2>1, <2>2 DEF AtLeast
<1>6. CASE x >= 1
  <2> DEFINE S == {j \in Nat : x < TwoTo[j]}
  <2>1. S \in SUBSET Nat /\ x \in S
    BY <1>1
  <2>2. \A j : j \in S <=> j \in Nat /\ x < TwoTo[j]
    OBVIOUS
  <2> HIDE DEF S
  <2>3. PICK h \in S : \A j \in S : h <= j
    BY <2>1, Least
  <2>4. h # 0 /\ h \in Nat
    BY <1>6, <2>2, <2>3, Doubling
  <2> DEFINE g == h - 1
  <2>5. g \in Nat /\ g + 1 = h /\ g \notin S
    BY <2>3, <2>4
  <2> DEFINE b == TwoTo[g]
  <2>6. b \in Nat /\ b > 0 /\ b <= x /\ x < 2 * b
    BY <1>1, <2>2, <2>3, <2>5, Doubling
  <2> HIDE DEF b
  <2>7. Bit(x, g) = 1
    <3>1. x \div b = 1
      BY <2>6, Quotients
    <3> QED BY <3>1 DEF Bit, b
  <2>8. h <= bits
    <3>1. bits \in S
      BY <2>2
    <3> QED BY <2>3, <3>1
  <2>9. \A j \in Nat : j > g => Bit(x, j) = 0 /\ Bit(1, j) = 0
    <3> TAKE j \in Nat
    <3> HAVE j > g
    <3> DEFINE c == TwoTo[j]
    <3>1. TwoTo[h] <= c
      <4>1. h = j \/ h < j
        BY <2>5
      <4>2. TwoTo[h] \in Nat /\ c \in Nat /\ (h < j => 2 * TwoTo[h] <= c)
        BY <1>1, <2>4, PowerRises
      <4> QED BY <4>1, <4>2
    <3>2. c \in Nat /\ x < c
      <4>1. TwoTo[h] \in Nat /\ c \in Nat /\ x < TwoTo[h]
        BY <1>1, <2>2, <2>3, <2>4
      <4> QED BY <3>1, <4>1
    <3> HIDE DEF c
    <3>3. x \div c = 0
      BY <3>2, Quotients
    <3>4. j > 0
      BY <2>5
    <3> QED BY <1>3, <3>3, <3>4 DEF Bit, c
  <2> HIDE DEF g
  <2>10. g \in 0..(bits - 1) /\ \A j \in (g + 1)..(bits - 1) : j \in Nat /\ j > g
    BY <2>5, <2>8
  <2>11. CASE g > 0
    <3>1. Bit(1, g) = 0
      BY <1>3, <2>5, <2>11
    <3>2. \A j \in (g + 1)..(bits - 1) : Bit(x, j) = Bit(1, j)
      BY <2>9, <2>10
    <3> QED BY <1>6, <2>7, <2>10, <3>1, <3>2 DEF AtLeast
  <2>12. CASE g = 0
    <3>1. \A j \in 0..(bits - 1) : Bit(x, j) = Bit(1, j)
      <4> TAKE j \in 0..(bits - 1)
      <4>1. CASE j = 0
        BY <1>2, <2>7, <2>12, <4>1
      <4>2. CASE j # 0
        BY <2>9, <2>12, <4>2
      <4> QED BY <4>1, <4>2
    <3> QED BY <1>6, <3>1 DEF AtLeast
  <2> QED BY <2>5, <2>11, <2>12
<1> QED BY <1>5, <1>6

LEMMA ShiftsAgree ==
  ASSUME NEW q \in Nat, NEW s \in {0, 1}
  PROVE  ShiftOracle(TwoTo[q], s) = ShiftColumn(TwoTo[q], s)
<1> DEFINE n == TwoTo[q]
           bits == Log2(n)
           shift == s % n
           late(i) == shift # 0 /\ AtLeast(i - 1, shift, bits)
<1>1. n \in Nat /\ n > q
  BY PowerAbove
<1>2. bits \in Nat /\ TwoTo[bits] = n
  <2>1. q \in 0..n /\ TwoTo[q] = n
    BY <1>1
  <2>2. bits \in 0..n /\ TwoTo[bits] = n
    <3> HIDE DEF n
    <3> QED BY <2>1 DEF Log2
  <2> QED BY <2>2
<1>3. ShiftOracle(n, s) = [i \in 1..n |-> i - 1 + ((n - shift) % n) - (IF late(i) THEN n ELSE 0)]
  BY DEF ShiftOracle
<1> HIDE DEF n, bits
<1>4. ASSUME NEW i \in 1..n
      PROVE  i - 1 + ((n - shift) % n) - (IF late(i) THEN n ELSE 0) = (i - 1 - s) % n
  <2>1. CASE s = 0
    <3>1. shift = 0 /\ (n - 0) % n = 0 /\ (i - 1 - 0) % n = i - 1
      BY <1>1, <2>1
    <3> QED BY <1>1, <2>1, <3>1
  <2>2. CASE s = 1 /\ n = 1
    <3>1. shift = 0
      BY <2>2
    <3> QED BY <2>2, <3>1
  <2>3. CASE s = 1 /\ n > 1
    <3>1. shift = 1 /\ (n - 1) % n = n - 1
      BY <1>1, <2>3
    <3>2. bits # 0
      BY <1>2, <2>3, Doubling
    <3>3. i - 1 \in Nat /\ i - 1 < TwoTo[bits]
      BY <1>1, <1>2
    <3>4. late(i) <=> i - 1 >= 1
      <4>1. AtLeast(i - 1, 1, bits) <=> i - 1 >= 1
        BY <1>2, <3>2, <3>3, AtLeastOne
      <4> QED BY <3>1, <4>1
    <3> HIDE DEF late, shift
    <3>5. CASE i = 1
      <4>1. (0 - 1) % n = n - 1
        BY <1>1, <2>3
      <4> QED BY <1>1, <2>3, <3>1, <3>4, <3>5, <4>1
    <3>6. CASE i > 1
      <4>1. (i - 1 - 1) % n = i - 2
        BY <1>1, <3>6
      <4> QED BY <1>1, <2>3, <3>1, <3>4, <3>6, <4>1
    <3> QED BY <3>5, <3>6
  <2> QED BY <1>1, <2>1, <2>2, <2>3
<1> HIDE DEF late, shift
<1>5. ShiftOracle(n, s) = ShiftColumn(n, s)
  BY <1>3, <1>4 DEF ShiftColumn
<1> QED BY <1>5 DEF n

-----------------------------------------------------------------------------
(* The rows contig_sort is given, and their tables.                        *)

\* NoDup and contig_sort have NULLs last.
LEMMA NullsLastOk ==
  ASSUME NEW specs, NEW k, SpecsFor(specs, k)
  PROVE  /\ SpecsFor(NullsLast(specs), k)
         /\ \A c \in 1..k : NullsLast(specs)[c].asc = specs[c].asc
                            /\ NullsLast(specs)[c].nullsFirst = FALSE
<1> DEFINE last == NullsLast(specs)
<1>1. k \in Nat /\ DOMAIN specs = 1..k
      /\ \A c \in 1..k : specs[c] \in [asc : BOOLEAN, nullsFirst : BOOLEAN]
  BY DEF SpecsFor
<1>2. last = [c \in 1..k |-> [specs[c] EXCEPT !.nullsFirst = FALSE]]
  BY <1>1 DEF NullsLast
<1>3. DOMAIN last = 1..k /\ Len(last) = k
  BY <1>1, <1>2
<1>4. \A c \in 1..k : last[c] \in [asc : BOOLEAN, nullsFirst : BOOLEAN]
                     /\ last[c].asc = specs[c].asc /\ last[c].nullsFirst = FALSE
  <2> TAKE c \in 1..k
  <2> DEFINE spec == specs[c]
  <2>1. last[c] = [spec EXCEPT !.nullsFirst = FALSE] /\ spec \in [asc : BOOLEAN, nullsFirst : BOOLEAN]
    BY <1>1, <1>2
  <2> HIDE DEF spec, last
  <2> QED BY <2>1 DEF spec
<1> HIDE DEF last
<1> QED BY <1>1, <1>3, <1>4 DEF last, SpecsFor

\* What contig_sort sorts.
Given == IF query.gadget = "sort" THEN Sorted(query.rows, query.specs) ELSE LexSorted.rows

LEMMA GivenRows ==
  ASSUME NEW n, NEW k, QueryIs(n, k)
  PROVE  /\ RowsFor(Given, n, k)
         /\ \A i \in 1..n : /\ Given[i][Act] = Sorted(query.rows, query.specs)[i][Act]
                            /\ SameUpTo(Given[i], Sorted(query.rows, query.specs)[i], k)
         /\ query.gadget = "sort" => Given = Sorted(query.rows, query.specs)
         /\ query.gadget = "nodup" =>
              Rising(Given, query.specs, n) /\ \A i \in 1..n : Given[i][RowId] = i - 1
<1> DEFINE s == Sorted(query.rows, query.specs)
<1>1. RowsFor(query.rows, n, k) /\ SpecsFor(query.specs, k) /\ query.gadget \in {"sort", "nodup"}
      /\ k \in 1..MaxCols
  BY DEF QueryIs
<1>2. RowsFor(s, n, k) /\ Rising(s, query.specs, n)
  BY <1>1, SortedRises
<1>3. CASE query.gadget = "sort"
  <2>1. Given = s /\ query.gadget # "nodup"
    BY <1>3 DEF Given
  <2>2. \A i \in 1..n : SameUpTo(s[i], s[i], k)
    BY DEF SameUpTo
  <2> HIDE DEF s
  <2> QED BY <1>2, <2>1, <2>2 DEF s
<1>4. CASE query.gadget = "nodup"
  <2> DEFINE g == [i \in DOMAIN s |-> [s[i] EXCEPT ![RowId] = i - 1]]
  <2>1. Given = g
    <3>1. DOMAIN InputFrame = {"fields", "rows", "mat"}
      BY DEF InputFrame, Frame
    <3>2. LexSorted.rows = g
      <4> HIDE DEF g
      <4>1. LexSorted = [InputFrame EXCEPT !.rows = g, !.mat = @ \ {Act}]
        BY DEF LexSorted, g
      <4> QED BY <3>1, <4>1
    <3> QED BY <1>4, <3>2 DEF Given
  <2> HIDE DEF s
  <2>2. n \in Nat /\ DOMAIN s = 1..n /\ \A i \in 1..n : DOMAIN s[i] = RowNames
    BY <1>2 DEF RowsFor
  <2>3. DOMAIN g = 1..n /\ \A i \in 1..n : g[i] = [s[i] EXCEPT ![RowId] = i - 1]
    BY <2>2
  <2>4. Len(g) = n
    BY <2>2
  <2> HIDE DEF g
  <2>5. ASSUME NEW i \in 1..n
        PROVE  DOMAIN g[i] = RowNames /\ g[i][RowId] = i - 1 /\ g[i][Act] = s[i][Act]
               /\ \A c \in 1..k : g[i][c] = s[i][c]
    <3>1. \A c \in 1..k : c \in RowNames /\ c # RowId
      BY <1>1, SortAssumption DEF RowNames, RowId
    <3> QED BY <2>2, <2>3, <3>1, NamesOfRows
  <2>6. \A i \in 1..n : SameUpTo(g[i], s[i], k)
    BY <2>5 DEF SameUpTo
  <2>7. \A i, j \in 1..n : g[i][RowId] = g[j][RowId] => i = j
    <3> TAKE i, j \in 1..n
    <3>1. g[i][RowId] = i - 1 /\ g[j][RowId] = j - 1
      BY <2>5
    <3> QED BY <2>2, <3>1
  <2>8. \A i \in 1..n : g[i][Act] \in {0, 1} /\ g[i][RowId] \in Int
                        /\ \A c \in 1..k : g[i][c] \in Int \cup {Null}
    <3> TAKE i \in 1..n
    <3>1. s[i][Act] \in {0, 1} /\ \A c \in 1..k : s[i][c] \in Int \cup {Null}
      BY <1>2 DEF RowsFor
    <3>2. i - 1 \in Int
      BY <2>2
    <3> QED BY <2>5, <3>1, <3>2
  <2>9. RowsFor(g, n, k)
    BY <2>2, <2>3, <2>4, <2>5, <2>7, <2>8 DEF RowsFor
  <2>10. Rising(g, query.specs, n)
    <3> SUFFICES ASSUME NEW i \in 1..n, NEW j \in 1..n, i < j
                 PROVE  RowBefore(query.specs, g[i], g[j])
      BY DEF Rising
    <3>1. RowBefore(query.specs, s[i], s[j])
      BY <1>2 DEF Rising
    <3>2. k \in Nat /\ DOMAIN query.specs = 1..k /\ Len(query.specs) = k
      BY <1>1 DEF SpecsFor
    <3>3. g[i][Act] = s[i][Act] /\ g[j][Act] = s[j][Act]
          /\ \A c \in 1..k : g[i][c] = s[i][c] /\ g[j][c] = s[j][c]
      BY <2>5
    <3>4. \A c \in 0..k : SameUpTo(s[i], s[j], c) => SameUpTo(g[i], g[j], c)
      <4> TAKE c \in 0..k
      <4>1. \A d \in 1..c : d \in 1..k
        BY <3>2
      <4> QED BY <3>3, <4>1 DEF SameUpTo
    <3>5. g[i][RowId] < g[j][RowId]
      <4>1. g[i][RowId] = i - 1 /\ g[j][RowId] = j - 1
        BY <2>5
      <4> QED BY <2>2, <4>1
    <3>6. CASE s[i][Act] > s[j][Act]
      BY <3>3, <3>6 DEF RowBefore
    <3>7. ASSUME s[i][Act] = s[j][Act], NEW c \in 1..k, SameUpTo(s[i], s[j], c - 1),
                 KeyBefore(query.specs[c], s[i][c], s[j][c])
          PROVE  RowBefore(query.specs, g[i], g[j])
      <4>1. c - 1 \in 0..k
        BY <3>2
      <4>2. SameUpTo(g[i], g[j], c - 1) /\ KeyBefore(query.specs[c], g[i][c], g[j][c])
        BY <3>3, <3>4, <3>7, <4>1
      <4> QED BY <3>2, <3>3, <3>7, <4>2 DEF RowBefore
    <3>8. CASE s[i][Act] = s[j][Act] /\ SameUpTo(s[i], s[j], k)
      <4>1. SameUpTo(g[i], g[j], k)
        BY <3>2, <3>4, <3>8
      <4> QED BY <3>2, <3>3, <3>5, <3>8, <4>1 DEF RowBefore
    <3> QED BY <3>1, <3>2, <3>6, <3>7, <3>8 DEF RowBefore
  <2> QED BY <1>4, <2>1, <2>5, <2>6, <2>9, <2>10 DEF s
<1> QED BY <1>1, <1>3, <1>4

\* The rows the claims are about rise, whichever they are, and sorting them
\* again leaves them.
LEMMA ContigRise ==
  ASSUME NEW n, NEW k, QueryIs(n, k), NEW p, p = PowerOfTwo(n)
  PROVE  /\ RowsFor(ContigRows, p, k) /\ Rising(ContigRows, NullsLast(query.specs), p)
         /\ RowsFor(Again, p, k) /\ \A i \in 1..p : Again[i] = ContigRows[i]
         /\ \A i \in 1..n : i \in 1..p
              /\ ContigRows[i] = Sorted(Given, NullsLast(query.specs))[i]
         /\ \A i \in 1..p : i > n => ContigRows[i][Act] = 0
<1> DEFINE specs == NullsLast(query.specs)
           s == Sorted(Given, specs)
<1>1. SpecsFor(query.specs, k) /\ k \in 1..MaxCols
  BY DEF QueryIs
<1>2. SpecsFor(specs, k)
  BY <1>1, NullsLastOk
<1>3. RowsFor(Given, n, k)
  BY GivenRows
<1> HIDE DEF specs
<1>4. RowsFor(s, n, k) /\ Rising(s, specs, n)
  BY <1>2, <1>3, SortedRises
<1>5. ContigRows = Padded(s)
  BY DEF ContigRows, Given, s, specs
<1>6. k <= MaxCols
  BY <1>1, SortAssumption
<1> HIDE DEF s
<1>7. RowsFor(ContigRows, p, k) /\ Rising(ContigRows, specs, p)
  BY <1>2, <1>4, <1>5, <1>6, PaddedRises
<1>8. RowsFor(Sorted(ContigRows, specs), p, k)
  BY <1>2, <1>7, SortedRises
<1>9. \A i \in 1..p : Sorted(ContigRows, specs)[i] = ContigRows[i]
  BY <1>2, <1>7, SortedStays
<1>10. n \in Nat /\ Len(s) = n /\ DOMAIN s = 1..n /\ \A i \in 1..n : DOMAIN s[i] = RowNames
  BY <1>4 DEF RowsFor
<1>11. /\ \A i \in 1..n : i \in 1..p /\ ContigRows[i] = s[i]
       /\ \A i \in 1..p : i > n => ContigRows[i][Act] = 0
  BY <1>5, <1>10, PaddedRows
<1> QED BY <1>7, <1>8, <1>9, <1>11 DEF Again, specs, s

\* The columns of a frame without ids are those of its rows.
ColumnIs(col, rows, c, p) ==
  DOMAIN col = 1..p /\ Len(col) = p /\ \A i \in 1..p : col[i] = Enc(rows[i][c])
TableRows(rows, p) ==
  Len(rows) = p /\ DOMAIN rows = 1..p /\ \A i \in 1..p : DOMAIN rows[i] = RowNames

LEMMA PlainColumns ==
  ASSUME NEW f, NEW rows, Plain(f, rows), NEW q \in Nat, NEW p, p = TwoTo[q],
         TableRows(rows, p), NEW c \in f.mat
  PROVE  ColumnIs(EncodedColumns(f)[c], rows, c, p)
<1> DEFINE order == Padded(rows)
<1>1. p \in Nat /\ PowerOfTwo(p) = p
  BY PowerAbove, PaddedOnce
<1>2. DOMAIN order = 1..p /\ \A i \in 1..p : order[i] = rows[i]
  BY <1>1, PaddedRows DEF TableRows
<1>3. InOrder(f) = order
  BY DEF InOrder, Plain
<1> HIDE DEF order
<1>4. EncodedColumns(f)[c] = [i \in 1..p |-> Enc(order[i][c])]
  BY <1>2, <1>3 DEF EncodedColumns
<1> DEFINE col == EncodedColumns(f)[c]
<1>5. DOMAIN col = 1..p /\ (\A i \in 1..p : col[i] = Enc(rows[i][c])) /\ Len(col) = p
  BY <1>1, <1>2, <1>4
<1> QED BY <1>5 DEF ColumnIs

\* The rows of the hint tables of contig_sort.
LEMMA HintRows ==
  ASSUME NEW n, NEW k, QueryIs(n, k), NEW p, p = PowerOfTwo(n)
  PROVE  /\ p \in Nat /\ p > 0 /\ \E q \in Nat : p = TwoTo[q]
         /\ TableRows(Again, p) /\ TableRows(ContigRows, p) /\ TableRows(Rotated(Again), p)
         /\ TableRows(TieRows(Again), p) /\ TableRows(DiffRows(query.types, query.specs, Again), p)
<1>1. n \in Nat
  BY DEF QueryIs
<1>2. p \in Nat /\ p > 0 /\ \E q \in Nat : p = TwoTo[q]
  BY <1>1, PaddedSize
<1>3. TableRows(Again, p) /\ TableRows(ContigRows, p)
  BY ContigRise DEF RowsFor, TableRows
<1> DEFINE a == Again
           r == Rotated(a)
           t == TieRows(a)
           d == DiffRows(query.types, query.specs, a)
<1>4. Len(a) = p /\ DOMAIN a = 1..p /\ \A i \in 1..p : DOMAIN a[i] = RowNames
  BY <1>3 DEF TableRows
<1> HIDE DEF a
<1>5. TableRows(r, p)
  <2>1. r = [i \in 1..p |-> a[(i % p) + 1]]
    BY <1>4 DEF Rotated
  <2>2. \A i \in 1..p : (i % p) + 1 \in 1..p
    BY <1>2
  <2>3. Len(r) = p /\ DOMAIN r = 1..p
    BY <1>2, <2>1
  <2>4. \A i \in 1..p : DOMAIN r[i] = RowNames
    BY <1>4, <2>1, <2>2
  <2> QED BY <2>3, <2>4 DEF TableRows
<1>6. TableRows(t, p)
  <2>1. DOMAIN t = 1..p /\ \A i \in 1..p : DOMAIN t[i] = RowNames
    BY <1>4 DEF TieRows, RowNames
  <2>2. t = [i \in 1..p |-> t[i]]
    BY <1>4 DEF TieRows
  <2> HIDE DEF t
  <2>3. Len(t) = p
    BY <1>2, <2>2
  <2> QED BY <2>1, <2>3 DEF TableRows
<1>7. TableRows(d, p)
  <2>1. DOMAIN d = 1..p /\ \A i \in 1..p : DOMAIN d[i] = RowNames
    BY <1>4 DEF DiffRows, RowNames
  <2>2. d = [i \in 1..p |-> d[i]]
    BY <1>4 DEF DiffRows
  <2> HIDE DEF d
  <2>3. Len(d) = p
    BY <1>2, <2>2
  <2> QED BY <2>1, <2>3 DEF TableRows
<1> QED BY <1>2, <1>3, <1>5, <1>6, <1>7 DEF a, r, t, d

\* The tables, before NoDup puts its own in: their columns are those of the rows.
LEMMA HintColumns ==
  ASSUME NEW n, NEW k, QueryIs(n, k), NEW p, p = PowerOfTwo(n)
  PROVE  /\ \A c \in 1..k \cup {Act} : ColumnIs(PlannedTables.rotated[c], Rotated(Again), c, p)
         /\ \A c \in Range(TieFields(k)) : ColumnIs(PlannedTables.ties[c], TieRows(Again), c, p)
         /\ \A c \in 1..k : ColumnIs(PlannedTables.diffs[c],
                                     DiffRows(query.types, query.specs, Again), c, p)
         /\ query.gadget = "sort" => \A c \in 1..k \cup {Act} :
              ColumnIs(PlannedTables.table[c], ContigRows, c, p)
<1>1. PICK q \in Nat : p = TwoTo[q]
  BY HintRows
<1>2. k \in 1..MaxCols /\ KeyCount = k
  BY DEF QueryIs
<1>3. \A l \in Range(Labels) :
        PlannedTables[l] = EncodedColumns(Planned[l]) /\ Planned[l].mat = Range(Schema(l))
  <2> TAKE l \in Range(Labels)
  <2>1. Commits(Planned[l], Schema(l))
    BY FramesCommit
  <2> QED BY <2>1 DEF Commits, PlannedTables, Range
<1>4. Range(KeySeq) = 1..k /\ Range(Append(KeySeq, Act)) = 1..k \cup {Act}
  <2> DEFINE some == Append(KeySeq, Act)
  <2>1. DOMAIN KeySeq = 1..k /\ (\A i \in 1..k : KeySeq[i] = i)
        /\ some = [i \in 1..(k + 1) |-> IF i <= k THEN i ELSE Act]
    BY <1>2, FieldsAre
  <2> HIDE DEF some
  <2>2. k \in Nat
    BY <1>2, SortAssumption
  <2>3. Range(KeySeq) = 1..k
    BY <2>1 DEF Range
  <2>4. DOMAIN some = 1..(k + 1) /\ \A i \in 1..(k + 1) : some[i] \in 1..k \cup {Act}
    BY <2>1, <2>2
  <2>5. \A x \in 1..k : x \in 1..(k + 1) /\ some[x] = x
    BY <2>1, <2>2
  <2>6. k + 1 \in 1..(k + 1) /\ some[k + 1] = Act
    BY <2>1, <2>2
  <2>7. Range(some) = 1..k \cup {Act}
    BY <2>4, <2>5, <2>6 DEF Range
  <2> QED BY <2>3, <2>7 DEF some
<1>5. Schema("rotated") = Append(KeySeq, Act) /\ Schema("diffs") = KeySeq
      /\ Schema("ties") = TieFields(k)
      /\ (query.gadget = "sort" => Schema("table") = Append(KeySeq, Act))
  BY <1>2 DEF Schema, TieFields
<1>6. "rotated" \in Range(Labels) /\ "diffs" \in Range(Labels) /\ "ties" \in Range(Labels)
      /\ "table" \in Range(Labels)
  BY LabelsAre
<1>7. /\ Plain(Planned.rotated, Rotated(Again)) /\ Plain(Planned.ties, TieRows(Again))
      /\ Plain(Planned.diffs, DiffRows(query.types, query.specs, Again))
      /\ query.gadget = "sort" => Plain(Planned.table, ContigRows)
  BY <1>6, FramesCommit
<1>8. /\ TableRows(ContigRows, p) /\ TableRows(Rotated(Again), p)
      /\ TableRows(TieRows(Again), p) /\ TableRows(DiffRows(query.types, query.specs, Again), p)
  BY HintRows
<1>9. \A c \in 1..k \cup {Act} : ColumnIs(PlannedTables.rotated[c], Rotated(Again), c, p)
  <2>1. Planned.rotated.mat = 1..k \cup {Act} /\ PlannedTables.rotated = EncodedColumns(Planned.rotated)
    BY <1>3, <1>4, <1>5, <1>6
  <2> QED BY <1>1, <1>7, <1>8, <2>1, PlainColumns
<1>10. \A c \in Range(TieFields(k)) : ColumnIs(PlannedTables.ties[c], TieRows(Again), c, p)
  <2>1. Planned.ties.mat = Range(TieFields(k)) /\ PlannedTables.ties = EncodedColumns(Planned.ties)
    BY <1>3, <1>5, <1>6
  <2> QED BY <1>1, <1>7, <1>8, <2>1, PlainColumns
<1>11. \A c \in 1..k : ColumnIs(PlannedTables.diffs[c], DiffRows(query.types, query.specs, Again), c, p)
  <2>1. Planned.diffs.mat = 1..k /\ PlannedTables.diffs = EncodedColumns(Planned.diffs)
    BY <1>3, <1>4, <1>5, <1>6
  <2> QED BY <1>1, <1>7, <1>8, <2>1, PlainColumns
<1>12. query.gadget = "sort" => \A c \in 1..k \cup {Act} :
         ColumnIs(PlannedTables.table[c], ContigRows, c, p)
  <2> HAVE query.gadget = "sort"
  <2>1. Planned.table.mat = 1..k \cup {Act} /\ PlannedTables.table = EncodedColumns(Planned.table)
    BY <1>3, <1>4, <1>5, <1>6
  <2> QED BY <1>1, <1>7, <1>8, <2>1, PlainColumns
<1> QED BY <1>9, <1>10, <1>11, <1>12

-----------------------------------------------------------------------------
(* The invariant.                                                          *)

Counted == IF query.gadget = "nodup" THEN ActiveRows ELSE 0
ProverPart ==
  /\ pc \notin {"plan", "panic"} => frames = Planned /\ count = Counted
  /\ pc \in {"check", "prove", "sent"} =>
       coms = PlannedComs /\ tabs = WithActivator(PlannedTables, count)
VerifierPart ==
  /\ pc = "sent" =>
       claims = SortClaims(tabs, ShiftColumn(Size(tabs), 1), ShiftColumn(Size(tabs), 0))
  /\ vpc # "track" => pc = "sent" /\ vtabs = tabs
  /\ vpc = "done" => vclaims = claims
SortInv == QueryOk /\ ProverPart /\ VerifierPart

\* The size the verifier reads off its tables is a power of two.
LEMMA SizeIs ==
  ASSUME NEW n, NEW k, QueryIs(n, k), NEW m
  PROVE  Size(WithActivator(PlannedTables, m)) = PowerOfTwo(n)
<1> DEFINE t == PlannedTables
<1>1. WithActivator(t, m).rotated = t.rotated
  <2>1. DOMAIN t = Range(Labels) /\ "rotated" \in Range(Labels)
    BY LabelsAre DEF PlannedTables
  <2> HIDE DEF t
  <2> QED BY <2>1 DEF WithActivator
<1>2. 1 \in 1..k
  BY SortAssumption DEF QueryIs
<1>3. Len(t.rotated[1]) = PowerOfTwo(n)
  BY <1>2, HintColumns DEF ColumnIs
<1> QED BY <1>1, <1>3 DEF Size

\* What is computed of the query stays.
LEMMA QueryStays ==
  ASSUME query' = query
  PROVE  /\ QueryOk' <=> QueryOk
         /\ Planned' = Planned /\ Counted' = Counted /\ PlannedComs' = PlannedComs
         /\ \A m : WithActivator(PlannedTables, m)' = WithActivator(PlannedTables, m)
<1>1. Planned' = Planned /\ KeyCount' = KeyCount /\ ActiveRows' = ActiveRows
      /\ \A t, m : WithActivator(t, m)' = WithActivator(t, m)
  BY SamePlan
<1>2. \A n, k : QueryIs(n, k)' <=> QueryIs(n, k)
  BY <1>1 DEF QueryIs
<1>3. QueryOk' <=> QueryOk
  BY <1>2 DEF QueryOk
<1>4. Counted' = Counted
  BY <1>1 DEF Counted
<1>5. PlannedComs' = PlannedComs
  BY <1>1 DEF PlannedComs
<1>6. PlannedTables' = PlannedTables
  BY <1>1 DEF PlannedTables
<1>7. \A m : WithActivator(PlannedTables, m)' = WithActivator(PlannedTables, m)
  BY <1>1, <1>6
<1> QED BY <1>1, <1>3, <1>4, <1>5, <1>7

LEMMA InvHolds == Spec => []SortInv
<1>1. Init => SortInv
  BY QueryStarts DEF Init, SortInv, ProverPart, VerifierPart
<1>2. SortInv /\ [Next]_vars => SortInv'
  <2> SUFFICES ASSUME SortInv, [Next]_vars PROVE SortInv'
    OBVIOUS
  <2> USE DEF SortInv
  <2> DEFINE made == WithActivator(PlannedTables, count)
             said == SortClaims(tabs, ShiftColumn(Size(tabs), 1), ShiftColumn(Size(tabs), 0))
  <2>0. query' = query => /\ QueryOk' /\ Planned' = Planned /\ Counted' = Counted
                          /\ PlannedComs' = PlannedComs
                          /\ count' = count => made' = made
                          /\ tabs' = tabs => said' = said
    <3> SUFFICES ASSUME query' = query
                 PROVE  /\ QueryOk' /\ Planned' = Planned /\ Counted' = Counted
                        /\ PlannedComs' = PlannedComs
                        /\ count' = count => made' = made
                        /\ tabs' = tabs => said' = said
      OBVIOUS
    <3>1. count' = count => made' = made
      BY QueryStays
    <3>2. tabs' = tabs => said' = said
      BY SameClaims DEF Size
    <3> QED BY <3>1, <3>2, QueryStays
  <2>1. CASE Plan
    BY <2>0, <2>1 DEF Plan, ProverPart, VerifierPart, Counted, vvars
  <2>2. CASE Commit
    <3>1. coms' = PlannedComs /\ tabs' = made /\ pc = "commit" /\ pc' \in {"check", "prove"}
          /\ query' = query /\ frames' = frames /\ count' = count /\ vpc' = vpc
      BY <2>2 DEF Commit, PlannedComs, PlannedTables, ProverPart, vvars
    <3> HIDE DEF made, said
    <3> QED BY <2>0, <3>1 DEF ProverPart, VerifierPart, made
  <2>3. CASE Check
    <3>1. UNCHANGED <<query, frames, coms, count, tabs, claims, vvars>> /\ pc = "check"
          /\ pc' \in {"prove", "error"}
      BY <2>3 DEF Check
    <3> HIDE DEF made, said
    <3> QED BY <2>0, <3>1 DEF ProverPart, VerifierPart, vvars, made, said
  <2>4. CASE Prove
    <3>1. UNCHANGED <<query, frames, coms, count, tabs, vvars>> /\ pc = "prove" /\ pc' = "sent"
          /\ claims' = said
      BY <2>4 DEF Prove
    <3> HIDE DEF made, said
    <3> QED BY <2>0, <3>1 DEF ProverPart, VerifierPart, vvars, made, said
  <2>5. CASE VTrack
    <3>1. UNCHANGED <<query, pvars, vclaims>> /\ pc = "sent" /\ vpc = "track" /\ vpc' = "verify"
          /\ vtabs' = WithActivator(ReadOff(coms), count)
      BY <2>5 DEF VTrack, ReadOff
    <3>2. coms = PlannedComs /\ tabs = made
      BY <3>1 DEF ProverPart
    <3>3. PICK n \in Nat, k \in 1..MaxCols : QueryIs(n, k)
      BY DEF QueryOk
    <3>4. ReadOff(coms) = PlannedTables
      BY <3>2, <3>3, ColumnsRead
    <3>5. vtabs' = tabs
      BY <3>1, <3>2, <3>4
    <3> HIDE DEF made, said
    <3> QED BY <2>0, <3>1, <3>5 DEF ProverPart, VerifierPart, pvars, made, said
  <2>6. CASE VClaim
    <3>1. UNCHANGED <<query, pvars, vtabs>> /\ vpc = "verify" /\ vpc' = "done"
          /\ vclaims' = SortClaims(vtabs, ShiftOracle(Size(vtabs), 1), ShiftOracle(Size(vtabs), 0))
      BY <2>6 DEF VClaim
    <3>2. pc = "sent" /\ vtabs = tabs /\ claims = said /\ tabs = made
      BY <3>1 DEF ProverPart, VerifierPart
    <3>3. PICK n \in Nat, k \in 1..MaxCols : QueryIs(n, k)
      BY DEF QueryOk
    <3>4. Size(tabs) = PowerOfTwo(n)
      BY <3>2, <3>3, SizeIs
    <3>5. PICK q \in Nat : PowerOfTwo(n) = TwoTo[q]
      BY <3>3, PaddedSize
    <3>6. ShiftOracle(Size(tabs), 0) = ShiftColumn(Size(tabs), 0)
          /\ ShiftOracle(Size(tabs), 1) = ShiftColumn(Size(tabs), 1)
      BY <3>4, <3>5, ShiftsAgree
    <3>7. vclaims' = claims
      BY <3>1, <3>2, <3>6
    <3> HIDE DEF made, said
    <3> QED BY <2>0, <3>1, <3>2, <3>7 DEF ProverPart, VerifierPart, pvars, made, said
  <2>7. CASE UNCHANGED vars
    <3> HIDE DEF made, said
    <3> QED BY <2>0, <2>7 DEF vars, pvars, vvars, ProverPart, VerifierPart, made, said
  <2>8. CASE PlanPanics
    <3>1. UNCHANGED <<query, frames, coms, count, tabs, claims, vvars>> /\ pc = "plan" /\ pc' = "panic"
      BY <2>8 DEF PlanPanics
    <3> HIDE DEF made, said
    <3> QED BY <2>0, <3>1 DEF ProverPart, VerifierPart, vvars
  <2> QED BY <2>1, <2>2, <2>3, <2>4, <2>5, <2>6, <2>7, <2>8 DEF Next, Stop
<1> QED BY <1>1, <1>2, PTL DEF Spec

\* The verifier, which sees schemas and commitments only and evaluates the
\* shift by its bits, makes the claims of the prover that sorted the rows.
THEOREM OrderMirrored == Spec => []VerifierMirrors
<1>1. SortInv => VerifierMirrors
  BY DEF SortInv, VerifierPart, VerifierMirrors
<1> QED BY <1>1, InvHolds, PTL

-----------------------------------------------------------------------------
(* A sort: what is shown to be in order is the output.                     *)

\* Sorting rows that rise once more, NULLs last: active rows stay where they
\* are if their keys are NULL only where NULLs are last anyway.
LEMMA ActiveStay ==
  ASSUME NEW s, NEW n, NEW k, RowsFor(s, n, k), NEW specs, SpecsFor(specs, k),
         Rising(s, specs, n),
         \A i \in 1..n, c \in 1..k : s[i][Act] = 1 /\ specs[c].nullsFirst => s[i][c] # Null
  PROVE  \A i \in 1..n :
           /\ Sorted(s, NullsLast(specs))[i][Act] = s[i][Act]
           /\ s[i][Act] = 1 => Sorted(s, NullsLast(specs))[i] = s[i]
<1> DEFINE last == NullsLast(specs)
           lt == SpecOrder(s, last, n)
           z == Sorted(s, last)
<1>1. n \in Nat /\ k \in Nat /\ DOMAIN specs = 1..k /\ Len(specs) = k
      /\ \A i \in 1..n : s[i][Act] \in {0, 1} /\ \A c \in 1..k : s[i][c] \in Int \cup {Null}
  BY DEF RowsFor, SpecsFor
<1>2. SpecsFor(last, k) /\ \A c \in 1..k : last[c].asc = specs[c].asc /\ last[c].nullsFirst = FALSE
  BY NullsLastOk
<1>3. DOMAIN last = 1..k /\ Len(last) = k
  BY <1>2 DEF SpecsFor
<1>4. \A i, j \in 1..n : lt[i][j] <=> RowBefore(last, s[i], s[j])
  BY DEF SpecOrder
<1> HIDE DEF last
<1>5. IsOrder(lt, n) /\ \A i \in 1..n : z[i] = s[Ranked(lt, n, i)]
  BY <1>2, SpecOrdered, SortedRows
<1> HIDE DEF lt, z
<1>6. /\ \A i \in 1..n : Ranked(lt, n, i) \in 1..n /\ Place(lt, n, Ranked(lt, n, i)) = i
      /\ \A m \in 1..n : Ranked(lt, n, Place(lt, n, m)) = m
  BY <1>1, <1>5, RankedOrder
<1>7. ASSUME NEW i \in 1..n, NEW j \in 1..n, s[i][Act] = 1, s[j][Act] = 1, i < j
      PROVE  lt[i][j]
  <2>1. RowBefore(specs, s[i], s[j])
    BY <1>7 DEF Rising
  <2>2. ASSUME NEW c \in 1..k, KeyBefore(specs[c], s[i][c], s[j][c])
        PROVE  KeyBefore(last[c], s[i][c], s[j][c])
    <3> DEFINE a == s[i][c]
               b == s[j][c]
               spec == specs[c]
               new == last[c]
    <3>1. spec.nullsFirst \in BOOLEAN /\ new.asc = spec.asc /\ new.nullsFirst = FALSE
          /\ (spec.nullsFirst => a # Null /\ b # Null) /\ KeyBefore(spec, a, b)
      BY <1>2, <1>7, <2>2 DEF SpecsFor
    <3> HIDE DEF a, b, spec, new
    <3>2. KeyBefore(new, a, b)
      BY <3>1 DEF KeyBefore
    <3> QED BY <3>2 DEF a, b, new
  <2>3. \/ \E c \in 1..k : SameUpTo(s[i], s[j], c - 1) /\ KeyBefore(specs[c], s[i][c], s[j][c])
        \/ SameUpTo(s[i], s[j], k) /\ s[i][RowId] < s[j][RowId]
    BY <1>1, <1>7, <2>1 DEF RowBefore
  <2>4. RowBefore(last, s[i], s[j])
    BY <1>3, <1>7, <2>2, <2>3 DEF RowBefore
  <2> QED BY <1>4, <2>4
<1>8. ASSUME NEW i \in 1..n, s[i][Act] = 1 PROVE Place(lt, n, i) = i
  <2>1. \A m \in 1..n : m < i => lt[m][i]
    <3> TAKE m \in 1..n
    <3> HAVE m < i
    <3>1. RowBefore(specs, s[m], s[i])
      BY DEF Rising
    <3>2. s[m][Act] > s[i][Act] \/ s[m][Act] = s[i][Act]
      BY <3>1 DEF RowBefore
    <3>3. s[m][Act] = 1
      BY <1>1, <1>8, <3>2
    <3> QED BY <1>7, <1>8, <3>3
  <2>2. \A m \in 1..n : i < m => ~lt[m][i]
    <3> TAKE m \in 1..n
    <3> HAVE i < m
    <3>1. CASE s[m][Act] = 1
      <4>1. lt[i][m]
        BY <1>7, <1>8, <3>1
      <4> QED BY <1>5, <4>1 DEF IsOrder
    <3>2. CASE s[m][Act] = 0
      <4>1. ~(s[m][Act] > s[i][Act]) /\ s[m][Act] # s[i][Act]
        BY <1>8, <3>2
      <4>2. ~RowBefore(last, s[m], s[i])
        BY <4>1 DEF RowBefore
      <4> QED BY <1>4, <4>2
    <3> QED BY <1>1, <3>1, <3>2
  <2>3. ~lt[i][i]
    BY <1>5 DEF IsOrder
  <2>4. Below(lt, n, i) = 1..(i - 1)
    <3>1. \A m \in 1..n : lt[m][i] <=> m < i
      <4> TAKE m \in 1..n
      <4>1. m < i \/ m = i \/ i < m
        BY <1>1
      <4> QED BY <1>1, <2>1, <2>2, <2>3, <4>1
    <3> QED BY <1>1, <3>1 DEF Below
  <2>5. Cardinality(1..(i - 1)) = i - 1
    <3>1. 1 \in Int /\ i - 1 \in Int /\ (i - 1) - 1 + 1 = i - 1
      BY <1>1
    <3>2. i - 1 = 0 \/ i - 1 >= 1
      BY <1>1
    <3>3. Cardinality(1..(i - 1)) = IF 1 > i - 1 THEN 0 ELSE (i - 1) - 1 + 1
      BY <3>1, FS_Interval
    <3> QED BY <1>1, <3>2, <3>3
  <2> QED BY <1>1, <2>4, <2>5 DEF Place
<1>9. ASSUME NEW i \in 1..n, s[i][Act] = 1 PROVE z[i] = s[i]
  <2>1. Ranked(lt, n, i) = i
    BY <1>6, <1>8, <1>9
  <2> QED BY <1>5, <2>1
<1>10. ASSUME NEW i \in 1..n, s[i][Act] = 0 PROVE z[i][Act] = 0
  <2> DEFINE r == Ranked(lt, n, i)
  <2>1. r \in 1..n /\ Place(lt, n, r) = i /\ z[i] = s[r]
    BY <1>5, <1>6
  <2> HIDE DEF r
  <2>2. s[r][Act] # 1
    BY <1>8, <1>10, <2>1
  <2> QED BY <1>1, <2>1, <2>2
<1>11. \A i \in 1..n : z[i][Act] = s[i][Act] /\ (s[i][Act] = 1 => z[i] = s[i])
  BY <1>1, <1>9, <1>10
<1> QED BY <1>11 DEF z, last

\* The output column of a sort's frame, which is padded once.
LEMMA OutputColumns ==
  ASSUME NEW n, NEW k, QueryIs(n, k), query.gadget = "sort", NEW c \in 1..k \cup {Act}
  PROVE  /\ DOMAIN PlannedTables.output[c] = 1..PowerOfTwo(n)
         /\ \A i \in 1..PowerOfTwo(n) :
              PlannedTables.output[c][i] = Enc(Padded(Sorted(query.rows, query.specs))[i][c])
<1> DEFINE s == Sorted(query.rows, query.specs)
<1>1. "output" \in Range(Labels)
  BY LabelsAre
<1>2. Plain(Planned.output, s) /\ Planned.output.mat = Range(Schema("output"))
  BY <1>1, FramesCommit DEF Commits, Range
<1>3. Schema("output") = Append(KeySeq, Act)
  BY DEF Schema
<1>4. c \in Planned.output.mat
  <2> DEFINE some == Append(KeySeq, Act)
  <2>1. k \in 1..MaxCols /\ KeyCount = k
    BY DEF QueryIs
  <2>2. some = [i \in 1..(k + 1) |-> IF i <= k THEN i ELSE Act] /\ k \in Nat
    BY <2>1, FieldsAre, SortAssumption
  <2> HIDE DEF some
  <2>3. CASE c \in 1..k
    <3>1. c \in DOMAIN some /\ some[c] = c
      BY <2>2, <2>3
    <3> QED BY <1>2, <1>3, <3>1 DEF Range, some
  <2>4. CASE c = Act
    <3>1. k + 1 \in DOMAIN some /\ some[k + 1] = c
      BY <2>2, <2>4
    <3> QED BY <1>2, <1>3, <3>1 DEF Range, some
  <2> QED BY <2>3, <2>4
<1>5. RowsFor(s, n, k)
  BY SortedRises DEF QueryIs
<1>6. n \in Nat /\ Len(s) = n /\ DOMAIN s = 1..n /\ \A i \in 1..n : DOMAIN s[i] = RowNames
  BY <1>5 DEF RowsFor
<1> HIDE DEF s
<1>7. DOMAIN Padded(s) = 1..PowerOfTwo(n) /\ InOrder(Planned.output) = Padded(s)
  BY <1>2, <1>6, PaddedRows DEF InOrder, Plain
<1>8. EncodedColumns(Planned.output)[c] = [i \in 1..PowerOfTwo(n) |-> Enc(Padded(s)[i][c])]
  BY <1>4, <1>7 DEF EncodedColumns
<1>9. PlannedTables.output = EncodedColumns(Planned.output)
  BY <1>1 DEF PlannedTables
<1> QED BY <1>8, <1>9 DEF s

\* In an accepted or a rejected proof alike, the table a Sort node shows to be
\* in order has the active rows of its output, row for row, unless a key that
\* puts NULLs first has one.
THEOREM OrderShown == Spec => []ShownIsOutput
<1>1. SortInv => ShownIsOutput
  <2> SUFFICES ASSUME SortInv, pc = "sent", query.gadget = "sort",
                      \A i \in DOMAIN query.rows, c \in 1..KeyCount :
                        query.rows[i][Act] = 1 /\ query.specs[c].nullsFirst
                          => query.rows[i][c] # Null,
                      NEW i \in DOMAIN tabs.table[Act]
               PROVE  /\ tabs.table[Act][i] = tabs.output[Act][i]
                      /\ tabs.table[Act][i] = 1 =>
                           \A c \in 1..KeyCount : tabs.table[c][i] = tabs.output[c][i]
    BY DEF ShownIsOutput
  <2>1. PICK n \in Nat, k \in 1..MaxCols : QueryIs(n, k)
    BY DEF SortInv, QueryOk
  <2>2. KeyCount = k /\ RowsFor(query.rows, n, k) /\ SpecsFor(query.specs, k)
        /\ DOMAIN query.rows = 1..n
    BY <2>1 DEF QueryIs, RowsFor
  <2>3. tabs = PlannedTables
    BY DEF SortInv, ProverPart, WithActivator
  <2> DEFINE p == PowerOfTwo(n)
             s == Sorted(query.rows, query.specs)
             z == Sorted(s, NullsLast(query.specs))
  <2>4. \A c \in 1..k \cup {Act} : ColumnIs(PlannedTables.table[c], ContigRows, c, p)
    BY <2>1, HintColumns
  <2>5. i \in 1..p /\ \A c \in 1..k \cup {Act} : tabs.table[c][i] = Enc(ContigRows[i][c])
    BY <2>3, <2>4 DEF ColumnIs
  <2>6. \A c \in 1..k \cup {Act} : tabs.output[c][i] = Enc(Padded(s)[i][c])
    BY <2>1, <2>3, <2>5, OutputColumns
  <2>7. RowsFor(s, n, k) /\ Rising(s, query.specs, n)
        /\ MadeOf(s, query.rows, n)
    <3> DEFINE rows == query.rows
               specs == query.specs
    <3>1. RowsFor(rows, n, k) /\ SpecsFor(specs, k)
      BY <2>2
    <3> HIDE DEF rows, specs
    <3>2. RowsFor(Sorted(rows, specs), n, k) /\ Rising(Sorted(rows, specs), specs, n)
      BY <3>1, SortedRises
    <3>3. MadeOf(Sorted(rows, specs), rows, n)
      BY <3>1, SortedRises
    <3> QED BY <3>2, <3>3 DEF rows, specs
  <2>8. Len(s) = n /\ DOMAIN s = 1..n /\ (\A j \in 1..n : DOMAIN s[j] = RowNames)
        /\ \A j \in 1..n : s[j][Act] \in {0, 1}
    BY <2>7 DEF RowsFor
  <2>9. /\ \A j \in 1..n : j \in 1..p /\ ContigRows[j] = z[j]
        /\ \A j \in 1..p : j > n => ContigRows[j][Act] = 0
    <3>1. Given = s
      BY DEF Given
    <3> QED BY <2>1, <3>1, ContigRise
  <2> HIDE DEF s
  <2>10. /\ \A j \in 1..n : Padded(s)[j] = s[j]
         /\ \A j \in 1..p : j > n => Padded(s)[j][Act] = 0
    BY <2>8, PaddedRows
  <2>11. \A j \in 1..n, c \in 1..k : s[j][Act] = 1 /\ query.specs[c].nullsFirst => s[j][c] # Null
    <3> TAKE j \in 1..n, c \in 1..k
    <3>1. PICK m \in 1..n : s[j] = query.rows[m]
      BY <2>7 DEF MadeOf
    <3> QED BY <2>2, <3>1
  <2>12. \A j \in 1..n : z[j][Act] = s[j][Act] /\ (s[j][Act] = 1 => z[j] = s[j])
    <3> DEFINE specs == query.specs
    <3>1. RowsFor(s, n, k) /\ SpecsFor(specs, k) /\ Rising(s, specs, n)
          /\ \A j \in 1..n, c \in 1..k : s[j][Act] = 1 /\ specs[c].nullsFirst => s[j][c] # Null
      BY <2>2, <2>7, <2>11
    <3> HIDE DEF specs
    <3>2. \A j \in 1..n : /\ Sorted(s, NullsLast(specs))[j][Act] = s[j][Act]
                          /\ s[j][Act] = 1 => Sorted(s, NullsLast(specs))[j] = s[j]
      BY <3>1, ActiveStay
    <3> QED BY <3>2 DEF specs
  <2> HIDE DEF z, p
  <2>13. p \in Nat
    BY <2>1, HintRows DEF p
  <2>14. CASE i <= n
    <3>1. i \in 1..n
      BY <2>1, <2>5, <2>13, <2>14
    <3>2. ContigRows[i] = z[i] /\ Padded(s)[i] = s[i]
      BY <2>9, <2>10, <3>1
    <3>3. CASE s[i][Act] = 1
      <4>1. z[i] = s[i]
        BY <2>12, <3>1, <3>3
      <4> QED BY <2>2, <2>5, <2>6, <3>2, <4>1
    <3>4. CASE s[i][Act] = 0
      <4>1. z[i][Act] = 0 /\ Enc(0) # 1
        BY <2>12, <3>1, <3>4, BitsStay
      <4>2. tabs.table[Act][i] = Enc(0) /\ tabs.output[Act][i] = Enc(0)
        BY <2>5, <2>6, <3>2, <3>4, <4>1
      <4> QED BY <4>1, <4>2
    <3> QED BY <2>8, <3>1, <3>3, <3>4
  <2>15. CASE i > n
    <3>1. ContigRows[i][Act] = 0 /\ Padded(s)[i][Act] = 0
      BY <2>5, <2>9, <2>10, <2>15
    <3>2. tabs.table[Act][i] = Enc(0) /\ tabs.output[Act][i] = Enc(0) /\ Enc(0) = 0
      BY <2>5, <2>6, <3>1, BitsStay
    <3> QED BY <3>2
  <2> QED BY <2>1, <2>5, <2>13, <2>14, <2>15
<1> QED BY <1>1, InvHolds, PTL

-----------------------------------------------------------------------------
(* A NoDup: neighbours that are equal.                                     *)

\* The rows a NoDup shows are those it has numbered, in their order.
LEMMA LexStays ==
  ASSUME NEW n, NEW k, QueryIs(n, k), query.gadget = "nodup"
  PROVE  /\ NullsLast(query.specs) = query.specs
         /\ \A i \in 1..n : i \in 1..PowerOfTwo(n) /\ Again[i] = Given[i]
<1> DEFINE specs == query.specs
<1>1. specs = [j \in 1..k |-> [asc |-> FALSE, nullsFirst |-> FALSE]] /\ SpecsFor(specs, k)
  BY DEF QueryIs
<1>2. NullsLast(specs) = specs
  <2>1. NullsLast(specs) = [j \in 1..k |-> [specs[j] EXCEPT !.nullsFirst = FALSE]]
    BY <1>1 DEF NullsLast
  <2>2. \A j \in 1..k : [specs[j] EXCEPT !.nullsFirst = FALSE] = [asc |-> FALSE, nullsFirst |-> FALSE]
    <3> DEFINE spec == [asc |-> FALSE, nullsFirst |-> FALSE]
    <3>1. [spec EXCEPT !.nullsFirst = FALSE] = spec
      <4> DEFINE new == [spec EXCEPT !.nullsFirst = FALSE]
      <4>1. new \in [asc : BOOLEAN, nullsFirst : BOOLEAN] /\ new.asc = FALSE /\ new.nullsFirst = FALSE
        OBVIOUS
      <4> HIDE DEF new
      <4>2. new = [asc |-> new.asc, nullsFirst |-> new.nullsFirst]
        BY <4>1
      <4> QED BY <4>1, <4>2 DEF new
    <3> HIDE DEF spec
    <3>2. \A j \in 1..k : specs[j] = spec
      BY <1>1 DEF spec
    <3>3. \A j \in 1..k : [specs[j] EXCEPT !.nullsFirst = FALSE] = spec
      BY <3>1, <3>2
    <3> QED BY <3>3 DEF spec
  <2> HIDE DEF specs
  <2> QED BY <1>1, <2>1, <2>2
<1>3. RowsFor(Given, n, k) /\ Rising(Given, specs, n)
  BY GivenRows
<1> HIDE DEF specs
<1>4. \A i \in 1..n : Sorted(Given, specs)[i] = Given[i]
  BY <1>1, <1>3, SortedStays
<1>5. /\ \A i \in 1..PowerOfTwo(n) : Again[i] = ContigRows[i]
      /\ \A i \in 1..n : i \in 1..PowerOfTwo(n) /\ ContigRows[i] = Sorted(Given, NullsLast(specs))[i]
  BY ContigRise DEF specs
<1> QED BY <1>2, <1>4, <1>5 DEF specs

\* A row that is in the input twice has an equal next to it.
LEMMA EqualNeighbours ==
  ASSUME NEW rows, NEW n, NEW k, RowsFor(rows, n, k), NEW specs, SpecsFor(specs, k),
         NEW i \in 1..n, NEW j \in 1..n, i # j, rows[i][Act] = 1, rows[j][Act] = 1,
         SameUpTo(rows[i], rows[j], k)
  PROVE  \E x \in 1..n : /\ x + 1 \in 1..n
                         /\ Sorted(rows, specs)[x][Act] = 1 /\ Sorted(rows, specs)[x + 1][Act] = 1
                         /\ SameUpTo(Sorted(rows, specs)[x], Sorted(rows, specs)[x + 1], k)
<1> DEFINE s == Sorted(rows, specs)
<1>1. RowsFor(s, n, k) /\ Rising(s, specs, n)
  BY SortedRises
<1>2. \A m \in 1..n : \E x \in 1..n : s[x] = rows[m]
  BY SortedRises
<1> HIDE DEF s
<1>3. PICK x \in 1..n : s[x] = rows[i]
  BY <1>2
<1>4. PICK y \in 1..n : s[y] = rows[j]
  BY <1>2
<1>5. x # y
  <2>1. rows[i][RowId] # rows[j][RowId]
    BY DEF RowsFor
  <2> QED BY <1>3, <1>4, <2>1
<1>6. n \in Nat /\ \A m \in 1..n : s[m][Act] \in {0, 1} /\ \A c \in 1..k : s[m][c] \in Int \cup {Null}
  BY <1>1 DEF RowsFor
<1>7. SameUpTo(rows[j], rows[i], k)
  BY DEF SameUpTo
<1>8. ASSUME NEW a \in 1..n, NEW b \in 1..n, a < b, s[a][Act] = 1, s[b][Act] = 1,
             SameUpTo(s[a], s[b], k)
      PROVE  a + 1 \in 1..n /\ s[a + 1][Act] = 1 /\ SameUpTo(s[a], s[a + 1], k)
  <2>1. a + 1 \in 1..n
    BY <1>6, <1>8
  <2>2. CASE a + 1 = b
    BY <1>8, <2>1, <2>2
  <2>3. CASE a + 1 < b
    <3> DEFINE u == s[a]
               v == s[a + 1]
               w == s[b]
    <3>1. a < a + 1
      BY <1>6
    <3>2. RowBefore(specs, u, v) /\ RowBefore(specs, v, w)
      BY <1>1, <2>1, <2>3, <3>1 DEF Rising
    <3>3. /\ u[Act] \in Int /\ v[Act] \in Int /\ w[Act] \in Int
          /\ \A c \in 1..k : u[c] \in Int \cup {Null} /\ v[c] \in Int \cup {Null}
                             /\ w[c] \in Int \cup {Null}
          /\ u[Act] = w[Act] /\ SameUpTo(u, w, k)
      BY <1>6, <1>8, <2>1
    <3> HIDE DEF u, v, w
    <3>4. v[Act] = u[Act] /\ SameUpTo(u, v, k)
      BY <3>2, <3>3, Between
    <3> QED BY <1>8, <2>1, <3>4 DEF u, v
  <2> QED BY <1>6, <1>8, <2>1, <2>2, <2>3
<1>9. CASE x < y
  BY <1>3, <1>4, <1>8, <1>9 DEF s
<1>10. CASE y < x
  BY <1>3, <1>4, <1>7, <1>8, <1>10 DEF s
<1> QED BY <1>5, <1>6, <1>9, <1>10

\* An active row of the sorted rows is one of the first ones.
LEMMA ActiveFirst ==
  ASSUME NEW rows, NEW n, NEW k, RowsFor(rows, n, k), NEW specs, SpecsFor(specs, k),
         NEW x \in 1..n, Sorted(rows, specs)[x][Act] = 1
  PROVE  x <= Cardinality({i \in DOMAIN rows : rows[i][Act] = 1})
<1> DEFINE s == Sorted(rows, specs)
           T == {i \in DOMAIN rows : rows[i][Act] = 1}
           from(i) == CHOOSE m \in 1..n : s[i] = rows[m]
           f == [i \in 1..x |-> from(i)]
<1>1. RowsFor(s, n, k) /\ Rising(s, specs, n) /\ MadeOf(s, rows, n)
  BY SortedRises
<1>2. n \in Nat /\ DOMAIN rows = 1..n
  BY DEF RowsFor
<1> HIDE DEF s
<1>3. \A i \in 1..x : i \in 1..n /\ s[i][Act] = 1
  <2> TAKE i \in 1..x
  <2>1. i \in 1..n
    BY <1>2
  <2>2. CASE i = x
    BY <2>1, <2>2 DEF s
  <2>3. CASE i < x
    <3>1. RowBefore(specs, s[i], s[x])
      BY <1>1, <2>1, <2>3 DEF Rising
    <3>2. s[i][Act] \in {0, 1} /\ s[x][Act] = 1
      BY <1>1, <2>1 DEF RowsFor, s
    <3>3. s[i][Act] > s[x][Act] \/ s[i][Act] = s[x][Act]
      BY <3>1 DEF RowBefore
    <3> QED BY <2>1, <3>2, <3>3
  <2> QED BY <1>2, <2>1, <2>2, <2>3
<1>4. \A i \in 1..x : from(i) \in 1..n /\ s[i] = rows[from(i)]
  <2> TAKE i \in 1..x
  <2>1. \E m \in 1..n : s[i] = rows[m]
    BY <1>1, <1>3 DEF MadeOf
  <2> QED BY <2>1
<1> HIDE DEF from
<1>5. \A i \in 1..x : from(i) \in T
  BY <1>2, <1>3, <1>4
<1>6. \A i, j \in 1..x : from(i) = from(j) => i = j
  <2> TAKE i, j \in 1..x
  <2> HAVE from(i) = from(j)
  <2>1. s[i] = s[j] /\ i \in 1..n /\ j \in 1..n
    BY <1>3, <1>4
  <2>2. SameUpTo(s[i], s[j], k)
    BY <2>1 DEF SameUpTo
  <2> QED BY <1>1, <2>1, <2>2 DEF RowsFor
<1>7. f \in Injection(1..x, T)
  <2>1. f \in [1..x -> T] /\ \A i, j \in 1..x : f[i] = f[j] => i = j
    BY <1>5, <1>6
  <2> HIDE DEF f, T
  <2> QED BY <2>1 DEF Injection, IsInjective
<1>8. IsFiniteSet(T)
  <2>1. T \in SUBSET (1..n) /\ IsFiniteSet(1..n)
    BY <1>2, FS_Interval
  <2> HIDE DEF T
  <2> QED BY <2>1, FS_Subset
<1> HIDE DEF f, T
<1>9. Cardinality(1..x) <= Cardinality(T)
  BY <1>7, <1>8, FS_Injection
<1>10. Cardinality(1..x) = x
  <2>1. x \in Nat /\ x >= 1
    BY <1>2
  <2> QED BY <2>1, FS_Interval
<1> QED BY <1>9, <1>10 DEF T

\* Field arithmetic with zeros and ones.
LEMMA Bits ==
  ASSUME NEW R
  PROVE  /\ Over(R)!Mul(1, 1) = 1 /\ Over(R)!Mul(0, 1) = 0
         /\ Over(R)!Sub(1, 1) = 0 /\ Over(R)!Add(0, 0) = 0
<1>1. FieldSize \in Nat /\ FieldSize > 1
  BY BitsStay
<1>2. Over(R)!Sub(1, 1) = 0 /\ Over(R)!Add(0, 0) = 0 /\ Over(R)!Sub(0, 0) = 0
      /\ Over(R)!Sub(0, 1) = FieldSize - 1
  BY <1>1 DEF Over!Sub, Over!Add
<1>3. Over(R)!Near(1) = 1 /\ Over(R)!Near(0) = 0
  BY <1>1, <1>2 DEF Over!Near
<1>4. Over(R)!Mul(1, 1) = 1 /\ Over(R)!Mul(0, 1) = 0
  BY <1>1, <1>3 DEF Over!Mul
<1> QED BY <1>2, <1>4

-----------------------------------------------------------------------------
(* Differences.                                                            *)

\* The types, and those of differences: a byte count, and no decimal.
LEMMA TypesAre ==
  \A t \in Types :
    /\ DiffType(t) \in Over({})!Type /\ DiffType(t) # "Decimal128"
    /\ t \notin SignOnly => /\ t \in Over({})!Type /\ t # "Decimal128"
                            /\ Most({}, DiffType(t)) = Most({}, t)
<1> TAKE t \in Types
<1>1. CASE t \in SignOnly
  BY <1>1 DEF DiffType, Over!Type, Over!Bytes
<1>2. CASE t \notin SignOnly
  <2>1. t \in Over({})!Type /\ t # "Decimal128"
    BY <1>2, InputAssumption
  <2>2. CASE t # "Date32"
    BY <1>2, <2>1, <2>2 DEF DiffType
  <2>3. CASE t = "Date32"
    <3>1. DiffType(t) = "Int32"
      BY <1>2, <2>3 DEF DiffType
    <3>2. "Int32" \in Over({})!Type /\ Over({})!Bytes["Int32"] = 4 /\ Over({})!Bytes["Date32"] = 4
          /\ Over({})!Signed("Int32") /\ Over({})!Signed("Date32")
      BY DEF Over!Type, Over!Bytes, Over!Signed
    <3>3. Most({}, "Int32") = Most({}, "Date32")
      BY <3>2 DEF Most
    <3> QED BY <1>2, <2>1, <2>3, <3>1, <3>2, <3>3
  <2> QED BY <2>2, <2>3
<1> QED BY <1>1, <1>2

\* A difference is a number or NULL: of NULL it is NULL, and of equals nothing.
LEMMA DiffKind ==
  ASSUME NEW t \in Over({})!Type, t # "Decimal128",
         NEW a \in Int \cup {Null}, NEW b \in Int \cup {Null}
  PROVE  /\ Diff(t, a, b) \in Int \cup {Null}
         /\ Null \in {a, b} => Diff(t, a, b) = Null
         /\ a \in Int => Diff(t, a, a) = 0
<1> DEFINE s == Over({})!Size(Over({})!Bytes[t])
           h == Over({})!Half(s)
<1>1. s \in Nat /\ s > 1 /\ h \in Nat /\ h > 0 /\ 2 * h <= s /\ Null \notin Int
  BY TypeSizes, SortAssumption
<1>2. \A x \in Int, y \in Int :
        Diff(t, x, y) = IF Over({})!Signed(t) THEN ((x - y + h) % s) - h ELSE (x - y) % s
  BY <1>1 DEF Diff, Over!Wrap
<1> HIDE DEF s, h
<1>3. \A x \in Int, y \in Int : ((x - y + h) % s) - h \in Int /\ (x - y) % s \in Int
  <2> TAKE x \in Int, y \in Int
  <2>1. x - y \in Int /\ x - y + h \in Int
    BY <1>1
  <2> QED BY <1>1, <2>1
<1>4. \A x \in Int, y \in Int : Diff(t, x, y) \in Int
  <2> TAKE x \in Int, y \in Int
  <2>1. CASE Over({})!Signed(t)
    BY <1>2, <1>3, <2>1
  <2>2. CASE ~Over({})!Signed(t)
    BY <1>2, <1>3, <2>2
  <2> QED BY <2>1, <2>2
<1>5. Null \in {a, b} => Diff(t, a, b) = Null
  BY DEF Diff
<1>6. ASSUME a \in Int PROVE Diff(t, a, a) = 0
  <2>1. a - a = 0 /\ h % s = h /\ 0 % s = 0
    BY <1>1, <1>6
  <2>2. a - a + h = h /\ h - h = 0
    BY <1>1, <2>1
  <2>3. Diff(t, a, a) = IF Over({})!Signed(t) THEN ((a - a + h) % s) - h ELSE (a - a) % s
    BY <1>2, <1>6
  <2> QED BY <2>1, <2>2, <2>3
<1> QED BY <1>4, <1>5, <1>6

\* And so is one of keys, which is encoded as nothing of equals and of NULLs.
LEMMA KeyDiffKind ==
  ASSUME NEW t \in Types, NEW a \in Int \cup {Null}, NEW b \in Int \cup {Null}
  PROVE  /\ KeyDiff(t, a, b) \in Int \cup {Null}
         /\ Null \in {a, b} \/ a = b => Enc(KeyDiff(t, a, b)) = 0
<1>1. CASE t \in SignOnly
  BY <1>1, BitsStay DEF KeyDiff, Sign
<1>2. CASE t \notin SignOnly
  <2>1. t \in Over({})!Type /\ t # "Decimal128" /\ KeyDiff(t, a, b) = Diff(t, a, b)
    BY <1>2, TypesAre DEF KeyDiff
  <2> QED BY <2>1, DiffKind, BitsStay
<1> QED BY <1>1, <1>2

\* The next row, and that of the last.
After(i, p) == (i % p) + 1

\* The key a row's is compared with, and their difference, for which each key
\* has its own direction.
Following(i, p, c) ==
  IF ByWindows(query.types) /\ Again[After(i, p)][c] = Null THEN Again[1][c]
  ELSE Again[After(i, p)][c]
Gap(i, p, c) ==
  IF query.specs[c].asc THEN KeyDiff(query.types[c], Following(i, p, c), Again[i][c])
  ELSE KeyDiff(query.types[c], Again[i][c], Following(i, p, c))

\* The differences of a table are these.
LEMMA GapIs ==
  ASSUME NEW n, NEW k, QueryIs(n, k), NEW p, p = PowerOfTwo(n), NEW i \in 1..p, NEW c \in 1..k
  PROVE  DiffRows(query.types, query.specs, Again)[i][c] = Gap(i, p, c)
<1> DEFINE d == DiffRows(query.types, query.specs, Again)
           r == Rotated(Again)
           next == NextKeys(query.types, Again)
<1>1. Len(Again) = p /\ DOMAIN Again = 1..p
  BY HintRows DEF TableRows
<1>2. DOMAIN query.specs = 1..k /\ c \in RowNames
  BY SortAssumption DEF QueryIs, SpecsFor, RowNames
<1>3. r[i] = Again[After(i, p)]
  BY <1>1 DEF Rotated, After
<1>4. next[i] = [j \in RowNames |->
                  IF ByWindows(query.types) /\ r[i][j] = Null THEN Again[1][j] ELSE r[i][j]]
  BY <1>1 DEF NextKeys, RowNames
<1>5. d[i] = [j \in RowNames |->
               IF j \notin DOMAIN query.specs THEN Null
               ELSE IF query.specs[j].asc THEN KeyDiff(query.types[j], next[i][j], Again[i][j])
               ELSE KeyDiff(query.types[j], Again[i][j], next[i][j])]
  BY <1>1 DEF DiffRows, RowNames
<1> HIDE DEF d, r, next
<1>6. next[i][c] = Following(i, p, c)
  BY <1>2, <1>3, <1>4 DEF Following
<1>7. d[i][c] = Gap(i, p, c)
  BY <1>2, <1>5, <1>6 DEF Gap
<1> QED BY <1>7 DEF d

\* A difference is a number or NULL; a key that is NULL, or has an equal next to
\* it, makes none.
LEMMA GapKind ==
  ASSUME NEW n, NEW k, QueryIs(n, k), NEW p, p = PowerOfTwo(n), NEW i \in 1..p, NEW c \in 1..k
  PROVE  /\ Gap(i, p, c) \in Int \cup {Null}
         /\ Again[i][c] \in {Null, Again[After(i, p)][c]} => Enc(Gap(i, p, c)) = 0
<1>1. p \in Nat /\ p > 0 /\ RowsFor(Again, p, k)
  BY HintRows, ContigRise
<1>2. After(i, p) \in 1..p /\ 1 \in 1..p
  BY <1>1, DivMod DEF After
<1> DEFINE a == Again[i][c]
           b == Following(i, p, c)
           t == query.types[c]
<1>3. a \in Int \cup {Null} /\ b \in Int \cup {Null} /\ t \in Types
  BY <1>1, <1>2 DEF RowsFor, Following, QueryIs
<1>4. a \in {Null, Again[After(i, p)][c]} => a = Null \/ b = a
  BY DEF Following
<1> HIDE DEF a, b, t
<1>5. /\ KeyDiff(t, a, b) \in Int \cup {Null} /\ KeyDiff(t, b, a) \in Int \cup {Null}
      /\ a = Null \/ b = a => Enc(KeyDiff(t, a, b)) = 0 /\ Enc(KeyDiff(t, b, a)) = 0
  BY <1>3, KeyDiffKind
<1>6. Gap(i, p, c) \in {KeyDiff(t, a, b), KeyDiff(t, b, a)}
  BY DEF Gap, a, b, t
<1> QED BY <1>4, <1>5, <1>6 DEF a

\* The tables of a NoDup, where an active row is followed by its equal.
LEMMA EqualsClaimed ==
  ASSUME NEW n, NEW k, QueryIs(n, k), query.gadget = "nodup",
         NEW m \in Nat, NEW x \in 1..n, x + 1 \in 1..n, x + 1 <= m,
         Given[x][Act] = 1, Given[x + 1][Act] = 1, SameUpTo(Given[x], Given[x + 1], k),
         NEW t, t = WithActivator(PlannedTables, m)
  PROVE  /\ x \in 1..Size(t)
         /\ AllTies(t)[k][x] = 1 /\ t.diffs[k][x] = 0
         /\ t.table[Act][x] = 1 /\ t.rotated[Act][x] = 1
<1> DEFINE p == PowerOfTwo(n)
           t0 == PlannedTables
           a == Again
           r == Rotated(a)
<1>1. Size(t) = p
  BY SizeIs
<1>2. p \in Nat /\ TableRows(a, p)
  BY HintRows
<1>3. \A i \in 1..n : i \in 1..p /\ a[i] = Given[i]
  BY LexStays
<1>4. n \in Nat /\ k \in 1..MaxCols /\ KeyCount = k /\ k \in Nat /\ MaxCols \in Nat
      /\ SpecsFor(query.specs, k)
      /\ query.specs = [j \in 1..k |-> [asc |-> FALSE, nullsFirst |-> FALSE]]
  BY SortAssumption DEF QueryIs
<1> HIDE DEF a, p
<1>5. x \in 1..p /\ x + 1 \in 1..p /\ x < p /\ x % p = x /\ Len(a) = p /\ DOMAIN a = 1..p
      /\ a[x] = Given[x] /\ a[x + 1] = Given[x + 1]
  <2>1. x \in 1..p /\ x + 1 \in 1..p /\ a[x] = Given[x] /\ a[x + 1] = Given[x + 1]
    BY <1>3
  <2>2. Len(a) = p /\ DOMAIN a = 1..p
    BY <1>2 DEF TableRows
  <2>3. x < p /\ x % p = x
    BY <1>2, <2>1
  <2> QED BY <2>1, <2>2, <2>3
<1>6. r[x] = a[x + 1]
  BY <1>5 DEF Rotated
<1>7. t.rotated = t0.rotated /\ t.ties = t0.ties /\ t.diffs = t0.diffs
      /\ t.table[Act] = Contig(p, m)
  <2> DEFINE lex == [c \in DOMAIN t0.output \cup {Act} |->
                      IF c = Act THEN Contig(Size(t0), m) ELSE t0.output[c]]
  <2>1. lex[Act] = Contig(Size(t0), m)
    OBVIOUS
  <2>2. t = [t0 EXCEPT !.output = lex, !.table = lex]
    BY DEF WithActivator
  <2>3. DOMAIN t0 = Range(Labels)
    BY DEF PlannedTables
  <2> HIDE DEF lex, t0
  <2>4. DOMAIN t0 = {"input", "output", "table", "rotated", "ties", "diffs"}
    BY <2>3, LabelsAre
  <2>5. t.rotated = t0.rotated /\ t.ties = t0.ties /\ t.diffs = t0.diffs /\ t.table = lex
    BY <2>2, <2>4
  <2>6. Size(t0) = p
    BY <1>1, <2>5 DEF Size
  <2> QED BY <2>1, <2>5, <2>6
<1>8. t.table[Act][x] = 1
  <2>1. x <= m
    BY <1>4
  <2> QED BY <1>5, <1>7, <2>1 DEF Contig
<1>9. t.rotated[Act][x] = 1
  <2>1. ColumnIs(t0.rotated[Act], r, Act, p)
    BY HintColumns DEF a, p
  <2>2. t0.rotated[Act][x] = Enc(r[x][Act])
    BY <1>5, <2>1 DEF ColumnIs
  <2> QED BY <1>5, <1>6, <1>7, <2>2, BitsStay
<1>10. t.diffs[k][x] = 0
  <2>1. k \in 1..k /\ After(x, p) = x + 1
    BY <1>4, <1>5 DEF After
  <2>2. ColumnIs(t0.diffs[k], DiffRows(query.types, query.specs, a), k, p)
    <3>1. \A c \in 1..k : ColumnIs(t0.diffs[c], DiffRows(query.types, query.specs, a), c, p)
      BY HintColumns DEF a, p
    <3> QED BY <2>1, <3>1
  <2>3. t0.diffs[k][x] = Enc(Gap(x, p, k))
    <3>1. DiffRows(query.types, query.specs, a)[x][k] = Gap(x, p, k)
      BY <1>5, <2>1, GapIs DEF a, p
    <3> QED BY <1>5, <2>2, <3>1 DEF ColumnIs
  <2>4. a[x][k] = a[x + 1][k]
    BY <1>5, <2>1 DEF SameUpTo
  <2>5. Enc(Gap(x, p, k)) = 0
    BY <1>5, <2>1, <2>4, GapKind DEF a, p
  <2> QED BY <1>7, <2>3, <2>5
<1>11. AllTies(t)[k][x] = 1
  <2> DEFINE ties == TieRows(a)
  <2>1. \A c \in Range(TieFields(k)) : t.ties[c][x] = Enc(ties[x][c])
    <3>1. \A c \in Range(TieFields(k)) : ColumnIs(t0.ties[c], ties, c, p)
      BY HintColumns DEF a, p
    <3> QED BY <1>5, <1>7, <3>1 DEF ColumnIs
  <2>2. ties[x] = [j \in RowNames |-> IF Tie(a, IF j = FirstTie THEN 0 ELSE j, x) THEN 1 ELSE 0]
    BY <1>5 DEF TieRows, RowNames
  <2>3. \A j \in 0..k : Tie(a, j, x)
    <3> TAKE j \in 0..k
    <3>1. \A c \in 1..j : c \in 1..k
      BY <1>4
    <3> QED BY <1>5, <3>1 DEF Tie, SameUpTo
  <2> HIDE DEF ties
  <2>4. CASE k = 1
    <3>1. FirstTie \in Range(TieFields(k)) /\ FirstTie \in RowNames /\ 0 \in 0..k
      BY <1>4, <2>4 DEF Range, TieFields, FirstTie, RowNames
    <3>2. ties[x][FirstTie] = 1
      BY <2>2, <2>3, <3>1
    <3>3. AllTies(t)[k] = t.ties[FirstTie]
      BY <1>4, <2>4 DEF AllTies
    <3> QED BY <2>1, <3>1, <3>2, <3>3, BitsStay
  <2>5. CASE k # 1
    <3> DEFINE j == k - 1
               first == [i \in 1..Size(t) |-> IF i < Size(t) THEN 1 ELSE 0]
               others == [l \in 1..(k - 1) |-> t.ties[l]]
    <3>1. j \in Range(TieFields(k)) /\ j \in RowNames /\ j \in 0..k /\ j # FirstTie
      BY <1>4, <2>5 DEF Range, TieFields, FirstTie, RowNames
    <3>2. ties[x][j] = 1
      BY <2>2, <2>3, <3>1
    <3>3. AllTies(t) = <<first>> \o others
      BY <1>4, <2>5 DEF AllTies
    <3>4. others[j] = t.ties[j] /\ j \in 1..(k - 1)
      BY <1>4, <2>5
    <3>5. others = [l \in 1..(k - 1) |-> others[l]] /\ DOMAIN others = 1..(k - 1)
      OBVIOUS
    <3> HIDE DEF first, others, j
    <3>6. (<<first>> \o others)[k] = others[j]
      <4> DEFINE S == {first} \cup {others[l] : l \in 1..(k - 1)}
                 one == <<first>>
                 u == 1
                 w == k - 1
      <4>1. one \in Seq(S) /\ Len(one) = u
        OBVIOUS
      <4>2. others \in [1..w -> S] /\ w \in Nat
        BY <1>4, <2>5, <3>5
      <4> HIDE DEF S, one, u, w
      <4>3. others \in Seq(S) /\ Len(others) = w
        BY <4>2, ListOf
      <4>4. ConsistsOf(one \o others, one, u, others, w)
        BY <4>1, <4>3, Joined
      <4>5. j \in 1..w
        BY <3>4 DEF w
      <4>6. (one \o others)[u + j] = others[j]
        BY <4>4, <4>5 DEF ConsistsOf
      <4>7. u + j = k
        BY <1>4 DEF u, j
      <4> QED BY <4>6, <4>7 DEF one
    <3> QED BY <2>1, <3>1, <3>2, <3>3, <3>4, <3>6, BitsStay
  <2> QED BY <2>4, <2>5
<1> QED BY <1>1, <1>5, <1>8, <1>9, <1>10, <1>11

\* A NoDup with an active row twice in its input does not verify: of the rows
\* in order two neighbours are equal, and the strict claim is false there.
THEOREM RepeatsRejected == Spec => []AcceptedHasNoRepeats
<1>1. SortInv => AcceptedHasNoRepeats
  <2> SUFFICES ASSUME SortInv, query.gadget = "nodup", HasRepeats, vpc = "done", AllHold(vclaims)
               PROVE  FALSE
    BY DEF AcceptedHasNoRepeats
  <2>1. PICK n \in Nat, k \in 1..MaxCols : QueryIs(n, k)
    BY DEF SortInv, QueryOk
  <2> DEFINE rows == query.rows
             specs == query.specs
             s == Sorted(rows, specs)
             m == ActiveRows
             t == tabs
             claim == StrictClaim(t)
  <2>2. KeyCount = k /\ RowsFor(rows, n, k) /\ SpecsFor(specs, k) /\ DOMAIN rows = 1..n
    BY <2>1 DEF QueryIs, RowsFor
  <2>3. t = WithActivator(PlannedTables, m) /\ vclaims = claims
        /\ claims = SortClaims(t, ShiftColumn(Size(t), 1), ShiftColumn(Size(t), 0))
    BY DEF SortInv, ProverPart, VerifierPart, Counted
  <2>4. m = Cardinality({i \in DOMAIN rows : rows[i][Act] = 1})
    BY DEF ActiveRows
  <2>5. m \in Nat
    <3> DEFINE T == {i \in DOMAIN rows : rows[i][Act] = 1}
    <3>1. T \in SUBSET (1..n) /\ IsFiniteSet(1..n)
      BY <2>2, FS_Interval
    <3> HIDE DEF T
    <3>2. IsFiniteSet(T)
      BY <3>1, FS_Subset
    <3> QED BY <2>4, <3>2, FS_CardinalityType DEF T
  <2>6. PICK i \in 1..n, j \in 1..n : /\ i # j /\ rows[i][Act] = 1 /\ rows[j][Act] = 1
                                     /\ SameUpTo(rows[i], rows[j], k)
    BY <2>2 DEF HasRepeats
  <2> HIDE DEF rows, specs
  <2>7. PICK x \in 1..n : /\ x + 1 \in 1..n /\ s[x][Act] = 1 /\ s[x + 1][Act] = 1
                          /\ SameUpTo(s[x], s[x + 1], k)
    BY <2>2, <2>6, EqualNeighbours
  <2>8. x + 1 <= m
    BY <2>2, <2>4, <2>7, ActiveFirst
  <2>9. \A l \in 1..n : Given[l][Act] = s[l][Act] /\ SameUpTo(Given[l], s[l], k)
    BY <2>1, GivenRows DEF rows, specs
  <2> HIDE DEF s, m, t
  <2>10. Given[x][Act] = 1 /\ Given[x + 1][Act] = 1 /\ SameUpTo(Given[x], Given[x + 1], k)
    BY <2>7, <2>9 DEF SameUpTo
  <2>11. /\ x \in 1..Size(t) /\ AllTies(t)[k][x] = 1 /\ t.diffs[k][x] = 0
         /\ t.table[Act][x] = 1 /\ t.rotated[Act][x] = 1
    BY <2>1, <2>3, <2>5, <2>7, <2>8, <2>10, EqualsClaimed
  <2> DEFINE R == 1..Size(t)
  <2>12. BothActive(t)[x] = 1
    BY <2>11, Bits DEF BothActive, Product, Over!ColMul
  <2>13. MaskedDiff(t, k)[x] = 0
    <3> DEFINE tie == AllTies(t)[k]
               diff == Product(t, t.diffs[k], tie)
               rest == Difference(t, One(t), tie)
    <3>1. diff[x] = 0
      BY <2>11, Bits DEF Product, Over!ColMul
    <3>2. rest[x] = 0
      BY <2>11, Bits DEF Difference, One, Over!ColSub, Over!All
    <3>3. MaskedDiff(t, k)[x] = Over({})!Add(diff[x], rest[x])
      BY <2>11 DEF MaskedDiff, Strictly
    <3> HIDE DEF diff, rest
    <3> QED BY <3>1, <3>2, <3>3, Bits
  <2>14. claim.values[x] = <<0, 0>> /\ x \in DOMAIN claim.values /\ claim.kind = "nonzero"
    <3> DEFINE pair(l) == <<MaskedDiff(t, k)[l], Over({})!Sub(1, BothActive(t)[l])>>
               pairs == [l \in R |-> pair(l)]
    <3>1. claim = [kind |-> "nonzero", size |-> 0, values |-> pairs]
      BY <2>2 DEF StrictClaim, Over!NonZero, Over!Claim
    <3>2. pair(x) = <<0, 0>>
      BY <2>12, <2>13, Bits
    <3> HIDE DEF pair, claim
    <3>3. pairs[x] = <<0, 0>> /\ DOMAIN pairs = R /\ x \in R
      BY <2>11, <3>2
    <3> HIDE DEF pairs
    <3> QED BY <3>1, <3>3
  <2>15. Holds(claim)
    <3> DEFINE cs == SortClaims(t, ShiftColumn(Size(t), 1), ShiftColumn(Size(t), 0))
    <3>1. "strict" \in DOMAIN cs /\ cs.strict = <<claim>>
      BY DEF SortClaims, Strictly
    <3> HIDE DEF cs, claim
    <3>2. AllHold(cs)
      BY <2>3 DEF cs
    <3>3. 1 \in DOMAIN <<claim>> /\ <<claim>>[1] = claim
      OBVIOUS
    <3> QED BY <3>1, <3>2, <3>3 DEF AllHold
  <2> HIDE DEF claim
  <2>16. Over(DOMAIN claim.values)!Holds(claim)
    BY <2>14, <2>15 DEF Holds
  <2> QED BY <2>14, <2>16 DEF Over!Holds
<1> QED BY <1>1, InvHolds, PTL

-----------------------------------------------------------------------------
(* Every order that can be expressed is proved.                            *)

\* Zeros and ones, and columns of them.
LEMMA BitOps ==
  ASSUME NEW R
  PROVE  /\ \A a, b \in {0, 1} : Over(R)!Mul(a, b) = IF a = 1 /\ b = 1 THEN 1 ELSE 0
         /\ Over(R)!Sub(1, 0) = 1 /\ Over(R)!Sub(1, 1) = 0
         /\ \A x \in Over(R)!Field : /\ Over(R)!Mul(x, 1) = x /\ Over(R)!Mul(x, 0) = 0
                                     /\ Over(R)!Mul(0, x) = 0 /\ Over(R)!Add(x, 0) = x
                                     /\ Over(R)!Sub(x, x) = 0
         /\ \A x, y \in Over(R)!Field : Over(R)!Sub(x, y) = 0 => x = y
         /\ Over(R)!Add(0, 1) = 1 /\ 0 \in Over(R)!Field /\ 1 \in Over(R)!Field
<1>1. FieldSize \in Nat /\ FieldSize > 1
  BY BitsStay
<1>2. 0 \in Over(R)!Field /\ 1 \in Over(R)!Field
  BY SignColumns
<1>3. Over(R)!Add(0, 1) = 1 /\ \A x \in Over(R)!Field : Over(R)!Add(x, 0) = x
  BY <1>1 DEF Over!Add, Over!Field
<1>4. \A x \in Over(R)!Field : Over(R)!Mul(x, 1) = x /\ Over(R)!Mul(x, 0) = 0 /\ Over(R)!Mul(0, x) = 0
  BY MulOne, MulZero
<1>5. \A a, b \in {0, 1} : Over(R)!Mul(a, b) = IF a = 1 /\ b = 1 THEN 1 ELSE 0
  BY <1>2, <1>4
<1>6. \A x \in Over(R)!Field : Over(R)!Sub(x, x) = 0
  BY <1>1 DEF Over!Sub, Over!Field
<1> QED BY <1>2, <1>3, <1>4, <1>5, <1>6, SubValues

LEMMA ColumnOps ==
  ASSUME NEW t, NEW p, Size(t) = p
  PROVE  /\ \A a, b : /\ DOMAIN Product(t, a, b) = 1..p /\ DOMAIN Difference(t, a, b) = 1..p
                      /\ \A i \in 1..p : /\ Product(t, a, b)[i] = Over({})!Mul(a[i], b[i])
                                         /\ Difference(t, a, b)[i] = Over({})!Sub(a[i], b[i])
         /\ \A i \in 1..p : One(t)[i] = 1
<1>1. \A a, b : Over(1..p)!Mul(a, b) = Over({})!Mul(a, b) /\ Over(1..p)!Sub(a, b) = Over({})!Sub(a, b)
  BY DEF Over!Mul, Over!Sub, Over!Near
<1> QED BY <1>1 DEF Product, Difference, One, Over!ColMul, Over!ColSub, Over!All

\* Claims about zeros, and about pairs that are not, hold.
LEMMA ClaimsOfRows ==
  ASSUME NEW R
  PROVE  /\ \A v : DOMAIN v = R /\ (\A i \in R : v[i] = 0) => Holds(Over(R)!Zero(v))
         /\ \A v : DOMAIN v = R /\ (\A i \in R : v[i] # <<0, 0>>) => Holds(Over(R)!NonZero(v))
<1>1. ASSUME NEW v, DOMAIN v = R, \A i \in R : v[i] = 0 PROVE Holds(Over(R)!Zero(v))
  <2> DEFINE c == Over(R)!Zero(v)
  <2>1. c.kind = "zero" /\ c.values = v
    BY DEF Over!Zero, Over!Claim
  <2> HIDE DEF c
  <2>2. Over(DOMAIN c.values)!Holds(c)
    BY <1>1, <2>1 DEF Over!Holds
  <2> QED BY <2>1, <2>2 DEF Holds, c
<1>2. ASSUME NEW v, DOMAIN v = R, \A i \in R : v[i] # <<0, 0>> PROVE Holds(Over(R)!NonZero(v))
  <2> DEFINE c == Over(R)!NonZero(v)
  <2>1. c.kind = "nonzero" /\ c.values = v
    BY DEF Over!NonZero, Over!Claim
  <2> HIDE DEF c
  <2>2. Over(DOMAIN c.values)!Holds(c)
    BY <1>2, <2>1 DEF Over!Holds
  <2> QED BY <2>1, <2>2 DEF Holds, c
<1> QED BY <1>1, <1>2

\* The tables fit the p rows they are about: ties are ties of longer and longer
\* prefixes, tied keys are equal, and between two active rows differences that
\* count are in the type's range, keys that break a tie differ, and in a strict
\* order rows that tie in all keys but the last differ there.
Both(t, i) == t.table[Act][i] = 1 /\ t.rotated[Act][i] = 1
Truthful(t, p, k) ==
  /\ p \in Nat /\ p > 0 /\ Size(t) = p /\ k \in Nat /\ k > 0 /\ KeyCount = k
  /\ query.types \in [1..k -> Types]
  /\ \A i \in 1..p :
       /\ t.table[Act][i] \in {0, 1} /\ t.rotated[Act][i] \in {0, 1}
       /\ \A c \in 1..k :
            /\ AllTies(t)[c][i] \in {0, 1} /\ t.diffs[c][i] \in Over({})!Field
            /\ t.table[c][i] \in Over({})!Field /\ t.rotated[c][i] \in Over({})!Field
            /\ Both(t, i) /\ AllTies(t)[c][i] = 1 =>
                 t.diffs[c][i] \in 0..Most({}, DiffType(query.types[c]))
       /\ \A c \in 1..(k - 1) :
            /\ AllTies(t)[c + 1][i] = 1 => AllTies(t)[c][i] = 1
            /\ t.table[Act][i] = 1 /\ AllTies(t)[c + 1][i] = 1 => t.table[c][i] = t.rotated[c][i]
            /\ Both(t, i) /\ AllTies(t)[c][i] = 1 /\ AllTies(t)[c + 1][i] = 0 =>
                 t.table[c][i] # t.rotated[c][i]
       /\ Strictly /\ Both(t, i) /\ AllTies(t)[k][i] = 1 => t.diffs[k][i] # 0

\* What is supposed of the types: a byte has an even number of values, and a one
\* is no overflow; and of None, that it is no column.
KeysNarrow ==
  /\ EvenByte /\ \A t \in Types : Most({}, DiffType(t)) > 0
  /\ \A n \in Nat : None \notin [1..n -> Over({})!Field]

LEMMA BothIs ==
  ASSUME NEW t, NEW p, NEW k, Truthful(t, p, k)
  PROVE  /\ BothActive(t) \in [1..p -> {0, 1}]
         /\ \A i \in 1..p : BothActive(t)[i] = 1 <=> Both(t, i)
<1>1. \A i \in 1..p : t.table[Act][i] \in {0, 1} /\ t.rotated[Act][i] \in {0, 1}
  BY DEF Truthful
<1>2. Size(t) = p
  BY DEF Truthful
<1>3. \A i \in 1..p : BothActive(t)[i] = Over({})!Mul(t.table[Act][i], t.rotated[Act][i])
  BY <1>2, ColumnOps DEF BothActive
<1>4. BothActive(t) = [i \in 1..p |-> Over(1..p)!Mul(t.table[Act][i], t.rotated[Act][i])]
  BY <1>2 DEF BothActive, Product, Over!ColMul
<1>5. \A i \in 1..p : BothActive(t)[i] = IF Both(t, i) THEN 1 ELSE 0
  BY <1>1, <1>3, BitOps DEF Both
<1> DEFINE b == BothActive(t)
<1>6. b = [i \in 1..p |-> b[i]]
  BY <1>4
<1> HIDE DEF b
<1>7. \A i \in 1..p : b[i] = IF Both(t, i) THEN 1 ELSE 0
  BY <1>5 DEF b
<1>8. b \in [1..p -> {0, 1}] /\ \A i \in 1..p : b[i] = 1 <=> Both(t, i)
  BY <1>6, <1>7
<1> QED BY <1>8 DEF b

\* Ties are zeros and ones.
LEMMA BoolsHold ==
  ASSUME NEW t, NEW p, NEW k, Truthful(t, p, k), NEW c \in 1..k
  PROVE  Holds(BoolClaim(t, c))
<1> DEFINE tie == AllTies(t)[c]
           rest == Difference(t, One(t), tie)
           v == Product(t, tie, rest)
<1>1. Size(t) = p /\ \A i \in 1..p : tie[i] \in {0, 1}
  BY DEF Truthful
<1> HIDE DEF tie
<1>2. \A i \in 1..p : rest[i] = Over({})!Sub(1, tie[i])
  BY <1>1, ColumnOps
<1> HIDE DEF rest
<1>3. DOMAIN v = 1..p /\ \A i \in 1..p : v[i] = Over({})!Mul(tie[i], rest[i])
  BY <1>1, ColumnOps
<1> HIDE DEF v
<1>4. \A i \in 1..p : v[i] = 0
  BY <1>1, <1>2, <1>3, BitOps
<1>5. Holds(Over(1..p)!Zero(v))
  BY <1>3, <1>4, ClaimsOfRows
<1> QED BY <1>1, <1>5 DEF BoolClaim, v, rest, tie

\* A longer prefix ties only where a shorter one does.
LEMMA PrefixesHold ==
  ASSUME NEW t, NEW p, NEW k, Truthful(t, p, k), NEW j \in 1..(k - 2)
  PROVE  Holds(PrefixTies(t)[j])
<1> DEFINE long == AllTies(t)[j + 2]
           short == AllTies(t)[j + 1]
           both == Product(t, long, short)
           v == Difference(t, both, long)
<1>1. Size(t) = p /\ KeyCount = k /\ k \in Nat
  BY DEF Truthful
<1>2. j + 1 \in 1..k /\ j + 2 \in 1..k /\ j + 1 \in 1..(k - 1) /\ (j + 1) + 1 = j + 2
  BY <1>1
<1>3. \A i \in 1..p : long[i] \in {0, 1} /\ short[i] \in {0, 1} /\ (long[i] = 1 => short[i] = 1)
  BY <1>2 DEF Truthful
<1> HIDE DEF long, short
<1>4. \A i \in 1..p : both[i] = Over({})!Mul(long[i], short[i])
  BY <1>1, ColumnOps
<1> HIDE DEF both
<1>5. DOMAIN v = 1..p /\ \A i \in 1..p : v[i] = Over({})!Sub(both[i], long[i])
  BY <1>1, ColumnOps
<1> HIDE DEF v
<1>6. \A i \in 1..p : v[i] = 0
  BY <1>3, <1>4, <1>5, BitOps
<1>7. Holds(Over(1..p)!Zero(v))
  BY <1>5, <1>6, ClaimsOfRows
<1>8. PrefixTies(t)[j] = Over(1..p)!Zero(v)
  BY <1>1 DEF PrefixTies, v, both, long, short
<1> QED BY <1>7, <1>8

\* Where it does the keys are equal.
LEMMA EqualsHold ==
  ASSUME NEW t, NEW p, NEW k, Truthful(t, p, k), NEW j \in 1..(k - 1)
  PROVE  Holds(TiesAreEqual(t)[j])
<1> DEFINE next == AllTies(t)[j + 1]
           first == AllTies(t)[1]
           gap == Difference(t, t.table[j], t.rotated[j])
           tied == Product(t, next, first)
           gaps == Product(t, tied, gap)
           v == Product(t, gaps, t.table[Act])
<1>1. Size(t) = p /\ KeyCount = k /\ k \in Nat
  BY DEF Truthful
<1>2. j + 1 \in 1..k /\ 1 \in 1..k /\ j \in 1..k
  BY <1>1
<1>3. \A i \in 1..p : /\ next[i] \in {0, 1} /\ first[i] \in {0, 1} /\ t.table[Act][i] \in {0, 1}
                      /\ t.table[j][i] \in Over({})!Field /\ t.rotated[j][i] \in Over({})!Field
                      /\ t.table[Act][i] = 1 /\ next[i] = 1 => t.table[j][i] = t.rotated[j][i]
  BY <1>2 DEF Truthful
<1> HIDE DEF next, first
<1>4. \A i \in 1..p : gap[i] = Over({})!Sub(t.table[j][i], t.rotated[j][i])
                      /\ tied[i] = Over({})!Mul(next[i], first[i])
  BY <1>1, ColumnOps
<1> HIDE DEF gap, tied
<1>5. \A i \in 1..p : gaps[i] = Over({})!Mul(tied[i], gap[i])
  BY <1>1, ColumnOps
<1> HIDE DEF gaps
<1>6. DOMAIN v = 1..p /\ \A i \in 1..p : v[i] = Over({})!Mul(gaps[i], t.table[Act][i])
  BY <1>1, ColumnOps
<1> HIDE DEF v
<1>7. ASSUME NEW i \in 1..p PROVE v[i] = 0
  <2>1. tied[i] \in {0, 1} /\ (tied[i] = 1 => next[i] = 1) /\ gap[i] \in Over({})!Field
    BY <1>3, <1>4, BitOps, SignColumns
  <2>2. gaps[i] \in Over({})!Field
    BY <1>5, <2>1, BitOps, SignClosed
  <2>3. CASE t.table[Act][i] = 0
    BY <1>6, <2>2, <2>3, BitOps
  <2>4. CASE t.table[Act][i] = 1 /\ tied[i] = 1
    BY <1>3, <1>4, <1>5, <1>6, <2>1, <2>4, BitOps
  <2>5. CASE tied[i] = 0
    BY <1>3, <1>5, <1>6, <2>1, <2>5, BitOps
  <2> QED BY <1>3, <2>1, <2>3, <2>4, <2>5
<1>8. Holds(Over(1..p)!Zero(v))
  BY <1>6, <1>7, ClaimsOfRows
<1>9. TiesAreEqual(t)[j] = Over(1..p)!Zero(v)
  BY <1>1 DEF TiesAreEqual, v, gaps, gap, tied, next, first
<1> QED BY <1>8, <1>9

\* A difference counts where the keys before it tie.
LEMMA MaskedIs ==
  ASSUME NEW t, NEW p, NEW k, Truthful(t, p, k), NEW c \in 1..k
  PROVE  /\ MaskedDiff(t, c) \in [1..p -> Over({})!Field]
         /\ \A i \in 1..p : MaskedDiff(t, c)[i] =
              IF AllTies(t)[c][i] = 1 THEN t.diffs[c][i] ELSE IF Strictly THEN 1 ELSE 0
<1> DEFINE tie == AllTies(t)[c]
           diff == Product(t, t.diffs[c], tie)
           rest == Difference(t, One(t), tie)
           sum == [i \in 1..Size(t) |-> Over({})!Add(diff[i], rest[i])]
           m == MaskedDiff(t, c)
           value(i) == IF tie[i] = 1 THEN t.diffs[c][i] ELSE IF Strictly THEN 1 ELSE 0
<1>1. Size(t) = p /\ \A i \in 1..p : tie[i] \in {0, 1} /\ t.diffs[c][i] \in Over({})!Field
  BY DEF Truthful
<1>2. m = IF Strictly THEN sum ELSE diff
  BY DEF MaskedDiff
<1>3. diff = [i \in 1..p |-> diff[i]]
  BY <1>1 DEF Product, Over!ColMul
<1> HIDE DEF tie, m
<1>4. \A i \in 1..p : diff[i] = Over({})!Mul(t.diffs[c][i], tie[i]) /\ rest[i] = Over({})!Sub(1, tie[i])
  BY <1>1, ColumnOps
<1> HIDE DEF diff, rest
<1>5. sum = [i \in 1..p |-> sum[i]] /\ \A i \in 1..p : sum[i] = Over({})!Add(diff[i], rest[i])
  BY <1>1
<1> HIDE DEF sum
<1>6. \A i \in 1..p : diff[i] = (IF tie[i] = 1 THEN t.diffs[c][i] ELSE 0)
                      /\ rest[i] = (IF tie[i] = 1 THEN 0 ELSE 1)
  BY <1>1, <1>4, BitOps
<1>7. \A i \in 1..p : sum[i] = IF tie[i] = 1 THEN t.diffs[c][i] ELSE 1
  BY <1>1, <1>5, <1>6, BitOps
<1>8. \A i \in 1..p : m[i] = value(i)
  BY <1>2, <1>6, <1>7
<1>9. \A i \in 1..p : value(i) \in Over({})!Field
  BY <1>1, BitOps
<1>10. m = [i \in 1..p |-> m[i]]
  BY <1>2, <1>3, <1>5
<1> HIDE DEF value
<1>11. m \in [1..p -> Over({})!Field]
  BY <1>8, <1>9, <1>10
<1> QED BY <1>8, <1>11 DEF value, m, tie

\* The range claims are claims about rows.
RowClaim(c, R) == c.kind \in {"zero", "lookup"} /\ DOMAIN c.values = R
LEMMA RangeShape ==
  ASSUME NEW R, NEW t \in Over(R)!Type, t # "Decimal128", NEW col, NEW act, act # None, NEW ch,
         NEW list, list = Over(R)!RangeClaims(t, col, act, ch)
  PROVE  \E n \in Nat : list = [j \in 1..n |-> list[j]] /\ \A j \in 1..n : RowClaim(list[j], R)
<1>1. Over(R)!ChunkCount(t) \in {0, 4}
  BY DEF Over!ChunkCount, Over!Bytes, Over!Type
<1>2. \A x : DOMAIN Over(R)!Masked(x, act) = R
  BY DEF Over!Masked, Over!ColMul
<1>3. \A size, x : RowClaim(Over(R)!Lookup(size, Over(R)!Masked(x, act)), R)
  BY <1>2 DEF RowClaim, Over!Lookup, Over!Claim
<1>4. CASE Over(R)!ChunkCount(t) = 0
  <2> DEFINE one == Over(R)!Lookup(Over(R)!WholeSize(t), Over(R)!Masked(col, act))
  <2>1. list = <<one>> /\ RowClaim(one, R)
    BY <1>3, <1>4 DEF Over!RangeClaims
  <2> HIDE DEF one
  <2>2. list = [j \in 1..1 |-> list[j]] /\ \A j \in 1..1 : list[j] = one
    BY <2>1
  <2> QED BY <2>1, <2>2
<1>5. CASE Over(R)!ChunkCount(t) = 4
  <2> DEFINE sum == [i \in R |-> Over(R)!RecomposeAt(ch, i)]
             size(k) == IF k = 1 THEN Over(R)!TopSize(t) ELSE Over(R)!Chunk
             gap == Over(R)!ColSub(Over(R)!Masked(col, act), sum)
             z == Over(R)!Zero(gap)
             looks == [k \in 1..4 |-> Over(R)!Lookup(size(k), Over(R)!Masked(ch[k], act))]
             S == {looks[k] : k \in 1..4} \cup {z}
  <2>1. list = <<z>> \o looks
    BY <1>5 DEF Over!RangeClaims
  <2>2. DOMAIN gap = R
    BY DEF Over!ColSub
  <2> HIDE DEF gap
  <2>3. RowClaim(z, R)
    BY <2>2 DEF RowClaim, Over!Zero, Over!Claim
  <2>4. \A k \in 1..4 : RowClaim(looks[k], R)
    BY <1>3
  <2>5. z \in S /\ looks \in [1..4 -> S]
    OBVIOUS
  <2>6. \A x \in S : RowClaim(x, R)
    BY <2>3, <2>4
  <2> HIDE DEF looks, S, z
  <2>7. /\ DOMAIN list = 1..5 /\ list[1] = z
        /\ \A k \in 1..4 : list[k + 1] = looks[k]
    BY <2>1, <2>5, PrependFour
  <2>8. list \in Seq(S)
    <3>1. <<z>> \in Seq(S)
      BY <2>5
    <3>2. looks \in Seq(S)
      BY <2>5, ListOf
    <3> QED BY <2>1, <3>1, <3>2
  <2>9. ASSUME NEW j \in 1..5 PROVE list[j] \in S
    <3>1. j = 1 \/ (j - 1 \in 1..4 /\ (j - 1) + 1 = j)
      OBVIOUS
    <3> QED BY <2>5, <2>7, <3>1
  <2>10. list = [j \in 1..5 |-> list[j]]
    BY <2>7, <2>8
  <2> QED BY <2>6, <2>9, <2>10
<1> QED BY <1>1, <1>4, <1>5

\* The sign claims of one key hold: they are a list of claims that do.
LEMMA SignsHold ==
  ASSUME KeysNarrow, NEW t, NEW p, NEW k, Truthful(t, p, k), NEW c \in 1..k
  PROVE  \E n \in Nat : /\ SignClaims(t, c) = [j \in 1..n |-> SignClaims(t, c)[j]]
                        /\ \A j \in 1..n : Holds(SignClaims(t, c)[j])
<1> DEFINE R == 1..p
           type == DiffType(query.types[c])
           col == MaskedDiff(t, c)
           act == BothActive(t)
           ch == Over(R)!ChunkColumns(type, col, act)
           list == SignClaims(t, c)
<1>1. Size(t) = p /\ p \in Nat /\ query.types[c] \in Types
  BY DEF Truthful
<1>2. list = Over(R)!RangeClaims(type, col, act, ch)
  BY <1>1 DEF SignClaims
<1>3. type \in Over(R)!Type /\ type # "Decimal128" /\ Most({}, type) > 0
  BY <1>1, TypesAre, SameTypes DEF KeysNarrow
<1>4. col \in Over(R)!Column
  BY MaskedIs, SameTypes
<1>5. act \in [R -> {0, 1}] /\ \A i \in R : act[i] = 1 <=> Both(t, i)
  BY BothIs
<1>6. act # None
  <2>1. act \in [1..p -> Over({})!Field]
    BY <1>5, BitOps
  <2> QED BY <1>1, <2>1 DEF KeysNarrow
<1>7. \A i \in R : act[i] = 1 => col[i] \in 0..Most(R, type)
  <2> SUFFICES ASSUME NEW i \in R, act[i] = 1 PROVE col[i] \in 0..Most({}, type)
    BY SameTypes
  <2>1. Both(t, i)
    BY <1>5
  <2>2. AllTies(t)[c][i] = 1 => t.diffs[c][i] \in 0..Most({}, type)
    BY <2>1 DEF Truthful
  <2>3. Most({}, type) \in Nat
    BY <1>3, TypeSizes, SameTypes
  <2>4. 0 \in 0..Most({}, type) /\ 1 \in 0..Most({}, type)
    BY <1>3, <2>3
  <2> QED BY <2>2, <2>4, MaskedIs
<1> HIDE DEF col, act, type, R, ch
<1>8. ListHolds(R, Over(R)!RangeClaims(type, col, act, Over(R)!ChunkColumns(type, col, act)))
  <2>1. EvenByte
    BY DEF KeysNarrow
  <2> QED BY <1>3, <1>4, <1>5, <1>6, <1>7, <2>1, RangeHolds
<1> HIDE DEF list
<1>9. PICK n \in Nat : list = [j \in 1..n |-> list[j]] /\ \A j \in 1..n : RowClaim(list[j], R)
  BY <1>2, <1>3, <1>6, RangeShape
<1>10. \A j \in 1..n : Over(R)!Holds(list[j])
  BY <1>2, <1>8, <1>9 DEF ListHolds, ch
<1>11. \A j \in 1..n : Holds(list[j])
  BY <1>9, <1>10 DEF Holds, RowClaim
<1> QED BY <1>9, <1>11 DEF list

\* In a strict order the last difference is not zero.
LEMMA StrictHolds ==
  ASSUME NEW t, NEW p, NEW k, Truthful(t, p, k), Strictly
  PROVE  Holds(StrictClaim(t))
<1> DEFINE m == MaskedDiff(t, k)
           act == BothActive(t)
           v == [i \in 1..p |-> <<m[i], Over({})!Sub(1, act[i])>>]
<1>1. Size(t) = p /\ KeyCount = k /\ k \in 1..k
  BY DEF Truthful
<1>2. act \in [1..p -> {0, 1}] /\ \A i \in 1..p : act[i] = 1 <=> Both(t, i)
  BY BothIs
<1>3. \A i \in 1..p : m[i] = IF AllTies(t)[k][i] = 1 THEN t.diffs[k][i] ELSE 1
  BY <1>1, MaskedIs
<1>4. StrictClaim(t) = Over(1..p)!NonZero(v)
  BY <1>1 DEF StrictClaim
<1> HIDE DEF m, act
<1>5. ASSUME NEW i \in 1..p PROVE v[i] # <<0, 0>>
  <2>1. CASE act[i] = 1
    <3>1. Both(t, i)
      BY <1>2, <2>1
    <3>2. AllTies(t)[k][i] = 1 => t.diffs[k][i] # 0
      BY <3>1 DEF Truthful
    <3>3. m[i] # 0
      BY <1>3, <3>2
    <3> QED BY <3>3
  <2>2. CASE act[i] = 0
    <3>1. Over({})!Sub(1, act[i]) = 1
      BY <2>2, BitOps
    <3> QED BY <3>1
  <2> QED BY <1>2, <2>1, <2>2
<1>6. DOMAIN v = 1..p
  OBVIOUS
<1> HIDE DEF v
<1> QED BY <1>4, <1>5, <1>6, ClaimsOfRows

\* Keys that cease to tie differ.
LEMMA NeqHolds ==
  ASSUME NEW t, NEW p, NEW k, Truthful(t, p, k)
  PROVE  Holds(NeqClaim(t))
<1> DEFINE ties == AllTies(t)
           rest(c) == Difference(t, One(t), ties[c + 1])
           brk(c) == Product(t, ties[c], rest(c))
           breaks == [i \in 1..Size(t) |-> IF \E c \in 1..(KeyCount - 1) : brk(c)[i] = 1 THEN 1 ELSE 0]
           next(c) == Product(t, t.rotated[c], brk(c))
           this(c) == Product(t, t.table[c], brk(c))
           differs(i) == \E c \in 1..(KeyCount - 1) : Difference(t, next(c), this(c))[i] # 0
           both == BothActive(t)
           act == Product(t, both, breaks)
           v == [i \in 1..p |-> <<IF differs(i) THEN 1 ELSE 0,
                                  IF KeyCount = 1 THEN 1 ELSE Over({})!Sub(1, act[i])>>]
<1>1. Size(t) = p /\ KeyCount = k /\ k \in Nat /\ k > 0
  BY DEF Truthful
<1>2. NeqClaim(t) = Over(1..p)!NonZero(v)
  BY <1>1 DEF NeqClaim
<1>3. DOMAIN v = 1..p
  OBVIOUS
<1>4. ASSUME NEW i \in 1..p PROVE v[i] # <<0, 0>>
  <2>1. both[i] \in {0, 1} /\ (both[i] = 1 <=> Both(t, i))
    BY BothIs
  <2>2. breaks[i] = IF \E c \in 1..(k - 1) : brk(c)[i] = 1 THEN 1 ELSE 0
    BY <1>1
  <2> HIDE DEF both, breaks
  <2>3. act[i] = Over({})!Mul(both[i], breaks[i])
    BY <1>1, ColumnOps
  <2> HIDE DEF act
  <2>4. act[i] = IF both[i] = 1 /\ breaks[i] = 1 THEN 1 ELSE 0
    <3>1. breaks[i] \in {0, 1}
      BY <2>2
    <3> QED BY <2>1, <2>3, <3>1, BitOps
  <2>5. CASE act[i] = 0 \/ KeyCount = 1
    <3>1. Over({})!Sub(1, 0) = 1
      BY BitOps
    <3> HIDE DEF differs
    <3> QED BY <2>5, <3>1
  <2>6. CASE act[i] = 1
    <3>1. Both(t, i) /\ breaks[i] = 1
      BY <2>1, <2>4, <2>6
    <3>2. PICK c \in 1..(k - 1) : brk(c)[i] = 1
      BY <2>2, <3>1
    <3>3. c \in 1..k /\ c + 1 \in 1..k
      BY <1>1
    <3>4. ties[c][i] \in {0, 1} /\ ties[c + 1][i] \in {0, 1}
          /\ t.table[c][i] \in Over({})!Field /\ t.rotated[c][i] \in Over({})!Field
      BY <3>3 DEF Truthful
    <3>5. brk(c)[i] = Over({})!Mul(ties[c][i], Over({})!Sub(1, ties[c + 1][i]))
      <4>1. rest(c)[i] = Over({})!Sub(1, ties[c + 1][i])
        BY <1>1, ColumnOps
      <4> HIDE DEF rest, ties
      <4> QED BY <1>1, <4>1, ColumnOps
    <3>6. ties[c][i] = 1 /\ ties[c + 1][i] = 0
      BY <3>2, <3>4, <3>5, BitOps
    <3>7. t.table[c][i] # t.rotated[c][i]
      BY <3>1, <3>6 DEF Truthful
    <3>8. next(c)[i] = t.rotated[c][i] /\ this(c)[i] = t.table[c][i]
      <4> HIDE DEF brk
      <4>1. next(c)[i] = Over({})!Mul(t.rotated[c][i], 1) /\ this(c)[i] = Over({})!Mul(t.table[c][i], 1)
        BY <1>1, <3>2, ColumnOps
      <4> HIDE DEF next, this
      <4> QED BY <3>4, <4>1, BitOps
    <3>9. Difference(t, next(c), this(c))[i] = Over({})!Sub(t.rotated[c][i], t.table[c][i])
      <4> HIDE DEF next, this
      <4> QED BY <1>1, <3>8, ColumnOps
    <3>10. Difference(t, next(c), this(c))[i] # 0
      BY <3>4, <3>7, <3>9, BitOps
    <3>11. differs(i)
      BY <1>1, <3>10
    <3> HIDE DEF differs
    <3> QED BY <3>11
  <2> QED BY <2>4, <2>5, <2>6
<1> HIDE DEF v
<1> QED BY <1>2, <1>3, <1>4, ClaimsOfRows

\* The honest prover finds the same of them.
LEMMA HonestNeqHolds ==
  ASSUME NEW t, NEW p, NEW k, Truthful(t, p, k)
  PROVE  HonestNeq(t)
<1> DEFINE ties == AllTies(t)
           Break(c, i) == c < KeyCount /\ ties[c][i] = 1 /\ ties[c + 1][i] = 0
<1>1. Size(t) = p /\ KeyCount = k /\ k \in Nat /\ k > 0
  BY DEF Truthful
<1>2. ASSUME NEW i \in 1..p, NEW c \in 1..k, Break(c, i), t.table[Act][i] * t.rotated[Act][i] = 1
      PROVE  t.table[c][i] # t.rotated[c][i]
  <2>1. t.table[Act][i] \in {0, 1} /\ t.rotated[Act][i] \in {0, 1}
    BY DEF Truthful
  <2>2. Both(t, i)
    BY <1>2, <2>1 DEF Both
  <2>3. c \in 1..(k - 1)
    BY <1>1, <1>2
  <2> QED BY <1>2, <2>2, <2>3 DEF Truthful
<1>3. \A i \in 1..Size(t) :
        (\E c \in 1..KeyCount : Break(c, i)) /\ t.table[Act][i] * t.rotated[Act][i] = 1
          => \E c \in 1..KeyCount : Break(c, i) /\ t.table[c][i] # t.rotated[c][i]
  BY <1>1, <1>2
<1> QED BY <1>3 DEF HonestNeq

\* And of the differences.
LEMMA HonestSignsHold ==
  ASSUME KeysNarrow, NEW t, NEW p, NEW k, Truthful(t, p, k)
  PROVE  HonestSigns(t)
<1> DEFINE R == 1..p
           type(c) == DiffType(query.types[c])
           ties == AllTies(t)
           both == [i \in R |-> t.table[Act][i] * t.rotated[Act][i]]
           masked(c) == [i \in R |-> IF ties[c][i] = 1 THEN t.diffs[c][i] ELSE IF Strictly THEN 1 ELSE 0]
           sign(c) == IF Strictly /\ c = KeyCount THEN "Positive" ELSE "NonNegative"
<1>1. Size(t) = p /\ KeyCount = k /\ k \in Nat /\ k > 0 /\ p \in Nat
      /\ \A c \in 1..k : query.types[c] \in Types
  BY DEF Truthful
<1>2. \A c \in 1..k :
        /\ type(c) \in Over(R)!Type /\ type(c) # "Decimal128"
        /\ Most({}, type(c)) > 0 /\ Most({}, type(c)) \in Nat
        /\ Most(R, type(c)) = Most({}, type(c))
  <2> TAKE c \in 1..k
  <2>1. type(c) \in Over({})!Type /\ type(c) # "Decimal128" /\ Most({}, type(c)) > 0
    BY <1>1, TypesAre DEF KeysNarrow
  <2> HIDE DEF type
  <2> QED BY <2>1, SameTypes, TypeSizes
<1>3. \A i \in R : both[i] \in {0, 1} /\ (both[i] # 0 => Both(t, i))
  <2>1. \A i \in R : t.table[Act][i] \in {0, 1} /\ t.rotated[Act][i] \in {0, 1}
    BY DEF Truthful
  <2> QED BY <2>1 DEF Both
<1>4. both # None
  <2>1. both \in [1..p -> Over({})!Field]
    BY <1>3, BitOps
  <2> QED BY <1>1, <2>1 DEF KeysNarrow
<1>5. ASSUME NEW c \in 1..k PROVE Over(R)!HonestSign(type(c), sign(c), masked(c), both)
  <2> SUFFICES ASSUME NEW i \in R, both[i] # 0
               PROVE  /\ Over(R)!Strict(sign(c)) => masked(c)[i] # 0
                      /\ Over(R)!SignedFromEncoding(Over(R)!Oriented(sign(c), masked(c))[i],
                                                    Over(R)!Bytes[type(c)]) >= 0
    <3> HIDE DEF both, masked, sign, type
    <3> QED BY <1>4 DEF Over!HonestSign
  <2>1. Both(t, i)
    BY <1>3
  <2>2. ties[c][i] = 1 => t.diffs[c][i] \in 0..Most({}, type(c))
    BY <2>1 DEF Truthful
  <2>3. masked(c)[i] \in 0..Most(R, type(c))
    <3>1. 0 \in 0..Most({}, type(c)) /\ 1 \in 0..Most({}, type(c))
      BY <1>2
    <3>2. Most(R, type(c)) = Most({}, type(c))
      BY <1>2
    <3> HIDE DEF ties, type
    <3> QED BY <2>2, <3>1, <3>2
  <2>4. Over(R)!Oriented(sign(c), masked(c)) = masked(c)
    BY DEF Over!Oriented
  <2>5. Over(R)!SignedFromEncoding(masked(c)[i], Over(R)!Bytes[type(c)]) = masked(c)[i]
    <3>1. type(c) \in Over(R)!Type /\ type(c) # "Decimal128"
      BY <1>2
    <3> HIDE DEF masked, type
    <3> QED BY <2>3, <3>1, ReadAgain
  <2>6. Over(R)!Strict(sign(c)) => masked(c)[i] # 0
    <3>1. Over(R)!Strict(sign(c)) <=> Strictly /\ c = k
      BY <1>1 DEF Over!Strict
    <3>2. Strictly /\ c = k /\ ties[c][i] = 1 => t.diffs[c][i] # 0
      BY <2>1 DEF Truthful
    <3>3. masked(c)[i] = IF ties[c][i] = 1 THEN t.diffs[c][i] ELSE IF Strictly THEN 1 ELSE 0
      OBVIOUS
    <3> HIDE DEF masked, ties
    <3> QED BY <3>1, <3>2, <3>3
  <2>7. masked(c)[i] >= 0
    <3>1. Most(R, type(c)) \in Nat
      BY <1>2
    <3> HIDE DEF masked, type
    <3> QED BY <2>3, <3>1
  <2> HIDE DEF masked, sign, type
  <2> QED BY <2>4, <2>5, <2>6, <2>7
<1> HIDE DEF R, both, masked, sign, type
<1> QED BY <1>1, <1>5 DEF HonestSigns, R, both, masked, sign, type

\* f is where the active rows of some columns are among the active rows of others.
Active(act, p) == {i \in 1..p : act[i] = 1}
Matched(left, la, right, ra, p, f) ==
  /\ p \in Nat /\ DOMAIN la = 1..p /\ DOMAIN ra = 1..p /\ DOMAIN left = DOMAIN right
  /\ f \in [Active(la, p) -> Active(ra, p)]
  /\ \A i, j \in Active(la, p) : f[i] = f[j] => i = j
  /\ \A j \in Active(ra, p) : \E i \in Active(la, p) : f[i] = j
  /\ \A i \in Active(la, p) : \A c \in DOMAIN left : left[c][i] = right[c][f[i]]

\* As many active rows are alike in some way on the one side as on the other.
LEMMA MatchedCount ==
  ASSUME NEW left, NEW la, NEW right, NEW ra, NEW p, NEW f, Matched(left, la, right, ra, p, f),
         NEW S \in SUBSET Active(la, p), NEW T \in SUBSET Active(ra, p),
         \A i \in Active(la, p) : i \in S <=> f[i] \in T
  PROVE  Cardinality(S) = Cardinality(T)
<1> DEFINE A == Active(la, p)
           B == Active(ra, p)
           g == [i \in S |-> f[i]]
<1>1. p \in Nat /\ f \in [A -> B] /\ (\A i, j \in A : f[i] = f[j] => i = j)
      /\ (\A j \in B : \E i \in A : f[i] = j)
  BY DEF Matched
<1>2. IsFiniteSet(S)
  <2>1. S \in SUBSET (1..p) /\ IsFiniteSet(1..p)
    BY <1>1, FS_Interval DEF Active
  <2> QED BY <2>1, FS_Subset
<1> HIDE DEF A, B
<1>3. g \in [S -> T]
  BY DEF A
<1>4. \A x, y \in S : g[x] = g[y] => x = y
  BY <1>1 DEF A
<1>5. \A z \in T : \E x \in S : g[x] = z
  <2> TAKE z \in T
  <2>1. PICK i \in A : f[i] = z
    BY <1>1 DEF B
  <2>2. i \in S
    BY <2>1 DEF A
  <2> QED BY <2>1, <2>2
<1> HIDE DEF g
<1> QED BY <1>2, <1>3, <1>4, <1>5, CountMoved

\* Then the rows are a permutation of one another.
LEMMA PermHolds ==
  ASSUME NEW left, NEW la, NEW right, NEW ra, NEW p, NEW f, Matched(left, la, right, ra, p, f)
  PROVE  Holds(PermClaim(left, la, right, ra))
<1> DEFINE L == [i \in DOMAIN la |-> <<Folded(Cells(left, i)), la[i]>>]
           R == [i \in DOMAIN ra |-> <<Folded(Cells(right, i)), ra[i]>>]
           claim == PermClaim(left, la, right, ra)
<1>1. claim.kind = "perm" /\ claim.left = L /\ claim.right = R
  BY DEF PermClaim
<1>2. DOMAIN la = 1..p /\ DOMAIN ra = 1..p /\ f \in [Active(la, p) -> Active(ra, p)]
      /\ DOMAIN left = DOMAIN right
      /\ \A i \in Active(la, p) : \A c \in DOMAIN left : left[c][i] = right[c][f[i]]
  BY DEF Matched
<1>3. \A i \in Active(la, p) : Cells(left, i) = Cells(right, f[i])
  BY <1>2 DEF Cells
<1>4. ASSUME NEW v PROVE Times(L, v) = Times(R, v)
  <2> DEFINE S == {i \in 1..p : L[i] = <<v, 1>>}
             T == {i \in 1..p : R[i] = <<v, 1>>}
  <2>1. Times(L, v) = Cardinality(S) /\ Times(R, v) = Cardinality(T)
    <3>1. DOMAIN L = 1..p /\ DOMAIN R = 1..p
      BY <1>2
    <3> HIDE DEF L, R
    <3> QED BY <3>1 DEF Times
  <2>2. \A i \in 1..p : L[i] = <<Folded(Cells(left, i)), la[i]>> /\ R[i] = <<Folded(Cells(right, i)), ra[i]>>
    BY <1>2
  <2> HIDE DEF L, R
  <2>3. \A i \in 1..p : /\ i \in S <=> Folded(Cells(left, i)) = v /\ la[i] = 1
                        /\ i \in T <=> Folded(Cells(right, i)) = v /\ ra[i] = 1
    BY <2>2
  <2>4. S \in SUBSET Active(la, p) /\ T \in SUBSET Active(ra, p)
    BY <2>3 DEF Active
  <2>5. \A i \in Active(la, p) : i \in S <=> f[i] \in T
    <3> TAKE i \in Active(la, p)
    <3>1. i \in 1..p /\ la[i] = 1 /\ f[i] \in 1..p /\ ra[f[i]] = 1
      BY <1>2 DEF Active
    <3>2. Folded(Cells(left, i)) = Folded(Cells(right, f[i]))
      BY <1>3
    <3> HIDE DEF S, T
    <3> QED BY <2>3, <3>1, <3>2
  <2> HIDE DEF S, T
  <2>6. Cardinality(S) = Cardinality(T)
    BY <2>4, <2>5, MatchedCount
  <2> QED BY <2>1, <2>6
<1> HIDE DEF claim, L, R
<1>5. SameBag(claim)
  BY <1>1, <1>4 DEF SameBag
<1> QED BY <1>1, <1>5 DEF Holds, claim

LEMMA HonestPermHolds ==
  ASSUME NEW left, NEW right, NEW p, NEW f,
         Matched(Columns(left), left[Act], Columns(right), right[Act], p, f)
  PROVE  HonestPerm(left, right)
<1> DEFINE la == left[Act]
           ra == right[Act]
<1>1. DOMAIN la = 1..p /\ DOMAIN ra = 1..p /\ f \in [Active(la, p) -> Active(ra, p)]
      /\ \A i \in Active(la, p) : \A c \in DOMAIN Columns(left) :
           Columns(left)[c][i] = Columns(right)[c][f[i]]
  BY DEF Matched
<1>2. \A i \in Active(la, p) : \A c \in 1..KeyCount : left[c][i] = right[c][f[i]]
  BY <1>1 DEF Columns
<1>3. ASSUME NEW row PROVE ActiveBag(left, row) = ActiveBag(right, row)
  <2> DEFINE S == {i \in 1..p : la[i] = 1 /\ \A c \in 1..KeyCount : left[c][i] = row[c]}
             T == {i \in 1..p : ra[i] = 1 /\ \A c \in 1..KeyCount : right[c][i] = row[c]}
  <2>1. ActiveBag(left, row) = Cardinality(S) /\ ActiveBag(right, row) = Cardinality(T)
    BY <1>1 DEF ActiveBag
  <2>2. S \in SUBSET Active(la, p) /\ T \in SUBSET Active(ra, p)
    BY DEF Active
  <2>3. \A i \in Active(la, p) : i \in S <=> f[i] \in T
    <3> TAKE i \in Active(la, p)
    <3>1. i \in 1..p /\ la[i] = 1 /\ f[i] \in 1..p /\ ra[f[i]] = 1
      BY <1>1 DEF Active
    <3>2. i \in S <=> \A c \in 1..KeyCount : left[c][i] = row[c]
      BY <3>1
    <3>3. f[i] \in T <=> \A c \in 1..KeyCount : right[c][f[i]] = row[c]
      BY <3>1
    <3> HIDE DEF S, T
    <3> QED BY <1>2, <3>2, <3>3
  <2> HIDE DEF S, T
  <2>4. Cardinality(S) = Cardinality(T)
    BY <2>2, <2>3, MatchedCount
  <2> QED BY <2>1, <2>4
<1> QED BY <1>3 DEF HonestPerm

\* The rotated table has each active row one place before.
Before(i, p) == IF i = 1 THEN p ELSE i - 1
Turned(t, p, k) ==
  /\ p \in Nat /\ p > 0 /\ Size(t) = p /\ KeyCount = k /\ k \in Nat
  /\ DOMAIN t.table[Act] = 1..p /\ DOMAIN t.rotated[Act] = 1..p
  /\ \A i \in 1..p : /\ t.rotated[Act][Before(i, p)] = t.table[Act][i]
                     /\ t.table[Act][i] = 1 => \A c \in 1..k : t.rotated[c][Before(i, p)] = t.table[c][i]

LEMMA ShiftIs ==
  ASSUME NEW p \in Nat, p > 0
  PROVE  \A i \in 1..p : /\ Before(i, p) \in 1..p
                         /\ ShiftColumn(p, 1)[i] = Before(i, p) - 1 /\ ShiftColumn(p, 0)[i] = i - 1
<1> TAKE i \in 1..p
<1>1. ShiftColumn(p, 1)[i] = (i - 1 - 1) % p /\ ShiftColumn(p, 0)[i] = (i - 1 - 0) % p
  BY DEF ShiftColumn
<1>2. (i - 1 - 0) % p = i - 1
  OBVIOUS
<1>3. (i - 1 - 1) % p = Before(i, p) - 1
  <2>1. CASE i = 1
    <3>1. (0 - 1) % p = p - 1
      <4>1. (0 - 1) = (0 - 1) * p + (p - 1)
        OBVIOUS
      <4> QED BY <4>1
    <3> QED BY <2>1, <3>1 DEF Before
  <2>2. CASE i # 1
    <3>1. i - 2 \in 0..(p - 1) /\ i - 1 - 1 = i - 2
      BY <2>2
    <3>2. (i - 2) % p = i - 2
      BY <3>1
    <3> QED BY <2>2, <3>1, <3>2 DEF Before
  <2> QED BY <2>1, <2>2
<1> QED BY <1>1, <1>2, <1>3 DEF Before

LEMMA AppendIs ==
  ASSUME NEW k \in Nat, NEW g, DOMAIN g = 1..k, g = [c \in 1..k |-> g[c]], NEW x
  PROVE  /\ DOMAIN Append(g, x) = 1..(k + 1) /\ Append(g, x)[k + 1] = x
         /\ \A c \in 1..k : Append(g, x)[c] = g[c]
<1> DEFINE S == {g[c] : c \in 1..k} \cup {x}
<1>1. g \in [1..k -> S] /\ x \in S
  OBVIOUS
<1> HIDE DEF S
<1>2. g \in Seq(S) /\ Len(g) = k
  BY <1>1, ListOf
<1> QED BY <1>1, <1>2

\* Then it is the table rotated, and the place of every row with it.
LEMMA RotationHolds ==
  ASSUME NEW t, NEW p, NEW k, Turned(t, p, k)
  PROVE  Holds(RotationClaim(t, ShiftColumn(p, 1), ShiftColumn(p, 0)))
<1> DEFINE la == t.table[Act]
           ra == t.rotated[Act]
           lc == Columns(t.table)
           rc == Columns(t.rotated)
           left == Append(lc, ShiftColumn(p, 1))
           right == Append(rc, ShiftColumn(p, 0))
           f == [i \in Active(la, p) |-> Before(i, p)]
<1>1. /\ p \in Nat /\ p > 0 /\ KeyCount = k /\ k \in Nat /\ DOMAIN la = 1..p /\ DOMAIN ra = 1..p
      /\ \A i \in 1..p : /\ ra[Before(i, p)] = la[i]
                         /\ la[i] = 1 => \A c \in 1..k : t.rotated[c][Before(i, p)] = t.table[c][i]
  BY DEF Turned
<1>2. DOMAIN lc = 1..k /\ DOMAIN rc = 1..k /\ lc = [c \in 1..k |-> lc[c]] /\ rc = [c \in 1..k |-> rc[c]]
      /\ \A c \in 1..k : lc[c] = t.table[c] /\ rc[c] = t.rotated[c]
  BY <1>1 DEF Columns
<1> HIDE DEF la, ra, lc, rc
<1>3. /\ DOMAIN left = 1..(k + 1) /\ DOMAIN right = 1..(k + 1)
      /\ left[k + 1] = ShiftColumn(p, 1) /\ right[k + 1] = ShiftColumn(p, 0)
      /\ \A c \in 1..k : left[c] = t.table[c] /\ right[c] = t.rotated[c]
  BY <1>1, <1>2, AppendIs
<1> HIDE DEF left, right
<1>4. \A i \in Active(la, p) : i \in 1..p /\ la[i] = 1 /\ Before(i, p) \in Active(ra, p)
  BY <1>1, ShiftIs DEF Active
<1>5. f \in [Active(la, p) -> Active(ra, p)] /\ \A i \in Active(la, p) : f[i] = Before(i, p)
  BY <1>4
<1> HIDE DEF f
<1>6. \A i, j \in Active(la, p) : f[i] = f[j] => i = j
  <2> TAKE i, j \in Active(la, p)
  <2>1. i \in 1..p /\ j \in 1..p /\ f[i] = Before(i, p) /\ f[j] = Before(j, p)
    BY <1>4, <1>5
  <2> QED BY <1>1, <2>1 DEF Before
<1>7. \A j \in Active(ra, p) : \E i \in Active(la, p) : f[i] = j
  <2> TAKE j \in Active(ra, p)
  <2> DEFINE i == IF j = p THEN 1 ELSE j + 1
  <2>1. j \in 1..p /\ ra[j] = 1
    BY DEF Active
  <2>2. i \in 1..p /\ Before(i, p) = j
    BY <1>1, <2>1 DEF Before
  <2> HIDE DEF i
  <2>3. i \in Active(la, p)
    BY <1>1, <2>1, <2>2 DEF Active
  <2> QED BY <1>5, <2>2, <2>3
<1>8. ASSUME NEW i \in Active(la, p), NEW c \in DOMAIN left
      PROVE  left[c][i] = right[c][f[i]]
  <2>1. i \in 1..p /\ la[i] = 1 /\ f[i] = Before(i, p)
    BY <1>4, <1>5
  <2>2. CASE c \in 1..k
    BY <1>1, <1>3, <2>1, <2>2
  <2>3. CASE c = k + 1
    <3> DEFINE j == Before(i, p)
    <3>1. j \in 1..p /\ ShiftColumn(p, 1)[i] = j - 1
      BY <1>1, <2>1, ShiftIs
    <3> HIDE DEF j
    <3>2. ShiftColumn(p, 0)[j] = j - 1
      BY <1>1, <3>1, ShiftIs
    <3> QED BY <1>3, <2>1, <2>3, <3>1, <3>2 DEF j
  <2>4. c \in 1..k \/ c = k + 1
    BY <1>1, <1>3
  <2> QED BY <2>2, <2>3, <2>4
<1>9. Matched(left, la, right, ra, p, f)
  BY <1>1, <1>3, <1>5, <1>6, <1>7, <1>8 DEF Matched
<1>10. Holds(PermClaim(left, la, right, ra))
  BY <1>9, PermHolds
<1> QED BY <1>10 DEF RotationClaim, left, right, la, ra, lc, rc

LEMMA HonestRotationHolds ==
  ASSUME NEW t, NEW p, NEW k, Turned(t, p, k)
  PROVE  HonestRotation(t)
<1>1. p \in Nat /\ p > 0 /\ Size(t) = p /\ KeyCount = k
  BY DEF Turned
<1>2. ASSUME NEW i \in 1..p
      PROVE  ShiftColumn(p, 1)[i] + 1 = Before(i, p)
  <2>1. Before(i, p) \in Int /\ ShiftColumn(p, 1)[i] = Before(i, p) - 1
    BY <1>1, ShiftIs
  <2> QED BY <2>1
<1>3. \A i \in 1..p :
        /\ t.table[Act][i] = t.rotated[Act][ShiftColumn(p, 1)[i] + 1]
        /\ t.table[Act][i] = 1 =>
             \A c \in 1..k : t.table[c][i] = t.rotated[c][ShiftColumn(p, 1)[i] + 1]
  BY <1>2 DEF Turned
<1> QED BY <1>1, <1>3 DEF HonestRotation

\* A list of n claims that hold.
AllOf(list, n) == n \in Nat /\ list = [j \in 1..n |-> list[j]] /\ \A j \in 1..n : Holds(list[j])

LEMMA AllOfSeq ==
  ASSUME NEW list, NEW n, AllOf(list, n), NEW S, \A j \in 1..n : list[j] \in S
  PROVE  list \in Seq(S) /\ Len(list) = n
<1>1. n \in Nat /\ list \in [1..n -> S]
  BY DEF AllOf
<1> QED BY <1>1, ListOf

\* Lists of them one after the other.
LEMMA FlattenedHold ==
  ASSUME NEW k \in Nat, NEW lists, lists = [c \in 1..k |-> lists[c]],
         \A c \in 1..k : \E n : AllOf(lists[c], n)
  PROVE  \A x \in DOMAIN FlattenSeq(lists) : Holds(FlattenSeq(lists)[x])
<1> DEFINE S == UNION {{lists[c][j] : j \in DOMAIN lists[c]} : c \in 1..k}
           all == FlattenSeq(lists)
<1>1. ASSUME NEW c \in 1..k
      PROVE  /\ lists[c] \in Seq(S)
             /\ \A j \in 1..Len(lists[c]) : Holds(lists[c][j])
  <2>1. PICK n : AllOf(lists[c], n)
    OBVIOUS
  <2>2. \A j \in 1..n : lists[c][j] \in S
    BY <2>1 DEF AllOf
  <2> HIDE DEF S
  <2>3. lists[c] \in Seq(S) /\ Len(lists[c]) = n
    BY <2>1, <2>2, AllOfSeq
  <2> QED BY <2>1, <2>3 DEF AllOf
<1> HIDE DEF S
<1>2. lists \in Seq(Seq(S)) /\ Len(lists) = k
  <2>1. lists \in [1..k -> Seq(S)]
    BY <1>1
  <2> QED BY <2>1, ListOf
<1>3. PICK at : Flat(all, S, lists, k, at)
  BY <1>2, Flattened
<1> HIDE DEF all
<1>4. Starts(lists, k, at) /\ DOMAIN all = 1..at[k]
      /\ \A c \in 1..k : \A j \in 1..Len(lists[c]) : all[at[c - 1] + j] = lists[c][j]
  BY <1>3 DEF Flat
<1>5. ASSUME NEW x \in DOMAIN all PROVE Holds(all[x])
  <2>1. PICK c \in 1..k : \E j \in 1..Len(lists[c]) : x = at[c - 1] + j
    BY <1>4, PlaceOf
  <2>2. PICK j \in 1..Len(lists[c]) : x = at[c - 1] + j
    BY <2>1
  <2> QED BY <1>1, <1>4, <2>2
<1> QED BY <1>5 DEF all

LEMMA JoinedHold ==
  ASSUME NEW a, NEW b, NEW m, NEW n, AllOf(a, m), AllOf(b, n)
  PROVE  \A x \in DOMAIN (a \o b) : Holds((a \o b)[x])
<1> DEFINE S == {a[j] : j \in 1..m} \cup {b[j] : j \in 1..n}
           c == a \o b
<1>1. m \in Nat /\ n \in Nat /\ (\A j \in 1..m : a[j] \in S /\ Holds(a[j]))
      /\ (\A j \in 1..n : b[j] \in S /\ Holds(b[j]))
  BY DEF AllOf
<1>2. \A x \in S : Holds(x)
  BY <1>1
<1> HIDE DEF S
<1>3. a \in Seq(S) /\ b \in Seq(S)
  BY <1>1, AllOfSeq
<1>4. c \in Seq(S)
  BY <1>3
<1> HIDE DEF c
<1>5. \A x \in DOMAIN c : c[x] \in S
  BY <1>4
<1> QED BY <1>2, <1>5 DEF c

\* Tables that fit their rows, are rotated, and hold the rows of the input make
\* true claims, and the honest prover finds nothing wrong with them.
LEMMA ClaimsHold ==
  ASSUME KeysNarrow, NEW t, NEW p, NEW k, Truthful(t, p, k), Turned(t, p, k), NEW f,
         Matched(Columns(t.input), t.input[Act], Columns(t.output), t.output[Act], p, f)
  PROVE  AllHold(SortClaims(t, ShiftColumn(p, 1), ShiftColumn(p, 0)))
<1> DEFINE cs == SortClaims(t, ShiftColumn(p, 1), ShiftColumn(p, 0))
           perm == PermClaim(Columns(t.input), t.input[Act], Columns(t.output), t.output[Act])
           rotation == RotationClaim(t, ShiftColumn(p, 1), ShiftColumn(p, 0))
           bools == [j \in 1..k |-> BoolClaim(t, j)]
           lists == [c \in 1..k |-> SignClaims(t, c)]
           signs == FlattenSeq(lists)
           stricts == IF Strictly THEN <<StrictClaim(t)>> ELSE <<>>
           prefixes == PrefixTies(t)
           equals == TiesAreEqual(t)
           orders == prefixes \o equals
<1>1. KeyCount = k /\ k \in Nat /\ k > 0
  BY DEF Truthful
<1>2. cs = [perm |-> <<perm>>, rotation |-> <<rotation>>, bool |-> bools, sign |-> signs,
            strict |-> stricts, neq |-> <<NeqClaim(t)>>, order |-> orders]
  BY <1>1 DEF SortClaims
<1>3. \A c : DOMAIN <<c>> = {1} /\ <<c>>[1] = c
  OBVIOUS
<1>4. Holds(perm) /\ Holds(rotation) /\ Holds(NeqClaim(t))
  BY PermHolds, RotationHolds, NeqHolds
<1>5. \A i \in DOMAIN bools : Holds(bools[i])
  BY BoolsHold
<1>6. \A i \in DOMAIN signs : Holds(signs[i])
  <2>1. lists = [c \in 1..k |-> lists[c]]
    OBVIOUS
  <2>2. ASSUME NEW c \in 1..k PROVE \E n : AllOf(lists[c], n)
    <3>1. PICK n \in Nat : SignClaims(t, c) = [j \in 1..n |-> SignClaims(t, c)[j]]
                           /\ \A j \in 1..n : Holds(SignClaims(t, c)[j])
      BY SignsHold
    <3>2. AllOf(SignClaims(t, c), n)
      BY <3>1 DEF AllOf
    <3> QED BY <3>2
  <2> HIDE DEF lists
  <2> QED BY <1>1, <2>1, <2>2, FlattenedHold
<1>7. \A i \in DOMAIN stricts : Holds(stricts[i])
  <2>1. CASE Strictly
    <3>1. Holds(StrictClaim(t))
      BY <2>1, StrictHolds
    <3>2. stricts = <<StrictClaim(t)>>
      BY <2>1
    <3> HIDE DEF stricts
    <3> QED BY <1>3, <3>1, <3>2
  <2>2. CASE ~Strictly
    BY <2>2
  <2> QED BY <2>1, <2>2
<1>8. \A i \in DOMAIN orders : Holds(orders[i])
  <2> DEFINE m == IF k = 1 THEN 0 ELSE k - 2
  <2>1. m \in Nat /\ 1..m = 1..(k - 2) /\ k - 1 \in Nat
    BY <1>1
  <2>2. AllOf(prefixes, m)
    <3>1. prefixes = [j \in 1..(k - 2) |-> prefixes[j]]
      BY <1>1 DEF PrefixTies
    <3>2. \A j \in 1..(k - 2) : Holds(prefixes[j])
      BY PrefixesHold
    <3> HIDE DEF m, prefixes
    <3> QED BY <2>1, <3>1, <3>2 DEF AllOf
  <2>3. AllOf(equals, k - 1)
    <3>1. equals = [j \in 1..(k - 1) |-> equals[j]]
      BY <1>1 DEF TiesAreEqual
    <3>2. \A j \in 1..(k - 1) : Holds(equals[j])
      BY EqualsHold
    <3> HIDE DEF equals
    <3> QED BY <2>1, <3>1, <3>2 DEF AllOf
  <2> HIDE DEF m, prefixes, equals
  <2> QED BY <2>2, <2>3, JoinedHold
<1> HIDE DEF perm, rotation, bools, signs, stricts, orders, cs
<1>9. DOMAIN cs = {"perm", "rotation", "bool", "sign", "strict", "neq", "order"}
      /\ cs.perm = <<perm>> /\ cs.rotation = <<rotation>> /\ cs.bool = bools /\ cs.sign = signs
      /\ cs.strict = stricts /\ cs.neq = <<NeqClaim(t)>> /\ cs.order = orders
  BY <1>2
<1>10. ASSUME NEW g \in DOMAIN cs, NEW i \in DOMAIN cs[g] PROVE Holds(cs[g][i])
  <2>1. CASE g = "perm"
    BY <1>3, <1>4, <1>9, <2>1
  <2>2. CASE g = "rotation"
    BY <1>3, <1>4, <1>9, <2>2
  <2>3. CASE g = "bool"
    BY <1>5, <1>9, <2>3
  <2>4. CASE g = "sign"
    BY <1>6, <1>9, <2>4
  <2>5. CASE g = "strict"
    BY <1>7, <1>9, <2>5
  <2>6. CASE g = "neq"
    BY <1>3, <1>4, <1>9, <2>6
  <2>7. CASE g = "order"
    BY <1>8, <1>9, <2>7
  <2> QED BY <1>9, <2>1, <2>2, <2>3, <2>4, <2>5, <2>6, <2>7
<1> QED BY <1>10 DEF AllHold, cs

-----------------------------------------------------------------------------
(* The rows that are shown.                                                *)

\* The numbers 1..n in order, and a map of them that rises.
IsLess(lt, n) == IsOrder(lt, n) /\ \A i, j \in 1..n : lt[i][j] <=> i < j
Rises(q, n) == q \in [1..n -> 1..n] /\ \A i, j \in 1..n : i < j => q[i] < q[j]

LEMMA LessOrder == \A n \in Nat : \E lt : IsLess(lt, n)
<1> TAKE n \in Nat
<1> DEFINE lt == [i \in 1..n |-> [j \in 1..n |-> i < j]]
<1>1. \A i, j \in 1..n : lt[i][j] <=> i < j
  OBVIOUS
<1>2. IsOrder(lt, n)
  <2>1. lt \in [1..n -> [1..n -> BOOLEAN]]
    OBVIOUS
  <2> HIDE DEF lt
  <2> QED BY <1>1, <2>1 DEF IsOrder
<1> HIDE DEF lt
<1> QED BY <1>1, <1>2 DEF IsLess

LEMMA RisingRanked ==
  ASSUME NEW n \in Nat, NEW lt, IsLess(lt, n), NEW q, Rises(q, n)
  PROVE  \A i \in 1..n : Ranked(lt, n, i) = q[i]
<1>1. IsOrder(lt, n) /\ q \in [1..n -> 1..n]
  BY DEF IsLess, Rises
<1>2. \A i, j \in 1..n : i < j => lt[q[i]][q[j]]
  BY <1>1 DEF IsLess, Rises
<1> QED BY <1>1, <1>2, RankedIs, SMTT(60)

\* Such a map is the identity.
LEMMA RisingMap ==
  ASSUME NEW n \in Nat, NEW q, Rises(q, n)
  PROVE  \A i \in 1..n : q[i] = i
<1>1. PICK lt : IsLess(lt, n)
  BY LessOrder
<1>2. PICK p : p = [i \in 1..n |-> i]
  OBVIOUS
<1>3. Rises(p, n)
  BY <1>2 DEF Rises
<1>4. \A i \in 1..n : Ranked(lt, n, i) = p[i]
  BY <1>1, <1>3, RisingRanked
<1>5. \A i \in 1..n : Ranked(lt, n, i) = q[i]
  BY <1>1, RisingRanked
<1> QED BY <1>2, <1>4, <1>5

\* Sorting twice is sorting by the last order: row ids leave no choice.
LEMMA SortedTwice ==
  ASSUME NEW rows, NEW n, NEW k, RowsFor(rows, n, k), NEW a, SpecsFor(a, k), NEW b, SpecsFor(b, k)
  PROVE  \A i \in 1..n : Sorted(Sorted(rows, a), b)[i] = Sorted(rows, b)[i]
<1> DEFINE s == Sorted(rows, a)
           u == Sorted(s, b)
           v == Sorted(rows, b)
           at(i) == CHOOSE j \in 1..n : v[j] = u[i]
           q == [i \in 1..n |-> at(i)]
<1>1. n \in Nat
  BY DEF RowsFor
<1> HIDE DEF at, q
<1>2. RowsFor(s, n, k) /\ MadeOf(s, rows, n)
  BY SortedRises
<1> HIDE DEF s
<1>3. Rising(u, b, n) /\ MadeOf(u, s, n)
  BY <1>2, SortedRises
<1>4. /\ \A m \in 1..n : \E i \in 1..n : v[i] = rows[m]
      /\ \A i, j \in 1..n : RowBefore(b, v[i], v[j]) => i < j
  <2> HIDE DEF v
  <2>1. \A m \in 1..n : \E i \in 1..n : v[i] = rows[m]
    BY SortedRises DEF v
  <2>2. \A i, j \in 1..n : RowBefore(b, v[i], v[j]) => i < j
    BY SortedRises DEF v
  <2> QED BY <2>1, <2>2
<1> HIDE DEF u, v
<1>5. \A i \in 1..n : at(i) \in 1..n /\ v[at(i)] = u[i]
  <2> USE DEF at
  <2> TAKE i \in 1..n
  <2>1. PICK m \in 1..n : u[i] = s[m]
    BY <1>3 DEF MadeOf
  <2>2. PICK l \in 1..n : s[m] = rows[l]
    BY <1>2 DEF MadeOf
  <2>3. \E j \in 1..n : v[j] = u[i]
    BY <1>4, <2>1, <2>2
  <2> QED BY <2>3
<1>6. q \in [1..n -> 1..n] /\ \A i \in 1..n : q[i] = at(i)
  BY <1>5 DEF q
<1>7. \A i, j \in 1..n : i < j => q[i] < q[j]
  <2> TAKE i, j \in 1..n
  <2> HAVE i < j
  <2>1. RowBefore(b, u[i], u[j])
    BY <1>3 DEF Rising
  <2>2. q[i] \in 1..n /\ q[j] \in 1..n /\ v[q[i]] = u[i] /\ v[q[j]] = u[j]
    BY <1>5, <1>6
  <2>3. RowBefore(b, v[q[i]], v[q[j]])
    BY <2>1, <2>2
  <2> QED BY <1>4, <2>2, <2>3
<1>9. Rises(q, n)
  BY <1>6, <1>7 DEF Rises
<1>8. \A i \in 1..n : q[i] = i
  BY <1>1, <1>9, RisingMap
<1> QED BY <1>5, <1>6, <1>8 DEF u, v, s

\* The rows of the hint tables are those of the property, then padding.
LEMMA ShownRows ==
  ASSUME NEW n, NEW k, QueryIs(n, k), NEW p, p = PowerOfTwo(n)
  PROVE  /\ \A i \in 1..n : i \in 1..p /\ Again[i][Act] = Shown[i][Act]
                            /\ SameUpTo(Again[i], Shown[i], k)
         /\ \A i \in 1..p : i > n => Again[i][Act] = 0
         /\ RowsFor(Shown, n, k) /\ Len(Shown) = n
<1> DEFINE specs == query.specs
           last == NullsLast(specs)
           rows == query.rows
<1>1. RowsFor(rows, n, k) /\ SpecsFor(specs, k) /\ SpecsFor(last, k)
      /\ query.gadget \in {"sort", "nodup"}
  BY NullsLastOk DEF QueryIs
<1>2. /\ \A i \in 1..p : Again[i] = ContigRows[i]
      /\ \A i \in 1..n : i \in 1..p /\ ContigRows[i] = Sorted(Given, last)[i]
      /\ \A i \in 1..p : i > n => ContigRows[i][Act] = 0
  BY ContigRise
<1>3. RowsFor(Shown, n, k) /\ Len(Shown) = n
  <2>1. RowsFor(Sorted(rows, last), n, k)
    <3> HIDE DEF rows, last
    <3> QED BY <1>1, SortedRises
  <2> QED BY <2>1 DEF Shown, RowsFor
<1>4. CASE query.gadget = "sort"
  <2>1. Given = Sorted(rows, specs)
    BY <1>4, GivenRows
  <2>2. \A i \in 1..n : Sorted(Given, last)[i] = Shown[i]
    BY <1>1, <2>1, SortedTwice DEF Shown
  <2>3. \A i \in 1..n : Again[i] = Shown[i]
    BY <1>2, <2>2
  <2> QED BY <1>2, <1>3, <2>3 DEF SameUpTo
<1>5. CASE query.gadget = "nodup"
  <2>1. last = specs /\ \A i \in 1..n : Again[i] = Given[i]
    BY <1>5, LexStays
  <2>2. \A i \in 1..n : /\ Given[i][Act] = Sorted(rows, specs)[i][Act]
                        /\ SameUpTo(Given[i], Sorted(rows, specs)[i], k)
    BY GivenRows
  <2>3. Shown = Sorted(rows, specs)
    BY <2>1 DEF Shown
  <2> QED BY <1>2, <1>3, <2>1, <2>2, <2>3
<1> QED BY <1>1, <1>4, <1>5

\* Active rows come first, and rows of the tables rise.
LEMMA AgainRises ==
  ASSUME NEW n, NEW k, QueryIs(n, k), NEW p, p = PowerOfTwo(n)
  PROVE  /\ RowsFor(Again, p, k) /\ Rising(Again, NullsLast(query.specs), p)
         /\ \A i, j \in 1..p : i < j /\ Again[j][Act] = 1 => Again[i][Act] = 1
<1> DEFINE specs == NullsLast(query.specs)
<1>1. /\ RowsFor(Again, p, k) /\ Rising(ContigRows, specs, p)
      /\ \A i \in 1..p : Again[i] = ContigRows[i]
  BY ContigRise
<1>2. Rising(Again, specs, p)
  BY <1>1 DEF Rising
<1>3. ASSUME NEW i \in 1..p, NEW j \in 1..p, i < j, Again[j][Act] = 1 PROVE Again[i][Act] = 1
  <2>1. RowBefore(specs, Again[i], Again[j])
    BY <1>2, <1>3 DEF Rising
  <2>2. Again[i][Act] \in {0, 1}
    BY <1>1 DEF RowsFor
  <2>3. Again[i][Act] > Again[j][Act] \/ Again[i][Act] = Again[j][Act]
    BY <2>1 DEF RowBefore
  <2> QED BY <1>3, <2>2, <2>3
<1> QED BY <1>1, <1>2, <1>3

-----------------------------------------------------------------------------
(* The tables of the input and the output.                                 *)

\* Rows numbered in their order are in the order of their ids.
LEMMA ByIdStays ==
  ASSUME NEW rows, NEW n \in Nat, DOMAIN rows = 1..n, \A i \in 1..n : rows[i][RowId] = i - 1
  PROVE  DOMAIN ById(rows) = 1..n /\ \A i \in 1..n : ById(rows)[i] = rows[i]
<1>1. \A i \in 1..n : rows[i][RowId] \in Int
  OBVIOUS
<1>2. /\ IsOrder(IdOrder(rows, n), n) /\ DOMAIN ById(rows) = 1..n
      /\ \A i \in 1..n : ById(rows)[i] = rows[Ranked(IdOrder(rows, n), n, i)]
  BY <1>1, ByIdRows
<1>3. \A i, j \in 1..n : IdOrder(rows, n)[i][j] <=> i < j
  <2> TAKE i, j \in 1..n
  <2>1. rows[i][RowId] = i - 1 /\ rows[j][RowId] = j - 1
    OBVIOUS
  <2>2. IdOrder(rows, n)[i][j] <=>
          (rows[i][RowId] < rows[j][RowId] \/ (rows[i][RowId] = rows[j][RowId] /\ i < j))
    BY Zenon DEF IdOrder
  <2>3. i \in Int /\ j \in Int
    OBVIOUS
  <2>4. i < j <=> (i - 1 < j - 1 \/ (i - 1 = j - 1 /\ i < j))
    BY <2>3
  <2> QED BY <2>1, <2>2, <2>4
<1>4. IsLess(IdOrder(rows, n), n)
  BY <1>2, <1>3 DEF IsLess
<1>5. PICK q : q = [i \in 1..n |-> i]
  OBVIOUS
<1>6. Rises(q, n)
  BY <1>5 DEF Rises
<1>7. \A i \in 1..n : Ranked(IdOrder(rows, n), n, i) = q[i]
  BY <1>4, <1>6, RisingRanked
<1> QED BY <1>2, <1>5, <1>7

\* A frame of rows with such numbers, which commits column c.
Numbered(f, n, k, c) ==
  /\ RowsFor(f.rows, n, k) /\ k \in 1..MaxCols /\ \A i \in 1..n : f.rows[i][RowId] = i - 1
  /\ RowId \in Names(f) /\ c \in f.mat

\* The column is that of the rows, padded.
LEMMA NumberedColumn ==
  ASSUME NEW f, NEW n, NEW k, NEW c, Numbered(f, n, k, c)
  PROVE  /\ DOMAIN EncodedColumns(f)[c] = 1..PowerOfTwo(n)
         /\ \A i \in 1..n : i \in 1..PowerOfTwo(n) /\ EncodedColumns(f)[c][i] = Enc(f.rows[i][c])
         /\ c = Act => \A i \in 1..PowerOfTwo(n) : i > n => EncodedColumns(f)[c][i] = 0
         /\ c \in 1..k => \A i \in 1..PowerOfTwo(n) :
           \E x \in Int \cup {Null} : EncodedColumns(f)[c][i] = Enc(x)
<1> DEFINE rows == f.rows
           by == ById(rows)
           pad == Padded(by)
<1>0. RowsFor(f.rows, n, k) /\ k \in 1..MaxCols /\ RowId \in Names(f) /\ c \in f.mat
      /\ \A i \in 1..n : f.rows[i][RowId] = i - 1
  BY DEF Numbered
<1>1. /\ n \in Nat /\ DOMAIN rows = 1..n /\ Len(rows) = n
      /\ \A i \in 1..n : DOMAIN rows[i] = RowNames
      /\ \A i \in 1..n : rows[i][RowId] = i - 1
  BY <1>0 DEF RowsFor
<1>2. DOMAIN by = 1..n /\ \A i \in 1..n : by[i] = rows[i]
  BY <1>1, ByIdStays
<1>3. Len(by) = n
  <2> HIDE DEF by
  <2> QED BY <1>1, <1>2
<1> HIDE DEF rows, by
<1>4. /\ DOMAIN pad = 1..PowerOfTwo(n)
      /\ \A i \in 1..n : i \in 1..PowerOfTwo(n) /\ pad[i] = by[i]
      /\ \A i \in 1..PowerOfTwo(n) : i > n => pad[i][Act] = 0
  BY <1>1, <1>2, <1>3, PaddedRows
<1>5. InOrder(f) = pad
  BY <1>0 DEF InOrder, rows, by
<1> HIDE DEF pad
<1>6. EncodedColumns(f)[c] = [i \in 1..PowerOfTwo(n) |-> Enc(pad[i][c])]
  BY <1>0, <1>4, <1>5 DEF EncodedColumns
<1>7. c \in 1..k => \A i \in 1..PowerOfTwo(n) : pad[i][c] \in Int \cup {Null}
  <2> SUFFICES ASSUME c \in 1..k, NEW i \in 1..PowerOfTwo(n) PROVE pad[i][c] \in Int \cup {Null}
    OBVIOUS
  <2>1. CASE i <= n
    <3>1. i \in 1..n /\ rows[i][c] \in Int \cup {Null}
      BY <1>0, <1>1, <2>1 DEF RowsFor, rows
    <3> QED BY <1>2, <1>4, <3>1
  <2>2. CASE ~(i <= n)
    <3>1. pad[i] = IF by = <<>> THEN NullRow(i) ELSE [by[n] EXCEPT ![Act] = 0, ![RowId] = @ + i - n]
      BY <1>3, <1>4, <2>2 DEF Padded, pad
    <3>2. c \notin {Act, RowId} /\ c \in RowNames
      BY <1>0, SortAssumption DEF Act, RowId, RowNames
    <3>3. CASE by = <<>>
      <4>1. pad[i] = NullRow(i)
        BY <3>1, <3>3
      <4>2. NullRow(i)[c] = Null
        BY <3>2 DEF NullRow, RowNames
      <4> QED BY <4>1, <4>2
    <3>4. CASE by # <<>>
      <4>1. n \in 1..n
        <5>1. n # 0
          BY <1>2, <3>4
        <5> QED BY <1>1, <5>1
      <4>2. DOMAIN by[n] = RowNames /\ by[n][c] \in Int \cup {Null}
        BY <1>0, <1>1, <1>2, <4>1 DEF RowsFor, rows
      <4>3. pad[i] = [by[n] EXCEPT ![Act] = 0, ![RowId] = @ + i - n]
        BY <3>1, <3>4
      <4>4. pad[i][c] = by[n][c]
        BY <3>2, <4>2, <4>3
      <4> QED BY <4>2, <4>4
    <3> QED BY <3>3, <3>4
  <2> QED BY <2>1, <2>2
<1>8. \A i \in 1..n : i \in 1..PowerOfTwo(n) /\ EncodedColumns(f)[c][i] = Enc(rows[i][c])
  BY <1>2, <1>4, <1>6
<1>9. c = Act => \A i \in 1..PowerOfTwo(n) : i > n => EncodedColumns(f)[c][i] = 0
  BY <1>4, <1>6, BitsStay
<1> QED BY <1>6, <1>7, <1>8, <1>9 DEF rows

\* The tables of the proof; NoDup puts its own in.
Tables == WithActivator(PlannedTables, Counted)

LEMMA TablesAre ==
  ASSUME NEW n, NEW k, QueryIs(n, k), NEW p, p = PowerOfTwo(n)
  PROVE  /\ Tables.input = PlannedTables.input /\ Tables.rotated = PlannedTables.rotated
         /\ Tables.ties = PlannedTables.ties /\ Tables.diffs = PlannedTables.diffs
         /\ query.gadget = "sort" =>
              Tables.output = PlannedTables.output /\ Tables.table = PlannedTables.table
         /\ query.gadget = "nodup" =>
              /\ Tables.table = Tables.output /\ Tables.output[Act] = Contig(p, ActiveRows)
              /\ \A c \in DOMAIN PlannedTables.output :
                   c # Act => Tables.output[c] = PlannedTables.output[c]
<1> DEFINE t0 == PlannedTables
<1>1. Size(Tables) = p
  BY SizeIs DEF Tables
<1>2. query.gadget \in {"sort", "nodup"}
  BY DEF QueryIs
<1>3. CASE query.gadget = "sort"
  <2>1. Tables = t0
    BY <1>3 DEF Tables, WithActivator
  <2> HIDE DEF t0
  <2> QED BY <1>3, <2>1 DEF t0
<1>4. CASE query.gadget = "nodup"
  <2> DEFINE lex == [c \in DOMAIN t0.output \cup {Act} |->
                      IF c = Act THEN Contig(Size(t0), ActiveRows) ELSE t0.output[c]]
  <2>1. lex[Act] = Contig(Size(t0), ActiveRows)
        /\ \A c \in DOMAIN t0.output : c # Act => lex[c] = t0.output[c]
    OBVIOUS
  <2>2. Tables = [t0 EXCEPT !.output = lex, !.table = lex]
    BY <1>4 DEF Tables, WithActivator, Counted
  <2>3. DOMAIN t0 = Range(Labels)
    BY DEF PlannedTables
  <2> HIDE DEF lex, t0
  <2>4. DOMAIN t0 = {"input", "output", "table", "rotated", "ties", "diffs"}
    BY <2>3, LabelsAre
  <2>5. Tables.input = t0.input /\ Tables.rotated = t0.rotated /\ Tables.ties = t0.ties
        /\ Tables.diffs = t0.diffs /\ Tables.table = lex /\ Tables.output = lex
    BY <2>2, <2>4
  <2>6. Size(t0) = p
    BY <1>1, <2>5 DEF Size
  <2> QED BY <1>4, <2>1, <2>5, <2>6 DEF t0
<1> QED BY <1>2, <1>3, <1>4

\* The input's rows.
LEMMA InputColumns ==
  ASSUME NEW n, NEW k, QueryIs(n, k), NEW p, p = PowerOfTwo(n), NEW c \in 1..k \cup {Act}
  PROVE  /\ DOMAIN Tables.input[c] = 1..p
         /\ \A i \in 1..n : i \in 1..p /\ Tables.input[c][i] = Enc(query.rows[i][c])
         /\ c = Act => \A i \in 1..p : i > n => Tables.input[c][i] = 0
<1> DEFINE f == InputFrame
<1>1. k \in 1..MaxCols /\ KeyCount = k /\ RowsFor(query.rows, n, k)
      /\ \A i \in 1..n : query.rows[i][RowId] = i - 1
  BY DEF QueryIs
<1>2. f.rows = query.rows /\ f.fields = KeySeq \o <<Act, RowId>>
  BY DEF InputFrame, Frame
<1>3. RowId \in Names(f)
  <2>1. k + 2 \in DOMAIN f.fields /\ f.fields[k + 2] = RowId
    <3>1. DOMAIN f.fields = 1..(k + 2) /\ k \in Nat
          /\ \A i \in 1..(k + 2) : f.fields[i] = IF i <= k THEN i ELSE IF i = k + 1 THEN Act ELSE RowId
      BY <1>1, <1>2, FieldsAre, SortAssumption
    <3> HIDE DEF f
    <3> QED BY <3>1
  <2> QED BY <2>1 DEF Names
<1>4. Tables.input = EncodedColumns(f)
  <2>1. "input" \in Range(Labels)
    BY LabelsAre
  <2> QED BY <2>1, TablesAre DEF PlannedTables, Planned
<1>5. c \in f.mat
  <2>1. "input" \in Range(Labels)
    BY LabelsAre
  <2>2. Commits(Planned.input, Schema("input"))
    BY <2>1, FramesCommit
  <2>3. f.mat = {Schema("input")[i] : i \in DOMAIN Schema("input")}
        /\ Schema("input") = Append(KeySeq, Act)
    BY <2>2 DEF Commits, Planned, Schema
  <2> DEFINE some == Append(KeySeq, Act)
  <2>4. some = [i \in 1..(k + 1) |-> IF i <= k THEN i ELSE Act] /\ k \in Nat
    BY <1>1, FieldsAre, SortAssumption
  <2> HIDE DEF some, f
  <2>5. \E i \in 1..(k + 1) : some[i] = c
    <3>1. CASE c = Act
      <4>1. k + 1 \in 1..(k + 1) /\ some[k + 1] = c
        BY <2>4, <3>1
      <4> QED BY <4>1
    <3>2. CASE c \in 1..k
      <4>1. c \in 1..(k + 1) /\ some[c] = c
        BY <2>4, <3>2
      <4> QED BY <4>1
    <3> QED BY <3>1, <3>2
  <2> QED BY <2>3, <2>4, <2>5 DEF some
<1> HIDE DEF f
<1>6. RowsFor(f.rows, n, k) /\ \A i \in 1..n : f.rows[i][RowId] = i - 1
  BY <1>1, <1>2
<1>8. Numbered(f, n, k, c)
  BY <1>1, <1>3, <1>5, <1>6 DEF Numbered
<1>7. /\ DOMAIN EncodedColumns(f)[c] = 1..PowerOfTwo(n)
      /\ \A i \in 1..n : i \in 1..PowerOfTwo(n) /\ EncodedColumns(f)[c][i] = Enc(f.rows[i][c])
      /\ c = Act => \A i \in 1..PowerOfTwo(n) : i > n => EncodedColumns(f)[c][i] = 0
  BY <1>8, NumberedColumn
<1> QED BY <1>2, <1>4, <1>7

\* The rows NoDup has put in order.
LEMMA LexColumns ==
  ASSUME NEW n, NEW k, QueryIs(n, k), query.gadget = "nodup", NEW p, p = PowerOfTwo(n),
         NEW c \in 1..k
  PROVE  /\ \A i \in 1..n : i \in 1..p /\ Tables.output[c][i] = Enc(Given[i][c])
         /\ \A i \in 1..p : \E x \in Int \cup {Null} : Tables.output[c][i] = Enc(x)
<1> DEFINE f == LexSorted
           s == Sorted(query.rows, query.specs)
           g == [i \in DOMAIN s |-> [s[i] EXCEPT ![RowId] = i - 1]]
           all == KeySeq \o <<Act, RowId>>
<1>1. k \in 1..MaxCols /\ KeyCount = k
  BY DEF QueryIs
<1>2. RowsFor(Given, n, k) /\ \A i \in 1..n : Given[i][RowId] = i - 1
  BY GivenRows
<1>3. f.fields = all /\ f.rows = Given
  <2>1. f.rows = Given
    BY DEF Given
  <2>2. DOMAIN InputFrame = {"fields", "rows", "mat"} /\ InputFrame.fields = all
    BY DEF InputFrame, Frame
  <2>3. f = [InputFrame EXCEPT !.rows = g, !.mat = @ \ {Act}]
    BY DEF LexSorted
  <2> HIDE DEF g, all
  <2>4. f.fields = InputFrame.fields
    BY <2>2, <2>3
  <2> QED BY <2>1, <2>2, <2>4
<1>4. RowId \in Names(f)
  <2>1. k + 2 \in DOMAIN f.fields /\ f.fields[k + 2] = RowId
    <3>1. DOMAIN all = 1..(k + 2) /\ k \in Nat
          /\ \A i \in 1..(k + 2) : all[i] = IF i <= k THEN i ELSE IF i = k + 1 THEN Act ELSE RowId
      BY <1>1, FieldsAre, SortAssumption
    <3> HIDE DEF f, all
    <3> QED BY <1>3, <3>1
  <2> QED BY <2>1 DEF Names
<1>5. PlannedTables.output = EncodedColumns(f)
  <2>1. "output" \in Range(Labels)
    BY LabelsAre
  <2>2. query.gadget # "sort"
    OBVIOUS
  <2> QED BY <2>1, <2>2 DEF PlannedTables, Planned, OutputFrame
<1>6. c \in f.mat
  <2>1. "output" \in Range(Labels) /\ query.gadget # "sort"
    BY LabelsAre
  <2>2. Commits(Planned.output, Schema("output"))
    BY <2>1, FramesCommit
  <2>3. f.mat = {Schema("output")[i] : i \in DOMAIN Schema("output")} /\ Schema("output") = KeySeq
    BY <2>1, <2>2 DEF Commits, Planned, Schema, OutputFrame
  <2> HIDE DEF f
  <2>4. c \in DOMAIN KeySeq /\ KeySeq[c] = c
    BY <1>1, FieldsAre
  <2> QED BY <2>3, <2>4
<1> HIDE DEF f
<1>7. RowsFor(f.rows, n, k) /\ \A i \in 1..n : f.rows[i][RowId] = i - 1
  BY <1>2, <1>3
<1>10. Numbered(f, n, k, c)
  BY <1>1, <1>4, <1>6, <1>7 DEF Numbered
<1>8. /\ \A i \in 1..n : i \in 1..PowerOfTwo(n) /\ EncodedColumns(f)[c][i] = Enc(f.rows[i][c])
      /\ c \in 1..k => \A i \in 1..PowerOfTwo(n) :
           \E x \in Int \cup {Null} : EncodedColumns(f)[c][i] = Enc(x)
  BY <1>10, NumberedColumn
<1>9. Tables.output[c] = EncodedColumns(f)[c]
  <2>1. c \in DOMAIN PlannedTables.output
    BY <1>5, <1>6 DEF EncodedColumns
  <2>2. c # Act
    BY DEF Act
  <2> QED BY <1>5, <2>1, <2>2, TablesAre
<1> QED BY <1>3, <1>8, <1>9

\* The rows that are active are the first ones of the sorted rows, as many as
\* there are.
LEMMA ActiveCounted ==
  ASSUME NEW rows, NEW n, NEW k, RowsFor(rows, n, k), NEW specs, SpecsFor(specs, k),
         NEW x \in 1..n, Sorted(rows, specs)[x][Act] # 1
  PROVE  Cardinality({i \in DOMAIN rows : rows[i][Act] = 1}) < x
<1> DEFINE s == Sorted(rows, specs)
           T == {i \in DOMAIN rows : rows[i][Act] = 1}
           to(m) == CHOOSE i \in 1..n : s[i] = rows[m]
           f == [m \in T |-> to(m)]
<1> HIDE DEF T, to, f
<1>1. RowsFor(s, n, k) /\ Rising(s, specs, n) /\ \A m \in 1..n : \E i \in 1..n : s[i] = rows[m]
  <2> HIDE DEF s
  <2>1. RowsFor(s, n, k) /\ Rising(s, specs, n)
    BY SortedRises DEF s
  <2>2. \A m \in 1..n : \E i \in 1..n : s[i] = rows[m]
    BY SortedRises DEF s
  <2> QED BY <2>1, <2>2
<1>2. n \in Nat /\ DOMAIN rows = 1..n
  BY DEF RowsFor
<1> HIDE DEF s
<1>3. \A m \in T : m \in 1..n /\ rows[m][Act] = 1 /\ to(m) \in 1..n /\ s[to(m)] = rows[m]
  BY <1>1, <1>2 DEF T, to
<1>4. \A m \in T : to(m) \in 1..(x - 1)
  <2> TAKE m \in T
  <2>1. to(m) \in 1..n /\ s[to(m)][Act] = 1 /\ s[x][Act] = 0
    BY <1>1, <1>3 DEF RowsFor, s
  <2>2. ~(x < to(m))
    <3> SUFFICES ASSUME x < to(m) PROVE FALSE
      OBVIOUS
    <3>1. RowBefore(specs, s[x], s[to(m)])
      BY <1>1, <2>1 DEF Rising
    <3> QED BY <2>1, <3>1 DEF RowBefore
  <2>3. x # to(m)
    BY <2>1
  <2> QED BY <1>2, <2>1, <2>2, <2>3
<1>5. \A m, l \in T : to(m) = to(l) => m = l
  <2> TAKE m, l \in T
  <2> HAVE to(m) = to(l)
  <2>1. rows[m] = rows[l] /\ m \in 1..n /\ l \in 1..n
    BY <1>3
  <2>2. SameUpTo(rows[m], rows[l], k)
    BY <2>1 DEF SameUpTo
  <2> QED BY <2>1, <2>2 DEF RowsFor
<1>6. f \in Injection(T, 1..(x - 1))
  <2>1. f \in [T -> 1..(x - 1)] /\ \A m, l \in T : f[m] = f[l] => m = l
    BY <1>4, <1>5 DEF f
  <2> QED BY <2>1 DEF Injection, IsInjective
<1>7. x \in Nat /\ x >= 1 /\ IsFiniteSet(1..(x - 1)) /\ Cardinality(1..(x - 1)) = x - 1
  <2>1. x \in Nat /\ x >= 1
    BY <1>2
  <2>2. 1 \in Int /\ x - 1 \in Int
    BY <2>1
  <2>3. IsFiniteSet(1..(x - 1)) /\ Cardinality(1..(x - 1)) = IF 1 > x - 1 THEN 0 ELSE (x - 1) - 1 + 1
    BY <2>2, FS_Interval
  <2> QED BY <2>1, <2>3
<1>8. Cardinality(T) <= Cardinality(1..(x - 1)) /\ IsFiniteSet(T)
  BY <1>6, <1>7, FS_Injection
<1>9. Cardinality(T) \in Nat
  BY <1>8, FS_CardinalityType
<1> QED BY <1>7, <1>8, <1>9 DEF T

\* The output's rows: those of the input in the order of the specs, and no more.
LEMMA OutputRows ==
  ASSUME NEW n, NEW k, QueryIs(n, k), NEW p, p = PowerOfTwo(n),
         NEW s, s = Sorted(query.rows, query.specs)
  PROVE  /\ DOMAIN Tables.output[Act] = 1..p
         /\ \A i \in 1..n : /\ i \in 1..p /\ Tables.output[Act][i] = s[i][Act]
                            /\ \A c \in 1..k : Tables.output[c][i] = Enc(s[i][c])
         /\ \A i \in 1..p : i > n => Tables.output[Act][i] = 0
<1>1. RowsFor(query.rows, n, k) /\ SpecsFor(query.specs, k) /\ query.gadget \in {"sort", "nodup"}
  BY DEF QueryIs
<1>2. RowsFor(s, n, k)
  BY <1>1, SortedRises
<1>3. n \in Nat /\ Len(s) = n /\ DOMAIN s = 1..n /\ \A i \in 1..n : DOMAIN s[i] = RowNames
  BY <1>2 DEF RowsFor
<1>4. /\ DOMAIN Padded(s) = 1..p /\ \A i \in 1..n : i \in 1..p /\ Padded(s)[i] = s[i]
      /\ \A i \in 1..p : i > n => Padded(s)[i][Act] = 0
  BY <1>3, PaddedRows
<1>5. \A i \in 1..n : s[i][Act] \in {0, 1} /\ Enc(s[i][Act]) = s[i][Act]
  BY <1>2, BitsStay DEF RowsFor
<1>6. CASE query.gadget = "sort"
  <2>1. Tables.output = PlannedTables.output
    BY <1>6, TablesAre
  <2>2. \A c \in 1..k \cup {Act} : \A i \in 1..p : Tables.output[c][i] = Enc(Padded(s)[i][c])
    BY <1>6, <2>1, OutputColumns
  <2>7. \A i \in 1..p : Tables.output[Act][i] = Enc(Padded(s)[i][Act])
    <3>1. Act \in 1..k \cup {Act}
      OBVIOUS
    <3> QED BY <2>2, <3>1
  <2>3. \A i \in 1..n : Tables.output[Act][i] = s[i][Act]
    BY <1>4, <1>5, <2>7
  <2>4. \A i \in 1..p : i > n => Tables.output[Act][i] = 0
    BY <1>4, <2>7, BitsStay
  <2>5. \A i \in 1..n, c \in 1..k : Tables.output[c][i] = Enc(s[i][c])
    BY <1>4, <2>2
  <2>6. DOMAIN Tables.output[Act] = 1..p
    BY <1>6, <2>1, OutputColumns
  <2> QED BY <1>4, <2>3, <2>4, <2>5, <2>6
<1>7. CASE query.gadget = "nodup"
  <2> DEFINE m == ActiveRows
  <2>1. Tables.output[Act] = Contig(p, m)
    BY <1>7, TablesAre
  <2>2. \A i \in 1..p : Tables.output[Act][i] = IF i <= m THEN 1 ELSE 0
    BY <2>1 DEF Contig
  <2>3. \A i \in 1..n, c \in 1..k : Tables.output[c][i] = Enc(s[i][c])
    <3> TAKE i \in 1..n, c \in 1..k
    <3>1. SameUpTo(Given[i], s[i], k)
      BY GivenRows
    <3>2. Given[i][c] = s[i][c]
      BY <3>1 DEF SameUpTo
    <3> QED BY <1>7, <3>2, LexColumns
  <2>4. m \in Nat /\ m <= n
    <3> DEFINE T == {i \in DOMAIN query.rows : query.rows[i][Act] = 1}
    <3>1. T \in SUBSET (1..n) /\ IsFiniteSet(1..n) /\ Cardinality(1..n) = n
      BY <1>1, <1>3, FS_Interval DEF RowsFor
    <3> HIDE DEF T
    <3>2. Cardinality(T) \in Nat /\ Cardinality(T) <= n
      BY <3>1, FS_Subset, FS_CardinalityType
    <3> QED BY <3>2 DEF ActiveRows, T
  <2>5. ASSUME NEW i \in 1..n, s[i][Act] = 1 PROVE i <= m
    <3> HIDE DEF m
    <3>1. Sorted(query.rows, query.specs)[i][Act] = 1
      BY <2>5
    <3>2. i <= Cardinality({j \in DOMAIN query.rows : query.rows[j][Act] = 1})
      BY <1>1, <3>1, ActiveFirst
    <3> QED BY <3>2 DEF m, ActiveRows
  <2>6. ASSUME NEW i \in 1..n, s[i][Act] # 1 PROVE m < i
    <3> HIDE DEF m
    <3>1. Sorted(query.rows, query.specs)[i][Act] # 1
      BY <2>6
    <3>2. Cardinality({j \in DOMAIN query.rows : query.rows[j][Act] = 1}) < i
      BY <1>1, <3>1, ActiveCounted
    <3> QED BY <3>2 DEF m, ActiveRows
  <2> HIDE DEF m
  <2>7. \A i \in 1..n : Tables.output[Act][i] = s[i][Act]
    <3> TAKE i \in 1..n
    <3>1. s[i][Act] \in {0, 1} /\ i \in 1..p /\ i \in Int
      BY <1>3, <1>4, <1>5
    <3>2. Tables.output[Act][i] = IF i <= m THEN 1 ELSE 0
      BY <2>2, <3>1
    <3>3. CASE s[i][Act] = 1
      BY <2>5, <3>2, <3>3
    <3>4. CASE s[i][Act] = 0
      <4>1. m < i
        BY <2>6, <3>4
      <4> QED BY <2>4, <3>1, <3>2, <3>4, <4>1
    <3> QED BY <3>1, <3>3, <3>4
  <2>8. ASSUME NEW i \in 1..p, i > n PROVE Tables.output[Act][i] = 0
    <3>1. i \in Int /\ ~(i <= m)
      BY <1>3, <2>4, <2>8
    <3> QED BY <2>2, <3>1
  <2>9. DOMAIN Tables.output[Act] = 1..p
    BY <2>1 DEF Contig
  <2> QED BY <1>4, <2>3, <2>7, <2>8, <2>9
<1> QED BY <1>1, <1>6, <1>7

\* The output holds the input's active rows, each at its place in the order.
LEMMA OutputMatched ==
  ASSUME NEW n, NEW k, QueryIs(n, k), NEW p, p = PowerOfTwo(n)
  PROVE  \E f : Matched(Columns(Tables.input), Tables.input[Act],
                        Columns(Tables.output), Tables.output[Act], p, f)
<1> DEFINE rows == query.rows
           s == Sorted(rows, query.specs)
           lt == SpecOrder(rows, query.specs, n)
           left == Columns(Tables.input)
           right == Columns(Tables.output)
           la == Tables.input[Act]
           ra == Tables.output[Act]
           f == [i \in Active(la, p) |-> Place(lt, n, i)]
<1>1. RowsFor(rows, n, k) /\ SpecsFor(query.specs, k) /\ KeyCount = k /\ k \in Nat
  BY SortAssumption DEF QueryIs
<1>2. n \in Nat /\ p \in Nat
  BY <1>1, PaddedSize DEF RowsFor
<1>3. IsOrder(lt, n) /\ \A i \in 1..n : s[i] = rows[Ranked(lt, n, i)]
  BY <1>1, SpecOrdered, SortedRows
<1>4. /\ DOMAIN la = 1..p /\ \A i \in 1..n : i \in 1..p /\ la[i] = Enc(rows[i][Act])
      /\ \A i \in 1..p : i > n => la[i] = 0
  <2>1. PICK c \in 1..k \cup {Act} : c = Act
    OBVIOUS
  <2>2. /\ DOMAIN Tables.input[c] = 1..p
        /\ \A i \in 1..n : i \in 1..p /\ Tables.input[c][i] = Enc(query.rows[i][c])
        /\ c = Act => \A i \in 1..p : i > n => Tables.input[c][i] = 0
    BY InputColumns
  <2> QED BY <2>1, <2>2
<1>5. \A c \in 1..k : \A i \in 1..n : left[c][i] = Enc(rows[i][c])
  <2> TAKE c \in 1..k
  <2>1. \A i \in 1..n : Tables.input[c][i] = Enc(query.rows[i][c])
    BY InputColumns
  <2> QED BY <1>1, <2>1 DEF Columns
<1>6. /\ DOMAIN ra = 1..p
      /\ \A i \in 1..n : /\ i \in 1..p /\ ra[i] = s[i][Act]
                         /\ \A c \in 1..k : right[c][i] = Enc(s[i][c])
      /\ \A i \in 1..p : i > n => ra[i] = 0
  BY <1>1, OutputRows DEF Columns
<1>7. DOMAIN left = 1..k /\ DOMAIN right = 1..k
  BY <1>1 DEF Columns
<1> HIDE DEF rows, s, lt, left, right, la, ra
<1>8. \A i \in 1..n : rows[i][Act] \in {0, 1} /\ la[i] = rows[i][Act]
  BY <1>1, <1>4, BitsStay DEF RowsFor
<1>9. /\ \A i : i \in Active(la, p) <=> i \in 1..n /\ rows[i][Act] = 1
      /\ \A i : i \in Active(ra, p) <=> i \in 1..n /\ s[i][Act] = 1
  <2>1. \A i \in 1..p : i \in 1..n \/ i > n
    BY <1>2
  <2> QED BY <1>4, <1>6, <1>8, <2>1 DEF Active
<1>10. /\ \A i \in 1..n : Ranked(lt, n, i) \in 1..n /\ Place(lt, n, Ranked(lt, n, i)) = i
       /\ \A m \in 1..n : Place(lt, n, m) \in 1..n /\ Ranked(lt, n, Place(lt, n, m)) = m
  BY <1>2, <1>3, RankedOrder
<1>11. \A i \in 1..n : Place(lt, n, i) \in 1..n /\ s[Place(lt, n, i)] = rows[i]
  BY <1>3, <1>10
<1>12. f \in [Active(la, p) -> Active(ra, p)]
  BY <1>9, <1>11
<1>13. \A i, j \in Active(la, p) : f[i] = f[j] => i = j
  <2> TAKE i, j \in Active(la, p)
  <2> HAVE f[i] = f[j]
  <2>1. Ranked(lt, n, Place(lt, n, i)) = i /\ Ranked(lt, n, Place(lt, n, j)) = j
    BY <1>9, <1>10
  <2>2. Place(lt, n, i) = Place(lt, n, j)
    OBVIOUS
  <2> QED BY <2>1, <2>2
<1>14. \A j \in Active(ra, p) : \E i \in Active(la, p) : f[i] = j
  <2> TAKE j \in Active(ra, p)
  <2>1. Ranked(lt, n, j) \in 1..n /\ Place(lt, n, Ranked(lt, n, j)) = j /\ s[j] = rows[Ranked(lt, n, j)]
    BY <1>3, <1>9, <1>10
  <2>2. Ranked(lt, n, j) \in Active(la, p)
    BY <1>9, <2>1
  <2>3. f[Ranked(lt, n, j)] = j
    BY <2>1, <2>2
  <2> QED BY <2>2, <2>3
<1>15. \A i \in Active(la, p) : \A c \in DOMAIN left : left[c][i] = right[c][f[i]]
  <2> TAKE i \in Active(la, p)
  <2>1. i \in 1..n /\ f[i] = Place(lt, n, i)
    BY <1>9
  <2> HIDE DEF f
  <2>2. f[i] \in 1..n /\ s[f[i]] = rows[i]
    BY <1>11, <2>1
  <2> QED BY <1>5, <1>6, <1>7, <2>1, <2>2
<1> HIDE DEF f
<1>16. Matched(left, la, right, ra, p, f)
  BY <1>2, <1>4, <1>6, <1>7, <1>12, <1>13, <1>14, <1>15 DEF Matched
<1> QED BY <1>16 DEF left, la, right, ra

\* NoDup looks for rows that look alike.
LEMMA NoneRepeated ==
  ASSUME NEW n, NEW k, QueryIs(n, k), ~HasLookalikes
  PROVE  ~Repeated(Tables.input)
<1> DEFINE rows == query.rows
           p == PowerOfTwo(n)
<1>1. RowsFor(rows, n, k) /\ KeyCount = k
  BY DEF QueryIs
<1>2. \A c \in 1..k \cup {Act} : /\ DOMAIN Tables.input[c] = 1..p
                                 /\ \A i \in 1..n : Tables.input[c][i] = Enc(rows[i][c])
                                 /\ c = Act => \A i \in 1..p : i > n => Tables.input[c][i] = 0
  <2> TAKE c \in 1..k \cup {Act}
  <2>1. p = PowerOfTwo(n)
    OBVIOUS
  <2> HIDE DEF p
  <2>2. /\ DOMAIN Tables.input[c] = 1..p
        /\ \A i \in 1..n : i \in 1..p /\ Tables.input[c][i] = Enc(query.rows[i][c])
        /\ c = Act => \A i \in 1..p : i > n => Tables.input[c][i] = 0
    BY ONLY QueryIs(n, k), <2>1, c \in 1..k \cup {Act}, InputColumns
  <2> QED BY <2>2
<1>3. n \in Nat /\ DOMAIN rows = 1..n
  BY <1>1 DEF RowsFor
<1> SUFFICES ASSUME NEW i \in DOMAIN Tables.input[Act], NEW j \in DOMAIN Tables.input[Act], i # j,
                    Tables.input[Act][i] = 1, Tables.input[Act][j] = 1,
                    \A c \in 1..KeyCount : Tables.input[c][i] = Tables.input[c][j]
             PROVE  FALSE
  BY DEF Repeated
<1> HIDE DEF rows, p
<1>9. /\ DOMAIN Tables.input[Act] = 1..p /\ \A m \in 1..n : Tables.input[Act][m] = Enc(rows[m][Act])
      /\ \A m \in 1..p : m > n => Tables.input[Act][m] = 0
  <2>1. Act \in 1..k \cup {Act}
    OBVIOUS
  <2> QED BY <1>2, <2>1
<1>4. i \in 1..p /\ j \in 1..p /\ ~(i > n) /\ ~(j > n)
  BY <1>9
<1>5. i \in 1..n /\ j \in 1..n
  <2>1. i \in Int /\ i >= 1 /\ j \in Int /\ j >= 1
    BY <1>4
  <2> QED BY <1>3, <1>4, <2>1
<1>6. Enc(rows[i][Act]) = 1 /\ Enc(rows[j][Act]) = 1
  BY <1>9, <1>5
<1>7. rows[i][Act] = 1 /\ rows[j][Act] = 1
  BY <1>1, <1>5, <1>6, BitsStay DEF RowsFor
<1>8. \A c \in 1..KeyCount : Enc(rows[i][c]) = Enc(rows[j][c])
  BY <1>1, <1>2, <1>5
<1> QED BY <1>3, <1>5, <1>7, <1>8 DEF HasLookalikes, rows

-----------------------------------------------------------------------------
(* The tables contig_sort is about.                                        *)

\* Encoded values are field elements.
LEMMA EncField == \A x \in Int \cup {Null} : Enc(x) \in Over({})!Field
<1> TAKE x \in Int \cup {Null}
<1>1. FieldSize \in Nat /\ FieldSize > 1
  BY BitsStay
<1>2. \A y \in Int : y % FieldSize \in 0..(FieldSize - 1)
  BY <1>1
<1>3. 0 \in 0..(FieldSize - 1)
  BY <1>1
<1> QED BY <1>2, <1>3 DEF Enc, Over!Field

\* The table: of the rows in order the active ones, and on the others something.
LEMMA TableColumns ==
  ASSUME NEW n, NEW k, QueryIs(n, k), NEW p, p = PowerOfTwo(n)
  PROVE  /\ DOMAIN Tables.table[Act] = 1..p
         /\ \A i \in 1..p : Tables.table[Act][i] = Again[i][Act]
         /\ \A c \in 1..k : \A i \in 1..p :
              /\ Tables.table[c][i] \in Over({})!Field
              /\ Again[i][Act] = 1 => Tables.table[c][i] = Enc(Again[i][c])
<1>1. n \in Nat /\ query.gadget \in {"sort", "nodup"}
  BY DEF QueryIs
<1>2. /\ RowsFor(Again, p, k) /\ \A i \in 1..p : Again[i] = ContigRows[i]
      /\ \A i \in 1..p : i > n => Again[i][Act] = 0
  <2>1. /\ RowsFor(Again, p, k) /\ \A i \in 1..p : Again[i] = ContigRows[i]
        /\ \A i \in 1..p : i > n => ContigRows[i][Act] = 0
    BY ContigRise
  <2> QED BY <2>1
<1>3. \A i \in 1..p : Again[i][Act] \in {0, 1} /\ Enc(Again[i][Act]) = Again[i][Act]
                      /\ \A c \in 1..k : Again[i][c] \in Int \cup {Null}
  BY <1>2, BitsStay DEF RowsFor
<1>4. CASE query.gadget = "sort"
  <2>1. \A c \in 1..k \cup {Act} : ColumnIs(Tables.table[c], ContigRows, c, p)
    BY <1>4, HintColumns, TablesAre
  <2>2. ColumnIs(Tables.table[Act], ContigRows, Act, p)
    BY <2>1
  <2>3. DOMAIN Tables.table[Act] = 1..p /\ \A i \in 1..p : Tables.table[Act][i] = Again[i][Act]
    BY <1>2, <1>3, <2>2 DEF ColumnIs
  <2>4. \A c \in 1..k : \A i \in 1..p : Tables.table[c][i] = Enc(Again[i][c])
    BY <1>2, <2>1 DEF ColumnIs
  <2> QED BY <1>3, <2>3, <2>4, EncField
<1>5. CASE query.gadget = "nodup"
  <2> DEFINE s == Sorted(query.rows, query.specs)
  <2>1. Tables.table = Tables.output
    BY <1>5, TablesAre
  <2>2. /\ DOMAIN Tables.output[Act] = 1..p
        /\ \A i \in 1..n : i \in 1..p /\ Tables.output[Act][i] = s[i][Act]
        /\ \A i \in 1..p : i > n => Tables.output[Act][i] = 0
    BY OutputRows
  <2>3. \A i \in 1..n : Given[i][Act] = s[i][Act]
    BY GivenRows
  <2>4. \A i \in 1..n : Again[i] = Given[i]
    BY <1>5, LexStays
  <2> HIDE DEF s
  <2>5. \A i \in 1..p : i \in 1..n \/ i > n
    BY <1>1
  <2>6. \A i \in 1..p : Tables.output[Act][i] = Again[i][Act]
    BY <1>2, <2>2, <2>3, <2>4, <2>5
  <2>7. ASSUME NEW c \in 1..k, NEW i \in 1..p
        PROVE  /\ Tables.output[c][i] \in Over({})!Field
               /\ Again[i][Act] = 1 => Tables.output[c][i] = Enc(Again[i][c])
    <3>1. /\ \A j \in 1..n : Tables.output[c][j] = Enc(Given[j][c])
          /\ \E x \in Int \cup {Null} : Tables.output[c][i] = Enc(x)
      BY <1>5, LexColumns
    <3>2. Tables.output[c][i] \in Over({})!Field
      BY <3>1, EncField
    <3>3. Again[i][Act] = 1 => i \in 1..n
      BY <1>2, <2>5
    <3> QED BY <2>4, <3>1, <3>2, <3>3
  <2> QED BY <2>1, <2>2, <2>6, <2>7
<1> QED BY <1>1, <1>4, <1>5

LEMMA AfterIs ==
  ASSUME NEW p \in Nat, p > 0
  PROVE  \A i \in 1..p : /\ After(i, p) \in 1..p /\ (i < p => After(i, p) = i + 1 /\ i + 1 \in 1..p)
                         /\ Before(i, p) \in 1..p /\ After(Before(i, p), p) = i
<1> TAKE i \in 1..p
<1>1. i % p \in 0..(p - 1)
  BY DivMod
<1>2. i < p => i % p = i
  OBVIOUS
<1>3. i = 1 => p % p = 0
  <2>1. (1 * p + 0) % p = 0
    BY DivUnique
  <2> QED BY <2>1
<1>4. i # 1 => i - 1 \in 1..p /\ (i - 1) % p = i - 1
  OBVIOUS
<1> QED BY <1>1, <1>2, <1>3, <1>4 DEF After, Before

\* The rotated table.
LEMMA RotatedColumns ==
  ASSUME NEW n, NEW k, QueryIs(n, k), NEW p, p = PowerOfTwo(n)
  PROVE  /\ DOMAIN Tables.rotated[Act] = 1..p
         /\ \A i \in 1..p : /\ Tables.rotated[Act][i] = Again[After(i, p)][Act]
                            /\ \A c \in 1..k : Tables.rotated[c][i] = Enc(Again[After(i, p)][c])
<1> DEFINE r == Rotated(Again)
<1>1. \A c \in 1..k \cup {Act} : ColumnIs(Tables.rotated[c], r, c, p)
  BY HintColumns, TablesAre
<1>2. p \in Nat /\ p > 0 /\ Len(Again) = p /\ DOMAIN Again = 1..p
  BY HintRows DEF TableRows
<1>3. \A i \in 1..p : r[i] = Again[After(i, p)] /\ After(i, p) \in 1..p
  BY <1>2, AfterIs DEF Rotated, After
<1>4. RowsFor(Again, p, k)
  BY ContigRise
<1> HIDE DEF r
<1>5. ColumnIs(Tables.rotated[Act], r, Act, p)
  BY <1>1
<1>6. \A i \in 1..p : Again[i][Act] \in {0, 1} /\ Enc(Again[i][Act]) = Again[i][Act]
  BY <1>4, BitsStay DEF RowsFor
<1>7. \A i \in 1..p : Tables.rotated[Act][i] = Again[After(i, p)][Act]
  BY <1>3, <1>5, <1>6 DEF ColumnIs
<1>8. \A i \in 1..p : \A c \in 1..k : Tables.rotated[c][i] = Enc(Again[After(i, p)][c])
  BY <1>1, <1>3 DEF ColumnIs
<1> QED BY <1>5, <1>7, <1>8 DEF ColumnIs

\* The differences.
LEMMA DiffColumns ==
  ASSUME NEW n, NEW k, QueryIs(n, k), NEW p, p = PowerOfTwo(n)
  PROVE  \A c \in 1..k : \A i \in 1..p : Tables.diffs[c][i] = Enc(Gap(i, p, c))
<1> TAKE c \in 1..k
<1> TAKE i \in 1..p
<1>1. ColumnIs(Tables.diffs[c], DiffRows(query.types, query.specs, Again), c, p)
  BY HintColumns, TablesAre
<1>2. DiffRows(query.types, query.specs, Again)[i][c] = Gap(i, p, c)
  BY GapIs
<1> QED BY <1>1, <1>2 DEF ColumnIs

\* The ties: of a prefix of no keys, of one, and so on.
LEMMA TieColumns ==
  ASSUME NEW n, NEW k, QueryIs(n, k), NEW p, p = PowerOfTwo(n)
  PROVE  \A c \in 1..k : \A i \in 1..p :
           AllTies(Tables)[c][i] = IF Tie(Again, c - 1, i) THEN 1 ELSE 0
<1> TAKE c \in 1..k
<1> TAKE i \in 1..p
<1> DEFINE t == Tables
           ties == TieRows(Again)
<1>1. k \in Nat /\ k >= 1 /\ k <= MaxCols /\ MaxCols \in Nat /\ KeyCount = k /\ Size(t) = p
  <2>1. k \in Nat /\ k >= 1 /\ k <= MaxCols /\ MaxCols \in Nat /\ KeyCount = k
    BY SortAssumption DEF QueryIs
  <2>2. Size(t) = p
    BY SizeIs DEF Tables
  <2> QED BY <2>1, <2>2
<1>2. p \in Nat /\ Len(Again) = p /\ DOMAIN Again = 1..p
  BY HintRows DEF TableRows
<1>3. \A j \in Range(TieFields(k)) : t.ties[j][i] = Enc(ties[i][j])
  <2>1. \A j \in Range(TieFields(k)) : ColumnIs(t.ties[j], ties, j, p)
    BY HintColumns, TablesAre
  <2> QED BY <2>1 DEF ColumnIs
<1>4. ties[i] = [j \in RowNames |-> IF Tie(Again, IF j = FirstTie THEN 0 ELSE j, i) THEN 1 ELSE 0]
  BY <1>2 DEF TieRows, RowNames
<1> HIDE DEF t, ties
<1>5. CASE k = 1
  <2>1. FirstTie \in Range(TieFields(k)) /\ FirstTie \in RowNames
    BY <1>1, <1>5 DEF Range, TieFields, FirstTie, RowNames
  <2>2. ties[i][FirstTie] = IF Tie(Again, 0, i) THEN 1 ELSE 0
    BY <1>4, <2>1
  <2>3. AllTies(t)[1] = t.ties[FirstTie]
    BY <1>1, <1>5 DEF AllTies
  <2>4. c = 1 /\ c - 1 = 0
    BY <1>5
  <2> QED BY <1>3, <2>1, <2>2, <2>3, <2>4, BitsStay DEF t
<1>6. CASE k # 1
  <2> DEFINE first == [l \in 1..Size(t) |-> IF l < Size(t) THEN 1 ELSE 0]
             others == [l \in 1..(k - 1) |-> t.ties[l]]
             S == {first} \cup {others[l] : l \in 1..(k - 1)}
             one == <<first>>
             u == 1
             w == k - 1
  <2>1. AllTies(t) = one \o others
    BY <1>1, <1>6 DEF AllTies
  <2>2. one \in Seq(S) /\ Len(one) = u /\ one[1] = first
    OBVIOUS
  <2>3. others \in [1..w -> S] /\ w \in Nat
    BY <1>1
  <2>4. first[i] = (IF i < p THEN 1 ELSE 0) /\ \A l \in 1..w : others[l] = t.ties[l]
    BY <1>1
  <2> HIDE DEF first, others, S, one, u, w
  <2>5. others \in Seq(S) /\ Len(others) = w
    BY <2>3, ListOf
  <2>6. ConsistsOf(one \o others, one, u, others, w)
    BY <2>2, <2>5, Joined
  <2>7. CASE c = 1
    <3>1. AllTies(t)[1] = first
      BY <2>1, <2>2, <2>6 DEF ConsistsOf, u
    <3>2. Tie(Again, c - 1, i) <=> i < p
      <4>1. c - 1 = 0
        BY <2>7
      <4> QED BY <1>2, <4>1 DEF Tie, SameUpTo
    <3> QED BY <2>4, <2>7, <3>1, <3>2 DEF t
  <2>8. CASE c # 1
    <3> DEFINE j == c - 1
    <3>1. j \in 1..w /\ u + j = c /\ j \in RowNames /\ j # FirstTie
      BY <1>1, <2>8 DEF u, w, RowNames, FirstTie
    <3>2. j \in Range(TieFields(k))
      BY <1>6, <3>1 DEF Range, TieFields, w
    <3> HIDE DEF j
    <3>3. AllTies(t)[c] = t.ties[j]
      BY <2>1, <2>4, <2>6, <3>1 DEF ConsistsOf
    <3>4. ties[i][j] = IF Tie(Again, j, i) THEN 1 ELSE 0
      BY <1>4, <3>1
    <3> QED BY <1>3, <3>2, <3>3, <3>4, BitsStay DEF t, j
  <2> QED BY <2>7, <2>8
<1> QED BY <1>5, <1>6

\* Every row is the one before the next, and so in the rotated table.
LEMMA TablesTurned ==
  ASSUME NEW n, NEW k, QueryIs(n, k), NEW p, p = PowerOfTwo(n)
  PROVE  Turned(Tables, p, k)
<1>1. p \in Nat /\ p > 0
  BY HintRows
<1>2. Size(Tables) = p /\ KeyCount = k /\ k \in Nat
  BY SizeIs, SortAssumption DEF QueryIs, Tables
<1>3. \A i \in 1..p : Before(i, p) \in 1..p /\ After(Before(i, p), p) = i
  BY <1>1, AfterIs
<1>4. /\ DOMAIN Tables.table[Act] = 1..p
      /\ \A i \in 1..p : Tables.table[Act][i] = Again[i][Act]
      /\ \A c \in 1..k : \A i \in 1..p : Again[i][Act] = 1 => Tables.table[c][i] = Enc(Again[i][c])
  BY TableColumns
<1>5. /\ DOMAIN Tables.rotated[Act] = 1..p
      /\ \A i \in 1..p : /\ Tables.rotated[Act][i] = Again[After(i, p)][Act]
                         /\ \A c \in 1..k : Tables.rotated[c][i] = Enc(Again[After(i, p)][c])
  BY RotatedColumns
<1>6. \A i \in 1..p : Tables.rotated[Act][Before(i, p)] = Tables.table[Act][i]
  BY <1>3, <1>4, <1>5
<1>7. \A i \in 1..p : Tables.table[Act][i] = 1 =>
        \A c \in 1..k : Tables.rotated[c][Before(i, p)] = Tables.table[c][i]
  BY <1>3, <1>4, <1>5
<1> QED BY <1>1, <1>2, <1>4, <1>5, <1>6, <1>7 DEF Turned

-----------------------------------------------------------------------------
(* Neighbours.                                                             *)

\* The first key in which two rows differ, or the last.
Decides(r, s, k, d) == d \in 1..k /\ SameUpTo(r, s, d - 1) /\ (d = k \/ r[d] # s[d])

LEMMA DecidesExists ==
  ASSUME NEW r, NEW s, NEW k \in Nat, k > 0
  PROVE  \E d \in 1..k : Decides(r, s, k, d)
<1> DEFINE S == {c \in 1..k : r[c] # s[c]}
<1>1. CASE S = {}
  <2>1. Decides(r, s, k, k) /\ k \in 1..k
    BY <1>1 DEF Decides, SameUpTo
  <2> QED BY <2>1
<1>2. CASE S # {}
  <2>1. S \in SUBSET Nat
    OBVIOUS
  <2>2. PICK d \in S : \A c \in S : d <= c
    <3> HIDE DEF S
    <3> QED BY <1>2, <2>1, Least
  <2>3. d \in 1..k /\ r[d] # s[d] /\ \A c \in 1..(d - 1) : r[c] = s[c]
    <3>1. d \in 1..k /\ r[d] # s[d]
      BY <2>2
    <3>2. \A c \in 1..(d - 1) : c \in 1..k /\ ~(d <= c)
      BY <3>1
    <3> QED BY <2>2, <3>1, <3>2
  <2> QED BY <2>3 DEF Decides, SameUpTo
<1> QED BY <1>1, <1>2

\* Of two rows in order, the key that decides is in order.
LEMMA DecidedRises ==
  ASSUME NEW specs, NEW k, SpecsFor(specs, k), NEW r, NEW s, r[Act] = s[Act], r[Act] \in Int,
         RowBefore(specs, r, s), NEW d, Decides(r, s, k, d),
         \A c \in 1..k : r[c] \in Int \cup {Null} /\ s[c] \in Int \cup {Null}
  PROVE  KeyBefore(specs[d], r[d], s[d]) \/ (d = k /\ r[d] = s[d])
<1>1. k \in Nat /\ DOMAIN specs = 1..k /\ Len(specs) = k
      /\ \A c \in 1..k : specs[c].asc \in BOOLEAN /\ specs[c].nullsFirst \in BOOLEAN
  BY DEF SpecsFor
<1>2. d \in 1..k /\ SameUpTo(r, s, d - 1) /\ (d = k \/ r[d] # s[d])
  BY DEF Decides
<1>3. CASE \E x \in 1..k : SameUpTo(r, s, x - 1) /\ KeyBefore(specs[x], r[x], s[x])
  <2>1. PICK x \in 1..k : SameUpTo(r, s, x - 1) /\ KeyBefore(specs[x], r[x], s[x])
    BY <1>3
  <2>2. r[x] # s[x]
    <3>1. r[x] \in Int \cup {Null}
      OBVIOUS
    <3> QED BY <2>1, <3>1 DEF KeyBefore
  <2>3. ~(x < d)
    <3>1. x < d => x \in 1..(d - 1)
      BY <1>1, <1>2
    <3> QED BY <1>2, <2>2, <3>1 DEF SameUpTo
  <2>4. ~(d < x)
    <3>1. d < x => d \in 1..(x - 1) /\ d # k
      BY <1>1, <1>2
    <3> QED BY <1>2, <2>1, <3>1 DEF SameUpTo
  <2>5. x = d
    BY <1>1, <1>2, <2>3, <2>4
  <2> QED BY <2>1, <2>5
<1>4. CASE ~\E x \in 1..k : SameUpTo(r, s, x - 1) /\ KeyBefore(specs[x], r[x], s[x])
  <2>1. SameUpTo(r, s, k)
    BY <1>1, <1>4 DEF RowBefore
  <2>2. r[d] = s[d]
    BY <1>2, <2>1 DEF SameUpTo
  <2> QED BY <1>2, <2>2
<1> QED BY <1>3, <1>4

-----------------------------------------------------------------------------
(* What can be expressed of two rows next to each other.                   *)

\* Key d decides between the rows i and i + 1, and does so in their encodings.
Decided(i, p, k, d) ==
  /\ Decides(Again[i], Again[i + 1], k, d)
  /\ d < k => Enc(Again[i][d]) # Enc(Again[i + 1][d])
  /\ Enc(Gap(i, p, d)) \in 0..Most({}, DiffType(query.types[d]))
  /\ Strictly /\ ~HasLookalikes /\ d = k => Enc(Gap(i, p, d)) # 0

LEMMA AlikeShown ==
  ASSUME NEW n, NEW k, QueryIs(n, k), NEW i \in 1..n, NEW j \in 1..n, i # j,
         Shown[i][Act] = 1, Shown[j][Act] = 1, \A c \in 1..k : Enc(Shown[i][c]) = Enc(Shown[j][c])
  PROVE  HasLookalikes
<1> DEFINE rows == query.rows
           last == NullsLast(query.specs)
<1>1. RowsFor(rows, n, k) /\ SpecsFor(last, k) /\ KeyCount = k
  BY NullsLastOk DEF QueryIs
<1>2. DOMAIN rows = 1..n
  BY <1>1 DEF RowsFor
<1>3. MadeOf(Shown, rows, n) /\ RowsFor(Shown, n, k)
  <2>1. Shown = Sorted(rows, last)
    BY DEF Shown
  <2> HIDE DEF rows, last
  <2> QED BY <1>1, <2>1, SortedRises
<1> HIDE DEF rows, last
<1>4. PICK x \in 1..n : Shown[i] = rows[x]
  BY <1>3 DEF MadeOf
<1>5. PICK y \in 1..n : Shown[j] = rows[y]
  BY <1>3 DEF MadeOf
<1>6. x # y
  <2> SUFFICES ASSUME x = y PROVE FALSE
    OBVIOUS
  <2>1. Shown[i] = Shown[j]
    BY <1>4, <1>5
  <2>2. SameUpTo(Shown[i], Shown[j], k)
    BY <2>1 DEF SameUpTo
  <2> QED BY <1>3, <2>1, <2>2 DEF RowsFor
<1> QED BY <1>1, <1>2, <1>4, <1>5, <1>6 DEF HasLookalikes, rows

\* A difference that fits and is not negative is in range, and nothing only of equals.
LEMMA PairFits ==
  ASSUME KeysNarrow, NEW t \in Types, NEW spec, spec.asc \in BOOLEAN, NEW a \in Int, NEW b \in Int,
         InOrderOf(spec, a, b), t \notin SignOnly => Fits(t, spec, a, b),
         NEW gap, gap = IF spec.asc THEN KeyDiff(t, b, a) ELSE KeyDiff(t, a, b)
  PROVE  Enc(gap) \in 0..Most({}, DiffType(t)) /\ (a # b => Enc(gap) # 0)
<1>1. DiffType(t) \in Over({})!Type /\ DiffType(t) # "Decimal128" /\ Most({}, DiffType(t)) > 0
  BY TypesAre DEF KeysNarrow
<1>2. Most({}, DiffType(t)) \in Nat
  BY <1>1, TypeSizes
<1>3. CASE t \in SignOnly
  <2>1. Null \notin {a, b} /\ (spec.asc => a <= b) /\ (~spec.asc => b <= a)
    BY SortAssumption DEF InOrderOf
  <2>2. gap = IF a = b THEN 0 ELSE 1
    BY <1>3, <2>1 DEF KeyDiff, Sign
  <2> QED BY <1>1, <1>2, <2>2, BitsStay
<1>4. CASE t \notin SignOnly
  <2>1. t \in Over({})!Type /\ t # "Decimal128" /\ Most({}, DiffType(t)) = Most({}, t)
    BY <1>4, TypesAre
  <2>2. CASE spec.asc
    <3>1. b - a >= 0 /\ Diff(t, b, a) = b - a
      BY <1>4, <2>2 DEF Fits, InOrderOf
    <3>2. Enc(gap) = b - a /\ b - a \in 0..Most({}, t)
      BY <1>4, <2>1, <2>2, <3>1, DiffValue DEF KeysNarrow, KeyDiff
    <3> QED BY <2>1, <3>2
  <2>3. CASE ~spec.asc
    <3>1. a - b >= 0 /\ Diff(t, a, b) = a - b
      BY <1>4, <2>3 DEF Fits, InOrderOf
    <3>2. Enc(gap) = a - b /\ a - b \in 0..Most({}, t)
      BY <1>4, <2>1, <2>3, <3>1, DiffValue DEF KeysNarrow, KeyDiff
    <3> QED BY <2>1, <3>2
  <2> QED BY <2>2, <2>3
<1> QED BY <1>3, <1>4

\* Of a type without negative values any difference is in range.
LEMMA UnsignedFits ==
  ASSUME KeysNarrow, NEW t \in Types, t \notin SignOnly, ~Over({})!Signed(t),
         NEW a \in Int, NEW b \in Int
  PROVE  Enc(KeyDiff(t, a, b)) \in 0..Most({}, DiffType(t))
<1>1. t \in Over({})!Type /\ t # "Decimal128" /\ Most({}, DiffType(t)) = Most({}, t)
  BY TypesAre
<1> DEFINE s == Over({})!Size(Over({})!Bytes[t])
           m == Most({}, t)
           v == (a - b) % s
<1>2. KeyDiff(t, a, b) = v /\ Null \notin Int
  BY SortAssumption DEF KeyDiff, Diff
<1>3. s \in Nat /\ s > 1 /\ m \in Nat /\ m < Over({})!Long
  BY <1>1, TypeSizes
<1>4. v <= m
  BY <1>1, WrapsTo DEF KeysNarrow
<1>5. FieldSize \in Nat /\ FieldSize > 4 * Over({})!Long /\ Over({})!Long \in Nat
  BY SignSizes
<1> HIDE DEF s, m
<1>6. v \in Nat
  BY <1>3
<1> HIDE DEF v
<1>7. v < FieldSize /\ v \in 0..m
  BY <1>3, <1>4, <1>5, <1>6
<1>8. Enc(v) = v
  <2>1. v % FieldSize = v /\ v # Null
    BY <1>2, <1>5, <1>6, <1>7
  <2> QED BY <2>1 DEF Enc
<1> QED BY <1>1, <1>2, <1>7, <1>8 DEF m

LEMMA NeighboursDecided ==
  ASSUME KeysNarrow, Expressible, NEW n, NEW k, QueryIs(n, k), NEW p, p = PowerOfTwo(n),
         NEW i \in 1..p, i + 1 \in 1..p, Again[i][Act] = 1, Again[i + 1][Act] = 1
  PROVE  \E d \in 1..k : Decided(i, p, k, d)
<1> DEFINE specs == NullsLast(query.specs)
           r == Again[i]
           s == Again[i + 1]
           d == Decisive(i)
           a == r[d]
           b == s[d]
           first == Again[1][d]
           spec == query.specs[d]
           t == query.types[d]
<1>1. /\ n \in Nat /\ k \in Nat /\ k > 0 /\ KeyCount = k /\ query.types \in [1..k -> Types]
      /\ SpecsFor(query.specs, k) /\ SpecsFor(specs, k)
      /\ \A c \in 1..k : specs[c].asc = query.specs[c].asc
      /\ \A c \in 1..k : query.specs[c].asc \in BOOLEAN
  <2>1. n \in Nat /\ k \in Nat /\ k > 0 /\ KeyCount = k /\ query.types \in [1..k -> Types]
        /\ SpecsFor(query.specs, k)
    BY SortAssumption DEF QueryIs
  <2>2. SpecsFor(specs, k) /\ \A c \in 1..k : specs[c].asc = query.specs[c].asc
    BY <2>1, NullsLastOk
  <2>3. \A c \in 1..k : query.specs[c].asc \in BOOLEAN
    BY <2>1 DEF SpecsFor
  <2> HIDE DEF specs
  <2> QED BY <2>1, <2>2, <2>3
<1>2. p \in Nat /\ p > 0
  BY HintRows
<1>3. /\ \A j \in 1..n : Again[j][Act] = Shown[j][Act] /\ SameUpTo(Again[j], Shown[j], k)
      /\ \A j \in 1..p : j > n => Again[j][Act] = 0
      /\ RowsFor(Shown, n, k) /\ Len(Shown) = n
  BY ShownRows
<1>4. i \in 1..n /\ i + 1 \in 1..n
  <2>1. ~(i + 1 > n)
    BY <1>3
  <2> QED BY <1>1, <1>2, <2>1
<1>5. i \in Neighbours
  BY <1>1, <1>3, <1>4 DEF Neighbours
<1>6. /\ \A c \in 1..k : r[c] = Shown[i][c] /\ s[c] = Shown[i + 1][c]
      /\ Shown[i][Act] = 1 /\ Shown[i + 1][Act] = 1
  BY <1>3, <1>4 DEF SameUpTo
<1>7. Decides(Shown[i], Shown[i + 1], k, d)
  <2>1. \E c \in 1..k : Decides(Shown[i], Shown[i + 1], k, c)
    BY <1>1, DecidesExists
  <2>2. d = CHOOSE c \in 1..k : SameUpTo(Shown[i], Shown[i + 1], c - 1)
                                /\ (c = k \/ Shown[i][c] # Shown[i + 1][c])
    BY <1>1 DEF Decisive
  <2> HIDE DEF d
  <2> QED BY <2>1, <2>2 DEF Decides
<1> HIDE DEF d, specs
<1>8. Decides(r, s, k, d) /\ d \in 1..k
  <2>1. d \in 1..k /\ \A c \in 1..(d - 1) : c \in 1..k
    BY <1>1, <1>7 DEF Decides
  <2> HIDE DEF r, s
  <2> QED BY <1>6, <1>7, <2>1 DEF Decides, SameUpTo
<1>9. /\ Null \notin {a, b} /\ t \notin SignOnly => Fits(t, spec, a, b)
      /\ ByWindows(query.types) /\ b = Null /\ Null \notin {a, first}
           /\ (t \in SignOnly \/ Over({})!Signed(t)) =>
           InOrderOf(spec, a, first) /\ (t \notin SignOnly => Fits(t, spec, a, first))
      /\ d < k => Enc(a) # Enc(b)
      /\ d = k /\ Strictly => Null \notin {a, b}
  <2>1. a = Shown[i][d] /\ b = Shown[i + 1][d]
    BY <1>6, <1>8
  <2>2. first = Shown[1][d]
    <3>1. 1 \in 1..n
      BY <1>1, <1>4
    <3> QED BY <1>3, <1>8, <3>1 DEF SameUpTo
  <2> HIDE DEF a, b, first
  <2> QED BY <1>1, <1>5, <2>1, <2>2 DEF Expressible, d, t, spec
<1>10. /\ r[Act] = s[Act] /\ r[Act] \in Int /\ RowBefore(specs, r, s)
       /\ \A c \in 1..k : r[c] \in Int \cup {Null} /\ s[c] \in Int \cup {Null}
  <2>1. RowsFor(Again, p, k) /\ Rising(Again, specs, p)
    BY AgainRises DEF specs
  <2>2. i < i + 1
    BY <1>1, <1>4
  <2> QED BY <2>1, <2>2 DEF Rising, RowsFor
<1> HIDE DEF r, s
<1>11. KeyBefore(specs[d], a, b) \/ (d = k /\ a = b)
  BY <1>1, <1>8, <1>10, DecidedRises
<1>12. /\ a \in Int \cup {Null} /\ b \in Int \cup {Null} /\ first \in Int \cup {Null}
       /\ specs[d].asc = spec.asc /\ spec.asc \in BOOLEAN /\ t \in Types
  <2>1. first \in Int \cup {Null}
    <3>1. 1 \in 1..p /\ RowsFor(Again, p, k)
      BY <1>2, AgainRises
    <3> QED BY <1>8, <3>1 DEF RowsFor
  <2> QED BY <1>1, <1>8, <1>10, <2>1
<1> DEFINE other == IF ByWindows(query.types) /\ b = Null THEN first ELSE b
           gap == Gap(i, p, d)
           most == Most({}, DiffType(t))
<1>13. /\ gap = IF spec.asc THEN KeyDiff(t, other, a) ELSE KeyDiff(t, a, other)
       /\ most \in Nat
  <2>1. After(i, p) = i + 1
    <3>1. i < p
      BY <1>2
    <3> QED BY <1>2, <3>1, AfterIs
  <2>2. Following(i, p, d) = other
    BY <2>1 DEF Following, s
  <2> QED BY <1>12, <2>2, TypesAre, TypeSizes DEF Gap, r
<1> HIDE DEF a, b, spec, t, first, gap, most
<1>14. Enc(gap) \in 0..most /\ (Null \notin {a, b} /\ a # b => Enc(gap) # 0)
  <2>1. CASE a = Null \/ other = Null
    <3>1. Enc(KeyDiff(t, a, other)) = 0 /\ Enc(KeyDiff(t, other, a)) = 0
      BY <1>12, <2>1, KeyDiffKind
    <3>2. a = Null \/ b = Null
      BY <2>1
    <3> QED BY <1>13, <3>1, <3>2
  <2>2. CASE a # Null /\ b # Null
    <3>1. other = b /\ a \in Int /\ b \in Int
      BY <1>12, <2>2
    <3>2. InOrderOf(spec, a, b)
      BY <1>11, <1>12, <2>2, <3>1 DEF KeyBefore, InOrderOf
    <3>3. t \notin SignOnly => Fits(t, spec, a, b)
      BY <1>9, <2>2
    <3> HIDE DEF other
    <3> QED BY <1>12, <1>13, <3>1, <3>2, <3>3, PairFits DEF most
  <2>3. CASE a # Null /\ b = Null /\ other # Null
    <3>1. ByWindows(query.types) /\ other = first /\ a \in Int /\ first \in Int
      BY <1>12, <2>3
    <3> HIDE DEF other
    <3>2. CASE t \in SignOnly \/ Over({})!Signed(t)
      <4>1. InOrderOf(spec, a, first) /\ (t \notin SignOnly => Fits(t, spec, a, first))
        BY <1>9, <2>3, <3>1, <3>2
      <4> QED BY <1>12, <1>13, <2>3, <3>1, <4>1, PairFits DEF most
    <3>3. CASE ~(t \in SignOnly \/ Over({})!Signed(t))
      <4>1. Enc(KeyDiff(t, a, first)) \in 0..most /\ Enc(KeyDiff(t, first, a)) \in 0..most
        BY <1>12, <3>1, <3>3, UnsignedFits DEF most
      <4> QED BY <1>13, <2>3, <3>1, <4>1
    <3> QED BY <3>2, <3>3
  <2> QED BY <2>1, <2>2, <2>3
<1>15. ASSUME Strictly, ~HasLookalikes, d = k PROVE Null \notin {a, b} /\ a # b
  <2>1. Null \notin {a, b}
    BY <1>9, <1>15
  <2>2. ASSUME a = b PROVE FALSE
    <3>1. \A c \in 1..k : r[c] = s[c]
      <4>1. \A c \in 1..(k - 1) : r[c] = s[c]
        BY <1>8, <1>15 DEF Decides, SameUpTo
      <4>2. \A c \in 1..k : c \in 1..(k - 1) \/ c = k
        BY <1>1
      <4>3. r[k] = s[k]
        BY <1>15, <2>2 DEF a, b
      <4> QED BY <4>1, <4>2, <4>3
    <3>2. \A c \in 1..k : Enc(Shown[i][c]) = Enc(Shown[i + 1][c])
      BY <1>6, <3>1
    <3>3. i # i + 1
      BY <1>2
    <3> QED BY <1>4, <1>6, <1>15, <3>2, <3>3, AlikeShown
  <2> QED BY <2>1, <2>2
<1>16. Decided(i, p, k, d)
  <2>1. d < k => Enc(Again[i][d]) # Enc(Again[i + 1][d])
    BY <1>9 DEF a, b, r, s
  <2>2. Decides(Again[i], Again[i + 1], k, d)
    BY <1>8 DEF r, s
  <2>3. Enc(Gap(i, p, d)) \in 0..Most({}, DiffType(query.types[d]))
    BY <1>14 DEF gap, most, t
  <2>4. Strictly /\ ~HasLookalikes /\ d = k => Enc(Gap(i, p, d)) # 0
    BY <1>14, <1>15 DEF gap
  <2> QED BY <2>1, <2>2, <2>3, <2>4 DEF Decided
<1> QED BY <1>8, <1>16

\* So the tables fit their rows.
LEMMA TablesTruthful ==
  ASSUME KeysNarrow, Expressible, query.gadget = "nodup" => ~HasLookalikes,
         NEW n, NEW k, QueryIs(n, k), NEW p, p = PowerOfTwo(n)
  PROVE  Truthful(Tables, p, k)
<1> DEFINE t == Tables
           most(c) == Most({}, DiffType(query.types[c]))
<1>1. p \in Nat /\ p > 0 /\ Size(t) = p /\ k \in Nat /\ k > 0 /\ KeyCount = k
      /\ query.types \in [1..k -> Types]
  <2>1. k \in Nat /\ k > 0 /\ KeyCount = k /\ query.types \in [1..k -> Types]
    BY SortAssumption DEF QueryIs
  <2>2. Size(t) = p
    BY SizeIs DEF Tables
  <2> QED BY <2>1, <2>2, HintRows
<1>2. Len(Again) = p /\ RowsFor(Again, p, k)
  BY ContigRise DEF RowsFor
<1>3. /\ \A i \in 1..p : t.table[Act][i] = Again[i][Act]
      /\ \A c \in 1..k : \A i \in 1..p :
           /\ t.table[c][i] \in Over({})!Field
           /\ Again[i][Act] = 1 => t.table[c][i] = Enc(Again[i][c])
  BY TableColumns
<1>4. \A i \in 1..p : /\ t.rotated[Act][i] = Again[After(i, p)][Act]
                      /\ \A c \in 1..k : t.rotated[c][i] = Enc(Again[After(i, p)][c])
  BY RotatedColumns
<1>5. \A c \in 1..k : \A i \in 1..p : AllTies(t)[c][i] = IF Tie(Again, c - 1, i) THEN 1 ELSE 0
  BY TieColumns
<1>6. \A c \in 1..k : \A i \in 1..p : t.diffs[c][i] = Enc(Gap(i, p, c))
  BY DiffColumns
<1>7. \A i \in 1..p : After(i, p) \in 1..p /\ (i < p => After(i, p) = i + 1 /\ i + 1 \in 1..p)
  BY <1>1, AfterIs
<1>8. Strictly => ~HasLookalikes
  BY DEF Strictly
<1>9. \A i \in 1..p : Again[i][Act] \in {0, 1} /\ \A c \in 1..k : Again[i][c] \in Int \cup {Null}
  BY <1>2 DEF RowsFor
<1> HIDE DEF t, most
<1>10. ASSUME NEW i \in 1..p, NEW c \in 1..k
       PROVE  AllTies(t)[c][i] = 1 <=> i < p /\ SameUpTo(Again[i], Again[i + 1], c - 1)
  BY <1>2, <1>5, <1>10 DEF Tie
<1>11. ASSUME NEW i \in 1..p, i < p, Both(t, i)
       PROVE  \E d \in 1..k : Decided(i, p, k, d)
  <2>1. Again[i][Act] = 1 /\ Again[i + 1][Act] = 1 /\ i + 1 \in 1..p
    BY <1>3, <1>4, <1>7, <1>11 DEF Both
  <2> QED BY <2>1, NeighboursDecided
<1>12. ASSUME NEW i \in 1..p
       PROVE  t.table[Act][i] \in {0, 1} /\ t.rotated[Act][i] \in {0, 1}
  BY <1>3, <1>4, <1>7, <1>9
<1>13. ASSUME NEW i \in 1..p, NEW c \in 1..k
       PROVE  /\ AllTies(t)[c][i] \in {0, 1} /\ t.diffs[c][i] \in Over({})!Field
              /\ t.table[c][i] \in Over({})!Field /\ t.rotated[c][i] \in Over({})!Field
  <2>1. Gap(i, p, c) \in Int \cup {Null}
    BY GapKind
  <2>2. AllTies(t)[c][i] \in {0, 1}
    BY <1>5
  <2>3. t.rotated[c][i] \in Over({})!Field
    <3>1. Again[After(i, p)][c] \in Int \cup {Null}
      BY <1>7, <1>9
    <3>2. t.rotated[c][i] = Enc(Again[After(i, p)][c])
      BY <1>4
    <3> QED BY <3>1, <3>2, EncField
  <2> QED BY <1>3, <1>6, <2>1, <2>2, <2>3, EncField
\* Where a key ties no key before it decides.
<1>14. ASSUME NEW i \in 1..p, NEW c \in 1..k, Both(t, i), AllTies(t)[c][i] = 1
       PROVE  \E d \in c..k : Decided(i, p, k, d)
  <2>1. i < p /\ SameUpTo(Again[i], Again[i + 1], c - 1)
    BY <1>10, <1>14
  <2>2. PICK d \in 1..k : Decided(i, p, k, d)
    BY <1>11, <1>14, <2>1
  <2>3. d = k \/ Again[i][d] # Again[i + 1][d]
    BY <2>2 DEF Decided, Decides
  <2>4. ~(d < c)
    <3>1. d < c => d \in 1..(c - 1) /\ d # k
      BY <1>1
    <3> QED BY <2>1, <2>3, <3>1 DEF SameUpTo
  <2>5. d \in c..k
    BY <1>1, <2>4
  <2> QED BY <2>2, <2>5
<1>15. ASSUME NEW i \in 1..p, NEW c \in 1..k, Both(t, i), AllTies(t)[c][i] = 1
       PROVE  t.diffs[c][i] \in 0..most(c)
  <2>1. PICK d \in c..k : Decided(i, p, k, d)
    BY <1>14, <1>15
  <2>2. i < p
    BY <1>10, <1>15
  <2>3. d \in 1..k
    BY <1>1, <2>1
  <2>4. CASE d = c
    BY <1>6, <2>1, <2>4 DEF Decided, most
  <2>5. CASE d # c
    <3>1. c \in 1..(d - 1)
      BY <1>1, <2>1, <2>5
    <3>2. Again[i][c] = Again[i + 1][c]
      BY <2>1, <3>1 DEF Decided, Decides, SameUpTo
    <3>3. After(i, p) = i + 1 /\ Again[i][c] \in Int \cup {Null}
      BY <1>7, <1>9, <2>2
    <3>4. Again[After(i, p)][c] = Again[i][c]
      BY <3>2, <3>3
    <3>5. Enc(Gap(i, p, c)) = 0
      BY <3>4, GapKind
    <3>6. 0 \in 0..most(c)
      <4>1. DiffType(query.types[c]) \in Over({})!Type /\ DiffType(query.types[c]) # "Decimal128"
        BY <1>1, TypesAre
      <4>2. most(c) \in Nat
        BY <4>1, TypeSizes DEF most
      <4> QED BY <4>2
    <3> QED BY <1>6, <3>5, <3>6
  <2> QED BY <2>4, <2>5
<1>16. ASSUME NEW i \in 1..p, NEW c \in 1..(k - 1)
       PROVE  /\ AllTies(t)[c + 1][i] = 1 => AllTies(t)[c][i] = 1
              /\ t.table[Act][i] = 1 /\ AllTies(t)[c + 1][i] = 1 => t.table[c][i] = t.rotated[c][i]
              /\ Both(t, i) /\ AllTies(t)[c][i] = 1 /\ AllTies(t)[c + 1][i] = 0 =>
                   t.table[c][i] # t.rotated[c][i]
  <2>1. c \in 1..k /\ c + 1 \in 1..k /\ (c + 1) - 1 = c /\ c < k
    BY <1>1
  <2>2. AllTies(t)[c + 1][i] = 1 <=> i < p /\ SameUpTo(Again[i], Again[i + 1], c)
    <3>1. PICK l \in 1..k : l = c + 1 /\ l - 1 = c
      BY <2>1
    <3>2. AllTies(t)[l][i] = 1 <=> i < p /\ SameUpTo(Again[i], Again[i + 1], l - 1)
      BY <1>10
    <3> QED BY <3>1, <3>2
  <2>3. AllTies(t)[c][i] = 1 <=> i < p /\ SameUpTo(Again[i], Again[i + 1], c - 1)
    BY <1>10, <2>1
  <2>4. SameUpTo(Again[i], Again[i + 1], c) <=>
          SameUpTo(Again[i], Again[i + 1], c - 1) /\ Again[i][c] = Again[i + 1][c]
    <3>1. \A j : j \in 1..c <=> j \in 1..(c - 1) \/ j = c
      BY <1>1
    <3> QED BY <3>1 DEF SameUpTo
  <2>5. i < p => t.rotated[c][i] = Enc(Again[i + 1][c])
    BY <1>4, <1>7, <2>1
  <2>6. t.table[Act][i] = 1 => t.table[c][i] = Enc(Again[i][c])
    BY <1>3, <2>1
  <2>7. ASSUME Both(t, i), AllTies(t)[c][i] = 1, AllTies(t)[c + 1][i] = 0
        PROVE  t.table[c][i] # t.rotated[c][i]
    <3>1. PICK d \in c..k : Decided(i, p, k, d)
      BY <1>14, <2>1, <2>7
    <3>2. i < p /\ Again[i][c] # Again[i + 1][c]
      BY <2>2, <2>3, <2>4, <2>7
    <3>3. ~(c < d)
      <4>1. c < d => c \in 1..(d - 1)
        BY <1>1, <3>1
      <4> QED BY <3>1, <3>2, <4>1 DEF Decided, Decides, SameUpTo
    <3>4. d = c
      BY <1>1, <3>1, <3>3
    <3>5. Enc(Again[i][c]) # Enc(Again[i + 1][c])
      BY <2>1, <3>1, <3>4 DEF Decided
    <3> QED BY <2>5, <2>6, <2>7, <3>2, <3>5 DEF Both
  <2> QED BY <2>2, <2>3, <2>4, <2>5, <2>6, <2>7
<1>17. ASSUME NEW i \in 1..p, Strictly, Both(t, i), AllTies(t)[k][i] = 1
       PROVE  t.diffs[k][i] # 0
  <2>1. k \in 1..k /\ \A d \in k..k : d = k
    BY <1>1
  <2>2. PICK d \in k..k : Decided(i, p, k, d)
    BY <1>14, <1>17, <2>1
  <2>3. Enc(Gap(i, p, k)) # 0
    BY <1>8, <1>17, <2>1, <2>2 DEF Decided
  <2> QED BY <1>6, <2>1, <2>3
<1> QED BY <1>1, <1>12, <1>13, <1>15, <1>16, <1>17 DEF Truthful, most, t

-----------------------------------------------------------------------------
(* Differences that do not fit.                                            *)

\* Padding repeats the keys of the last row, or is NULL.
LEMMA PaddingKeys ==
  ASSUME NEW n, NEW k, QueryIs(n, k), NEW p, p = PowerOfTwo(n), NEW c \in 1..k
  PROVE  \A i \in 1..p : i > n => Again[i][c] = IF n = 0 THEN Null ELSE Again[n][c]
<1> DEFINE s == Sorted(Given, NullsLast(query.specs))
<1>1. n \in Nat /\ k \in 1..MaxCols /\ MaxCols \in Nat
  BY SortAssumption DEF QueryIs
<1>2. RowsFor(s, n, k)
  <2>1. SpecsFor(NullsLast(query.specs), k)
    BY <1>1, NullsLastOk DEF QueryIs
  <2>2. RowsFor(Given, n, k)
    BY GivenRows
  <2> QED BY <2>1, <2>2, SortedRises
<1>3. ContigRows = Padded(s)
  BY DEF ContigRows, Given
<1>4. /\ \A i \in 1..p : Again[i] = ContigRows[i]
      /\ \A i \in 1..n : i \in 1..p /\ ContigRows[i] = s[i]
  BY ContigRise
<1> HIDE DEF s
<1>5. Len(s) = n /\ DOMAIN s = 1..n /\ \A i \in 1..n : DOMAIN s[i] = RowNames
  BY <1>2 DEF RowsFor
<1>6. c \in RowNames /\ c # Act /\ c # RowId
  BY <1>1 DEF RowNames, Act, RowId
<1>7. ASSUME NEW i \in 1..p, i > n PROVE Again[i][c] = IF n = 0 THEN Null ELSE Again[n][c]
  <2>1. Again[i] = IF s = <<>> THEN NullRow(i)
                   ELSE [s[n] EXCEPT ![Act] = 0, ![RowId] = @ + i - n]
    <3>1. ~(i <= n)
      BY <1>1, <1>7
    <3> QED BY <1>3, <1>4, <1>5, <3>1 DEF Padded
  <2>2. CASE n = 0
    <3>1. s = <<>>
      BY <1>5, <2>2
    <3>2. NullRow(i)[c] = Null
      BY <1>6 DEF NullRow, RowNames
    <3> QED BY <2>1, <2>2, <3>1, <3>2
  <2>3. CASE n # 0
    <3>1. n \in 1..n /\ s # <<>>
      BY <1>1, <1>5, <2>3
    <3>2. c \in DOMAIN s[n]
      BY <1>5, <1>6, <3>1
    <3>3. Again[i] = [s[n] EXCEPT ![Act] = 0, ![RowId] = @ + i - n]
      BY <2>1, <3>1
    <3>4. Again[i][c] = s[n][c]
      BY <1>6, <3>2, <3>3
    <3>5. Again[n] = s[n]
      BY <1>4, <3>1
    <3> QED BY <2>3, <3>4, <3>5
  <2> QED BY <2>2, <2>3
<1> QED BY <1>7

\* Where differences fit from row to row and from the last to the first none of
\* the padded table's does not: those of padding are of equals.
LEMMA ClosedFits ==
  ASSUME Closed, NEW n, NEW k, QueryIs(n, k)
  PROVE  ~Overflows(query.types, query.specs, Again)
<1> DEFINE p == PowerOfTwo(n)
<1>1. /\ n \in Nat /\ k \in Nat /\ KeyCount = k /\ query.types \in [1..k -> Types]
      /\ DOMAIN query.specs = 1..k /\ \A c \in 1..k : query.specs[c].asc \in BOOLEAN
  BY SortAssumption DEF QueryIs, SpecsFor
<1>2. p \in Nat /\ p > 0 /\ Len(Again) = p /\ DOMAIN Again = 1..p /\ RowsFor(Again, p, k)
  BY HintRows, ContigRise DEF TableRows
<1>3. /\ \A i \in 1..n : i \in 1..p /\ SameUpTo(Again[i], Shown[i], k)
      /\ RowsFor(Shown, n, k) /\ Len(Shown) = n /\ DOMAIN Shown = 1..n
  BY ShownRows DEF RowsFor
<1>4. \A c \in 1..k : \A i \in 1..p : i > n => Again[i][c] = IF n = 0 THEN Null ELSE Again[n][c]
  BY PaddingKeys
<1> HIDE DEF p
<1> SUFFICES ASSUME Overflows(query.types, query.specs, Again) PROVE FALSE
  OBVIOUS
<1>5. ~ByWindows(query.types)
  BY DEF Overflows
<1>6. PICK i \in 1..p, c \in 1..k :
        /\ Null \notin {Again[i][c], Again[After(i, p)][c]}
        /\ ~Fits(query.types[c], query.specs[c], Again[i][c], Again[After(i, p)][c])
  <2> DEFINE r == Rotated(Again)
  <2>1. \A i \in 1..p : r[i] = Again[After(i, p)]
    BY <1>2 DEF Rotated, After
  <2>2. PICK i \in DOMAIN Again, c \in DOMAIN query.specs :
          /\ Null \notin {Again[i][c], r[i][c]}
          /\ IF query.specs[c].asc THEN Diff(query.types[c], r[i][c], Again[i][c]) # r[i][c] - Again[i][c]
             ELSE Diff(query.types[c], Again[i][c], r[i][c]) # Again[i][c] - r[i][c]
    BY DEF Overflows
  <2> HIDE DEF r
  <2>3. i \in 1..p /\ c \in 1..k /\ r[i] = Again[After(i, p)]
    BY <1>1, <1>2, <2>1, <2>2
  <2> QED BY <2>2, <2>3 DEF Fits
<1> DEFINE a == Again[i][c]
           b == Again[After(i, p)][c]
           t == query.types[c]
<1>7. t \in Over({})!Type /\ t # "Decimal128"
  <2>1. t \in Types /\ t \in Explicit
    BY <1>1, <1>5 DEF ByWindows
  <2>2. t \notin SignOnly
    BY <2>1 DEF Explicit, SignOnly
  <2> QED BY <2>1, <2>2, TypesAre
\* Equals differ by nothing.
<1>8. a # b
  <2> SUFFICES ASSUME a = b PROVE FALSE
    OBVIOUS
  <2>1. a \in Int
    BY <1>2, <1>6 DEF RowsFor
  <2>2. Diff(t, a, a) = 0 /\ a - a = 0
    BY <1>7, <2>1, DiffKind
  <2> HIDE DEF a, b, t
  <2>3. Fits(t, query.specs[c], a, b)
    BY <2>2 DEF Fits
  <2> QED BY <1>6, <2>3 DEF a, b, t
\* The rows of the table.
<1>9. ASSUME NEW j \in 1..n, a = Shown[j][c], b = Shown[IF j = n THEN 1 ELSE j + 1][c] PROVE FALSE
  <2>1. Null \notin {a, b} => Fits(t, query.specs[c], a, b)
    <3> HIDE DEF a, b, t
    <3> QED BY <1>1, <1>3, <1>5, <1>9 DEF Closed, t
  <2> QED BY <1>6, <2>1
<1>10. n > 0
  <2>1. n = 0 => i > n
    BY <1>1, <1>2
  <2> QED BY <1>1, <1>4, <1>6, <2>1
<1>11. /\ \A j \in 1..n : Again[j][c] = Shown[j][c]
       /\ i < p => After(i, p) = i + 1 /\ i + 1 \in 1..p
       /\ i = p => After(i, p) = 1
  <2>1. \A j \in 1..n : Again[j][c] = Shown[j][c]
    BY <1>3 DEF SameUpTo
  <2>2. i < p => After(i, p) = i + 1 /\ i + 1 \in 1..p
    BY <1>2, AfterIs
  <2>3. i = p => After(i, p) = 1
    <3>1. (1 * p + 0) % p = 0
      BY <1>2, DivUnique
    <3>2. p % p = 0
      BY <1>2, <3>1
    <3> QED BY <3>2 DEF After
  <2> QED BY <2>1, <2>2, <2>3
<1>12. a = Shown[IF i <= n THEN i ELSE n][c]
  BY <1>1, <1>2, <1>4, <1>10, <1>11
<1>13. CASE i = p
  <2>1. b = Shown[1][c]
    BY <1>1, <1>10, <1>11, <1>13
  <2>2. a = Shown[n][c]
    <3>1. n \in 1..p
      BY <1>1, <1>3, <1>10
    <3> QED BY <1>1, <1>2, <1>12, <1>13, <3>1
  <2> HIDE DEF a, b
  <2> QED BY <1>1, <1>9, <1>10, <2>1, <2>2
<1>14. CASE i < p /\ i < n
  <2>1. b = Shown[i + 1][c] /\ a = Shown[i][c] /\ i # n /\ i \in 1..n
    BY <1>1, <1>2, <1>11, <1>12, <1>14
  <2> HIDE DEF a, b
  <2> QED BY <1>9, <2>1
<1>15. CASE i < p /\ ~(i < n)
  <2>1. i + 1 \in 1..p /\ i + 1 > n /\ n # 0
    BY <1>1, <1>2, <1>10, <1>11, <1>15
  <2>2. b = Again[n][c]
    BY <1>4, <1>11, <1>15, <2>1
  <2>3. a = Again[n][c]
    BY <1>1, <1>2, <1>4, <1>15, <2>1
  <2> QED BY <1>8, <2>2, <2>3
<1> QED BY <1>2, <1>13, <1>14, <1>15

-----------------------------------------------------------------------------
(* What is asked of the query does not change.                             *)

Asked == Expressible /\ (query.gadget = "nodup" => ~HasLookalikes)

LEMMA SameAsked ==
  ASSUME query' = query
  PROVE  (Asked' <=> Asked) /\ (Closed' <=> Closed)
BY DEF Asked, Expressible, Closed, HasLookalikes, Neighbours, Decisive, Shown, Strictly, KeyCount

\* The tables of what is asked for pass the honest prover's checks, and make
\* true claims.
LEMMA AskedIsProved ==
  ASSUME KeysNarrow, Asked, QueryOk
  PROVE  /\ HonestCheck(Tables)
         /\ AllHold(SortClaims(Tables, ShiftColumn(Size(Tables), 1), ShiftColumn(Size(Tables), 0)))
<1>1. PICK n \in Nat, k \in 1..MaxCols : QueryIs(n, k)
  BY DEF QueryOk
<1> DEFINE p == PowerOfTwo(n)
           t == Tables
<1>2. Size(t) = p
  BY <1>1, SizeIs DEF Tables
<1>3. Truthful(t, p, k)
  BY <1>1, TablesTruthful DEF Asked
<1>4. Turned(t, p, k)
  BY <1>1, TablesTurned
<1>5. PICK f : Matched(Columns(t.input), t.input[Act], Columns(t.output), t.output[Act], p, f)
  BY <1>1, OutputMatched
<1>6. Strictly => ~Repeated(t.input)
  BY <1>1, NoneRepeated DEF Asked, Strictly
<1> HIDE DEF t, p
<1>7. AllHold(SortClaims(t, ShiftColumn(p, 1), ShiftColumn(p, 0)))
  BY <1>3, <1>4, <1>5, ClaimsHold
<1>8. HonestPerm(t.input, t.output)
  BY <1>5, HonestPermHolds
<1>9. HonestRotation(t) /\ HonestNeq(t) /\ HonestSigns(t)
  BY <1>3, <1>4, HonestRotationHolds, HonestNeqHolds, HonestSignsHold
<1> QED BY <1>2, <1>6, <1>7, <1>8, <1>9 DEF HonestCheck, t

\* Every order contig_sort can express is proved, and of a NoDup that no two
\* rows look alike, in any table whatever its size and its keys' types, the
\* differences made either way: the prover's own checks do not stop it, and what
\* the verifier checks is true.  Nor does a difference stop it, in a build that
\* checks arithmetic, that fits its type.
THEOREM SortProvable ==
  ASSUME KeysNarrow PROVE Spec => []SortedIsProvable
<1> DEFINE Goes == (Asked => pc # "error") /\ (Closed => pc # "panic")
<1>1. Init => Goes
  BY DEF Init, Goes
<1>2. SortInv /\ Goes /\ [Next]_vars => Goes'
  <2> SUFFICES ASSUME SortInv, Goes, [Next]_vars PROVE Goes'
    OBVIOUS
  <2>1. query' = query
    BY DEF Next, Plan, PlanPanics, Commit, Check, Prove, VTrack, VClaim, Stop, vars, pvars, vvars
  <2>2. (Asked' <=> Asked) /\ (Closed' <=> Closed)
    BY <2>1, SameAsked
  <2>3. ASSUME Asked, Check PROVE pc' # "error"
    <3>1. tabs = Tables
      BY <2>3 DEF SortInv, ProverPart, Check, Tables
    <3>2. HonestCheck(tabs)
      BY <2>3, <3>1, AskedIsProved DEF SortInv
    <3> QED BY <2>3, <3>2 DEF Check
  <2>4. ASSUME Asked, ~Check PROVE pc' # "error"
    BY <2>4 DEF Next, Plan, PlanPanics, Commit, Prove, VTrack, VClaim, Stop, vars, pvars, vvars, Goes
  <2>5. ASSUME Closed, PlanPanics PROVE FALSE
    <3>1. PICK n \in Nat, k \in 1..MaxCols : QueryIs(n, k)
      BY DEF SortInv, QueryOk
    <3>2. Overflows(query.types, query.specs, Again)
      BY <2>5 DEF PlanPanics, Again
    <3> QED BY <2>5, <3>1, <3>2, ClosedFits
  <2>6. ASSUME Closed, ~PlanPanics PROVE pc' # "panic"
    BY <2>6 DEF Next, Plan, Commit, Check, Prove, VTrack, VClaim, Stop, vars, pvars, vvars, Goes
  <2> QED BY <2>2, <2>3, <2>4, <2>5, <2>6
<1>3. SortInv /\ Goes => SortedIsProvable
  <2> SUFFICES ASSUME SortInv, Goes
               PROVE  Asked => pc # "error" /\ (vpc = "done" => AllHold(vclaims))
    BY DEF SortedIsProvable, Asked, Goes
  <2> HAVE Asked
  <2>1. ASSUME vpc = "done" PROVE AllHold(vclaims)
    <3>1. tabs = Tables
          /\ vclaims = SortClaims(tabs, ShiftColumn(Size(tabs), 1), ShiftColumn(Size(tabs), 0))
      BY <2>1 DEF SortInv, ProverPart, VerifierPart, Tables
    <3> QED BY <3>1, AskedIsProved DEF SortInv
  <2> QED BY <2>1 DEF Goes
<1> HIDE DEF Goes
<1> QED BY <1>1, <1>2, <1>3, InvHolds, PTL DEF Spec
=============================================================================
