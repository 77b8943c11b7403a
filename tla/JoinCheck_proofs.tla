--------------------------- MODULE JoinCheck_proofs ---------------------------
(***************************************************************************)
(* Joins of tables of any length: what stops the prover, that the verifier *)
(* gets the prover's tables, that the output holds the rows of the join,   *)
(* whole or partial, and that every join the gadget can express is proved. *)
(***************************************************************************)
EXTENDS JoinCheck, SortHints_proofs

-----------------------------------------------------------------------------
(* The rows of the inputs, and the pairs they make.                        *)

RowCount(s) == Len(Rows(s))
RowType == [RowNames -> Int \cup {Null}]

LEMMA RowsAre ==
  ASSUME query \in Queries, NEW s \in Sides
  PROVE  /\ Rows(s) \in Seq(RowType) /\ RowCount(s) \in Nat /\ DOMAIN Rows(s) = 1..RowCount(s)
         /\ \A i \in 1..RowCount(s) : /\ Rows(s)[i] \in RowType /\ Rows(s)[i][Act] \in {0, 1}
                                   /\ Rows(s)[i][RowId] \in 0..(RowCount(s) - 1)
         /\ \A i, j \in 1..RowCount(s) : Rows(s)[i][RowId] = Rows(s)[j][RowId] => i = j
<1> DEFINE rows == query.rows[s]
           n == Len(rows)
           ids == [i \in 1..n |-> rows[i][RowId]]
<1>1. /\ rows \in Seq([-1..MaxCols -> Int \cup {Null}])
      /\ \A i \in DOMAIN rows : rows[i][Act] \in {0, 1}
      /\ {rows[i][RowId] : i \in DOMAIN rows} = 0..(Len(rows) - 1)
  BY QueryAssumption
<1>2. rows \in Seq(RowType) /\ n \in Nat /\ DOMAIN rows = 1..n
  BY <1>1 DEF RowType, RowNames
<1>3. DOMAIN ids = 1..n /\ ids = [i \in DOMAIN ids |-> ids[i]] /\ {ids[i] : i \in DOMAIN ids} = 0..(n - 1)
  <2>1. DOMAIN ids = 1..n /\ \A i \in 1..n : ids[i] = rows[i][RowId]
    OBVIOUS
  <2> HIDE DEF rows, n
  <2>2. ids = [i \in DOMAIN ids |-> ids[i]]
    OBVIOUS
  <2> HIDE DEF ids
  <2>3. {ids[i] : i \in DOMAIN ids} = {rows[i][RowId] : i \in DOMAIN rows}
    BY <1>2, <2>1
  <2> QED BY <1>1, <2>1, <2>2, <2>3 DEF n
<1>4. \A i \in 1..n : ids[i] = rows[i][RowId]
  OBVIOUS
<1> HIDE DEF ids, rows, n
<1>5. /\ \A i \in 1..n : ids[i] \in 0..(n - 1)
      /\ \A i, j \in 1..n : ids[i] = ids[j] => i = j
  BY <1>2, <1>3, DenseIds
<1>6. Rows(s) = rows /\ RowCount(s) = n
  BY DEF Rows, RowCount, rows, n
<1>7. \A i \in 1..n : rows[i] \in RowType /\ rows[i][Act] \in {0, 1}
  BY <1>1, <1>2
<1> QED BY <1>2, <1>4, <1>5, <1>6, <1>7

LEMMA SidesAre ==
  "left" \in Sides /\ "right" \in Sides /\ Other("left") = "right" /\ Other("right") = "left"
  /\ (\A s \in Sides : Other(s) \in Sides /\ (s = "left" \/ s = "right"))
BY DEF Sides, Other

\* p is an active row of the other side that a row of side s joins.
Partner(s, row, p) == p[Act] = 1 /\ IF s = "left" THEN Matches(row, p) ELSE Matches(p, row)
\* The partners of a row are the m rows at e[1], .., e[m].
PartnersAt(s, row, e, m) ==
  /\ m \in Nat /\ e \in [1..m -> 1..RowCount(Other(s))]
  /\ DOMAIN Partners(s, row) = 1..m /\ Len(Partners(s, row)) = m
  /\ \A k \in 1..m : Partners(s, row)[k] = Rows(Other(s))[e[k]]
  /\ \A j, k \in 1..m : e[j] = e[k] => j = k
  /\ \A i \in 1..RowCount(Other(s)) :
       Partner(s, row, Rows(Other(s))[i]) <=> \E k \in 1..m : e[k] = i

LEMMA PartnersAre ==
  ASSUME query \in Queries, NEW s \in Sides, NEW row
  PROVE  \E e, m : PartnersAt(s, row, e, m)
<1> DEFINE o == Other(s)
           list == Rows(o)
           n == RowCount(o)
           keep == {p \in ActiveRows(o) : IF s = "left" THEN Matches(row, p) ELSE Matches(p, row)}
<1>1. o \in Sides
  BY SidesAre
<1>2. n \in Nat /\ DOMAIN list = 1..n
  BY <1>1, RowsAre
<1>3. Partners(s, row) = Kept(list, keep)
  BY DEF Partners
<1>4. \A i \in 1..n : list[i] \in keep <=> Partner(s, row, list[i])
  BY <1>2 DEF ActiveRows, Range, Partner
<1> HIDE DEF list, n, keep, o
<1>5. PICK e, m : Keeps(list, n, keep, e, m)
  BY <1>2, KeptMembers
<1>6. /\ m \in Nat /\ e \in [1..m -> 1..n]
      /\ \A j, k \in 1..m : j < k => e[j] < e[k]
      /\ \A i \in 1..n : list[i] \in keep <=> \E k \in 1..m : e[k] = i
      /\ DOMAIN Kept(list, keep) = 1..m /\ Len(Kept(list, keep)) = m
      /\ \A k \in 1..m : Kept(list, keep)[k] = list[e[k]]
  BY <1>5 DEF Keeps
<1>7. \A j, k \in 1..m : e[j] = e[k] => j = k
  <2> TAKE j, k \in 1..m
  <2>1. j < k \/ k < j \/ j = k
    OBVIOUS
  <2>2. e[j] \in Nat /\ e[k] \in Nat
    BY <1>6
  <2> QED BY <1>6, <2>1, <2>2
<1>8. /\ DOMAIN Partners(s, row) = 1..m /\ Len(Partners(s, row)) = m
      /\ \A k \in 1..m : Partners(s, row)[k] = list[e[k]]
  BY <1>3, <1>6
<1>9. \A i \in 1..n : Partner(s, row, list[i]) <=> \E k \in 1..m : e[k] = i
  BY <1>4, <1>6
<1>10. PartnersAt(s, row, e, m)
  BY <1>6, <1>7, <1>8, <1>9 DEF PartnersAt, list, n, o
<1> QED BY <1>10

\* Rows i and j of the left and of the right table are active and match.
Pair(i, j) ==
  Rows("left")[i][Act] = 1 /\ Rows("right")[j][Act] = 1 /\ Matches(Rows("left")[i], Rows("right")[j])
RowPairs == RowType \X RowType
\* The n members of a list are the pairs that match, each once: member p is of
\* rows li[p] and ri[p].
IsJoin(list, n, li, ri) ==
  /\ n \in Nat /\ list \in Seq(RowPairs) /\ DOMAIN list = 1..n /\ Len(list) = n
  /\ li \in [1..n -> 1..RowCount("left")] /\ ri \in [1..n -> 1..RowCount("right")]
  /\ \A p \in 1..n : /\ list[p] = <<Rows("left")[li[p]], Rows("right")[ri[p]]>>
                     /\ Pair(li[p], ri[p])
  /\ \A p, q \in 1..n : li[p] = li[q] /\ ri[p] = ri[q] => p = q
  /\ \A i \in 1..RowCount("left"), j \in 1..RowCount("right") :
       Pair(i, j) => \E p \in 1..n : li[p] = i /\ ri[p] = j

\* Row j of the right table, or none.
RightRow(j) == IF j = 0 THEN NoRow ELSE Rows("right")[j]
\* The n members of a list are the pairs of a join, in an outer one among them the
\* rows of the left table that have no partner.
IsRun(list, n, li, ri) ==
  /\ n \in Nat /\ list \in Seq(RowPairs) /\ DOMAIN list = 1..n /\ Len(list) = n
  /\ li \in [1..n -> 1..RowCount("left")] /\ ri \in [1..n -> 0..RowCount("right")]
  /\ \A p \in 1..n : /\ list[p] = <<Rows("left")[li[p]], RightRow(ri[p])>>
                     /\ IF ri[p] = 0 THEN query.type = "Left" /\ Unmatched ELSE Pair(li[p], ri[p])
  /\ \A p, q \in 1..n : li[p] = li[q] /\ (ri[p] = ri[q] \/ ri[p] = 0) => p = q
  /\ \A i \in 1..RowCount("left"), j \in 1..RowCount("right") :
       Pair(i, j) => \E p \in 1..n : li[p] = i /\ ri[p] = j

\* What a row of the left table is joined with: its partners, or no row.
Joins(l) == IF query.type = "Left" THEN OrNone(Partners("left", l)) ELSE Partners("left", l)
JoinsAt(row, e, m) ==
  /\ m \in Nat /\ e \in [1..m -> 0..RowCount("right")] /\ DOMAIN Joins(row) = 1..m
  /\ \A k \in 1..m : /\ Joins(row)[k] = RightRow(e[k])
                     /\ e[k] = 0 => m = 1 /\ query.type = "Left" /\ Partners("left", row) = <<>>
  /\ \A j, k \in 1..m : e[j] = e[k] => j = k
  /\ \A i \in 1..RowCount("right") : Partner("left", row, Rows("right")[i]) <=> \E k \in 1..m : e[k] = i

LEMMA JoinsAre ==
  ASSUME query \in Queries, NEW row
  PROVE  \E e, m : JoinsAt(row, e, m)
<1> DEFINE nr == RowCount("right")
<1>1. nr \in Nat
  BY SidesAre, RowsAre
<1>2. PICK e, m : PartnersAt("left", row, e, m)
  BY SidesAre, PartnersAre
<1>3. /\ m \in Nat /\ e \in [1..m -> 1..nr] /\ DOMAIN Partners("left", row) = 1..m
      /\ \A k \in 1..m : Partners("left", row)[k] = Rows("right")[e[k]]
      /\ \A j, k \in 1..m : e[j] = e[k] => j = k
      /\ \A i \in 1..nr : Partner("left", row, Rows("right")[i]) <=> \E k \in 1..m : e[k] = i
  BY <1>2, SidesAre DEF PartnersAt
<1> HIDE DEF nr
<1>4. CASE query.type = "Left" /\ Partners("left", row) = <<>>
  <2> DEFINE z == [k \in 1..1 |-> 0]
  <2>1. m = 0
    BY <1>3, <1>4
  <2>2. Joins(row) = <<NoRow>>
    BY <1>4 DEF Joins, OrNone
  <2>3. z \in [1..1 -> 0..nr] /\ \A k \in 1..1 : z[k] = 0 /\ k = 1
    BY <1>1
  <2> HIDE DEF z
  <2>4. \A i \in 1..nr : ~Partner("left", row, Rows("right")[i])
    BY <1>3, <2>1
  <2>5. \A i \in 1..nr : i # 0
    OBVIOUS
  <2>6. DOMAIN Joins(row) = 1..1 /\ \A k \in 1..1 : Joins(row)[k] = RightRow(z[k])
    BY <2>2, <2>3 DEF RightRow
  <2>7. JoinsAt(row, z, 1)
    BY <1>4, <2>3, <2>4, <2>5, <2>6 DEF JoinsAt, nr
  <2> QED BY <2>7
<1>5. CASE ~(query.type = "Left" /\ Partners("left", row) = <<>>)
  <2>1. Joins(row) = Partners("left", row)
    BY <1>5 DEF Joins, OrNone
  <2>2. \A k \in 1..m : e[k] \in 0..nr /\ e[k] # 0
    BY <1>1, <1>3
  <2>3. e \in [1..m -> 0..nr]
    BY <1>3, <2>2
  <2>4. JoinsAt(row, e, m)
    BY <1>3, <2>1, <2>2, <2>3 DEF JoinsAt, RightRow, nr
  <2> QED BY <2>4
<1> QED BY <1>4, <1>5

LEMMA RunIs ==
  ASSUME query \in Queries
  PROVE  \E n, li, ri : IsRun(JoinedPairs, n, li, ri)
<1> DEFINE left == Rows("left")
           right == Rows("right")
           nl == RowCount("left")
           nr == RowCount("right")
           active == Kept(left, ActiveRows("left"))
           list(l) == [j \in DOMAIN Joins(l) |-> <<l, Joins(l)[j]>>]
           lists == [i \in DOMAIN active |-> list(active[i])]
<1>1. /\ nl \in Nat /\ nr \in Nat /\ DOMAIN left = 1..nl /\ DOMAIN right = 1..nr
      /\ (\A i \in 1..nl : left[i] \in RowType) /\ \A j \in 1..nr : right[j] \in RowType
  BY SidesAre, RowsAre
<1>2. PICK ea, a : Keeps(left, nl, ActiveRows("left"), ea, a)
  BY <1>1, KeptMembers
<1>3. \A i \in 1..nl : left[i] \in ActiveRows("left") <=> left[i][Act] = 1
  BY <1>1 DEF ActiveRows, Range
<1>4. /\ a \in Nat /\ ea \in [1..a -> 1..nl]
      /\ \A j, k \in 1..a : j < k => ea[j] < ea[k]
      /\ \A i \in 1..nl : left[i][Act] = 1 <=> \E k \in 1..a : ea[k] = i
      /\ DOMAIN active = 1..a /\ Len(active) = a
      /\ \A k \in 1..a : active[k] = left[ea[k]]
  BY <1>2, <1>3 DEF Keeps
<1>5. \A j, k \in 1..a : ea[j] = ea[k] => j = k
  <2> TAKE j, k \in 1..a
  <2>1. j < k \/ k < j \/ j = k
    BY <1>4
  <2>2. ea[j] \in Nat /\ ea[k] \in Nat
    BY <1>4
  <2> QED BY <1>4, <2>1, <2>2
<1>6. \A k \in 1..a : active[k] \in ActiveRows("left")
  BY <1>3, <1>4
<1> DEFINE es == [k \in 1..a |-> CHOOSE e : \E m : JoinsAt(active[k], e, m)]
           ms == [k \in 1..a |-> CHOOSE m : JoinsAt(active[k], es[k], m)]
<1>8. \A k \in 1..a : JoinsAt(active[k], es[k], ms[k])
  BY JoinsAre
<1> HIDE DEF es, ms
<1>9. ASSUME NEW k \in 1..a
      PROVE  /\ ms[k] \in Nat /\ es[k] \in [1..ms[k] -> 0..nr]
             /\ DOMAIN list(active[k]) = 1..ms[k]
             /\ \A j \in 1..ms[k] : list(active[k])[j] = <<active[k], RightRow(es[k][j])>>
             /\ \A j \in 1..ms[k] : es[k][j] = 0 => ms[k] = 1 /\ query.type = "Left" /\ Unmatched
             /\ \A i, j \in 1..ms[k] : es[k][i] = es[k][j] => i = j
             /\ \A i \in 1..nr : Partner("left", active[k], right[i]) <=> \E j \in 1..ms[k] : es[k][j] = i
  <2> DEFINE e == es[k]
             m == ms[k]
             row == active[k]
  <2>1. JoinsAt(row, e, m)
    BY <1>8
  <2>2. row \in ActiveRows("left")
    BY <1>6
  <2> HIDE DEF e, m, row
  <2>3. /\ m \in Nat /\ e \in [1..m -> 0..nr]
        /\ DOMAIN Joins(row) = 1..m
        /\ \A j \in 1..m : Joins(row)[j] = RightRow(e[j])
        /\ \A i, j \in 1..m : e[i] = e[j] => i = j
        /\ \A i \in 1..nr : Partner("left", row, right[i]) <=> \E j \in 1..m : e[j] = i
        /\ \A j \in 1..m : e[j] = 0 => m = 1 /\ query.type = "Left" /\ Partners("left", row) = <<>>
    BY <2>1 DEF JoinsAt
  <2>4. DOMAIN list(row) = 1..m /\ \A j \in 1..m : list(row)[j] = <<row, RightRow(e[j])>>
    BY <2>3
  <2>5. \A j \in 1..m : e[j] = 0 => m = 1 /\ query.type = "Left" /\ Unmatched
    BY <2>2, <2>3 DEF Unmatched
  <2> QED BY <2>3, <2>4, <2>5 DEF e, m, row
<1> HIDE DEF list
<1>10. JoinedPairs = FlattenSeq(lists)
  BY DEF JoinedPairs, list, Joins
<1>11. \A k \in 1..a : lists[k] = list(active[k])
  BY <1>4
<1>12. lists \in Seq(Seq(RowPairs)) /\ Len(lists) = a
  <2>1. ASSUME NEW k \in 1..a PROVE list(active[k]) \in Seq(RowPairs)
    <3> DEFINE l == list(active[k])
               m == ms[k]
    <3>1. m \in Nat /\ DOMAIN l = 1..m
      BY <1>9
    <3>2. \A j \in 1..m : l[j] \in RowPairs
      <4> TAKE j \in 1..m
      <4>1. l[j] = <<active[k], RightRow(es[k][j])>> /\ es[k][j] \in 0..nr
        BY <1>9
      <4>2. active[k] = left[ea[k]] /\ ea[k] \in 1..nl
        BY <1>4
      <4>3. active[k] \in RowType /\ RightRow(es[k][j]) \in RowType
        <5>1. NoRow \in RowType
          BY DEF NoRow, RowType, RowNames
        <5> QED BY <1>1, <4>1, <4>2, <5>1 DEF RightRow
      <4>4. <<active[k], RightRow(es[k][j])>> \in RowPairs
        BY <4>3 DEF RowPairs
      <4> QED BY <4>1, <4>4
    <3>3. l = [j \in 1..m |-> l[j]]
      BY <3>1 DEF list
    <3> HIDE DEF l, m
    <3>4. l \in [1..m -> RowPairs]
      BY <3>2, <3>3
    <3>5. l \in Seq(RowPairs)
      BY <3>1, <3>4, ListOf
    <3> QED BY <3>5 DEF l
  <2>2. lists = [i \in 1..a |-> list(active[i])]
    BY <1>4
  <2> HIDE DEF lists, active
  <2>3. lists \in [1..a -> Seq(RowPairs)]
    BY <2>1, <2>2
  <2> QED BY <1>4, <2>3, ListOf
<1> HIDE DEF lists
<1>13. PICK at : Flat(FlattenSeq(lists), RowPairs, lists, a, at)
  BY <1>4, <1>12, Flattened
<1> DEFINE all == JoinedPairs
           n == at[a]
<1>14. /\ Starts(lists, a, at) /\ all \in Seq(RowPairs) /\ Len(all) = n
       /\ \A k \in 1..a : \A j \in 1..Len(lists[k]) : all[at[k - 1] + j] = lists[k][j]
  BY <1>10, <1>13 DEF Flat
<1>15. n \in Nat
  BY <1>14 DEF Starts
<1>16. \A k \in 1..a : Len(lists[k]) = ms[k]
  BY <1>9, <1>11
<1>17. /\ \A k \in 1..a : \A j \in 1..ms[k] : at[k - 1] + j \in 1..n
       /\ \A p \in 1..n : \E k \in 1..a : \E j \in 1..ms[k] : p = at[k - 1] + j
       /\ \A k, l \in 1..a : \A j \in 1..ms[k], i \in 1..ms[l] :
            at[k - 1] + j = at[l - 1] + i => k = l /\ j = i
  <2>1. /\ \A k \in 1..a : \A j \in 1..Len(lists[k]) : at[k - 1] + j \in 1..n
        /\ \A p \in 1..n : \E k \in 1..a : \E j \in 1..Len(lists[k]) : p = at[k - 1] + j
        /\ \A k, l \in 1..a : \A j \in 1..Len(lists[k]), i \in 1..Len(lists[l]) :
             at[k - 1] + j = at[l - 1] + i => k = l /\ j = i
    BY <1>14, PlaceOf
  <2> HIDE DEF n
  <2>2. \A k \in 1..a : \A j \in 1..ms[k] : at[k - 1] + j \in 1..n
    BY <1>16, <2>1
  <2>3. \A p \in 1..n : \E k \in 1..a : \E j \in 1..ms[k] : p = at[k - 1] + j
    BY <1>16, <2>1
  <2>4. \A k, l \in 1..a : \A j \in 1..ms[k], i \in 1..ms[l] :
          at[k - 1] + j = at[l - 1] + i => k = l /\ j = i
    <3> TAKE k, l \in 1..a
    <3>1. Len(lists[k]) = ms[k] /\ Len(lists[l]) = ms[l]
      BY <1>16
    <3>2. \A j \in 1..Len(lists[k]), i \in 1..Len(lists[l]) :
            at[k - 1] + j = at[l - 1] + i => k = l /\ j = i
      BY <2>1
    <3> QED BY <3>1, <3>2, Zenon
  <2> QED BY <2>2, <2>3, <2>4
<1> DEFINE K(p) == CHOOSE k \in 1..a : \E j \in 1..ms[k] : p = at[k - 1] + j
           J(p) == CHOOSE j \in 1..ms[K(p)] : p = at[K(p) - 1] + j
           li == [p \in 1..n |-> ea[K(p)]]
           ri == [p \in 1..n |-> es[K(p)][J(p)]]
<1>18. \A p \in 1..n : K(p) \in 1..a /\ J(p) \in 1..ms[K(p)] /\ p = at[K(p) - 1] + J(p)
  BY <1>17
<1> HIDE DEF K, J, all, n
<1>19. ASSUME NEW p \in 1..n
       PROVE  /\ li[p] = ea[K(p)] /\ ri[p] = es[K(p)][J(p)]
              /\ li[p] \in 1..nl /\ ri[p] \in 0..nr /\ all[p] = <<left[li[p]], RightRow(ri[p])>>
              /\ IF ri[p] = 0 THEN query.type = "Left" /\ Unmatched ELSE Pair(li[p], ri[p])
  <2> DEFINE k == K(p)
             j == J(p)
  <2>1. k \in 1..a /\ j \in 1..ms[k] /\ p = at[k - 1] + j
    BY <1>18
  <2>2. li[p] = ea[k] /\ ri[p] = es[k][j]
    OBVIOUS
  <2> HIDE DEF k, j, li, ri
  <2>3. all[p] = lists[k][j]
    BY <1>14, <1>16, <2>1
  <2>4. lists[k][j] = <<active[k], RightRow(es[k][j])>> /\ es[k][j] \in 0..nr
    <3>1. lists[k][j] = <<active[k], RightRow(es[k][j])>>
      BY <1>9, <1>11, <2>1
    <3>2. es[k][j] \in 0..nr
      BY <1>9, <2>1
    <3> QED BY <3>1, <3>2
  <2>5. active[k] = left[ea[k]] /\ ea[k] \in 1..nl /\ left[ea[k]][Act] = 1
    BY <1>4, <2>1
  <2>6. es[k][j] # 0 => Partner("left", active[k], right[es[k][j]])
    <3>1. es[k][j] # 0 => es[k][j] \in 1..nr
      BY <1>1, <2>4
    <3> QED BY <1>9, <2>1, <3>1
  <2>7. IF ri[p] = 0 THEN query.type = "Left" /\ Unmatched ELSE Pair(li[p], ri[p])
    <3>1. CASE ri[p] = 0
      BY <1>9, <2>1, <2>2, <3>1
    <3>2. CASE ri[p] # 0
      BY <2>2, <2>5, <2>6, <3>2 DEF Pair, Partner
    <3> QED BY <3>1, <3>2
  <2> QED BY <2>2, <2>3, <2>4, <2>5, <2>7 DEF k, j
<1>20. \A p, q \in 1..n : li[p] = li[q] /\ (ri[p] = ri[q] \/ ri[p] = 0) => p = q
  <2> SUFFICES ASSUME NEW p \in 1..n, NEW q \in 1..n, li[p] = li[q], ri[p] = ri[q] \/ ri[p] = 0
               PROVE  p = q
    OBVIOUS
  <2>1. ea[K(p)] = ea[K(q)]
        /\ (es[K(p)][J(p)] = es[K(q)][J(q)] \/ es[K(p)][J(p)] = 0)
    BY <1>19
  <2>2. K(p) = K(q)
    BY <1>5, <1>18, <2>1
  <2>3. J(p) = J(q)
    <3>1. CASE es[K(p)][J(p)] = es[K(q)][J(q)]
      BY <1>9, <1>18, <2>2, <3>1
    <3>2. CASE es[K(p)][J(p)] = 0
      <4>1. ms[K(p)] = 1 /\ J(p) \in 1..ms[K(p)] /\ J(q) \in 1..ms[K(p)]
        BY <1>9, <1>18, <2>2, <3>2
      <4> QED BY <4>1
    <3> QED BY <2>1, <3>1, <3>2
  <2> QED BY <1>18, <2>2, <2>3
<1>21. ASSUME NEW i \in 1..nl, NEW j \in 1..nr, Pair(i, j)
       PROVE  \E p \in 1..n : li[p] = i /\ ri[p] = j
  <2>1. PICK k \in 1..a : ea[k] = i
    BY <1>4, <1>21 DEF Pair
  <2>2. Partner("left", active[k], right[j])
    BY <1>4, <1>21, <2>1 DEF Pair, Partner
  <2>3. PICK m \in 1..ms[k] : es[k][m] = j
    BY <1>9, <2>2
  <2> DEFINE p == at[k - 1] + m
  <2>4. p \in 1..n /\ p = at[k - 1] + m
    BY <1>17
  <2> HIDE DEF p
  <2>5. K(p) = k /\ J(p) = m
    <3>1. K(p) \in 1..a /\ J(p) \in 1..ms[K(p)] /\ at[K(p) - 1] + J(p) = at[k - 1] + m
      BY <1>18, <2>4
    <3> QED BY <1>17, <3>1
  <2>6. li[p] = i /\ ri[p] = j
    BY <1>19, <2>1, <2>3, <2>4, <2>5
  <2> QED BY <2>4, <2>6
<1>22. li \in [1..n -> 1..nl] /\ ri \in [1..n -> 0..nr]
  BY <1>19
<1>23. all \in Seq(RowPairs) /\ DOMAIN all = 1..n /\ Len(all) = n /\ n \in Nat
  BY <1>14, <1>15, LenProperties DEF n
<1> HIDE DEF li, ri
<1>24. IsRun(all, n, li, ri)
  BY <1>19, <1>20, <1>21, <1>22, <1>23 DEF IsRun
<1> QED BY <1>24 DEF all

\* Without such rows it is the pairs that match.
LEMMA RunIsJoin ==
  ASSUME ~(query.type = "Left" /\ Unmatched), NEW list, NEW n, NEW li, NEW ri, IsRun(list, n, li, ri)
  PROVE  IsJoin(list, n, li, ri)
<1> DEFINE nr == RowCount("right")
<1>1. /\ ri \in [1..n -> 0..nr] /\ n \in Nat
      /\ \A p \in 1..n : ri[p] # 0
  BY DEF IsRun
<1> HIDE DEF nr
<1>2. \A p \in 1..n : ri[p] \in 1..nr
  <2> TAKE p \in 1..n
  <2>1. ri[p] \in 0..nr /\ ri[p] # 0
    BY <1>1
  <2> QED BY <2>1
<1>3. ri \in [1..n -> 1..nr]
  BY <1>1, <1>2
<1>4. \A p \in 1..n : RightRow(ri[p]) = Rows("right")[ri[p]]
  BY <1>1 DEF RightRow
<1> HIDE DEF nr
<1>5. /\ n \in Nat /\ list \in Seq(RowPairs) /\ DOMAIN list = 1..n /\ Len(list) = n
      /\ li \in [1..n -> 1..RowCount("left")]
      /\ \A p \in 1..n : list[p] = <<Rows("left")[li[p]], RightRow(ri[p])>>
      /\ \A p \in 1..n : ri[p] # 0 => Pair(li[p], ri[p])
      /\ \A p, q \in 1..n : li[p] = li[q] /\ ri[p] = ri[q] => p = q
  BY DEF IsRun
<1>6. \A i \in 1..RowCount("left"), j \in 1..RowCount("right") :
        Pair(i, j) => \E p \in 1..n : li[p] = i /\ ri[p] = j
  BY DEF IsRun
<1>7. \A p \in 1..n : list[p] = <<Rows("left")[li[p]], Rows("right")[ri[p]]>> /\ Pair(li[p], ri[p])
  BY <1>1, <1>4, <1>5
<1> QED BY <1>3, <1>5, <1>6, <1>7 DEF IsJoin, nr

LEMMA PairsAre ==
  ASSUME query \in Queries, ~(query.type = "Left" /\ Unmatched)
  PROVE  \E n, li, ri : IsJoin(JoinedPairs, n, li, ri)
BY RunIs, RunIsJoin

\* The pairs in another order are the same join.
Moves(f, n) ==
  /\ f \in [1..n -> 1..n] /\ \A m \in 1..n : \E i \in 1..n : f[i] = m
  /\ \A i, j \in 1..n : f[i] = f[j] => i = j
Moved(list, f, n) == [i \in 1..n |-> list[f[i]]]

LEMMA JoinMoved ==
  ASSUME NEW list, NEW n, NEW li, NEW ri, IsJoin(list, n, li, ri), NEW f, Moves(f, n)
  PROVE  \E lj, rj : IsJoin(Moved(list, f, n), n, lj, rj)
<1> DEFINE nl == RowCount("left")
           nr == RowCount("right")
           lj == [i \in 1..n |-> li[f[i]]]
           rj == [i \in 1..n |-> ri[f[i]]]
           new == Moved(list, f, n)
<1>0. /\ f \in [1..n -> 1..n] /\ \A m \in 1..n : \E i \in 1..n : f[i] = m
      /\ \A i, j \in 1..n : f[i] = f[j] => i = j
      /\ new = [i \in 1..n |-> list[f[i]]]
  BY DEF Moves, Moved
<1> HIDE DEF new
<1>1. /\ n \in Nat /\ list \in Seq(RowPairs) /\ DOMAIN list = 1..n /\ Len(list) = n
      /\ li \in [1..n -> 1..nl] /\ ri \in [1..n -> 1..nr]
      /\ \A p \in 1..n : /\ list[p] = <<Rows("left")[li[p]], Rows("right")[ri[p]]>>
                         /\ Pair(li[p], ri[p])
      /\ \A p, q \in 1..n : li[p] = li[q] /\ ri[p] = ri[q] => p = q
      /\ \A i \in 1..nl, j \in 1..nr : Pair(i, j) => \E p \in 1..n : li[p] = i /\ ri[p] = j
  BY DEF IsJoin
<1> HIDE DEF nl, nr
<1>2. \A p \in 1..n : list[p] \in RowPairs
  BY <1>1
<1>3. new \in Seq(RowPairs) /\ DOMAIN new = 1..n /\ Len(new) = n
  <2>1. new \in [1..n -> RowPairs]
    BY <1>0, <1>2
  <2> QED BY <1>1, <2>1, ListOf
<1>4. \A p \in 1..n : /\ new[p] = <<Rows("left")[lj[p]], Rows("right")[rj[p]]>>
                      /\ Pair(lj[p], rj[p]) /\ lj[p] \in 1..nl /\ rj[p] \in 1..nr
  BY <1>0, <1>1
<1>5. \A p, q \in 1..n : lj[p] = lj[q] /\ rj[p] = rj[q] => p = q
  <2> TAKE p, q \in 1..n
  <2> HAVE lj[p] = lj[q] /\ rj[p] = rj[q]
  <2>1. f[p] \in 1..n /\ f[q] \in 1..n
    BY <1>0
  <2>2. li[f[p]] = li[f[q]] /\ ri[f[p]] = ri[f[q]]
    OBVIOUS
  <2>3. f[p] = f[q]
    BY <1>1, <2>1, <2>2
  <2> QED BY <1>0, <2>3
<1>6. ASSUME NEW i \in 1..nl, NEW j \in 1..nr, Pair(i, j)
      PROVE  \E p \in 1..n : lj[p] = i /\ rj[p] = j
  <2>1. PICK q \in 1..n : li[q] = i /\ ri[q] = j
    BY <1>1, <1>6
  <2>2. PICK p \in 1..n : f[p] = q
    BY <1>0
  <2> QED BY <2>1, <2>2
<1>7. lj \in [1..n -> 1..nl] /\ rj \in [1..n -> 1..nr]
  BY <1>4
<1> HIDE DEF lj, rj
<1>8. IsJoin(new, n, lj, rj)
  BY <1>1, <1>3, <1>4, <1>5, <1>6, <1>7 DEF IsJoin, nl, nr
<1> QED BY <1>8 DEF new

\* Sorting by the ids of the rows leaves no choice, and is another order.
\* The pairs are in the order of their ids.
Rises(list, n) == \A i, j \in 1..n : i < j => IdsBefore(list[i], list[j])

LEMMA OrderedMoves ==
  ASSUME query \in Queries, NEW list, NEW n, NEW li, NEW ri, IsRun(list, n, li, ri)
  PROVE  \E f : Moves(f, n) /\ Ordered(list) = Moved(list, f, n) /\ Rises(Ordered(list), n)
<1> DEFINE nl == RowCount("left")
           nr == RowCount("right")
           l == [p \in 1..n |-> list[p][1][RowId]]
           r == [p \in 1..n |-> list[p][2][RowId]]
           lt == [i \in 1..n |-> [j \in 1..n |-> i # j /\ IdsBefore(list[i], list[j])]]
<1>1. /\ n \in Nat /\ DOMAIN list = 1..n
      /\ li \in [1..n -> 1..nl] /\ ri \in [1..n -> 0..nr]
      /\ \A p \in 1..n : list[p] = <<Rows("left")[li[p]], RightRow(ri[p])>>
      /\ \A p, q \in 1..n : li[p] = li[q] /\ (ri[p] = ri[q] \/ ri[p] = 0) => p = q
  BY DEF IsRun
<1>2. /\ \A i \in 1..nl : Rows("left")[i][RowId] \in Int
      /\ \A i \in 1..nr : Rows("right")[i][RowId] \in Int
      /\ \A i, j \in 1..nl : Rows("left")[i][RowId] = Rows("left")[j][RowId] => i = j
      /\ \A i, j \in 1..nr : Rows("right")[i][RowId] = Rows("right")[j][RowId] => i = j
  BY SidesAre, RowsAre
<1>3. /\ \A p \in 1..n : l[p] \in Int
      /\ \A p, q \in 1..n : p # q /\ l[p] = l[q] => r[p] \in Int /\ r[q] \in Int /\ r[p] # r[q]
  <2>1. \A p \in 1..n : /\ l[p] = Rows("left")[li[p]][RowId] /\ li[p] \in 1..nl
                        /\ ri[p] # 0 => r[p] = Rows("right")[ri[p]][RowId] /\ ri[p] \in 1..nr
    <3> TAKE p \in 1..n
    <3>1. l[p] = Rows("left")[li[p]][RowId] /\ li[p] \in 1..nl
      BY <1>1
    <3>2. ASSUME ri[p] # 0 PROVE r[p] = Rows("right")[ri[p]][RowId]
      BY <1>1, <3>2 DEF RightRow
    <3>3. nr \in Nat /\ ri[p] \in 0..nr
      BY <1>1, SidesAre, RowsAre
    <3> HIDE DEF nr, l, r, nl
    <3>4. ri[p] # 0 => ri[p] \in 1..nr
      BY <3>3
    <3> QED BY <3>1, <3>2, <3>4
  <2> HIDE DEF l, r, nl, nr
  <2>2. \A p \in 1..n : l[p] \in Int
    BY <1>2, <2>1
  <2>3. ASSUME NEW p \in 1..n, NEW q \in 1..n, p # q, l[p] = l[q]
        PROVE  r[p] \in Int /\ r[q] \in Int /\ r[p] # r[q]
    <3>1. li[p] = li[q]
      BY <1>2, <2>1, <2>3
    <3>2. ri[p] # 0 /\ ri[q] # 0 /\ ri[p] # ri[q]
      BY <1>1, <2>3, <3>1
    <3> QED BY <1>2, <2>1, <3>2
  <2> QED BY <2>2, <2>3
<1>4. \A i, j \in 1..n : lt[i][j] <=> i # j /\ (l[i] < l[j] \/ (l[i] = l[j] /\ r[i] < r[j]))
  BY DEF IdsBefore
<1>5. lt \in [1..n -> [1..n -> BOOLEAN]] /\ \A i, j \in 1..n : lt[i][j] <=> i # j /\ IdsBefore(list[i], list[j])
  BY DEF IdsBefore
<1> HIDE DEF l, r, lt
<1>6. IsOrder(lt, n)
  <2>1. \A i \in 1..n : ~lt[i][i]
    BY <1>4
  <2>2. \A i, j \in 1..n : i # j => lt[i][j] \/ lt[j][i]
    BY <1>3, <1>4
  <2>3. \A i, j, k \in 1..n : lt[i][j] /\ lt[j][k] => lt[i][k]
    <3> SUFFICES ASSUME NEW i \in 1..n, NEW j \in 1..n, NEW k \in 1..n, lt[i][j], lt[j][k] PROVE lt[i][k]
      OBVIOUS
    <3>1. i # j /\ (l[i] < l[j] \/ (l[i] = l[j] /\ r[i] < r[j]))
          /\ j # k /\ (l[j] < l[k] \/ (l[j] = l[k] /\ r[j] < r[k]))
      BY <1>4
    <3>2. l[i] \in Int /\ l[j] \in Int /\ l[k] \in Int
      BY <1>3
    <3>3. CASE l[i] = l[j] /\ l[j] = l[k]
      <4>1. r[i] < r[j] /\ r[j] < r[k] /\ r[i] \in Int /\ r[j] \in Int /\ r[k] \in Int
        BY <1>3, <3>1, <3>2, <3>3
      <4>2. r[i] < r[k] /\ r[i] # r[k]
        BY <4>1
      <4> QED BY <1>4, <3>3, <4>2
    <3>4. CASE l[i] # l[j] \/ l[j] # l[k]
      <4>1. l[i] < l[k] /\ i # k
        BY <3>1, <3>2, <3>4
      <4> QED BY <1>4, <4>1
    <3> QED BY <3>3, <3>4
  <2> QED BY <1>5, <2>1, <2>2, <2>3 DEF IsOrder
<1>7. /\ \A i, j \in 1..n : i # j => lt[i][j] \/ lt[j][i]
      /\ \A i, j \in 1..n : ~(lt[i][j] /\ lt[j][i]) /\ ~lt[i][i]
  BY <1>6 DEF IsOrder
<1> DEFINE c(m) == Cardinality({k \in DOMAIN list \ {m} :
                     IdsBefore(list[k], list[m]) \/ (k < m /\ ~IdsBefore(list[m], list[k]))})
<1>8. \A m \in 1..n : c(m) = Cardinality(Below(lt, n, m))
  <2> TAKE m \in 1..n
  <2>1. {k \in DOMAIN list \ {m} : IdsBefore(list[k], list[m]) \/ (k < m /\ ~IdsBefore(list[m], list[k]))}
        = Below(lt, n, m)
    <3>1. \A k \in 1..n : k # m => ((lt[k][m] \/ (k < m /\ ~lt[m][k])) <=> lt[k][m])
      BY <1>7
    <3>2. \A k \in 1..n : k \in Below(lt, n, m) <=> lt[k][m] /\ k # m
      BY <1>7 DEF Below
    <3>3. Below(lt, n, m) \in SUBSET (1..n)
      BY DEF Below
    <3> QED BY <1>1, <1>5, <3>1, <3>2, <3>3
  <2> QED BY <2>1
<1> DEFINE f == [i \in 1..n |-> Ranked(lt, n, i)]
<1>9. /\ \A i \in 1..n : f[i] \in 1..n /\ Place(lt, n, f[i]) = i
      /\ \A m \in 1..n : Place(lt, n, m) \in 1..n /\ f[Place(lt, n, m)] = m
      /\ \A i, j \in 1..n : i < j <=> lt[f[i]][f[j]]
  <2> HIDE DEF lt
  <2>1. /\ \A i \in 1..n : Ranked(lt, n, i) \in 1..n /\ Place(lt, n, Ranked(lt, n, i)) = i
        /\ \A m \in 1..n : Place(lt, n, m) \in 1..n /\ Ranked(lt, n, Place(lt, n, m)) = m
        /\ \A i, j \in 1..n : i < j <=> lt[Ranked(lt, n, i)][Ranked(lt, n, j)]
    <3>1. n \in Nat
      BY <1>1
    <3>2. IsOrder(lt, n)
      BY <1>6
    <3> QED BY <3>1, <3>2, RankedOrder, Zenon
  <2>2. \A i \in 1..n : f[i] = Ranked(lt, n, i)
    OBVIOUS
  <2> HIDE DEF f
  <2> QED BY <2>1, <2>2
<1>10. \A i \in 1..n : (CHOOSE m \in 1..n : c(m) = i - 1) = f[i]
  <2> HIDE DEF c
  <2> QED BY <1>8 DEF Ranked
<1>11. Ordered(list) = [i \in 1..n |-> list[f[i]]]
  <2>1. Ordered(list) = [i \in 1..n |-> list[CHOOSE m \in 1..n : c(m) = i - 1]]
    BY <1>1 DEF Ordered
  <2> HIDE DEF c, f
  <2> QED BY <1>10, <2>1
<1> HIDE DEF f
<1>12. /\ \A m \in 1..n : \E i \in 1..n : f[i] = m
       /\ \A i, j \in 1..n : f[i] = f[j] => i = j
  BY <1>9
<1>13. f \in [1..n -> 1..n]
  BY <1>9 DEF f
<1>14. Moves(f, n) /\ Ordered(list) = Moved(list, f, n)
  BY <1>11, <1>12, <1>13 DEF Moves, Moved
<1>15. Rises(Ordered(list), n)
  BY <1>5, <1>9, <1>11 DEF Rises
<1> QED BY <1>14, <1>15

LEMMA OrderedJoin ==
  ASSUME query \in Queries, NEW list, NEW n, NEW li, NEW ri, IsJoin(list, n, li, ri)
  PROVE  \E lj, rj : IsJoin(Ordered(list), n, lj, rj) /\ Rises(Ordered(list), n)
<1>1. IsRun(list, n, li, ri)
  <2> DEFINE nr == RowCount("right")
  <2>1. ri \in [1..n -> 1..nr] /\ nr \in Nat
    BY SidesAre, RowsAre DEF IsJoin
  <2> HIDE DEF nr
  <2>2. \A p \in 1..n : ri[p] # 0 /\ ri[p] \in 0..nr
    <3> TAKE p \in 1..n
    <3>1. ri[p] \in 1..nr
      BY <2>1
    <3> QED BY <2>1, <3>1
  <2>3. ri \in [1..n -> 0..nr]
    BY <2>1, <2>2
  <2> QED BY <2>2, <2>3 DEF IsJoin, IsRun, RightRow, nr
<1>2. PICK f : Moves(f, n) /\ Ordered(list) = Moved(list, f, n) /\ Rises(Ordered(list), n)
  BY <1>1, OrderedMoves
<1>3. \E lj, rj : IsJoin(Moved(list, f, n), n, lj, rj)
  BY <1>2, JoinMoved
<1> QED BY <1>2, <1>3

\* Both executions of the join find the same pairs.
LEMMA RunsJoin ==
  ASSUME query \in Queries, ~(query.type = "Left" /\ Unmatched), NEW run
  PROVE  \E n, li, ri : IsJoin(JoinRun(run), n, li, ri) /\ Rises(JoinRun(run), n)
<1>1. PICK n, li, ri : IsJoin(JoinedPairs, n, li, ri)
  BY PairsAre
<1>2. \E lj, rj : IsJoin(Arrived(run), n, lj, rj)
  <2>1. CASE Arrived(run) = JoinedPairs
    BY <1>1, <2>1
  <2>2. CASE Arrived(run) = Reverse(JoinedPairs)
    <3> DEFINE list == JoinedPairs
               f == [i \in 1..n |-> (n - i) + 1]
    <3>1. n \in Nat /\ Len(list) = n
      BY <1>1 DEF IsJoin
    <3>2. f \in [1..n -> 1..n] /\ (\A i, j \in 1..n : f[i] = f[j] => i = j)
          /\ \A m \in 1..n : \E i \in 1..n : f[i] = m
      <4>1. \A m \in 1..n : (n - m) + 1 \in 1..n /\ (n - ((n - m) + 1)) + 1 = m
        BY <3>1
      <4>2. \A m \in 1..n : f[m] \in 1..n /\ f[f[m]] = m
        BY <4>1
      <4>3. \A i, j \in 1..n : f[i] = f[j] => i = j
        BY <4>2
      <4> QED BY <4>1, <4>2, <4>3
    <3>3. Reverse(list) = [i \in 1..n |-> list[f[i]]]
      BY <3>1 DEF Reverse
    <3> HIDE DEF f, list
    <3>4. IsJoin(list, n, li, ri)
      BY <1>1 DEF list
    <3>5. Moves(f, n) /\ Reverse(list) = Moved(list, f, n)
      BY <3>2, <3>3 DEF Moves, Moved
    <3>6. \E lj, rj : IsJoin(Moved(list, f, n), n, lj, rj)
      BY <3>4, <3>5, JoinMoved
    <3> QED BY <2>2, <3>5, <3>6 DEF list
  <2> QED BY <2>1, <2>2 DEF Arrived
<1>3. PICK lj, rj : IsJoin(Arrived(run), n, lj, rj)
  BY <1>2
<1> QED BY <1>3, OrderedJoin DEF JoinRun

-----------------------------------------------------------------------------
(* The query does not change, nor the mode once it is decided, and neither *)
(* does what is computed from them.                                        *)

LEMMA SameRows ==
  ASSUME query' = query
  PROVE  /\ \A s : Rows(s)' = Rows(s) /\ ActiveRows(s)' = ActiveRows(s)
         /\ KeyCount' = KeyCount /\ \A s : KeyCols(s)' = KeyCols(s)
         /\ \A s, r : Key(s, r)' = Key(s, r)
         /\ \A s, r : Partners(s, r)' = Partners(s, r)
<1>1. \A s : Rows(s)' = Rows(s)
  BY DEF Rows
<1>2. \A s : ActiveRows(s)' = ActiveRows(s)
  BY <1>1 DEF ActiveRows
<1>3. KeyCount' = KeyCount /\ \A s : KeyCols(s)' = KeyCols(s)
  BY DEF KeyCount, KeyCols
<1>4. \A s, r : Key(s, r)' = Key(s, r)
  BY <1>3 DEF Key
<1>5. \A l, r : Matches(l, r)' <=> Matches(l, r)
  BY <1>4 DEF Matches
<1>6. \A s, r : Partners(s, r)' = Partners(s, r)
  BY <1>1, <1>2, <1>5 DEF Partners
<1> QED BY <1>1, <1>2, <1>3, <1>4, <1>6

LEMMA SameMode == query' = query => DecideJoinMode' = DecideJoinMode
<1> SUFFICES ASSUME query' = query PROVE DecideJoinMode' = DecideJoinMode
  OBVIOUS
<1>1. KeyCount' = KeyCount /\ \A s : KeyCols(s)' = KeyCols(s)
  BY SameRows
<1>2. (\A c : Declared(c)' <=> Declared(c)) /\ (\A s : AllPk(s)' <=> AllPk(s))
      /\ \A s : RefersTo(s)' <=> RefersTo(s)
  BY <1>1 DEF Declared, AllPk, RefersTo
<1> QED BY <1>1, <1>2 DEF DecideJoinMode

LEMMA SamePairs ==
  ASSUME query' = query
  PROVE  \A run : JoinRun(run)' = JoinRun(run)
<1>1. \A s : Rows(s)' = Rows(s) /\ ActiveRows(s)' = ActiveRows(s)
  BY SameRows
<1>2. \A s, r : Partners(s, r)' = Partners(s, r)
  BY SameRows
<1>3. JoinedPairs' = JoinedPairs
  BY <1>1, <1>2 DEF JoinedPairs
<1>4. \A run : Arrived(run)' = Arrived(run)
  BY <1>3 DEF Arrived
<1> QED BY <1>4 DEF JoinRun

LEMMA SameOutput ==
  ASSUME query' = query, mode' = mode
  PROVE  /\ Output' = Output /\ (HasOne' <=> HasOne) /\ FkSide' = FkSide /\ PkSide' = PkSide
         /\ FullOutput' = FullOutput /\ PartialOutput' = PartialOutput
<1>1. (HasOne' <=> HasOne) /\ FkSide' = FkSide
  BY DEF HasOne, FkSide
<1>2. PkSide' = PkSide
  BY <1>1 DEF PkSide
<1>3. \A s, r : Partners(s, r)' = Partners(s, r)
  BY SameRows
<1>4. \A s : Rows(s)' = Rows(s)
  BY SameRows
<1>5. \A r : PartialRows(r)' = PartialRows(r)
  <2> TAKE r
  <2>1. Partners(FkSide, r)' = Partners(FkSide, r)
    BY <1>1, <1>3
  <2> QED BY <1>1, <2>1 DEF PartialRows
<1>6. PartialOutput' = PartialOutput
  BY <1>1, <1>2, <1>4, <1>5 DEF PartialOutput
<1>7. \A run : JoinRun(run)' = JoinRun(run)
  BY SamePairs
<1>8. FullOutput' = FullOutput
  BY <1>7 DEF FullOutput
<1> QED BY <1>1, <1>2, <1>6, <1>8 DEF Output

LEMMA SameHints ==
  ASSUME query' = query
  PROVE  (\A o : GadgetFrames(o)' = GadgetFrames(o)) /\ (GadgetPlannable' <=> GadgetPlannable)
<1>1. \A s : Rows(s)' = Rows(s) /\ ActiveRows(s)' = ActiveRows(s)
  BY SameRows
<1>2. KeyCount' = KeyCount /\ \A s, r : Key(s, r)' = Key(s, r)
  BY SameRows
<1>3. \A run : JoinRun(run)' = JoinRun(run)
  BY SamePairs
<1>4. \A s, i : Replayed(s, i)' = Replayed(s, i)
  BY <1>3 DEF Replayed
<1>5. \A s, i : SameRow(s, i)' = SameRow(s, i)
  BY <1>1, <1>4 DEF SameRow
<1>6. \A s : SourceIds(s)' = SourceIds(s)
  <2> TAKE s
  <2> DEFINE apart == \A r, q \in ActiveRows(s) : Payload(s, r) = Payload(s, q) => r = q
             found == \A i \in DOMAIN JoinRun(2) : SameRow(s, i) # {}
             id(i) == (CHOOSE r \in SameRow(s, i) : TRUE)[RowId]
             again(i) == Replayed(s, i)[RowId]
  <2>1. apart' <=> apart
    BY <1>1
  <2>2. (found' <=> found) /\ JoinRun(2)' = JoinRun(2)
    BY <1>3, <1>5
  <2>3. \A i : id(i)' = id(i) /\ again(i)' = again(i)
    BY <1>4, <1>5
  <2>4. SourceIds(s) = [i \in DOMAIN JoinRun(2) |-> IF apart /\ found THEN id(i) ELSE again(i)]
    BY DEF SourceIds
  <2>5. SourceIds(s)' = [i \in DOMAIN JoinRun(2)' |-> IF apart' /\ found' THEN id(i)' ELSE again(i)']
    BY DEF SourceIds
  <2> HIDE DEF apart, found, id, again
  <2> QED BY <2>1, <2>2, <2>3, <2>4, <2>5
<1>7. SourceRows' = SourceRows
  BY <1>6 DEF SourceRows
<1>8. (\A s : SourceFrame(s)' = SourceFrame(s)) /\ PairsFrame' = PairsFrame
  BY <1>7 DEF SourceFrame, PairsFrame
<1>9. \A s : KeySeq(s)' = KeySeq(s)
  BY <1>1, <1>2 DEF KeySeq
<1>10. UnionKeys' = UnionKeys /\ UnionFields' = UnionFields
  BY <1>2, <1>9 DEF UnionKeys, UnionFields
<1>11. UnionFrame' = UnionFrame
  BY <1>2, <1>10 DEF UnionFrame
<1>12. \A o : GadgetFrames(o)' = GadgetFrames(o)
  BY <1>8, <1>11 DEF GadgetFrames
<1>13. GadgetPlannable' <=> GadgetPlannable
  BY <1>6 DEF GadgetPlannable
<1> QED BY <1>12, <1>13

LEMMA SameClaims ==
  ASSUME query' = query, mode' = mode
  PROVE  /\ \A c, n : OutputTable(c, n)' = OutputTable(c, n)
         /\ \A c, n, m : JoinClaims(c, n, m)' = JoinClaims(c, n, m)
         /\ \A s : Input(s)' = Input(s) /\ KeyView(s)' = KeyView(s) /\ SourceView(s)' = SourceView(s)
         /\ \A c : UnionView(c)' = UnionView(c)
         /\ \A l : Schema(l)' = Schema(l)
         /\ SchemaColumns' = SchemaColumns
<1>1. \A s : Rows(s)' = Rows(s) /\ KeyCols(s)' = KeyCols(s)
  BY SameRows
<1>2. (HasOne' <=> HasOne) /\ FkSide' = FkSide /\ PkSide' = PkSide /\ KeyCount' = KeyCount
  BY SameOutput, SameRows
<1>3. \A s : Input(s)' = Input(s)
  BY <1>1 DEF Input
<1>4. \A c, n : OutputTable(c, n)' = OutputTable(c, n)
  BY <1>2, <1>3 DEF OutputTable
<1>5. \A s : KeyView(s)' = KeyView(s) /\ SourceView(s)' = SourceView(s)
  BY <1>1, <1>3 DEF KeyView, SourceView
<1>6. UnionFields' = UnionFields
  BY <1>2 DEF UnionFields
<1>7. \A c : UnionView(c)' = UnionView(c)
  BY <1>6 DEF UnionView
<1>8. \A c, n, m : JoinClaims(c, n, m)' = JoinClaims(c, n, m)
  <2> TAKE c, n, m
  <2>1. \A s, out : FromView(c, s, out)' = FromView(c, s, out)
    BY DEF FromView
  <2> QED BY <1>2, <1>4, <1>5, <1>7, <2>1 DEF JoinClaims
<1>9. \A l : Schema(l)' = Schema(l)
  BY <1>2, <1>6 DEF Schema, FullSchema
<1>10. SchemaColumns' = SchemaColumns
  BY <1>9 DEF SchemaColumns
<1> QED BY <1>3, <1>4, <1>5, <1>7, <1>8, <1>9, <1>10

-----------------------------------------------------------------------------
(* What planning and materialization stop for.                             *)

LEMMA ColumnsAre ==
  /\ ColumnsOf("left") = {1, 2} /\ ColumnsOf("right") = {3, 4}
  /\ RowNames = -1..6 /\ Act = 0 /\ RowId = -1
<1>1. Cols("left") = <<1, 2>> /\ Cols("right") = <<3, 4>>
  BY DEF Cols
<1>2. \A a, b : Range(<<a, b>>) = {a, b}
  BY DEF Range
<1>3. ColumnsOf("left") = {1, 2} /\ ColumnsOf("right") = {3, 4}
  BY <1>1, <1>2 DEF ColumnsOf
<1>4. RowNames = -1..6 /\ Act = 0 /\ RowId = -1
  BY QueryAssumption DEF RowNames, Act, RowId
<1> QED BY <1>3, <1>4

\* A replayed row without partner left out, each has a source.
LEMMA SourcesExist ==
  ASSUME query \in Queries, ~(query.type = "Left" /\ Unmatched), NEW s \in Sides
  PROVE  Null \notin Range(SourceIds(s))
<1> DEFINE apart == \A r, q \in ActiveRows(s) : Payload(s, r) = Payload(s, q) => r = q
           found == \A i \in DOMAIN JoinRun(2) : SameRow(s, i) # {}
           id(i) == (CHOOSE r \in SameRow(s, i) : TRUE)[RowId]
           again(i) == Replayed(s, i)[RowId]
<1>1. PICK n, li, ri : IsJoin(JoinRun(2), n, li, ri)
  BY RunsJoin
<1>2. /\ DOMAIN JoinRun(2) = 1..n
      /\ li \in [1..n -> 1..RowCount("left")] /\ ri \in [1..n -> 1..RowCount("right")]
      /\ \A p \in 1..n : JoinRun(2)[p] = <<Rows("left")[li[p]], Rows("right")[ri[p]]>>
  BY <1>1 DEF IsJoin
<1>3. \A r \in Range(Rows(s)) : r[RowId] \in Int
  BY RowsAre DEF Range
<1>4. \A i \in 1..n : again(i) \in Int
  <2> TAKE i \in 1..n
  <2>1. Replayed(s, i) = IF s = "left" THEN Rows("left")[li[i]] ELSE Rows("right")[ri[i]]
    BY <1>2 DEF Replayed
  <2>2. Replayed(s, i) \in Range(Rows(s))
    <3>1. DOMAIN Rows("left") = 1..RowCount("left") /\ DOMAIN Rows("right") = 1..RowCount("right")
      BY SidesAre, RowsAre
    <3>2. li[i] \in DOMAIN Rows("left") /\ ri[i] \in DOMAIN Rows("right")
      BY <1>2, <3>1
    <3>3. s = "left" \/ s = "right"
      BY SidesAre
    <3> QED BY <2>1, <3>2, <3>3 DEF Range
  <2> QED BY <1>3, <2>2
<1>5. ASSUME NEW i \in 1..n, found PROVE id(i) \in Int
  <2>1. SameRow(s, i) # {} /\ SameRow(s, i) \in SUBSET Range(Rows(s))
    BY <1>2, <1>5 DEF SameRow, ActiveRows
  <2>2. (CHOOSE r \in SameRow(s, i) : TRUE) \in SameRow(s, i)
    BY <2>1
  <2> QED BY <1>3, <2>1, <2>2
<1>6. SourceIds(s) = [i \in DOMAIN JoinRun(2) |-> IF apart /\ found THEN id(i) ELSE again(i)]
  BY DEF SourceIds
<1> HIDE DEF apart, found, id, again
<1>7. DOMAIN SourceIds(s) = 1..n /\ \A i \in 1..n : SourceIds(s)[i] \in Int
  BY <1>2, <1>4, <1>5, <1>6
<1>8. Null \notin Int
  BY SortAssumption
<1> QED BY <1>7, <1>8 DEF Range

\* Where the whole primary key is joined on, its side has at most one partner.
LEMMA WholeKeyIsUnique ==
  ASSUME query \in Queries, mode = DecideJoinMode, WholeKey
  PROVE  PartnersAreUnique
<1> DEFINE f == FkSide
           o == PkSide
           rows == Rows(o)
           n == RowCount(o)
           key == query.pk \cap ColumnsOf(o)
<1>1. mode \in {"OneToMany", "ManyToOne", "OneToOne"} /\ query.on # <<>>
      /\ IF mode = "ManyToOne" THEN AllPk("right") ELSE AllPk("left")
  BY DEF WholeKey, HasOne, DecideJoinMode
<1>2. f \in Sides /\ o \in Sides /\ o = Other(f) /\ f = Other(o)
      /\ o = IF mode = "ManyToOne" THEN "right" ELSE "left"
  BY SidesAre DEF FkSide, PkSide
<1>3. AllPk(o) /\ query.source[o] = "table" /\ key \subseteq Range(KeyCols(o))
  BY <1>1, <1>2 DEF WholeKey
<1>4. query.on \in Seq(ColumnsOf("left") \X ColumnsOf("right"))
      /\ (query.source[o] = "table" /\ query.pk \cap ColumnsOf(o) # {} =>
            \A i, j \in DOMAIN query.rows[o] :
              (\A c \in query.pk \cap ColumnsOf(o) : query.rows[o][i][c] = query.rows[o][j][c]) => i = j)
  BY <1>2, QueryAssumption
<1>5. n \in Nat /\ DOMAIN rows = 1..n /\ Rows(o) = query.rows[o]
  BY <1>2, RowsAre DEF Rows
<1>6. KeyCount \in Nat /\ KeyCount > 0 /\ DOMAIN query.on = 1..KeyCount
  BY <1>1, <1>4 DEF KeyCount
<1>7. DOMAIN KeyCols(o) = 1..KeyCount /\ \A k \in 1..KeyCount : KeyCols(o)[k] \in ColumnsOf(o)
  <2>1. \A k \in 1..KeyCount : query.on[k] \in ColumnsOf("left") \X ColumnsOf("right")
    BY <1>4, <1>6
  <2>2. KeyCols(o) = [i \in 1..KeyCount |-> query.on[i][IF o = "left" THEN 1 ELSE 2]]
    BY <1>6 DEF KeyCols
  <2>3. o = "left" \/ o = "right"
    BY <1>2
  <2> HIDE DEF o
  <2> QED BY <2>1, <2>2, <2>3
<1>8. key # {}
  <2>1. 1 \in 1..KeyCount
    BY <1>6
  <2>2. KeyCols(o)[1] \in Range(KeyCols(o)) /\ KeyCols(o)[1] \in ColumnsOf(o)
    BY <1>7, <2>1 DEF Range
  <2> QED BY <1>3, <2>2 DEF AllPk
<1>9. \A i, j \in 1..n : (\A c \in key : rows[i][c] = rows[j][c]) => i = j
  BY <1>3, <1>4, <1>5, <1>8
<1> HIDE DEF o, f, rows, n, key
<1>10. ASSUME NEW row, NEW i \in 1..n, NEW j \in 1..n,
              Partner(f, row, rows[i]), Partner(f, row, rows[j])
       PROVE  i = j
  <2>1. Key(o, rows[i]) = Key(f, row) /\ Key(o, rows[j]) = Key(f, row)
    BY <1>2, <1>10, SidesAre DEF Partner, Matches
  <2>2. \A r : Key(o, r) = [k \in 1..KeyCount |-> r[KeyCols(o)[k]]]
    BY DEF Key
  <2>3. \A k \in 1..KeyCount : rows[i][KeyCols(o)[k]] = rows[j][KeyCols(o)[k]]
    <3> TAKE k \in 1..KeyCount
    <3>1. Key(o, rows[i])[k] = rows[i][KeyCols(o)[k]] /\ Key(o, rows[j])[k] = rows[j][KeyCols(o)[k]]
      <4>1. Key(o, rows[i]) = [m \in 1..KeyCount |-> rows[i][KeyCols(o)[m]]]
            /\ Key(o, rows[j]) = [m \in 1..KeyCount |-> rows[j][KeyCols(o)[m]]]
        BY <2>2
      <4> QED BY <4>1
    <3> QED BY <2>1, <3>1
  <2>4. \A c \in key : rows[i][c] = rows[j][c]
    <3> TAKE c \in key
    <3>1. PICK k \in 1..KeyCount : KeyCols(o)[k] = c
      BY <1>3, <1>7 DEF Range
    <3> QED BY <2>3, <3>1
  <2> QED BY <1>9, <2>4
<1>11. ASSUME NEW row PROVE Len(Partners(f, row)) <= 1
  <2>1. PICK e, m : PartnersAt(f, row, e, m)
    BY <1>2, PartnersAre
  <2>2. /\ m \in Nat /\ e \in [1..m -> 1..n] /\ Len(Partners(f, row)) = m
        /\ \A j, k \in 1..m : e[j] = e[k] => j = k
        /\ \A i \in 1..n : Partner(f, row, rows[i]) <=> \E k \in 1..m : e[k] = i
    BY <1>2, <2>1 DEF PartnersAt, n, rows
  <2>3. ASSUME m > 1 PROVE FALSE
    <3>1. 1 \in 1..m /\ 2 \in 1..m
      BY <2>2, <2>3
    <3>2. Partner(f, row, rows[e[1]]) /\ Partner(f, row, rows[e[2]]) /\ e[1] \in 1..n /\ e[2] \in 1..n
      BY <2>2, <3>1
    <3>3. e[1] = e[2]
      BY <1>10, <3>2
    <3> QED BY <2>2, <3>1, <3>3
  <2> QED BY <2>2, <2>3
<1> QED BY <1>11 DEF PartnersAreUnique, f

\* The rows of a partial output where partners are unique.
PartnerOf(i) == OrNone(Partners(FkSide, Rows(FkSide)[i]))[1]
PartialRow(i) == PartialRows(Rows(FkSide)[i])[1]
PartialList == FlattenSeq([i \in DOMAIN Rows(FkSide) |-> PartialRows(Rows(FkSide)[i])])

LEMMA OneRowEach ==
  ASSUME query \in Queries, PartnersAreUnique
  PROVE  /\ DOMAIN PartialList = 1..RowCount(FkSide) /\ Len(PartialList) = RowCount(FkSide)
         /\ \A i \in 1..RowCount(FkSide) : PartialList[i] = PartialRow(i)
<1> DEFINE f == FkSide
           n == RowCount(f)
           lists == [i \in DOMAIN Rows(f) |-> PartialRows(Rows(f)[i])]
           S == {PartialRow(i) : i \in 1..n}
<1>1. f \in Sides
  BY SidesAre DEF FkSide
<1>2. n \in Nat /\ DOMAIN Rows(f) = 1..n
  BY <1>1, RowsAre
<1>3. ASSUME NEW i \in 1..n PROVE PartialRows(Rows(f)[i]) = [j \in 1..1 |-> PartialRow(i)]
  <2> DEFINE row == Rows(f)[i]
             ps == OrNone(Partners(f, row))
  <2>1. DOMAIN ps = 1..1
    <3>1. Len(Partners(f, row)) <= 1
      BY <1>2 DEF PartnersAreUnique
    <3>2. PICK e, m : PartnersAt(f, row, e, m)
      BY <1>1, PartnersAre
    <3>3. m \in Nat /\ DOMAIN Partners(f, row) = 1..m /\ Len(Partners(f, row)) = m
      BY <3>2 DEF PartnersAt
    <3>4. Partners(f, row) # <<>> => m = 1
      BY <3>1, <3>3 DEF PartnersAt
    <3> QED BY <3>3, <3>4 DEF OrNone
  <2>2. DOMAIN PartialRows(row) = DOMAIN ps /\ PartialRows(row) = [j \in DOMAIN ps |-> PartialRows(row)[j]]
    BY DEF PartialRows
  <2>3. PartialRow(i) = PartialRows(row)[1]
    BY DEF PartialRow
  <2> HIDE DEF row, ps
  <2>4. \A j \in 1..1 : PartialRows(row)[j] = PartialRow(i)
    BY <2>3
  <2>5. PartialRows(row) = [j \in 1..1 |-> PartialRow(i)]
    BY <2>1, <2>2, <2>4
  <2> QED BY <2>5 DEF row
<1>4. \A i \in 1..n : PartialRow(i) \in S
  OBVIOUS
<1> HIDE DEF S, n
<1>5. lists = [i \in 1..n |-> [j \in 1..1 |-> PartialRow(i)]]
  BY <1>2, <1>3
<1>6. PartialList = FlattenSeq(lists)
  BY DEF PartialList
<1> HIDE DEF lists
<1>7. lists \in Seq(Seq(S)) /\ Len(lists) = n /\ \A i \in 1..n : Len(lists[i]) = 1 /\ lists[i][1] = PartialRow(i)
  <2>1. \A i \in 1..n : [j \in 1..1 |-> PartialRow(i)] \in Seq(S) /\ Len([j \in 1..1 |-> PartialRow(i)]) = 1
    <3> TAKE i \in 1..n
    <3>1. [j \in 1..1 |-> PartialRow(i)] \in [1..1 -> S] /\ 1 \in Nat
      BY <1>4
    <3> QED BY <3>1, ListOf
  <2>2. lists \in [1..n -> Seq(S)]
    BY <1>5, <2>1
  <2>3. lists \in Seq(Seq(S)) /\ Len(lists) = n
    BY <1>2, <2>2, ListOf
  <2>4. \A i \in 1..n : lists[i] = [j \in 1..1 |-> PartialRow(i)]
    BY <1>5
  <2>5. \A i \in 1..n : [j \in 1..1 |-> PartialRow(i)][1] = PartialRow(i)
    OBVIOUS
  <2> QED BY <2>1, <2>3, <2>4, <2>5
<1>8. PICK at : Flat(FlattenSeq(lists), S, lists, n, at)
  BY <1>2, <1>7, Flattened
<1>9. Starts(lists, n, at)
  BY <1>8 DEF Flat
<1>10. at = [k \in 0..n |-> k]
  <2> DEFINE bt == [k \in 0..n |-> k]
             ones == [k \in 1..n |-> [j \in 1..1 |-> k]]
  <2>1. \A k \in 1..n : Len(ones[k]) = 1
    OBVIOUS
  <2> HIDE DEF ones
  <2>2. Starts(ones, n, bt)
    <3>1. bt \in [0..n -> Nat] /\ bt[0] = 0
      BY <1>2
    <3>2. \A k \in 1..n : k \in 0..n /\ k - 1 \in 0..n /\ k = (k - 1) + 1
      BY <1>2
    <3>3. \A k \in 0..n : bt[k] = k
      OBVIOUS
    <3> HIDE DEF bt
    <3>4. \A k \in 1..n : bt[k] = bt[k - 1] + 1
      <4> TAKE k \in 1..n
      <4>1. k \in 0..n /\ k - 1 \in 0..n /\ k = (k - 1) + 1
        BY <3>2
      <4>2. bt[k] = k
        BY <3>3, <4>1
      <4>3. bt[k - 1] = k - 1
        BY <3>3, <4>1
      <4> QED BY <4>1, <4>2, <4>3
    <3>5. \A k \in 1..n : bt[k] = bt[k - 1] + Len(ones[k]) /\ Len(ones[k]) \in Nat
      <4> TAKE k \in 1..n
      <4>1. Len(ones[k]) = 1 /\ bt[k] = bt[k - 1] + 1
        BY <2>1, <3>4
      <4> QED BY <4>1
    <3> QED BY <1>2, <3>1, <3>5 DEF Starts
  <2> HIDE DEF bt
  <2>3. at = bt
    BY <1>7, <1>9, <2>1, <2>2, StartsAgree
  <2> QED BY <2>3 DEF bt
<1> DEFINE all == FlattenSeq(lists)
<1>11. all \in Seq(S) /\ Len(all) = at[n] /\ \A k \in 1..n : \A j \in 1..Len(lists[k]) : all[at[k - 1] + j] = lists[k][j]
  BY <1>8 DEF Flat
<1> HIDE DEF all
<1>12. Len(all) = n /\ DOMAIN all = 1..n
  BY <1>2, <1>10, <1>11
<1>13. ASSUME NEW k \in 1..n PROVE all[k] = PartialRow(k)
  <2>1. at[k - 1] + 1 = k
    BY <1>2, <1>10
  <2>2. 1 \in 1..Len(lists[k])
    BY <1>7
  <2> QED BY <1>7, <1>11, <2>1, <2>2
<1> QED BY <1>6, <1>12, <1>13 DEF all, n

\* A table is as long as the least power of two that holds its rows.
LEMMA FrameSize ==
  ASSUME NEW rows, NEW n \in Nat, DOMAIN rows = 1..n, Len(rows) = n, NEW fields, NEW mat, mat # {}
  PROVE  Size(EncodedColumns(Frame(fields, rows, mat))) = PowerOfTwo(n)
<1> DEFINE f == Frame(fields, rows, mat)
           columns == EncodedColumns(f)
           some == CHOOSE c \in mat : TRUE
<1>1. f.rows = rows /\ f.mat = mat
  BY DEF Frame
<1> HIDE DEF f
<1>2. DOMAIN ById(rows) = 1..n /\ Len(ById(rows)) = n
  BY DEF ById
<1>3. DOMAIN InOrder(f) = 1..PowerOfTwo(n)
  BY <1>1, <1>2 DEF InOrder, Padded
<1>4. PowerOfTwo(n) \in Nat
  BY PaddedSize
<1>5. DOMAIN columns = mat /\ \A c \in mat : Len(columns[c]) = PowerOfTwo(n)
  <2>1. columns = [c \in mat |-> [i \in 1..PowerOfTwo(n) |-> Enc(InOrder(f)[i][c])]]
    BY <1>1, <1>3 DEF EncodedColumns
  <2>2. \A c : Len([i \in 1..PowerOfTwo(n) |-> Enc(InOrder(f)[i][c])]) = PowerOfTwo(n)
    BY <1>4
  <2> HIDE DEF columns
  <2> QED BY <2>1, <2>2
<1> HIDE DEF columns
<1>6. (CHOOSE c \in DOMAIN columns : TRUE) \in mat
  BY <1>5
<1> QED BY <1>5, <1>6 DEF Size, columns, f

\* With one partner at most, a partial output is as long as its foreign key's table.
LEMMA SizesAgree ==
  ASSUME query \in Queries, PartnersAreUnique
  PROVE  Size(EncodedColumns(PartialOutput)) = Size(Input(FkSide))
<1> DEFINE n == RowCount(FkSide)
           rows == Rows(FkSide)
<1>1. FkSide \in Sides
  BY SidesAre DEF FkSide
<1>2. n \in Nat /\ DOMAIN rows = 1..n /\ Len(rows) = n
  BY <1>1, RowsAre DEF RowCount
<1>3. DOMAIN PartialList = 1..n /\ Len(PartialList) = n
  BY OneRowEach
<1>4. DOMAIN ById(PartialList) = 1..n /\ Len(ById(PartialList)) = n
  <2> HIDE DEF n
  <2> QED BY <1>2, <1>3 DEF ById
<1> HIDE DEF n, rows
<1>5. Act \in ColumnsOf(PkSide) \cup {Act} /\ Act \in ColumnsOf(FkSide) \cup {Act}
  OBVIOUS
<1>6. Size(EncodedColumns(PartialOutput)) = PowerOfTwo(n)
  BY <1>2, <1>4, <1>5, FrameSize DEF PartialOutput, PartialList
<1>7. Size(Input(FkSide)) = PowerOfTwo(n)
  BY <1>2, <1>5, FrameSize DEF Input, rows
<1> QED BY <1>6, <1>7

-----------------------------------------------------------------------------
(* The plan.                                                               *)

Planned == IF HasOne THEN [output |-> Output] ELSE GadgetFrames(Output)
Count == IF HasOne THEN 0 ELSE Len(Output.rows)
\* What the prover stops for.
Stuck ==
  IF HasOne THEN Size(EncodedColumns(PartialOutput)) # Size(Input(FkSide)) ELSE ~GadgetPlannable
PlanInv ==
  /\ query \in Queries /\ misc = [count |-> misc.count, sum |-> misc.sum]
  /\ pc # "decide" => mode = DecideJoinMode
  /\ pc = "gadget" => ~HasOne /\ frames = [output |-> Output] /\ misc.count = Count
  /\ pc \in {"commit", "check", "prove", "sent"} =>
       frames = Planned /\ misc.count = Count /\ (HasOne \/ GadgetPlannable)
  /\ pc = "panic" => Stuck

LEMMA SamePlan ==
  ASSUME query' = query, mode' = mode
  PROVE  /\ Planned' = Planned /\ Count' = Count /\ (HasOne' <=> HasOne) /\ Output' = Output
         /\ (GadgetPlannable' <=> GadgetPlannable) /\ (Stuck' <=> Stuck)
         /\ DecideJoinMode' = DecideJoinMode
<1>1. /\ Output' = Output /\ (HasOne' <=> HasOne) /\ FkSide' = FkSide
      /\ PartialOutput' = PartialOutput
  BY SameOutput
<1>2. (\A o : GadgetFrames(o)' = GadgetFrames(o)) /\ (GadgetPlannable' <=> GadgetPlannable)
  BY SameHints
<1>3. Input(FkSide)' = Input(FkSide)
  BY <1>1, SameClaims, SameRows DEF Input
<1>4. Stuck' <=> Stuck
  BY <1>1, <1>2, <1>3 DEF Stuck
<1> QED BY <1>1, <1>2, <1>4, SameMode DEF Planned, Count

LEMMA PlanHolds == Spec => []PlanInv
<1>1. Init => PlanInv
  BY DEF Init, PlanInv
<1>2. PlanInv /\ [Next]_vars => PlanInv'
  <2> SUFFICES ASSUME PlanInv, [Next]_vars PROVE PlanInv'
    OBVIOUS
  <2>1. CASE SetJoinMode
    <3>1. DecideJoinMode' = DecideJoinMode
      BY <2>1, SameMode DEF SetJoinMode
    <3> QED BY <2>1, <3>1 DEF SetJoinMode, PlanInv
  <2> DEFINE same == query' = query /\ mode' = mode
  <2>2. ASSUME same
        PROVE  /\ Planned' = Planned /\ Count' = Count /\ (HasOne' <=> HasOne) /\ Output' = Output
               /\ (GadgetPlannable' <=> GadgetPlannable) /\ (Stuck' <=> Stuck)
               /\ DecideJoinMode' = DecideJoinMode
    BY <2>2, SamePlan
  <2>3. CASE Plan
    <3>1. /\ same /\ pc = "plan" /\ pc' = (IF HasOne THEN "commit" ELSE "gadget")
          /\ frames' = [output |-> Output] /\ misc' = [misc EXCEPT !.count = Count]
      BY <2>3 DEF Plan, Count
    <3>2. misc' = [count |-> Count, sum |-> misc.sum]
      BY <3>1 DEF PlanInv
    <3> HIDE DEF same
    <3>3. HasOne => Planned = [output |-> Output]
      BY DEF Planned
    <3> QED BY <2>2, <3>1, <3>2, <3>3 DEF same, PlanInv
  <2>4. CASE GadgetPlan
    <3>1. /\ same /\ pc = "gadget" /\ misc' = misc
          /\ \/ GadgetPlannable /\ pc' = "commit" /\ frames' = GadgetFrames(frames.output)
             \/ ~GadgetPlannable /\ pc' = "panic" /\ frames' = frames
      BY <2>4 DEF GadgetPlan
    <3>2. ~HasOne /\ frames = [output |-> Output] /\ misc.count = Count
      BY <3>1 DEF PlanInv
    <3>3. GadgetFrames(frames.output) = Planned
      BY <3>2 DEF Planned
    <3>4. ~GadgetPlannable => Stuck
      BY <3>2 DEF Stuck
    <3> QED BY <2>2, <3>1, <3>2, <3>3, <3>4 DEF PlanInv
  <2>5. CASE Commit
    <3>1. same /\ pc = "commit" /\ misc' = misc /\ frames' = frames
      BY <2>5 DEF Commit
    <3>2. pc' \in {"check", "prove", "panic"}
      BY <2>5 DEF Commit
    <3>3. frames = Planned /\ misc.count = Count /\ (HasOne \/ GadgetPlannable)
      BY <3>1 DEF PlanInv
    <3>4. ASSUME pc' = "panic" PROVE Stuck
      <4>1. HasOne /\ Size((IF "output" \in DOMAIN frames THEN EncodedColumns(frames["output"]) ELSE <<>>))
                        # Size(Input(FkSide))
        BY <2>5, <3>4 DEF Commit, Labels, Range
      <4>2. "output" \in DOMAIN frames /\ frames["output"] = PartialOutput
        BY <3>3, <4>1 DEF Planned, Output
      <4> QED BY <4>1, <4>2 DEF Stuck
    <3> QED BY <2>2, <3>1, <3>2, <3>3, <3>4 DEF PlanInv
  <2>6. CASE Check
    BY <2>2, <2>6 DEF Check, PlanInv
  <2>7. CASE Prove
    <3>1. same /\ pc = "prove" /\ pc' = "sent" /\ frames' = frames
          /\ \E sum : misc' = [misc EXCEPT !.sum = sum]
      BY <2>7 DEF Prove
    <3> QED BY <2>2, <3>1 DEF PlanInv
  <2>8. CASE VTrack
    BY <2>2, <2>8 DEF VTrack, PlanInv, pvars
  <2>9. CASE VClaim
    BY <2>2, <2>9 DEF VClaim, PlanInv, pvars
  <2>10. CASE UNCHANGED vars
    BY <2>2, <2>10 DEF PlanInv, vars, pvars
  <2> QED BY <2>1, <2>3, <2>4, <2>5, <2>6, <2>7, <2>8, <2>9, <2>10 DEF Next, Stop
<1> QED BY <1>1, <1>2, PTL DEF Spec

\* Planning and materialization of a join stop only for what the code cannot do:
\* an outer join's row without a partner, a join without keys, a partial output
\* longer than its foreign key's table.  The whole primary key of a table has one
\* partner a row.
THEOREM JoinStops == Spec => []StopsOnlyWhen
<1>1. PlanInv => StopsOnlyWhen
  <2> SUFFICES ASSUME PlanInv PROVE StopsOnlyWhen
    OBVIOUS
  <2>1. query \in Queries /\ (pc # "decide" => mode = DecideJoinMode)
    BY DEF PlanInv
  <2>2. pc # "decide" /\ WholeKey => PartnersAreUnique
    BY <2>1, WholeKeyIsUnique
  <2>3. ASSUME pc = "panic", HasOne PROVE ~PartnersAreUnique
    BY <2>1, <2>3, SizesAgree DEF PlanInv, Stuck
  <2>4. ASSUME pc = "panic", ~HasOne PROVE query.on = <<>> \/ (query.type = "Left" /\ Unmatched)
    BY <2>1, <2>4, SourcesExist DEF PlanInv, Stuck, GadgetPlannable
  <2>5. pc = "panic" => \/ HasOne /\ ~PartnersAreUnique /\ ~WholeKey
                        \/ query.on = <<>>
                        \/ query.type = "Left" /\ Unmatched
    BY <2>2, <2>3, <2>4
  <2> QED BY <2>2, <2>5 DEF StopsOnlyWhen
<1> QED BY <1>1, PlanHolds, PTL

-----------------------------------------------------------------------------
(* The committed columns.                                                  *)

\* What is kept of a list is its m members behind the first ones.
LiesAt(list, keep, n, first, m) ==
  /\ n \in Nat /\ first \in Nat /\ m \in Nat /\ first + m <= n /\ DOMAIN list = 1..n
  /\ \A k \in 1..n : list[k] \in keep <=> k \in (first + 1)..(first + m)
LEMMA KeptThere ==
  ASSUME NEW list, NEW keep, NEW n, NEW first, NEW m, LiesAt(list, keep, n, first, m)
  PROVE  Kept(list, keep) = Part(list, first, m)
BY KeptPart DEF LiesAt

\* Of the fields c, a, the activator and the row id, where those of a are kept
\* and those of c are not.
LEMMA KeptFields ==
  ASSUME NEW c, c \in Seq(Int), NEW a, a \in Seq(Int), NEW keep,
         \A k \in DOMAIN c : c[k] \notin keep, \A k \in DOMAIN a : a[k] \in keep,
         RowId \notin keep
  PROVE  Kept(c \o a \o <<Act, RowId>>, keep) = IF Act \in keep THEN Append(a, Act) ELSE a
<1> DEFINE p == Len(c)
           m == Len(a)
           f == c \o a
           g == f \o <<Act, RowId>>
           d == IF Act \in keep THEN 1 ELSE 0
           want == IF Act \in keep THEN Append(a, Act) ELSE a
<1>1. p \in Nat /\ m \in Nat /\ DOMAIN c = 1..p /\ DOMAIN a = 1..m
  OBVIOUS
<1>2. f \in Seq(Int) /\ ConsistsOf(f, c, p, a, m)
  BY Joined, Zenon
<1>3. f \in Seq(Int) /\ Len(f) = p + m /\ (\A i \in 1..p : f[i] = c[i]) /\ (\A i \in 1..m : f[p + i] = a[i])
  BY <1>2 DEF ConsistsOf
<1>4. <<Act, RowId>> \in Seq(Int) /\ Len(<<Act, RowId>>) = 2
  BY DEF Act, RowId
<1> HIDE DEF f
<1>5. g \in Seq(Int) /\ ConsistsOf(g, f, p + m, <<Act, RowId>>, 2)
  BY <1>3, <1>4, Joined
<1>6. /\ g \in Seq(Int) /\ Len(g) = p + m + 2 /\ DOMAIN g = 1..(p + m + 2)
      /\ \A i \in 1..(p + m) : g[i] = f[i]
      /\ \A i \in 1..2 : g[p + m + i] = <<Act, RowId>>[i]
  <2>1. /\ g \in Seq(Int) /\ Len(g) = p + m + 2
        /\ \A i \in 1..(p + m) : g[i] = f[i]
        /\ \A i \in 1..2 : g[p + m + i] = <<Act, RowId>>[i]
    BY <1>5 DEF ConsistsOf
  <2> HIDE DEF g
  <2> QED BY <2>1
<1>7. 1 \in 1..2 /\ 2 \in 1..2 /\ <<Act, RowId>>[1] = Act /\ <<Act, RowId>>[2] = RowId
  OBVIOUS
<1>8. g[p + m + 1] = Act /\ g[p + m + 2] = RowId
  <2> HIDE DEF g
  <2> QED BY <1>6, <1>7
<1> HIDE DEF g, p, m
<1>9. d \in Nat /\ (d = 1 <=> Act \in keep) /\ d <= 1
  OBVIOUS
<1> HIDE DEF d
<1>10. \A i \in 1..m : p + i \in 1..(p + m) /\ g[p + i] = a[i]
  <2>1. \A i \in 1..m : p + i \in 1..(p + m)
    BY <1>1
  <2>2. \A i \in 1..m : g[p + i] = f[p + i] /\ f[p + i] = a[i]
    BY <1>3, <1>6, <2>1
  <2> QED BY <2>1, <2>2
<1>11. \A k \in 1..(p + m + 2) : g[k] \in keep <=> k \in (p + 1)..(p + (m + d))
  <2> TAKE k \in 1..(p + m + 2)
  <2>1. CASE k <= p
    <3>1. k \in 1..p /\ k \in 1..(p + m)
      BY <1>1, <2>1
    <3>2. g[k] = c[k] /\ k \in DOMAIN c
      BY <1>1, <1>3, <1>6, <3>1
    <3>3. g[k] \notin keep
      BY <3>2
    <3> QED BY <1>1, <2>1, <3>3
  <2>2. CASE k > p /\ k <= p + m
    <3> DEFINE i == k - p
    <3>1. i \in 1..m /\ p + i = k
      BY <1>1, <2>2
    <3> HIDE DEF i
    <3>2. g[k] = a[i] /\ i \in DOMAIN a
      BY <1>1, <1>10, <3>1
    <3>3. g[k] \in keep
      BY <3>2
    <3> QED BY <1>1, <1>9, <2>2, <3>3
  <2>3. CASE k = p + m + 1
    BY <1>1, <1>8, <1>9, <2>3
  <2>4. CASE k = p + m + 2
    BY <1>1, <1>8, <1>9, <2>4
  <2> QED BY <1>1, <2>1, <2>2, <2>3, <2>4
<1>12. Kept(g, keep) = Part(g, p, m + d)
  <2> DEFINE size == p + m + 2
             kept == m + d
  <2>1. size \in Nat /\ kept \in Nat /\ p + kept <= size
    BY <1>1, <1>9
  <2>2. DOMAIN g = 1..size /\ \A k \in 1..size : g[k] \in keep <=> k \in (p + 1)..(p + kept)
    BY <1>6, <1>11
  <2> HIDE DEF size, kept
  <2>3. p \in Nat
    BY <1>1
  <2>4. Kept(g, keep) = Part(g, p, kept)
    <3>1. LiesAt(g, keep, size, p, kept)
      BY <2>1, <2>2, <2>3 DEF LiesAt
    <3> QED BY <3>1, KeptThere, Zenon
  <2> QED BY <2>4 DEF kept
<1>13. Part(g, p, m + d) = want
  <2>1. CASE Act \in keep
    <3>1. d = 1 /\ want = Append(a, Act)
      BY <1>9, <2>1
    <3>2. Append(a, Act) = [i \in 1..(m + 1) |-> IF i = m + 1 THEN Act ELSE a[i]]
      <4>1. Append(a, Act) \in Seq(Int) /\ Len(Append(a, Act)) = m + 1
            /\ Append(a, Act)[m + 1] = Act /\ \A i \in 1..m : Append(a, Act)[i] = a[i]
        BY DEF m, Act
      <4>2. Append(a, Act) = [i \in 1..(m + 1) |-> Append(a, Act)[i]]
        <5> DEFINE b == Append(a, Act)
        <5>1. b \in Seq(Int) /\ Len(b) = m + 1
          BY <4>1
        <5> HIDE DEF b
        <5>2. b = [i \in 1..(m + 1) |-> b[i]]
          BY <5>1
        <5> QED BY <5>2 DEF b
      <4>3. \A i \in 1..(m + 1) : Append(a, Act)[i] = IF i = m + 1 THEN Act ELSE a[i]
        BY <1>1, <4>1
      <4> QED BY <4>2, <4>3
    <3>3. \A i \in 1..(m + 1) : g[p + i] = IF i = m + 1 THEN Act ELSE a[i]
      <4> TAKE i \in 1..(m + 1)
      <4>1. CASE i = m + 1
        <5>1. p + i = p + m + 1
          BY <1>1, <4>1
        <5> QED BY <1>8, <4>1, <5>1
      <4>2. CASE i # m + 1
        <5>1. i \in 1..m
          BY <1>1, <4>2
        <5> QED BY <1>10, <4>2, <5>1
      <4> QED BY <4>1, <4>2
    <3> HIDE DEF want
    <3> QED BY <3>1, <3>2, <3>3 DEF Part
  <2>2. CASE Act \notin keep
    <3>1. m + d = m /\ want = a
      BY <1>1, <1>9, <2>2
    <3>2. a = [i \in 1..m |-> a[i]]
      BY DEF m
    <3> HIDE DEF want
    <3> QED BY <1>10, <3>1, <3>2 DEF Part
  <2> QED BY <2>1, <2>2
<1> QED BY <1>12, <1>13 DEF g, f

\* A frame's columns are those of the schema s, and committed in its order.
Fits(f, s) == s \in Seq(Int) /\ MatFields(f) = s /\ f.mat = Range(s)

\* The hint tables have the columns the verifier expects.
LEMMA FramesFit ==
  ASSUME query \in Queries
  PROVE  \A l \in DOMAIN Planned : l \in Range(Labels) /\ Fits(Planned[l], Schema(l))
<1>1. /\ Cols("left") = <<1, 2>> /\ Cols("right") = <<3, 4>>
      /\ Src("left") = 5 /\ Src("right") = 6 /\ Act = 0 /\ RowId = -1
  BY DEF Cols, Src, Act, RowId
<1>2. \A x, y : Range(<<x>>) = {x} /\ Range(<<x, y>>) = {x, y}
  BY DEF Range
<1>3. \A s \in Sides : Cols(s) \in Seq(Int) /\ Len(Cols(s)) = 2 /\ DOMAIN Cols(s) = 1..2
                       /\ Range(Cols(s)) = ColumnsOf(s)
  <2> TAKE s \in Sides
  <2>1. Cols(s) = <<1, 2>> \/ Cols(s) = <<3, 4>>
    BY <1>1, SidesAre
  <2>2. Range(Cols(s)) = ColumnsOf(s)
    BY DEF ColumnsOf
  <2>4. Cols(s) \in Seq(Int) /\ Len(Cols(s)) = 2 /\ DOMAIN Cols(s) = 1..2
    <3>1. CASE Cols(s) = <<1, 2>>
      BY <3>1
    <3>2. CASE Cols(s) = <<3, 4>>
      BY <3>2
    <3> QED BY <2>1, <3>1, <3>2
  <2> QED BY <2>2, <2>4
<1>4. \A a \in Seq(Int) : \A x : Range(Append(a, x)) = Range(a) \cup {x} /\ <<>> \o a = a
  <2> TAKE a \in Seq(Int)
  <2> TAKE x
  <2>1. Range(Append(a, x)) = Range(a) \cup {x}
    <3>1. a \in Seq(Int \cup {x}) /\ DOMAIN a = 1..Len(a) /\ Len(a) \in Nat
      OBVIOUS
    <3>2. /\ DOMAIN Append(a, x) = 1..(Len(a) + 1) /\ Append(a, x)[Len(a) + 1] = x
          /\ \A i \in 1..Len(a) : Append(a, x)[i] = a[i]
      BY <3>1
    <3>3. \A i \in 1..(Len(a) + 1) : i \in 1..Len(a) \/ i = Len(a) + 1
      BY <3>1
    <3>4. \A i \in 1..Len(a) : i \in 1..(Len(a) + 1)
      BY <3>1
    <3>5. Len(a) + 1 \in 1..(Len(a) + 1)
      BY <3>1
    <3>6. Range(Append(a, x)) \subseteq Range(a) \cup {x}
      BY <3>1, <3>2, <3>3 DEF Range
    <3>7. Range(a) \cup {x} \subseteq Range(Append(a, x))
      BY <3>1, <3>2, <3>4, <3>5 DEF Range
    <3> QED BY <3>6, <3>7
  <2>2. <<>> \o a = a
    OBVIOUS
  <2> QED BY <2>1, <2>2
<1>5. /\ FkSide \in Sides /\ PkSide \in Sides /\ (FkSide = "left" <=> PkSide = "right")
  BY DEF FkSide, PkSide, Other, Sides
<1>6. Range(Labels) = {"output", "src_left", "src_right", "pairs", "union",
                       "left_keys", "right_keys", "left_rows", "right_rows"}
  BY DEF Labels, Range
<1>7. ASSUME HasOne PROVE Fits(PartialOutput, Schema("output"))
  <2> DEFINE c == Cols(FkSide)
             a == Cols(PkSide)
             keep == ColumnsOf(PkSide) \cup {Act}
  <2>1. PartialOutput.fields = c \o a \o <<Act, RowId>> /\ PartialOutput.mat = keep
    BY DEF PartialOutput, Frame
  <2>2. c \in Seq(Int) /\ a \in Seq(Int) /\ Range(a) = ColumnsOf(PkSide)
    BY <1>3, <1>5
  <2>3. (\A k \in DOMAIN c : c[k] \notin keep) /\ (\A k \in DOMAIN a : a[k] \in keep) /\ RowId \notin keep
    <3>1. \/ c = <<1, 2>> /\ a = <<3, 4>> /\ keep = {3, 4, 0}
          \/ c = <<3, 4>> /\ a = <<1, 2>> /\ keep = {1, 2, 0}
      <4>1. CASE FkSide = "left"
        BY <1>1, <1>5, <4>1, ColumnsAre
      <4>2. CASE FkSide # "left"
        BY <1>1, <1>5, <4>2, SidesAre, ColumnsAre
      <4> QED BY <4>1, <4>2
    <3> HIDE DEF c, a, keep
    <3> QED BY <1>1, <3>1
  <2>4. Schema("output") = Append(a, Act)
    BY <1>7 DEF Schema
  <2>5. Act \in keep
    OBVIOUS
  <2>6. Range(Append(a, Act)) = keep
    BY <1>4, <2>2
  <2>7. Append(a, Act) \in Seq(Int)
    BY <1>1, <2>2
  <2> HIDE DEF c, a, keep
  <2>8. Kept(c \o a \o <<Act, RowId>>, keep) = Append(a, Act)
    BY <2>2, <2>3, <2>5, KeptFields
  <2> QED BY <2>1, <2>4, <2>6, <2>7, <2>8 DEF Fits, MatFields
<1>8. ASSUME NEW f, NEW a, a \in Seq(Int), NEW keep, f.mat = keep,
             f.fields = a \o <<Act, RowId>>, RowId \notin keep,
             NEW s, s = IF Act \in keep THEN Append(a, Act) ELSE a, Range(a) = keep \ {Act} \/ Range(a) = keep
      PROVE  Fits(f, s)
  <2>1. <<>> \o a = a /\ Range(Append(a, Act)) = Range(a) \cup {Act}
    BY <1>4, <1>8
  <2>2. \A k \in DOMAIN a : a[k] \in keep
    <3>1. \A k \in DOMAIN a : a[k] \in Range(a)
      BY DEF Range
    <3> QED BY <1>8, <3>1
  <2>3. <<>> \in Seq(Int) /\ \A k \in DOMAIN <<>> : <<>>[k] \notin keep
    OBVIOUS
  <2>4. Kept(<<>> \o a \o <<Act, RowId>>, keep) = s
    <3> DEFINE c == <<>>
    <3>1. c \in Seq(Int) /\ \A k \in DOMAIN c : c[k] \notin keep
      BY <2>3
    <3> HIDE DEF c
    <3>2. a \in Seq(Int) /\ RowId \notin keep
      BY <1>8
    <3>3. Kept(c \o a \o <<Act, RowId>>, keep) = IF Act \in keep THEN Append(a, Act) ELSE a
      BY <2>2, <3>1, <3>2, KeptFields
    <3> QED BY <1>8, <3>3 DEF c
  <2>5. s \in Seq(Int)
    BY <1>1, <1>8
  <2>6. Range(s) = keep
    BY <1>8, <2>1
  <2> QED BY <1>8, <2>1, <2>4, <2>5, <2>6 DEF Fits, MatFields
<1>9. ASSUME ~HasOne PROVE Fits(FullOutput, Schema("output"))
  <2> DEFINE a == Cols("left") \o Cols("right")
             keep == ColumnsOf("left") \cup ColumnsOf("right")
  <2>1. FullOutput.fields = a \o <<Act, RowId>> /\ FullOutput.mat = keep
    BY DEF FullOutput, Frame
  <2>2. Schema("output") = a
    BY <1>9 DEF Schema, FullSchema
  <2>3. a \in Seq(Int) /\ Range(a) = keep
    <3> DEFINE l == Cols("left")
               r == Cols("right")
    <3>1. l \in Seq(Int) /\ Len(l) = 2 /\ DOMAIN l = 1..2 /\ Range(l) = ColumnsOf("left")
          /\ r \in Seq(Int) /\ Len(r) = 2 /\ DOMAIN r = 1..2 /\ Range(r) = ColumnsOf("right")
      BY <1>3, SidesAre
    <3> HIDE DEF l, r
    <3>2. l \o r \in Seq(Int) /\ ConsistsOf(l \o r, l, 2, r, 2)
      BY <3>1, Joined
    <3> DEFINE b == l \o r
    <3>8. b \in Seq(Int) /\ ConsistsOf(b, l, 2, r, 2)
      BY <3>2
    <3> HIDE DEF b
    <3>3. b \in Seq(Int) /\ Len(b) = 4 /\ (\A i \in 1..2 : b[i] = l[i]) /\ (\A i \in 1..2 : b[2 + i] = r[i])
      BY <3>8 DEF ConsistsOf
    <3>4. DOMAIN b = 1..4
      BY <3>3
    <3>5. Range(b) \subseteq Range(l) \cup Range(r)
      <4>1. \A i \in 1..4 : b[i] \in Range(l) \cup Range(r)
        <5> TAKE i \in 1..4
        <5>1. CASE i \in 1..2
          BY <3>1, <3>3, <5>1 DEF Range
        <5>2. CASE i \notin 1..2
          <6>1. i - 2 \in 1..2 /\ 2 + (i - 2) = i
            BY <5>2
          <6>2. b[i] = r[i - 2]
            BY <3>3, <6>1
          <6> QED BY <3>1, <6>1, <6>2 DEF Range
        <5> QED BY <5>1, <5>2
      <4> QED BY <3>4, <4>1 DEF Range
    <3>6. Range(l) \cup Range(r) \subseteq Range(b)
      <4>1. \A i \in 1..2 : l[i] \in Range(b) /\ r[i] \in Range(b)
        <5> TAKE i \in 1..2
        <5>1. i \in DOMAIN b /\ 2 + i \in DOMAIN b
          BY <3>4
        <5> QED BY <3>3, <5>1 DEF Range
      <4> QED BY <3>1, <4>1 DEF Range
    <3> QED BY <3>1, <3>3, <3>5, <3>6 DEF b, l, r
  <2>4. RowId \notin keep /\ Act \notin keep
    BY <1>1, ColumnsAre
  <2> HIDE DEF a, keep
  <2> QED BY <1>8, <2>1, <2>2, <2>3, <2>4
<1>10. ASSUME ~HasOne, NEW s \in Sides
       PROVE  Fits(SourceFrame(s), Schema(IF s = "left" THEN "src_left" ELSE "src_right"))
  <2> DEFINE a == <<Src(s)>>
             keep == {Src(s)}
  <2>1. Src(s) \in {5, 6}
    BY <1>1, SidesAre
  <2>2. <<Src(s), Act, RowId>> = a \o <<Act, RowId>>
    OBVIOUS
  <2>3. SourceFrame(s).fields = a \o <<Act, RowId>> /\ SourceFrame(s).mat = keep
    BY <2>2 DEF SourceFrame, Frame
  <2>4. Schema(IF s = "left" THEN "src_left" ELSE "src_right") = a
    BY <1>10, SidesAre DEF Schema, FullSchema
  <2>5. a \in Seq(Int) /\ Range(a) = keep /\ RowId \notin keep /\ Act \notin keep
    BY <1>1, <1>2, <2>1
  <2> HIDE DEF a, keep
  <2> QED BY <1>8, <2>3, <2>4, <2>5
<1>11. ASSUME ~HasOne PROVE Fits(PairsFrame, Schema("pairs"))
  <2> DEFINE a == <<Src("left"), Src("right")>>
             keep == {Src("left"), Src("right"), Act}
  <2>1. <<Src("left"), Src("right"), Act, RowId>> = a \o <<Act, RowId>>
    OBVIOUS
  <2>2. PairsFrame.fields = a \o <<Act, RowId>> /\ PairsFrame.mat = keep
    BY <2>1 DEF PairsFrame, Frame
  <2>3. Schema("pairs") = Append(a, Act)
    BY <1>11 DEF Schema, FullSchema
  <2>4. a \in Seq(Int) /\ Range(a) = keep \ {Act} /\ RowId \notin keep /\ Act \in keep
    BY <1>1, <1>2
  <2> HIDE DEF a, keep
  <2> QED BY <1>8, <2>2, <2>3, <2>4
<1>12. ASSUME ~HasOne PROVE Fits(UnionFrame, Schema("union"))
  <2> DEFINE a == UnionFields
             keep == Range(UnionFields) \cup {Act}
  <2>1. UnionFrame.fields = a \o <<Act, RowId>> /\ UnionFrame.mat = keep
    BY DEF UnionFrame, Frame
  <2>2. Schema("union") = Append(a, Act)
    BY <1>12 DEF Schema, FullSchema
  <2>3. a \in Seq(Int) /\ Range(a) = keep \ {Act} /\ RowId \notin keep /\ Act \in keep
    <3>1. KeyCount \in Nat
      BY QueryAssumption DEF KeyCount
    <3>2. UnionFields \in Seq(Int) /\ DOMAIN UnionFields = 1..KeyCount
          /\ \A j \in 1..KeyCount : UnionFields[j] > 0
      BY <3>1 DEF UnionFields
    <3>3. \A x \in Range(UnionFields) : x > 0
      BY <3>2 DEF Range
    <3> QED BY <1>1, <3>2, <3>3
  <2> HIDE DEF a, keep
  <2> QED BY <1>8, <2>1, <2>2, <2>3
<1> QED
  <2>1. CASE HasOne
    <3>1. Planned = [output |-> PartialOutput]
      BY <2>1 DEF Planned, Output
    <3> QED BY <1>6, <1>7, <2>1, <3>1
  <2>2. CASE ~HasOne
    <3>1. /\ DOMAIN Planned = {"output", "src_left", "src_right", "pairs", "union"}
          /\ Planned["output"] = FullOutput /\ Planned["src_left"] = SourceFrame("left")
          /\ Planned["src_right"] = SourceFrame("right") /\ Planned["pairs"] = PairsFrame
          /\ Planned["union"] = UnionFrame
      <4>1. Planned = GadgetFrames(FullOutput)
        BY <2>2 DEF Planned, Output
      <4> QED BY <4>1 DEF GadgetFrames
    <3>2. Fits(SourceFrame("left"), Schema("src_left")) /\ Fits(SourceFrame("right"), Schema("src_right"))
      BY <1>10, <2>2, SidesAre
    <3> QED BY <1>6, <1>9, <1>11, <1>12, <2>2, <3>1, <3>2
  <2> QED BY <2>1, <2>2

-----------------------------------------------------------------------------
(* The tables the prover ends with, and what the verifier reads.           *)

Encoded == [l \in Range(Labels) |-> IF l \in DOMAIN Planned THEN EncodedColumns(Planned[l]) ELSE <<>>]
KeyCounts(s) == <<Multiplicities(KeyView(s), UnionView(Encoded))>>
FirstTables ==
  IF HasOne THEN Encoded
  ELSE [Encoded EXCEPT !.left_keys = KeyCounts("left"), !.right_keys = KeyCounts("right")]
FirstBlock(l) == IF l \in DOMAIN Planned THEN Commitments(Planned[l]) ELSE FirstTables[l]
FirstComs == FlattenSeq([i \in DOMAIN Labels |-> FirstBlock(Labels[i])])
RowCounts(s) == <<Multiplicities(FromView(FirstTables, s, OutputTable(FirstTables, Count)), SourceView(s))>>
LastTables ==
  IF HasOne THEN FirstTables
  ELSE [FirstTables EXCEPT !.left_rows = RowCounts("left"), !.right_rows = RowCounts("right")]
LastComs == FirstComs \o LastTables.left_rows \o LastTables.right_rows
ReadOff(list) ==
  [l \in Range(Labels) |-> [n \in Range(Schema(l)) |->
    list[CHOOSE i \in DOMAIN SchemaColumns : SchemaColumns[i] = <<l, n>>]]]

LEMMA SameTables ==
  ASSUME query' = query, mode' = mode
  PROVE  FirstTables' = FirstTables /\ FirstComs' = FirstComs /\ LastTables' = LastTables
<1>1. Planned' = Planned /\ Count' = Count /\ (HasOne' <=> HasOne)
  BY SamePlan
<1>2. Encoded' = Encoded
  BY <1>1 DEF Encoded
<1>3. \A s : KeyView(s)' = KeyView(s) /\ SourceView(s)' = SourceView(s)
  BY SameClaims
<1>4. \A c : UnionView(c)' = UnionView(c)
  BY SameClaims
<1>5. UnionFields' = UnionFields
  BY SameRows DEF UnionFields
<1>6. \A s : KeyCounts(s)' = KeyCounts(s)
  <2> TAKE s
  <2>1. UnionView(Encoded)' = UnionView(Encoded)
    BY <1>2, <1>5 DEF UnionView
  <2> QED BY <1>3, <2>1 DEF KeyCounts
<1>7. FirstTables' = FirstTables
  BY <1>1, <1>2, <1>6 DEF FirstTables
<1>8. FirstComs' = FirstComs
  <2>1. \A l : FirstBlock(l)' = FirstBlock(l)
    BY <1>1, <1>7 DEF FirstBlock
  <2> QED BY <2>1 DEF FirstComs
<1>9. FkSide' = FkSide /\ Input(FkSide)' = Input(FkSide)
  BY SameOutput, SameRows DEF Input
<1>10. OutputTable(FirstTables, Count)' = OutputTable(FirstTables, Count)
  BY <1>1, <1>7, <1>9 DEF OutputTable
<1>11. \A s : RowCounts(s)' = RowCounts(s)
  BY <1>3, <1>7, <1>10 DEF RowCounts, FromView
<1>12. LastTables' = LastTables
  BY <1>1, <1>7, <1>11 DEF LastTables
<1> QED BY <1>7, <1>8, <1>12

LEMMA LabelsAre ==
  /\ DOMAIN Labels = 1..9 /\ Len(Labels) = 9
  /\ \A k \in 1..9 : Labels[k] \in Range(Labels)
  /\ \A l \in Range(Labels) : \E k \in 1..9 : Labels[k] = l
  /\ \A k, l \in 1..9 : Labels[k] = Labels[l] => k = l
  /\ \A k \in 1..9 : k > 7 <=> Labels[k] \in {"left_rows", "right_rows"}
  /\ Labels[8] = "left_rows" /\ Labels[9] = "right_rows"
<1>1. DOMAIN Labels = 1..9 /\ Len(Labels) = 9
  BY DEF Labels
<1>2. /\ Labels[1] = "output" /\ Labels[2] = "src_left" /\ Labels[3] = "src_right"
      /\ Labels[4] = "pairs" /\ Labels[5] = "union" /\ Labels[6] = "left_keys"
      /\ Labels[7] = "right_keys" /\ Labels[8] = "left_rows" /\ Labels[9] = "right_rows"
  BY DEF Labels
<1>3. \A k \in 1..9 : k \in {1, 2, 3, 4, 5, 6, 7, 8, 9}
  OBVIOUS
<1>4. \A k, l \in 1..9 : Labels[k] = Labels[l] => k = l
  BY <1>2, <1>3
<1>5. \A k \in 1..9 : k > 7 <=> Labels[k] \in {"left_rows", "right_rows"}
  BY <1>2, <1>3
<1> QED BY <1>1, <1>2, <1>4, <1>5 DEF Range

\* What a label's table has committed, column by column.
Block(l) == [j \in DOMAIN Schema(l) |-> LastTables[l][Schema(l)[j]]]

LEMMA TablesFit ==
  ASSUME query \in Queries
  PROVE  /\ \A l \in Range(Labels) :
              /\ Schema(l) \in Seq(Int) /\ LastTables[l] = [c \in Range(Schema(l)) |-> LastTables[l][c]]
              /\ l \notin {"left_rows", "right_rows"} => FirstBlock(l) = Block(l)
              /\ l \in {"left_rows", "right_rows"} => FirstBlock(l) = <<>> /\ LastTables[l] = Block(l)
         /\ LastTables = [l \in Range(Labels) |-> LastTables[l]]
<1>1. Range(Labels) = {"output", "src_left", "src_right", "pairs", "union",
                       "left_keys", "right_keys", "left_rows", "right_rows"}
  BY DEF Labels, Range
<1>2. \A l \in DOMAIN Planned : l \in Range(Labels) /\ Fits(Planned[l], Schema(l))
  BY FramesFit
<1>3. DOMAIN Planned = IF HasOne THEN {"output"}
                       ELSE {"output", "src_left", "src_right", "pairs", "union"}
  BY DEF Planned, GadgetFrames
<1>4. Encoded = [l \in Range(Labels) |-> Encoded[l]] /\ FirstTables = [l \in Range(Labels) |-> FirstTables[l]]
      /\ LastTables = [l \in Range(Labels) |-> LastTables[l]]
  BY DEF Encoded, FirstTables, LastTables
<1>5. ASSUME NEW l \in DOMAIN Planned
      PROVE  /\ LastTables[l] = EncodedColumns(Planned[l]) /\ FirstBlock(l) = Commitments(Planned[l])
             /\ l \notin {"left_rows", "right_rows"}
  <2>1. Encoded[l] = EncodedColumns(Planned[l]) /\ l \in Range(Labels)
    BY <1>2 DEF Encoded
  <2>2. l \notin {"left_keys", "right_keys", "left_rows", "right_rows"}
    BY <1>3
  <2>3. FirstTables[l] = Encoded[l]
    BY <1>4, <2>1, <2>2 DEF FirstTables
  <2>4. LastTables[l] = FirstTables[l]
    BY <1>4, <2>1, <2>2 DEF LastTables
  <2> QED BY <2>1, <2>2, <2>3, <2>4 DEF FirstBlock
<1>6. ASSUME NEW l \in DOMAIN Planned
      PROVE  /\ Schema(l) \in Seq(Int) /\ LastTables[l] = [c \in Range(Schema(l)) |-> LastTables[l][c]]
             /\ FirstBlock(l) = Block(l)
  <2>1. Schema(l) \in Seq(Int) /\ MatFields(Planned[l]) = Schema(l) /\ Planned[l].mat = Range(Schema(l))
    BY <1>2 DEF Fits
  <2>2. EncodedColumns(Planned[l]) = [c \in Range(Schema(l)) |-> EncodedColumns(Planned[l])[c]]
    BY <2>1 DEF EncodedColumns
  <2>3. Commitments(Planned[l]) = [j \in DOMAIN Schema(l) |-> EncodedColumns(Planned[l])[Schema(l)[j]]]
    BY <2>1 DEF Commitments
  <2>4. LastTables[l] = EncodedColumns(Planned[l]) /\ FirstBlock(l) = Commitments(Planned[l])
    BY <1>5
  <2>5. LastTables[l] = [c \in Range(Schema(l)) |-> LastTables[l][c]]
    BY <2>2, <2>4
  <2>6. FirstBlock(l) = Block(l)
    BY <2>3, <2>4 DEF Block
  <2> QED BY <2>1, <2>5, <2>6
<1>7. ASSUME NEW l \in Range(Labels), l \notin DOMAIN Planned, HasOne
      PROVE  Schema(l) = <<>> /\ LastTables[l] = <<>> /\ FirstBlock(l) = <<>>
  <2>1. Schema(l) = <<>>
    BY <1>3, <1>7 DEF Schema
  <2>2. Encoded[l] = <<>> /\ FirstTables = Encoded /\ LastTables = Encoded
    BY <1>7 DEF Encoded, FirstTables, LastTables
  <2> QED BY <1>7, <2>1, <2>2 DEF FirstBlock
<1>8. ASSUME NEW l \in Range(Labels), l \notin DOMAIN Planned, ~HasOne
      PROVE  /\ Schema(l) = <<1>> /\ \E x : LastTables[l] = <<x>>
             /\ FirstBlock(l) = IF l \in {"left_rows", "right_rows"} THEN <<>> ELSE LastTables[l]
  <2>1. l \in {"left_keys", "right_keys", "left_rows", "right_rows"}
    BY <1>1, <1>3, <1>8
  <2>2. Schema(l) = <<1>>
    BY <1>8, <2>1 DEF Schema, FullSchema
  <2>3. FirstTables = [Encoded EXCEPT !.left_keys = KeyCounts("left"), !.right_keys = KeyCounts("right")]
    BY <1>8 DEF FirstTables
  <2>4. LastTables = [FirstTables EXCEPT !.left_rows = RowCounts("left"), !.right_rows = RowCounts("right")]
    BY <1>8 DEF LastTables
  <2>5. FirstBlock(l) = FirstTables[l]
    BY <1>8 DEF FirstBlock
  <2>6. CASE l \in {"left_rows", "right_rows"}
    <3>1. FirstTables[l] = Encoded[l] /\ Encoded[l] = <<>>
      BY <1>4, <1>8, <2>3, <2>6 DEF Encoded
    <3>2. LastTables[l] = RowCounts("left") \/ LastTables[l] = RowCounts("right")
      BY <1>4, <1>8, <2>4, <2>6
    <3>3. \E x : LastTables[l] = <<x>>
      BY <3>2 DEF RowCounts
    <3> QED BY <2>2, <2>5, <2>6, <3>1, <3>3
  <2>7. CASE l \notin {"left_rows", "right_rows"}
    <3>1. LastTables[l] = FirstTables[l]
      BY <1>4, <1>8, <2>4, <2>7
    <3>2. FirstTables[l] = KeyCounts("left") \/ FirstTables[l] = KeyCounts("right")
      BY <1>4, <1>8, <2>1, <2>3, <2>7
    <3>3. \E x : LastTables[l] = <<x>>
      BY <3>1, <3>2 DEF KeyCounts
    <3> QED BY <2>2, <2>5, <2>7, <3>1, <3>3
  <2> QED BY <2>6, <2>7
<1>9. \A x : <<x>> = [c \in Range(<<1>>) |-> <<x>>[c]] /\ <<x>> = [j \in DOMAIN <<1>> |-> <<x>>[<<1>>[j]]]
  <2> TAKE x
  <2>1. Range(<<1>>) = {1} /\ DOMAIN <<1>> = {1} /\ DOMAIN <<x>> = {1} /\ <<1>>[1] = 1
    BY DEF Range
  <2>2. <<x>> = [c \in {1} |-> <<x>>[c]]
    OBVIOUS
  <2>3. <<x>> = [c \in Range(<<1>>) |-> <<x>>[c]]
    BY <2>1, <2>2
  <2>4. <<x>> = [j \in DOMAIN <<1>> |-> <<x>>[<<1>>[j]]]
    <3> DEFINE y == <<x>>
               one == <<1>>
    <3>1. y = [c \in {1} |-> y[c]] /\ DOMAIN one = {1} /\ one[1] = 1
      BY <2>1, <2>2
    <3> HIDE DEF y, one
    <3>2. y = [j \in DOMAIN one |-> y[one[j]]]
      BY <3>1
    <3> QED BY <3>2 DEF y, one
  <2> QED BY <2>3, <2>4
<1>10. \A f : <<>> = [c \in Range(<<>>) |-> f[c]] /\ <<>> = [j \in DOMAIN <<>> |-> f[<<>>[j]]]
  <2> TAKE f
  <2>1. Range(<<>>) = {} /\ DOMAIN <<>> = {}
    BY DEF Range
  <2> DEFINE e == <<>>
  <2>2. e = [c \in {} |-> f[c]] /\ e = [j \in {} |-> f[e[j]]]
    OBVIOUS
  <2> QED BY <2>1, <2>2
<1>11. ASSUME NEW l \in Range(Labels), l \notin DOMAIN Planned
       PROVE  /\ Schema(l) \in Seq(Int) /\ LastTables[l] = [c \in Range(Schema(l)) |-> LastTables[l][c]]
              /\ LastTables[l] = Block(l)
              /\ FirstBlock(l) = IF l \in {"left_rows", "right_rows"} THEN <<>> ELSE LastTables[l]
  <2>1. CASE HasOne
    <3>1. Schema(l) = <<>> /\ LastTables[l] = <<>> /\ FirstBlock(l) = <<>>
      BY <1>7, <1>11, <2>1
    <3>2. LastTables[l] = [c \in Range(Schema(l)) |-> LastTables[l][c]] /\ LastTables[l] = Block(l)
      BY <1>10, <3>1 DEF Block
    <3>3. <<>> \in Seq(Int)
      OBVIOUS
    <3> QED BY <3>1, <3>2, <3>3
  <2>2. CASE ~HasOne
    <3>1. PICK x : LastTables[l] = <<x>>
      BY <1>8, <1>11, <2>2
    <3>2. Schema(l) = <<1>> /\ FirstBlock(l) = IF l \in {"left_rows", "right_rows"} THEN <<>> ELSE LastTables[l]
      BY <1>8, <1>11, <2>2
    <3>3. LastTables[l] = [c \in Range(Schema(l)) |-> LastTables[l][c]] /\ LastTables[l] = Block(l)
      BY <1>9, <3>1, <3>2 DEF Block
    <3>4. <<1>> \in Seq(Int)
      OBVIOUS
    <3> QED BY <3>2, <3>3, <3>4
  <2> QED BY <2>1, <2>2
<1>12. ASSUME NEW l \in Range(Labels)
       PROVE  /\ Schema(l) \in Seq(Int) /\ LastTables[l] = [c \in Range(Schema(l)) |-> LastTables[l][c]]
              /\ l \notin {"left_rows", "right_rows"} => FirstBlock(l) = Block(l)
              /\ l \in {"left_rows", "right_rows"} => FirstBlock(l) = <<>> /\ LastTables[l] = Block(l)
  <2>1. CASE l \in DOMAIN Planned
    BY <1>5, <1>6, <2>1
  <2>2. CASE l \notin DOMAIN Planned
    BY <1>11, <2>2
  <2> QED BY <2>1, <2>2
<1> QED BY <1>4, <1>12

LEMMA PlaceFound ==
  ASSUME NEW lists, NEW n, NEW at, Starts(lists, n, at), NEW q \in 1..at[n]
  PROVE  \E k \in 1..n : \E j \in 1..Len(lists[k]) : q = at[k - 1] + j
BY PlaceOf

\* A list of nine lists.
LEMMA NineLists ==
  ASSUME NEW S, NEW f, f = [k \in 1..9 |-> f[k]], \A k \in 1..9 : f[k] \in Seq(S)
  PROVE  f \in Seq(Seq(S)) /\ Len(f) = 9
<1> DEFINE T == Seq(S)
           n == 9
<1>1. n \in Nat /\ f \in [1..n -> T]
  OBVIOUS
<1> HIDE DEF T, n
<1>2. f \in Seq(T) /\ Len(f) = n
  BY <1>1, ListOf
<1> QED BY <1>2 DEF T, n

\* Where a list has blocks in the places that another has their names, a name
\* leads to its member of a block.
Named(names, n, label, sch) ==
  /\ \A k \in 1..n : \A j \in 1..Len(names[k]) : names[k][j] = <<label[k], sch[k][j]>>
  /\ \A k, l \in 1..n : label[k] = label[l] => k = l
Laid(found, names, n, at, blocks) ==
  \A k \in 1..n : \A j \in 1..Len(names[k]) : found[at[k - 1] + j] = blocks[k][j]
Found(found, all, name) == found[CHOOSE p \in DOMAIN all : all[p] = name]
Leads(found, all, label, sch, blocks, k, j, size) ==
  \E i \in 1..size : sch[k][i] = sch[k][j]
                     /\ Found(found, all, <<label[k], sch[k][j]>>) = blocks[k][i]
LEMMA ReadBack ==
  ASSUME NEW S, NEW n \in Nat, NEW names, NEW at, NEW all, Flat(all, S, names, n, at),
         NEW label, NEW sch, Named(names, n, label, sch),
         NEW found, NEW blocks, Laid(found, names, n, at, blocks),
         NEW k \in 1..n, NEW j \in 1..Len(names[k])
  PROVE  Leads(found, all, label, sch, blocks, k, j, Len(names[k]))
<1>1. /\ Starts(names, n, at) /\ all \in Seq(S) /\ Len(all) = at[n] /\ DOMAIN all = 1..at[n]
      /\ \A m \in 1..n : \A i \in 1..Len(names[m]) : all[at[m - 1] + i] = names[m][i]
  BY DEF Flat
<1> DEFINE want == <<label[k], sch[k][j]>>
           p == CHOOSE q \in DOMAIN all : all[q] = want
<1>2. at[k - 1] + j \in DOMAIN all /\ all[at[k - 1] + j] = want
  <2>1. \A m \in 1..n : \A i \in 1..Len(names[m]) : at[m - 1] + i \in 1..at[n]
    BY <1>1, PlaceOf
  <2>2. all[at[k - 1] + j] = names[k][j] /\ names[k][j] = want
    BY <1>1 DEF Named
  <2> QED BY <1>1, <2>1, <2>2
<1>3. p \in DOMAIN all /\ all[p] = want
  <2> HIDE DEF want
  <2> QED BY <1>2
<1> HIDE DEF p
<1>4. PICK m \in 1..n : \E i \in 1..Len(names[m]) : p = at[m - 1] + i
  <2>1. p \in 1..at[n] /\ Starts(names, n, at)
    BY <1>1, <1>3
  <2>2. \A q \in 1..at[n] : \E m \in 1..n : \E i \in 1..Len(names[m]) : q = at[m - 1] + i
    BY <2>1, PlaceFound
  <2> QED BY <2>1, <2>2
<1>5. PICK i \in 1..Len(names[m]) : p = at[m - 1] + i
  BY <1>4
<1>6. all[p] = <<label[m], sch[m][i]>>
  <2>1. all[p] = names[m][i]
    BY <1>1, <1>5
  <2> QED BY <2>1 DEF Named
<1>7. label[m] = label[k] /\ sch[m][i] = sch[k][j]
  BY <1>3, <1>6
<1>8. m = k
  BY <1>7 DEF Named
<1>9. found[p] = blocks[k][i]
  BY <1>5, <1>8 DEF Laid
<1> QED BY <1>5, <1>7, <1>8, <1>9 DEF p, Found, Leads

\* The verifier reads the prover's tables off the commitments.
LEMMA TablesRead ==
  ASSUME query \in Queries
  PROVE  ReadOff(LastComs) = LastTables
<1> DEFINE names == [k \in 1..9 |-> [j \in DOMAIN Schema(Labels[k]) |-> <<Labels[k], Schema(Labels[k])[j]>>]]
           firsts == [k \in 1..9 |-> FirstBlock(Labels[k])]
           blocks == [k \in 1..9 |-> Block(Labels[k])]
           sch == [k \in 1..9 |-> Schema(Labels[k])]
           size == [k \in 1..9 |-> Len(Schema(Labels[k]))]
           T == Range(Labels) \X Int
           S == (UNION {Range(firsts[k]) : k \in 1..9}) \cup (UNION {Range(blocks[k]) : k \in 1..9})
<1>7. \A k \in 1..9 : sch[k] = Schema(Labels[k]) /\ blocks[k] = Block(Labels[k])
  OBVIOUS
<1>1. \A k \in 1..9 : Labels[k] \in Range(Labels) /\ Schema(Labels[k]) \in Seq(Int)
                      /\ size[k] \in Nat /\ DOMAIN Schema(Labels[k]) = 1..size[k]
                      /\ \A j \in 1..size[k] : Schema(Labels[k])[j] \in Int
  <2> TAKE k \in 1..9
  <2>1. Labels[k] \in Range(Labels)
    BY LabelsAre
  <2>2. Schema(Labels[k]) \in Seq(Int)
    BY <2>1, TablesFit
  <2>3. size[k] = Len(Schema(Labels[k]))
    OBVIOUS
  <2> HIDE DEF size
  <2> QED BY <2>1, <2>2, <2>3
<1>2. /\ \A k \in 1..9 : firsts[k] = IF k <= 7 THEN blocks[k] ELSE <<>>
      /\ blocks[8] = LastTables.left_rows /\ blocks[9] = LastTables.right_rows
  <2>1. \A k \in 1..9 : k <= 7 => firsts[k] = blocks[k]
    <3> TAKE k \in 1..9
    <3>1. k <= 7 => Labels[k] \notin {"left_rows", "right_rows"}
      BY LabelsAre
    <3> QED BY <1>1, <3>1, TablesFit
  <2>2. \A k \in 1..9 : ~(k <= 7) => firsts[k] = <<>>
    <3> TAKE k \in 1..9
    <3>1. ~(k <= 7) => Labels[k] \in {"left_rows", "right_rows"}
      BY LabelsAre
    <3> QED BY <1>1, <3>1, TablesFit
  <2>3. blocks[8] = Block("left_rows") /\ blocks[9] = Block("right_rows")
    BY LabelsAre
  <2>4. "left_rows" \in Range(Labels) /\ "right_rows" \in Range(Labels)
    BY LabelsAre
  <2>5. blocks[8] = LastTables.left_rows /\ blocks[9] = LastTables.right_rows
    <3> HIDE DEF blocks
    <3> QED BY <2>3, <2>4, TablesFit
  <2> HIDE DEF firsts, blocks
  <2> QED BY <2>1, <2>2, <2>5
<1>3. \A k \in 1..9 : blocks[k] \in Seq(S) /\ Len(blocks[k]) = size[k] /\ DOMAIN blocks[k] = 1..size[k]
  <2> TAKE k \in 1..9
  <2>1. blocks[k] = [j \in 1..size[k] |-> LastTables[Labels[k]][Schema(Labels[k])[j]]]
    BY <1>1 DEF Block
  <2>2. DOMAIN blocks[k] = 1..size[k] /\ \A j \in 1..size[k] : blocks[k][j] \in S
    <3>1. DOMAIN blocks[k] = 1..size[k]
      BY <2>1
    <3>2. \A j \in 1..size[k] : blocks[k][j] \in Range(blocks[k])
      <4> HIDE DEF blocks, size
      <4> QED BY <3>1 DEF Range
    <3>3. Range(blocks[k]) \subseteq S
      <4> HIDE DEF blocks, firsts
      <4> QED OBVIOUS
    <3> HIDE DEF blocks, S, size
    <3> QED BY <3>1, <3>2, <3>3
  <2>3. blocks[k] \in [1..size[k] -> S]
    <3>1. blocks[k] = [j \in 1..size[k] |-> blocks[k][j]]
      <4>1. Block(Labels[k]) = [j \in DOMAIN Block(Labels[k]) |-> Block(Labels[k])[j]]
        BY DEF Block
      <4>2. blocks[k] = Block(Labels[k])
        BY <1>7
      <4> HIDE DEF blocks, size
      <4> QED BY <2>2, <4>1, <4>2
    <3> HIDE DEF blocks, S, size
    <3> QED BY <2>2, <3>1
  <2> HIDE DEF blocks, S, size
  <2> QED BY <1>1, <2>2, <2>3, ListOf
<1>4. firsts \in Seq(Seq(S)) /\ Len(firsts) = 9 /\ (\A k \in 1..9 : Len(firsts[k]) = IF k <= 7 THEN size[k] ELSE 0)
  <2>1. firsts = [k \in 1..9 |-> firsts[k]]
    OBVIOUS
  <2> HIDE DEF firsts, S, blocks, size
  <2>2. <<>> \in Seq(S) /\ Len(<<>>) = 0
    OBVIOUS
  <2>3. \A k \in 1..9 : firsts[k] \in Seq(S)
    BY <1>2, <1>3, <2>2
  <2>4. firsts \in Seq(Seq(S)) /\ Len(firsts) = 9
    BY <2>1, <2>3, NineLists
  <2>5. \A k \in 1..9 : Len(firsts[k]) = IF k <= 7 THEN size[k] ELSE 0
    BY <1>2, <1>3, <2>2
  <2> QED BY <2>4, <2>5
<1>5. names \in Seq(Seq(T)) /\ Len(names) = 9
      /\ (\A k \in 1..9 : Len(names[k]) = size[k] /\ \A j \in 1..size[k] : names[k][j] = <<Labels[k], sch[k][j]>>)
  <2>1. \A k \in 1..9 : names[k] \in Seq(T) /\ Len(names[k]) = size[k]
                        /\ \A j \in 1..size[k] : names[k][j] = <<Labels[k], sch[k][j]>>
    <3> TAKE k \in 1..9
    <3> DEFINE list == [j \in 1..size[k] |-> <<Labels[k], Schema(Labels[k])[j]>>]
    <3>1. names[k] = list /\ sch[k] = Schema(Labels[k])
      BY <1>1
    <3>2. list \in [1..size[k] -> T]
      BY <1>1
    <3>3. \A j \in 1..size[k] : list[j] = <<Labels[k], Schema(Labels[k])[j]>>
      OBVIOUS
    <3> HIDE DEF list, names, sch, size, T
    <3>4. list \in Seq(T) /\ Len(list) = size[k]
      BY <1>1, <3>2, ListOf
    <3> QED BY <3>1, <3>3, <3>4
  <2>2. names = [k \in 1..9 |-> names[k]]
    OBVIOUS
  <2> HIDE DEF names, T, sch, size
  <2>3. names \in Seq(Seq(T)) /\ Len(names) = 9
    BY <2>1, <2>2, NineLists
  <2> QED BY <2>1, <2>3
<1>6. SchemaColumns = FlattenSeq(names) /\ FirstComs = FlattenSeq(firsts)
  <2>1. DOMAIN Labels = 1..9
    BY LabelsAre
  <2> QED BY <2>1 DEF SchemaColumns, FirstComs
<1> HIDE DEF names, firsts, blocks, sch, size, T, S
<1>8. PICK at : Flat(SchemaColumns, T, names, 9, at)
  BY <1>5, <1>6, Flattened
<1>9. PICK bt : Flat(FirstComs, S, firsts, 9, bt)
  BY <1>4, <1>6, Flattened
<1>10. /\ Starts(names, 9, at) /\ SchemaColumns \in Seq(T) /\ Len(SchemaColumns) = at[9]
       /\ at \in [0..9 -> Nat] /\ at[0] = 0 /\ \A k \in 1..9 : at[k] = at[k - 1] + size[k]
  BY <1>5, <1>8 DEF Flat, Starts
<1>11. /\ Starts(firsts, 9, bt) /\ FirstComs \in Seq(S) /\ Len(FirstComs) = bt[9]
       /\ bt \in [0..9 -> Nat] /\ bt[0] = 0 /\ (\A k \in 1..9 : bt[k] = bt[k - 1] + IF k <= 7 THEN size[k] ELSE 0)
       /\ \A k \in 1..9 : \A j \in 1..Len(firsts[k]) : FirstComs[bt[k - 1] + j] = firsts[k][j]
  BY <1>4, <1>9 DEF Flat, Starts
<1>12. \A k \in 0..7 : bt[k] = at[k]
  <2>1. \A k \in 1..7 : k \in 1..9 /\ k - 1 \in 0..7
    OBVIOUS
  <2>2. \A k \in 1..7 : at[k] = at[k - 1] + size[k] /\ bt[k] = bt[k - 1] + size[k]
    <3> TAKE k \in 1..7
    <3>1. k \in 1..9 /\ k <= 7
      BY <2>1
    <3>2. at[k] = at[k - 1] + size[k]
      BY <1>10, <3>1
    <3>3. bt[k] = bt[k - 1] + IF k <= 7 THEN size[k] ELSE 0
      BY <1>11, <3>1
    <3> QED BY <3>1, <3>2, <3>3
  <2>3. bt[0] = at[0]
    BY <1>10, <1>11
  <2>4. bt[1] = at[1]
    BY <2>2, <2>3
  <2>5. bt[2] = at[2]
    BY <2>2, <2>4
  <2>6. bt[3] = at[3]
    BY <2>2, <2>5
  <2>7. bt[4] = at[4]
    BY <2>2, <2>6
  <2>8. bt[5] = at[5]
    BY <2>2, <2>7
  <2>9. bt[6] = at[6]
    BY <2>2, <2>8
  <2>10. bt[7] = at[7]
    BY <2>2, <2>9
  <2>11. \A k \in 0..7 : k \in {0, 1, 2, 3, 4, 5, 6, 7}
    OBVIOUS
  <2> QED BY <2>3, <2>4, <2>5, <2>6, <2>7, <2>8, <2>9, <2>10, <2>11
<1>13. Len(FirstComs) = at[7] /\ at[7] \in Nat /\ at[8] = at[7] + size[8]
  <2>1. bt[7] = at[7] /\ at[7] \in Nat
    BY <1>10, <1>12
  <2>2. 8 \in 1..9 /\ 9 \in 1..9 /\ 8 - 1 = 7 /\ 9 - 1 = 8 /\ ~(8 <= 7) /\ ~(9 <= 7)
    OBVIOUS
  <2>3. bt[8] = bt[7] + 0 /\ bt[9] = bt[8] + 0
    BY <1>11, <2>2
  <2>4. at[8] = at[7] + size[8]
    BY <1>10, <2>2
  <2>5. bt[9] = at[7]
    BY <2>1, <2>3
  <2> QED BY <1>11, <2>1, <2>4, <2>5
<1> DEFINE some == FirstComs \o blocks[8]
           sent == some \o blocks[9]
<1>14. LastComs = sent
  BY <1>2 DEF LastComs
<1>15. /\ some \in Seq(S) /\ Len(some) = at[8] /\ (\A i \in 1..at[7] : some[i] = FirstComs[i])
       /\ \A j \in 1..size[8] : some[at[7] + j] = blocks[8][j]
  <2>1. some \in Seq(S) /\ ConsistsOf(some, FirstComs, at[7], blocks[8], size[8])
    <3>1. FirstComs \in Seq(S) /\ blocks[8] \in Seq(S) /\ at[7] = Len(FirstComs) /\ size[8] = Len(blocks[8])
      BY <1>3, <1>11, <1>13
    <3> QED BY <3>1, Joined
  <2> HIDE DEF some
  <2> QED BY <1>13, <2>1 DEF ConsistsOf
<1> HIDE DEF some
<1>16. /\ (\A i \in 1..at[8] : sent[i] = some[i])
       /\ \A j \in 1..size[9] : sent[at[8] + j] = blocks[9][j]
  <2>1. ConsistsOf(sent, some, at[8], blocks[9], size[9])
    <3>1. some \in Seq(S) /\ blocks[9] \in Seq(S) /\ at[8] = Len(some) /\ size[9] = Len(blocks[9])
      BY <1>3, <1>15
    <3> QED BY <3>1, Joined
  <2> HIDE DEF sent
  <2> QED BY <2>1 DEF ConsistsOf
<1> HIDE DEF sent
<1>17. \A k \in 1..9 : \A j \in 1..Len(names[k]) : sent[at[k - 1] + j] = blocks[k][j]
  <2> TAKE k \in 1..9
  <2> TAKE j \in 1..Len(names[k])
  <2>1. j \in 1..size[k] /\ size[k] \in Nat
    BY <1>1, <1>5
  <2>2. CASE k <= 7
    <3>1. k - 1 \in 0..9 /\ k \in 0..9 /\ k - 1 \in 0..7 /\ 7 \in 0..9 /\ k <= 7
      BY <2>2
    <3>2. at[k] <= at[7] /\ at[k] = at[k - 1] + size[k] /\ at[k - 1] \in Nat /\ at[k] \in Nat
      BY <1>10, <3>1, StartsRise
    <3>3. at[k - 1] + j \in 1..at[7] /\ at[k - 1] + j \in 1..at[8]
      <4>1. size[8] \in Nat
        BY <1>1
      <4> DEFINE x == at[k - 1]
                 y == at[k]
                 z == at[7]
                 d == size[k]
                 e == size[8]
      <4>2. x \in Nat /\ y \in Nat /\ z \in Nat /\ d \in Nat /\ e \in Nat /\ j \in 1..d
            /\ y = x + d /\ y <= z /\ at[8] = z + e
        BY <1>13, <2>1, <3>2, <4>1
      <4> HIDE DEF x, y, z, d, e
      <4>3. x + j \in 1..z /\ x + j \in 1..at[8]
        BY <4>2
      <4> QED BY <4>3 DEF x, z
    <3>4. FirstComs[at[k - 1] + j] = firsts[k][j]
      <4>1. Len(firsts[k]) = size[k] /\ bt[k - 1] = at[k - 1]
        BY <1>4, <1>12, <2>2, <3>1
      <4> QED BY <1>11, <2>1, <4>1
    <3> QED BY <1>2, <1>15, <1>16, <2>2, <3>3, <3>4
  <2>3. CASE k = 8
    <3>1. at[7] + j \in 1..at[8]
      BY <1>13, <2>1, <2>3
    <3>2. some[at[7] + j] = blocks[8][j]
      BY <1>15, <2>1, <2>3
    <3>3. k - 1 = 7
      BY <2>3
    <3> QED BY <1>16, <2>3, <3>1, <3>2, <3>3
  <2>4. CASE k = 9
    <3>1. k - 1 = 8
      BY <2>4
    <3> QED BY <1>16, <2>1, <2>4, <3>1
  <2> QED BY <2>2, <2>3, <2>4
<1>18. ASSUME NEW l \in Range(Labels), NEW c \in Range(Schema(l))
       PROVE  Found(sent, SchemaColumns, <<l, c>>) = LastTables[l][c]
  <2>1. PICK k \in 1..9 : Labels[k] = l
    BY LabelsAre
  <2>2. PICK j \in 1..size[k] : Schema(l)[j] = c
    BY <1>1, <2>1 DEF Range
  <2>3. \A m \in 1..9 : \A i \in 1..Len(names[m]) : names[m][i] = <<Labels[m], sch[m][i]>>
    BY <1>5
  <2>4. j \in 1..Len(names[k]) /\ Len(names[k]) = size[k] /\ sch[k] = Schema(l)
    BY <1>5, <1>7, <2>1
  <2>5. \A m, i \in 1..9 : Labels[m] = Labels[i] => m = i
    BY LabelsAre
  <2>6. Leads(sent, SchemaColumns, Labels, sch, blocks, k, j, Len(names[k]))
    <3> DEFINE n == 9
    <3>1. n \in Nat
      OBVIOUS
    <3>2. /\ Flat(SchemaColumns, T, names, n, at) /\ k \in 1..n
          /\ Named(names, n, Labels, sch) /\ Laid(sent, names, n, at, blocks)
      BY <1>8, <1>17, <2>3, <2>5 DEF Named, Laid
    <3> HIDE DEF n
    <3>3. j \in 1..Len(names[k]) /\ k \in 1..n
      BY <2>4, <3>2
    <3> QED BY <3>1, <3>2, <3>3, ReadBack
  <2>7. PICK i \in 1..size[k] :
          Schema(l)[i] = c
          /\ Found(sent, SchemaColumns, <<l, c>>) = blocks[k][i]
    BY <2>1, <2>2, <2>4, <2>6 DEF Leads
  <2>8. blocks[k][i] = LastTables[l][Schema(l)[i]]
    BY <1>1, <1>7, <2>1, <2>7 DEF Block
  <2> QED BY <2>7, <2>8
<1>19. \A l \in Range(Labels) : LastTables[l] = [c \in Range(Schema(l)) |->
          Found(sent, SchemaColumns, <<l, c>>)]
  <2> TAKE l \in Range(Labels)
  <2>1. LastTables[l] = [c \in Range(Schema(l)) |-> LastTables[l][c]]
    BY TablesFit
  <2> QED BY <1>18, <2>1
<1>20. LastTables = [l \in Range(Labels) |-> LastTables[l]]
  BY TablesFit
<1>21. ReadOff(sent) = [l \in Range(Labels) |-> [c \in Range(Schema(l)) |->
          Found(sent, SchemaColumns, <<l, c>>)]]
  BY DEF ReadOff, Found
<1>22. ReadOff(sent) = LastTables
  BY <1>19, <1>20, <1>21
<1> QED BY <1>14, <1>22

-----------------------------------------------------------------------------
(* The verifier gets the prover's tables.                                  *)

\* What both sides have once something was committed.
LastClaims == JoinClaims(LastTables, misc.count, misc.sum)
TableInv ==
  /\ pc \in {"check", "prove"} => tabs = FirstTables /\ coms = FirstComs
  /\ pc = "sent" => tabs = LastTables /\ coms = LastComs /\ claims = LastClaims
  /\ vpc # "track" => pc = "sent" /\ vtabs = LastTables
  /\ vpc = "done" => vclaims = LastClaims

LEMMA Framed ==
  ASSUME query' = query, mode' = mode
  PROVE  /\ FirstTables' = FirstTables /\ FirstComs' = FirstComs /\ LastTables' = LastTables
         /\ LastComs' = LastComs /\ (misc' = misc => LastClaims' = LastClaims)
<1>1. FirstTables' = FirstTables /\ FirstComs' = FirstComs /\ LastTables' = LastTables
  BY SameTables
<1>2. LastComs' = LastComs
  BY <1>1 DEF LastComs
<1>3. ASSUME misc' = misc PROVE LastClaims' = LastClaims
  <2>1. \A c, n, m : JoinClaims(c, n, m)' = JoinClaims(c, n, m)
    BY SameClaims
  <2> QED BY <1>1, <1>3, <2>1 DEF LastClaims
<1> QED BY <1>1, <1>2, <1>3

LEMMA TablesHold == Spec => []TableInv
<1>1. Init => TableInv
  BY DEF Init, TableInv
<1>2. PlanInv /\ TableInv /\ [Next]_vars => TableInv'
  <2> SUFFICES ASSUME PlanInv, TableInv, [Next]_vars PROVE TableInv'
    OBVIOUS
  <2> DEFINE same == query' = query /\ mode' = mode
  <2>1. ASSUME same
        PROVE  /\ FirstTables' = FirstTables /\ FirstComs' = FirstComs /\ LastTables' = LastTables
               /\ LastComs' = LastComs /\ (misc' = misc => LastClaims' = LastClaims)
    BY <2>1, Framed
  <2>2. ASSUME vpc' = vpc, pc # "sent", pc' \notin {"check", "prove", "sent"} PROVE TableInv'
    BY <2>2 DEF TableInv
  <2>3. CASE SetJoinMode \/ Plan \/ GadgetPlan
    <3>1. vpc' = vpc /\ pc # "sent" /\ pc' \notin {"check", "prove", "sent"}
      BY <2>3 DEF SetJoinMode, Plan, GadgetPlan, vvars
    <3> QED BY <2>2, <3>1
  <2>4. CASE Commit
    <3> DEFINE c == [l \in Range(Labels) |->
                      IF l \in DOMAIN frames THEN EncodedColumns(frames[l]) ELSE <<>>]
               keys(s) == <<Multiplicities(KeyView(s), UnionView(c))>>
               counted == IF HasOne THEN c
                          ELSE [c EXCEPT !.left_keys = keys("left"), !.right_keys = keys("right")]
               list == FlattenSeq([i \in DOMAIN Labels |->
                         IF Labels[i] \in DOMAIN frames THEN Commitments(frames[Labels[i]])
                         ELSE counted[Labels[i]]])
    <3>1. same /\ pc = "commit" /\ vpc' = vpc /\ pc' \in {"check", "prove", "panic"}
          /\ coms' = list /\ tabs' = counted
      BY <2>4 DEF Commit, vvars
    <3>2. frames = Planned
      BY <3>1 DEF PlanInv
    <3>3. c = Encoded
      BY <3>2 DEF Encoded
    <3>4. \A s : keys(s) = KeyCounts(s)
      <4> HIDE DEF c
      <4> QED BY <3>3 DEF KeyCounts
    <3>5. counted = FirstTables
      <4> HIDE DEF c, keys
      <4> QED BY <3>3, <3>4 DEF FirstTables
    <3>6. list = FirstComs
      <4> HIDE DEF counted
      <4> QED BY <3>2, <3>5 DEF FirstComs, FirstBlock
    <3> HIDE DEF c, keys, counted, list
    <3> QED BY <2>1, <3>1, <3>5, <3>6 DEF TableInv
  <2>5. CASE Check
    <3>1. same /\ pc = "check" /\ pc' \in {"prove", "error"} /\ vpc' = vpc
          /\ tabs' = tabs /\ coms' = coms
      BY <2>5 DEF Check, vvars
    <3> HIDE DEF same
    <3> QED BY <2>1, <3>1 DEF TableInv
  <2>6. CASE Prove
    <3> DEFINE out == OutputTable(tabs, misc.count)
               rows(s) == <<Multiplicities(FromView(tabs, s, out), SourceView(s))>>
               c == IF HasOne THEN tabs
                    ELSE [tabs EXCEPT !.left_rows = rows("left"), !.right_rows = rows("right")]
               sum == IF HasOne THEN 0 ELSE Total(out[Act])
    <3>1. same /\ pc = "prove" /\ pc' = "sent" /\ vpc' = vpc
          /\ tabs' = c /\ coms' = coms \o c.left_rows \o c.right_rows
          /\ misc' = [misc EXCEPT !.sum = sum] /\ claims' = JoinClaims(c, misc.count, sum)
      BY <2>6 DEF Prove, vvars
    <3>2. tabs = FirstTables /\ coms = FirstComs /\ misc.count = Count
          /\ misc = [count |-> misc.count, sum |-> misc.sum] /\ vpc = "track"
      BY <3>1 DEF PlanInv, TableInv
    <3>3. out = OutputTable(FirstTables, Count)
      BY <3>2
    <3>4. \A s : rows(s) = RowCounts(s)
      <4> HIDE DEF out
      <4> QED BY <3>2, <3>3 DEF RowCounts
    <3>5. c = LastTables
      <4> HIDE DEF out, rows
      <4> QED BY <3>2, <3>4 DEF LastTables
    <3> HIDE DEF c, sum
    <3>6. coms' = LastComs
      BY <3>1, <3>2, <3>5 DEF LastComs
    <3>7. misc'.count = misc.count /\ misc'.sum = sum
      BY <3>1, <3>2
    <3>8. claims' = LastClaims'
      <4>1. \A d, n, m : JoinClaims(d, n, m)' = JoinClaims(d, n, m)
        BY <3>1, SameClaims
      <4>2. LastTables' = LastTables
        BY <2>1, <3>1
      <4>3. LastClaims' = JoinClaims(LastTables, misc'.count, misc'.sum)
        BY <4>1, <4>2 DEF LastClaims
      <4> QED BY <3>1, <3>5, <3>7, <4>3
    <3> HIDE DEF same
    <3> QED BY <2>1, <3>1, <3>2, <3>5, <3>6, <3>8 DEF TableInv
  <2>7. CASE VTrack
    <3>1. same /\ pc = "sent" /\ vpc = "track" /\ vpc' = "verify" /\ misc' = misc
          /\ pc' = pc /\ coms' = coms /\ tabs' = tabs /\ claims' = claims
          /\ vtabs' = ReadOff(coms)
      BY <2>7 DEF VTrack, pvars, ReadOff
    <3>2. coms = LastComs
      BY <3>1 DEF TableInv
    <3>3. vtabs' = LastTables
      BY <3>1, <3>2, TablesRead DEF PlanInv
    <3> HIDE DEF same
    <3> QED BY <2>1, <3>1, <3>3 DEF TableInv
  <2>8. CASE VClaim
    <3>1. same /\ vpc = "verify" /\ vpc' = "done" /\ misc' = misc
          /\ pc' = pc /\ coms' = coms /\ tabs' = tabs /\ claims' = claims /\ vtabs' = vtabs
          /\ vclaims' = JoinClaims(vtabs, misc.count, misc.sum)
      BY <2>8 DEF VClaim, pvars
    <3>2. vtabs = LastTables /\ pc = "sent"
      BY <3>1 DEF TableInv
    <3>3. vclaims' = LastClaims
      BY <3>1, <3>2 DEF LastClaims
    <3> HIDE DEF same
    <3> QED BY <2>1, <3>1, <3>2, <3>3 DEF TableInv
  <2>9. CASE UNCHANGED vars
    <3>1. same /\ misc' = misc /\ pc' = pc /\ coms' = coms /\ tabs' = tabs /\ claims' = claims
          /\ vpc' = vpc /\ vtabs' = vtabs /\ vclaims' = vclaims
      BY <2>9 DEF vars, pvars, vvars
    <3> HIDE DEF same
    <3> QED BY <2>1, <3>1 DEF TableInv
  <2> QED BY <2>3, <2>4, <2>5, <2>6, <2>7, <2>8, <2>9 DEF Next, Stop
<1> QED BY <1>1, <1>2, PlanHolds, PTL DEF Spec

\* Of every join the verifier gets the prover's tables, from the schemas, the
\* commitments and the counts sent, and makes the prover's claims of them.
THEOREM JoinMirrored == Spec => []VerifierMirrors
<1>1. TableInv => VerifierMirrors
  BY DEF TableInv, VerifierMirrors
<1> QED BY <1>1, TablesHold, PTL

-----------------------------------------------------------------------------
(* The output table and the join.                                          *)

\* The columns of a frame, whose i-th row by id is at place Spot.
Spot(rows, n, i) == Ranked(IdOrder(rows, n), n, i)

LEMMA FrameColumns ==
  ASSUME NEW n \in Nat, NEW f, \E i \in DOMAIN f.fields : f.fields[i] = RowId,
         Len(f.rows) = n, DOMAIN f.rows = 1..n,
         \A i \in 1..n : DOMAIN f.rows[i] = RowNames /\ f.rows[i][RowId] \in Int
  PROVE  /\ DOMAIN EncodedColumns(f) = f.mat
         /\ \A m \in f.mat :
              /\ DOMAIN EncodedColumns(f)[m] = 1..PowerOfTwo(n)
              /\ Len(EncodedColumns(f)[m]) = PowerOfTwo(n)
              /\ \A i \in 1..n : EncodedColumns(f)[m][i] = Enc(f.rows[Spot(f.rows, n, i)][m])
         /\ Act \in f.mat => \A i \in 1..PowerOfTwo(n) :
                               i > n => EncodedColumns(f)[Act][i] = Enc(0)
<1> DEFINE b == ById(f.rows)
           rows == Padded(b)
<1>1. InOrder(f) = rows
  BY DEF InOrder, Names
<1>2. DOMAIN b = 1..n /\ \A i \in 1..n : Spot(f.rows, n, i) \in 1..n /\ b[i] = f.rows[Spot(f.rows, n, i)]
  BY ByIdRows DEF Spot
<1>3. Len(b) = n
  <2>1. b = [i \in 1..n |-> b[i]]
    BY <1>2 DEF ById
  <2> HIDE DEF b
  <2> QED BY <2>1
<1> HIDE DEF b
<1>4. \A i \in 1..n : DOMAIN b[i] = RowNames
  BY <1>2
<1>5. /\ DOMAIN rows = 1..PowerOfTwo(n)
      /\ \A i \in 1..n : i \in 1..PowerOfTwo(n) /\ rows[i] = b[i]
      /\ \A i \in 1..PowerOfTwo(n) : i > n => rows[i][Act] = 0
  BY <1>2, <1>3, <1>4, PaddedRows
<1>6. EncodedColumns(f) = [m \in f.mat |-> [i \in 1..PowerOfTwo(n) |-> Enc(rows[i][m])]]
  BY <1>1, <1>5 DEF EncodedColumns
<1>7. PowerOfTwo(n) \in Nat
  BY PaddedSize
<1> HIDE DEF rows
<1>8. \A m : Len([i \in 1..PowerOfTwo(n) |-> Enc(rows[i][m])]) = PowerOfTwo(n)
  BY <1>7
<1>9. \A m \in f.mat : /\ DOMAIN EncodedColumns(f)[m] = 1..PowerOfTwo(n)
                       /\ Len(EncodedColumns(f)[m]) = PowerOfTwo(n)
                       /\ \A i \in 1..PowerOfTwo(n) : EncodedColumns(f)[m][i] = Enc(rows[i][m])
  <2> DEFINE p == PowerOfTwo(n)
             list(m) == [i \in 1..p |-> Enc(rows[i][m])]
  <2>1. \A m : DOMAIN list(m) = 1..p /\ \A i \in 1..p : list(m)[i] = Enc(rows[i][m])
    OBVIOUS
  <2>2. \A m : Len(list(m)) = p
    BY <1>8
  <2>3. \A m \in f.mat : EncodedColumns(f)[m] = list(m)
    BY <1>6
  <2> HIDE DEF p, list
  <2>4. \A m \in f.mat : DOMAIN EncodedColumns(f)[m] = 1..p /\ Len(EncodedColumns(f)[m]) = p
                         /\ \A i \in 1..p : EncodedColumns(f)[m][i] = Enc(rows[i][m])
    BY <2>1, <2>2, <2>3
  <2> QED BY <2>4 DEF p
<1>10. \A m \in f.mat : \A i \in 1..n : EncodedColumns(f)[m][i] = Enc(f.rows[Spot(f.rows, n, i)][m])
  <2> TAKE m \in f.mat
  <2> TAKE i \in 1..n
  <2>1. i \in 1..PowerOfTwo(n) /\ rows[i] = b[i] /\ b[i] = f.rows[Spot(f.rows, n, i)]
    BY <1>2, <1>5
  <2>2. EncodedColumns(f)[m][i] = Enc(rows[i][m])
    BY <1>9, <2>1
  <2> QED BY <2>1, <2>2
<1>11. Act \in f.mat => \A i \in 1..PowerOfTwo(n) : i > n => EncodedColumns(f)[Act][i] = Enc(0)
  BY <1>5, <1>9
<1> QED BY <1>6, <1>9, <1>10, <1>11

\* An order that is that of the numbers.
LEMMA RankedStays ==
  ASSUME NEW n \in Nat, NEW lt, IsOrder(lt, n), \A i, j \in 1..n : i < j => lt[i][j]
  PROVE  \A i \in 1..n : Ranked(lt, n, i) = i
<1> DEFINE id == [i \in 1..n |-> i]
<1>1. id \in [1..n -> 1..n] /\ (\A i \in 1..n : id[i] = i)
  OBVIOUS
<1>2. \A i, j \in 1..n : i < j => lt[id[i]][id[j]]
  BY <1>1
<1> HIDE DEF id
<1>3. \A i \in 1..n : Ranked(lt, n, i) = id[i]
  BY <1>1, <1>2, RankedIs
<1> QED BY <1>1, <1>3

\* Rows numbered as they come stay where they are.
LEMMA SpotStays ==
  ASSUME NEW n \in Nat, NEW rows, DOMAIN rows = 1..n, \A i \in 1..n : rows[i][RowId] = i - 1
  PROVE  \A i \in 1..n : Spot(rows, n, i) = i
<1> DEFINE lt == IdOrder(rows, n)
<1>1. \A i, j \in 1..n : i < j => lt[i][j]
  <2> TAKE i, j \in 1..n
  <2>1. rows[i][RowId] = i - 1 /\ rows[j][RowId] = j - 1
    OBVIOUS
  <2>2. lt[i][j] <=> rows[i][RowId] < rows[j][RowId] \/ (rows[i][RowId] = rows[j][RowId] /\ i < j)
    BY DEF IdOrder
  <2> HIDE DEF lt
  <2> QED BY <2>1, <2>2
<1>2. IsOrder(lt, n)
  <2>1. \A i \in 1..n : rows[i][RowId] \in Int
    OBVIOUS
  <2> QED BY <2>1, ByIdRows
<1> HIDE DEF lt
<1>3. \A i \in 1..n : Ranked(lt, n, i) = i
  BY <1>1, <1>2, RankedStays
<1> QED BY <1>3 DEF Spot, lt

\* Rows are put in order by their ids alone, and each has a place.
LEMMA SpotsAre ==
  ASSUME NEW n \in Nat, NEW rows, DOMAIN rows = 1..n, \A i \in 1..n : rows[i][RowId] \in Int
  PROVE  /\ \A i \in 1..n : Spot(rows, n, i) \in 1..n
         /\ \A m \in 1..n : \E i \in 1..n : Spot(rows, n, i) = m
         /\ \A i, j \in 1..n : Spot(rows, n, i) = Spot(rows, n, j) => i = j
<1> DEFINE lt == IdOrder(rows, n)
<1>1. IsOrder(lt, n)
  BY ByIdRows
<1> HIDE DEF lt
<1>2. /\ \A i \in 1..n : Ranked(lt, n, i) \in 1..n /\ Place(lt, n, Ranked(lt, n, i)) = i
      /\ \A m \in 1..n : Place(lt, n, m) \in 1..n /\ Ranked(lt, n, Place(lt, n, m)) = m
      /\ \A i, j \in 1..n : i < j <=> lt[Ranked(lt, n, i)][Ranked(lt, n, j)]
  BY <1>1, RankedOrder, Zenon
<1>3. \A i : Spot(rows, n, i) = Ranked(lt, n, i)
  BY DEF Spot, lt
<1>4. ASSUME NEW i \in 1..n, NEW j \in 1..n, Spot(rows, n, i) = Spot(rows, n, j) PROVE i = j
  <2>1. Ranked(lt, n, i) = Ranked(lt, n, j)
    BY <1>3, <1>4
  <2>2. Place(lt, n, Ranked(lt, n, i)) = Place(lt, n, Ranked(lt, n, j))
    BY <2>1
  <2> QED BY <1>2, <2>2
<1>5. \A i \in 1..n : Spot(rows, n, i) \in 1..n
  BY <1>2, <1>3
<1>6. \A m \in 1..n : \E i \in 1..n : Spot(rows, n, i) = m
  <2> TAKE m \in 1..n
  <2>1. Place(lt, n, m) \in 1..n /\ Spot(rows, n, Place(lt, n, m)) = m
    BY <1>2, <1>3
  <2> QED BY <2>1
<1> QED BY <1>4, <1>5, <1>6

AllCols == Cols("left") \o Cols("right")
LEMMA AllColumns == AllCols \in Seq(Int) /\ DOMAIN AllCols = 1..4 /\ \A j \in 1..4 : AllCols[j] = j
<1>1. Cols("left") = <<1, 2>> /\ Cols("right") = <<3, 4>>
  BY DEF Cols
<1> DEFINE a == Cols("left")
           b == Cols("right")
           c == a \o b
<1>2. a \in Seq(Int) /\ b \in Seq(Int) /\ Len(a) = 2 /\ Len(b) = 2
  <2>1. <<1, 2>> \in Seq(Int) /\ <<3, 4>> \in Seq(Int) /\ Len(<<1, 2>>) = 2 /\ Len(<<3, 4>>) = 2
    OBVIOUS
  <2> QED BY <1>1, <2>1, Zenon
<1>3. a[1] = 1 /\ a[2] = 2 /\ b[1] = 3 /\ b[2] = 4
  BY <1>1
<1> HIDE DEF a, b
<1>4. c \in Seq(Int) /\ ConsistsOf(c, a, 2, b, 2)
  BY <1>2, Joined
<1> HIDE DEF c
<1>5. Len(c) = 4 /\ (\A i \in 1..2 : c[i] = a[i]) /\ \A i \in 1..2 : c[2 + i] = b[i]
  BY <1>4 DEF ConsistsOf
<1>6. 1 \in 1..2 /\ 2 \in 1..2 /\ 2 + 1 = 3 /\ 2 + 2 = 4
  OBVIOUS
<1>7. c[1] = 1 /\ c[2] = 2 /\ c[3] = 3 /\ c[4] = 4
  BY <1>3, <1>5, <1>6
<1>8. \A j \in 1..4 : j \in {1, 2, 3, 4}
  OBVIOUS
<1>9. \A j \in 1..4 : c[j] = j
  BY <1>7, <1>8
<1>10. DOMAIN c = 1..4
  BY <1>4, <1>5
<1> QED BY <1>4, <1>9, <1>10 DEF AllCols, a, b, c

\* A row of the join as the table holds it, and the table and the join as they are compared.
RowCodes(l, r) == [j \in 1..4 |-> Enc(Combined(l, r)[j])]
Shown(out) == View(out, AllCols, out[Act])
JoinView ==
  [i \in DOMAIN JoinedPairs |->
    LET row == Combined(JoinedPairs[i][1], JoinedPairs[i][2])
    IN  [v |-> [n \in 1..4 |-> Enc(row[n])], on |-> TRUE]]

LEMMA ShownRows ==
  ASSUME NEW out, NEW n \in Nat, DOMAIN out[Act] = 1..n
  PROVE  /\ DOMAIN Shown(out) = 1..n
         /\ \A i \in 1..n : Shown(out)[i].on = (out[Act][i] = 1)
                            /\ Shown(out)[i].v = [j \in 1..4 |-> out[j][i]]
<1>1. Shown(out) = [i \in 1..n |-> [v |-> [j \in DOMAIN AllCols |-> out[AllCols[j]][i]], on |-> out[Act][i] = 1]]
  BY DEF Shown, View
<1>2. \A i : [j \in DOMAIN AllCols |-> out[AllCols[j]][i]] = [j \in 1..4 |-> out[j][i]]
  BY AllColumns
<1> QED BY <1>1, <1>2

\* Where the n active rows of a table are those of the join, each has its counterpart.
Counterparts(view, N, join, m, g) ==
  /\ N \in Nat /\ m \in Nat /\ DOMAIN view = 1..N /\ DOMAIN join = 1..m
  /\ \A p \in 1..m : join[p].on
  /\ g \in [1..m -> 1..N] /\ \A p, q \in 1..m : g[p] = g[q] => p = q
  /\ \A p \in 1..m : view[g[p]].on /\ view[g[p]].v = join[p].v
  /\ \A i \in 1..N : view[i].on => \E p \in 1..m : g[p] = i
LEMMA SameTimes ==
  ASSUME NEW view, NEW join, NEW N, NEW m, NEW g, Counterparts(view, N, join, m, g)
  PROVE  \A v : TimesIn(view, v) = TimesIn(join, v)
<1> TAKE v
<1> USE DEF Counterparts
<1> DEFINE S == {p \in 1..m : join[p].on /\ join[p].v = v}
           T == {i \in 1..N : view[i].on /\ view[i].v = v}
           h == [p \in S |-> g[p]]
<1>1. IsFiniteSet(S)
  <2>1. IsFiniteSet(1..m)
    BY FS_Interval
  <2> QED BY <2>1, FS_Subset
<1>2. h \in [S -> T]
  OBVIOUS
<1>3. \A x, y \in S : h[x] = h[y] => x = y
  OBVIOUS
<1>4. \A t \in T : \E x \in S : h[x] = t
  <2> TAKE t \in T
  <2>1. PICK p \in 1..m : g[p] = t
    OBVIOUS
  <2>2. p \in S
    BY <2>1
  <2> QED BY <2>1, <2>2
<1>5. TimesIn(view, v) = Cardinality(T) /\ TimesIn(join, v) = Cardinality(S)
  BY DEF TimesIn
<1> HIDE DEF S, T, h, Counterparts
<1>6. Cardinality(S) = Cardinality(T)
  BY <1>1, <1>2, <1>3, <1>4, CountMoved
<1> QED BY <1>5, <1>6

\* A whole output's table: the rows of the run in order, and behind them none that is active.
LEMMA FullTable ==
  ASSUME query \in Queries, ~HasOne, NEW c, c.output = EncodedColumns(FullOutput),
         NEW n \in Nat, DOMAIN JoinRun(1) = 1..n
  PROVE  /\ Len(FullOutput.rows) = n
         /\ DOMAIN OutputTable(c, n)[Act] = 1..PowerOfTwo(n)
         /\ \A i \in 1..PowerOfTwo(n) : OutputTable(c, n)[Act][i] = 1 <=> i <= n
         /\ \A i \in 1..n : \A j \in 1..4 :
              OutputTable(c, n)[j][i] = Enc(Combined(JoinRun(1)[i][1], JoinRun(1)[i][2])[j])
<1> DEFINE run == JoinRun(1)
           f == FullOutput
           row(i) == [Combined(run[i][1], run[i][2]) EXCEPT ![Act] = 1, ![RowId] = i - 1]
           e == EncodedColumns(f)
           out == OutputTable(c, n)
<1>1. f.rows = [i \in 1..n |-> row(i)]
  BY DEF FullOutput, Frame
<1>2. f.mat = {1, 2, 3, 4} /\ f.fields = AllCols \o <<Act, RowId>>
  BY ColumnsAre DEF FullOutput, Frame, AllCols
<1>3. \A i : /\ DOMAIN row(i) = RowNames /\ row(i)[RowId] = i - 1
             /\ \A j \in 1..4 : row(i)[j] = Combined(run[i][1], run[i][2])[j]
  <2> TAKE i
  <2>1. DOMAIN Combined(run[i][1], run[i][2]) = RowNames
    BY DEF Combined, RowNames
  <2>2. \A j \in 1..4 : j # Act /\ j # RowId /\ j \in RowNames
    BY ColumnsAre
  <2>3. Act \in RowNames /\ RowId \in RowNames /\ Act # RowId
    BY NamesOfRows
  <2> DEFINE x == Combined(run[i][1], run[i][2])
             y == i - 1
             z == [x EXCEPT ![Act] = 1, ![RowId] = y]
  <2>4. row(i) = z
    OBVIOUS
  <2> HIDE DEF x, y, row
  <2>5. DOMAIN x = RowNames
    BY <2>1 DEF x
  <2>6. DOMAIN z = RowNames /\ z[RowId] = y /\ \A j \in 1..4 : z[j] = x[j]
    BY <2>2, <2>3, <2>5
  <2> QED BY <2>4, <2>6 DEF x, y
<1>4. Len(f.rows) = n /\ DOMAIN f.rows = 1..n /\ \A i \in 1..n : f.rows[i] = row(i)
  <2> HIDE DEF row, f
  <2> QED BY <1>1
<1>5. \E i \in DOMAIN f.fields : f.fields[i] = RowId
  <2> DEFINE a == AllCols
             b == <<Act, RowId>>
  <2>1. a \in Seq(Int) /\ Len(a) = 4
    BY AllColumns
  <2>2. b \in Seq(Int) /\ Len(b) = 2 /\ b[2] = RowId
    BY ColumnsAre
  <2> HIDE DEF a, b
  <2> DEFINE d == a \o b
  <2>3. d \in Seq(Int) /\ ConsistsOf(d, a, 4, b, 2)
    BY <2>1, <2>2, Joined
  <2> HIDE DEF d
  <2>4. d \in Seq(Int) /\ Len(d) = 6 /\ \A i \in 1..2 : d[4 + i] = b[i]
    BY <2>3 DEF ConsistsOf
  <2>5. f.fields = d
    BY <1>2 DEF a, b, d
  <2> HIDE DEF f
  <2>6. 2 \in 1..2 /\ 4 + 2 = 6 /\ 6 \in DOMAIN d
    BY <2>4
  <2>7. d[6] = RowId
    BY <2>2, <2>4, <2>6
  <2> QED BY <2>5, <2>6, <2>7
<1> HIDE DEF f, row
<1>6. \A i \in 1..n : DOMAIN f.rows[i] = RowNames /\ f.rows[i][RowId] \in Int /\ f.rows[i][RowId] = i - 1
  BY <1>3, <1>4
<1>7. /\ DOMAIN e = f.mat
      /\ \A m \in f.mat :
           /\ DOMAIN e[m] = 1..PowerOfTwo(n) /\ Len(e[m]) = PowerOfTwo(n)
           /\ \A i \in 1..n : e[m][i] = Enc(f.rows[Spot(f.rows, n, i)][m])
  BY <1>4, <1>5, <1>6, FrameColumns
<1>8. \A i \in 1..n : Spot(f.rows, n, i) = i
  BY <1>4, <1>6, SpotStays
<1> HIDE DEF e
<1>9. Size(e) = PowerOfTwo(n)
  <2>1. (CHOOSE m \in DOMAIN e : TRUE) \in f.mat
    BY <1>2, <1>7
  <2> QED BY <1>7, <2>1 DEF Size
<1>10. Act \notin f.mat
  BY <1>2, ColumnsAre
<1>11. out[Act] = [i \in 1..PowerOfTwo(n) |-> IF i <= n THEN 1 ELSE 0]
       /\ \A j \in 1..4 : out[j] = e[j]
  <2>1. out = [m \in DOMAIN c.output \cup {Act} |->
                IF m = Act THEN [i \in 1..Size(c.output) |-> IF i <= n THEN 1 ELSE 0]
                ELSE c.output[m]]
    BY DEF OutputTable
  <2>2. c.output = e
    BY DEF e, f
  <2>3. \A j \in 1..4 : j \in DOMAIN e /\ j # Act
    BY <1>2, <1>7, ColumnsAre
  <2> HIDE DEF out
  <2> QED BY <1>9, <2>1, <2>2, <2>3
<1> HIDE DEF out
<1>12. \A i \in 1..PowerOfTwo(n) : out[Act][i] = 1 <=> i <= n
  BY <1>11
<1>13. ASSUME NEW i \in 1..n, NEW j \in 1..4
       PROVE  out[j][i] = Enc(Combined(run[i][1], run[i][2])[j])
  <2>1. j \in f.mat
    BY <1>2
  <2>2. e[j][i] = Enc(f.rows[i][j])
    BY <1>7, <1>8, <2>1
  <2>3. f.rows[i][j] = Combined(run[i][1], run[i][2])[j]
    BY <1>3, <1>4
  <2> QED BY <1>11, <2>2, <2>3
<1> QED BY <1>4, <1>11, <1>12, <1>13 DEF out, f, run

LEMMA FullResult ==
  ASSUME query \in Queries, ~HasOne, NEW c, c.output = EncodedColumns(FullOutput)
  PROVE  \A v : TimesIn(Shown(OutputTable(c, Len(FullOutput.rows))), v) = TimesIn(JoinView, v)
<1>1. PICK n, li, ri : IsRun(JoinedPairs, n, li, ri)
  BY RunIs
<1>2. PICK f : Moves(f, n) /\ Ordered(JoinedPairs) = Moved(JoinedPairs, f, n)
  BY <1>1, OrderedMoves
<1>3. /\ f \in [1..n -> 1..n] /\ \A m \in 1..n : \E i \in 1..n : f[i] = m
      /\ \A i, j \in 1..n : f[i] = f[j] => i = j
  BY <1>2 DEF Moves
<1>4. n \in Nat /\ DOMAIN JoinedPairs = 1..n
  BY <1>1 DEF IsRun
<1> DEFINE run == JoinRun(1)
           out == OutputTable(c, n)
           view == Shown(out)
           N == PowerOfTwo(n)
           g == [p \in 1..n |-> CHOOSE i \in 1..n : f[i] = p]
<1>5. run = [i \in 1..n |-> JoinedPairs[f[i]]]
  BY <1>2 DEF JoinRun, Arrived, Moved
<1>6. DOMAIN run = 1..n /\ \A i \in 1..n : run[i] = JoinedPairs[f[i]]
  <2> HIDE DEF run
  <2> QED BY <1>5
<1>7. /\ Len(FullOutput.rows) = n /\ DOMAIN out[Act] = 1..N
      /\ \A i \in 1..N : out[Act][i] = 1 <=> i <= n
      /\ \A i \in 1..n : \A j \in 1..4 : out[j][i] = Enc(Combined(run[i][1], run[i][2])[j])
  BY <1>4, <1>6, FullTable
<1>8. N \in Nat /\ n <= N
  BY <1>4, PaddedSize
<1> HIDE DEF N, out, run
<1>9. /\ DOMAIN view = 1..N
      /\ \A i \in 1..N : view[i].on = (out[Act][i] = 1) /\ view[i].v = [j \in 1..4 |-> out[j][i]]
  BY <1>7, <1>8, ShownRows
<1> HIDE DEF view
<1>10. \A i \in 1..n : i \in 1..N /\ i <= n
  BY <1>4, <1>8
<1>11. g \in [1..n -> 1..N] /\ \A p \in 1..n : g[p] \in 1..n /\ f[g[p]] = p
  <2>1. \A p \in 1..n : g[p] \in 1..n /\ f[g[p]] = p
    BY <1>3
  <2> QED BY <1>10, <2>1
<1> HIDE DEF g
<1> DEFINE join == JoinView
<1>12. DOMAIN join = 1..n /\ \A p \in 1..n : join[p].on
       /\ join[p].v = [j \in 1..4 |-> Enc(Combined(JoinedPairs[p][1], JoinedPairs[p][2])[j])]
  BY <1>4 DEF JoinView
<1> HIDE DEF join
<1>13. ASSUME NEW p \in 1..n PROVE view[g[p]].on /\ view[g[p]].v = join[p].v
  <2>1. g[p] \in 1..n /\ g[p] \in 1..N /\ g[p] <= n /\ run[g[p]] = JoinedPairs[p]
    BY <1>6, <1>10, <1>11
  <2>2. view[g[p]].on
    BY <1>7, <1>9, <2>1
  <2>3. \A j \in 1..4 : out[j][g[p]] = Enc(Combined(JoinedPairs[p][1], JoinedPairs[p][2])[j])
    BY <1>7, <2>1
  <2>4. view[g[p]].v = [j \in 1..4 |-> out[j][g[p]]]
    BY <1>9, <2>1
  <2>5. view[g[p]].v = join[p].v
    BY <1>12, <2>3, <2>4
  <2> QED BY <2>2, <2>5
<1>14. ASSUME NEW i \in 1..N, view[i].on PROVE \E p \in 1..n : g[p] = i
  <2>1. i <= n
    BY <1>7, <1>9, <1>14
  <2>2. i \in 1..n
    BY <1>4, <1>8, <2>1
  <2>3. f[i] \in 1..n /\ g[f[i]] = i
    BY <1>3, <1>11, <2>2
  <2> QED BY <2>3
<1>15. \A p, q \in 1..n : g[p] = g[q] => p = q
  BY <1>11
<1>16. \A p \in 1..n : join[p].on
  BY <1>12
<1>17. \A v : TimesIn(view, v) = TimesIn(join, v)
  <2>1. Counterparts(view, N, join, n, g)
    BY <1>4, <1>8, <1>9, <1>11, <1>12, <1>13, <1>14, <1>15, <1>16 DEF Counterparts
  <2> QED BY <2>1, SameTimes
<1> QED BY <1>7, <1>17 DEF view, out, join

-----------------------------------------------------------------------------
(* A partial output's table.                                               *)

FkRows == Rows(FkSide)
PkRows == Rows(PkSide)
Both(x, y) == IF FkSide = "left" THEN Combined(x, y) ELSE Combined(y, x)
\* Rows i and j of the foreign and of the primary key's table are active and match.
FkPair(i, j) == FkRows[i][Act] = 1 /\ Partner(FkSide, FkRows[i], PkRows[j])

LEMMA FkSidesAre ==
  /\ FkSide \in Sides /\ PkSide \in Sides /\ PkSide = Other(FkSide)
  /\ (FkSide = "left" /\ PkSide = "right") \/ (FkSide = "right" /\ PkSide = "left")
<1>1. FkSide = "left" \/ FkSide = "right"
  BY DEF FkSide
<1> QED BY <1>1, SidesAre DEF PkSide

\* The pairs of the join, by the row of the foreign key's table.
FkJoin(m, ki, kj) ==
  /\ m \in Nat /\ DOMAIN JoinedPairs = 1..m
  /\ ki \in [1..m -> 1..RowCount(FkSide)] /\ kj \in [1..m -> 1..RowCount(PkSide)]
  /\ \A p \in 1..m : /\ FkPair(ki[p], kj[p])
                     /\ Combined(JoinedPairs[p][1], JoinedPairs[p][2])
                          = Both(FkRows[ki[p]], PkRows[kj[p]])
  /\ \A p, q \in 1..m : ki[p] = ki[q] /\ kj[p] = kj[q] => p = q
  /\ \A i \in 1..RowCount(FkSide), j \in 1..RowCount(PkSide) :
       FkPair(i, j) => \E p \in 1..m : ki[p] = i /\ kj[p] = j

LEMMA PairsByFk ==
  ASSUME query \in Queries, query.type = "Inner"
  PROVE  \E m, ki, kj : FkJoin(m, ki, kj)
<1>1. PICK m, li, ri : IsJoin(JoinedPairs, m, li, ri)
  BY PairsAre
<1>2. /\ m \in Nat /\ DOMAIN JoinedPairs = 1..m
      /\ li \in [1..m -> 1..RowCount("left")] /\ ri \in [1..m -> 1..RowCount("right")]
      /\ \A p \in 1..m : /\ JoinedPairs[p] = <<Rows("left")[li[p]], Rows("right")[ri[p]]>>
                         /\ Pair(li[p], ri[p])
      /\ \A p, q \in 1..m : li[p] = li[q] /\ ri[p] = ri[q] => p = q
      /\ \A i \in 1..RowCount("left"), j \in 1..RowCount("right") :
           Pair(i, j) => \E p \in 1..m : li[p] = i /\ ri[p] = j
  BY <1>1 DEF IsJoin
<1>3. \A p \in 1..m : Combined(JoinedPairs[p][1], JoinedPairs[p][2])
                        = Combined(Rows("left")[li[p]], Rows("right")[ri[p]])
  BY <1>2
<1>4. CASE FkSide = "left" /\ PkSide = "right"
  <2>1. \A i, j : FkPair(i, j) <=> Pair(i, j)
    <3> TAKE i, j
    <3>1. FkRows = Rows("left") /\ PkRows = Rows("right")
      BY <1>4 DEF FkRows, PkRows
    <3> QED BY <1>4, <3>1 DEF FkPair, Pair, Partner
  <2>2. \A x, y : Both(x, y) = Combined(x, y)
    BY <1>4 DEF Both
  <2>3. FkJoin(m, li, ri)
    BY <1>2, <1>3, <1>4, <2>1, <2>2 DEF FkJoin, FkRows, PkRows
  <2> QED BY <2>3
<1>5. CASE FkSide = "right" /\ PkSide = "left"
  <2>1. \A i, j : FkPair(i, j) <=> Pair(j, i)
    <3> TAKE i, j
    <3>1. FkRows = Rows("right") /\ PkRows = Rows("left") /\ FkSide # "left"
      BY <1>5 DEF FkRows, PkRows
    <3> QED BY <3>1 DEF FkPair, Pair, Partner
  <2>2. \A x, y : Both(x, y) = Combined(y, x)
    BY <1>5 DEF Both
  <2>3. \A p \in 1..m : /\ FkPair(ri[p], li[p])
                        /\ Combined(JoinedPairs[p][1], JoinedPairs[p][2])
                             = Both(FkRows[ri[p]], PkRows[li[p]])
    BY <1>2, <1>3, <1>5, <2>1, <2>2 DEF FkRows, PkRows
  <2>4. \A i \in 1..RowCount(FkSide), j \in 1..RowCount(PkSide) :
          FkPair(i, j) => \E p \in 1..m : ri[p] = i /\ li[p] = j
    BY <1>2, <1>5, <2>1
  <2>5. \A p, q \in 1..m : ri[p] = ri[q] /\ li[p] = li[q] => p = q
    BY <1>2
  <2>6. FkJoin(m, ri, li)
    BY <1>2, <1>5, <2>3, <2>4, <2>5 DEF FkJoin
  <2> QED BY <2>6
<1> QED BY <1>4, <1>5, FkSidesAre

\* The partner of a row, where it has one at most.
LEMMA OnePartner ==
  ASSUME query \in Queries, PartnersAreUnique, NEW i \in 1..RowCount(FkSide)
  PROVE  \/ /\ PartnerOf(i) = NoRow
            /\ \A j \in 1..RowCount(PkSide) : ~Partner(FkSide, FkRows[i], PkRows[j])
         \/ /\ PartnerOf(i) # NoRow
            /\ \E e \in 1..RowCount(PkSide) :
                 /\ PartnerOf(i) = PkRows[e]
                 /\ \A j \in 1..RowCount(PkSide) : Partner(FkSide, FkRows[i], PkRows[j]) <=> j = e
<1> DEFINE f == FkSide
           row == FkRows[i]
           ps == Partners(f, row)
           nk == RowCount(PkSide)
<1>1. PICK e, m : PartnersAt(f, row, e, m)
  BY FkSidesAre, PartnersAre
<1>2. /\ m \in Nat /\ e \in [1..m -> 1..nk] /\ DOMAIN ps = 1..m /\ Len(ps) = m
      /\ \A k \in 1..m : ps[k] = PkRows[e[k]]
      /\ \A j \in 1..nk : Partner(f, row, PkRows[j]) <=> \E k \in 1..m : e[k] = j
  BY <1>1, FkSidesAre DEF PartnersAt, PkRows
<1>3. m <= 1
  <2>1. i \in DOMAIN Rows(FkSide)
    BY FkSidesAre, RowsAre
  <2> QED BY <1>2, <2>1 DEF PartnersAreUnique, FkRows
<1>4. PartnerOf(i) = OrNone(ps)[1]
  BY DEF PartnerOf, FkRows
<1> HIDE DEF f, row, ps, nk
<1>5. CASE m = 0
  <2>1. ps = <<>>
    <3>1. PartnersAt(f, row, e, m) /\ DOMAIN ps = 1..0 /\ Len(ps) = 0
      BY <1>1, <1>2, <1>5
    <3>2. ps \in Seq({})
      <4>1. ps = Kept(Rows(Other(f)), {p \in ActiveRows(Other(f)) :
                        IF f = "left" THEN Matches(row, p) ELSE Matches(p, row)})
        BY DEF ps, Partners
      <4>2. ps = [k \in 1..Len(ps) |-> ps[k]]
        BY <4>1, <3>1 DEF Kept
      <4>3. ps \in [1..0 -> {}]
        BY <3>1, <4>2
      <4> QED BY <4>3, ListOf
    <3> QED BY <3>1, <3>2
  <2>2. PartnerOf(i) = NoRow
    BY <1>4, <2>1 DEF OrNone
  <2>3. \A j \in 1..nk : ~Partner(f, row, PkRows[j])
    BY <1>2, <1>5
  <2> QED BY <2>2, <2>3 DEF f, row, nk
<1>6. CASE m = 1
  <2>1. ps # <<>> /\ 1 \in 1..m /\ \A k \in 1..m : k = 1
    BY <1>2, <1>6
  <2>2. PartnerOf(i) = PkRows[e[1]] /\ e[1] \in 1..nk
    BY <1>2, <1>4, <2>1 DEF OrNone
  <2>3. \A j \in 1..nk : Partner(f, row, PkRows[j]) <=> j = e[1]
    BY <1>2, <2>1
  <2>4. PartnerOf(i) # NoRow
    <3>1. PkRows[e[1]][Act] = 1
      BY <2>2, <2>3 DEF Partner
    <3>2. NoRow[Act] = Null /\ Null # 1
      BY NamesOfRows, SortAssumption DEF NoRow, RowNames
    <3> QED BY <2>2, <3>1, <3>2
  <2> QED BY <2>2, <2>3, <2>4 DEF f, row, nk
<1>7. m = 0 \/ m = 1
  BY <1>2, <1>3
<1> QED BY <1>5, <1>6, <1>7

\* What a partial row holds.
LEMMA PartialRowIs ==
  ASSUME query \in Queries, NEW i \in 1..RowCount(FkSide), PartnersAreUnique
  PROVE  /\ DOMAIN PartialRow(i) = RowNames /\ PartialRow(i)[RowId] = FkRows[i][RowId]
         /\ PartialRow(i)[Act] = IF PartnerOf(i) = NoRow THEN 0 ELSE FkRows[i][Act]
         /\ \A j \in 1..4 : PartialRow(i)[j] = Both(FkRows[i], PartnerOf(i))[j]
<1> DEFINE row == FkRows[i]
           ps == OrNone(Partners(FkSide, row))
           x == Both(row, ps[1])
           a == IF ps[1] = NoRow THEN 0 ELSE row[Act]
           w == row[RowId]
           z == [x EXCEPT ![Act] = a, ![RowId] = w]
<1>1. 1 \in DOMAIN ps
  <2>1. PICK e, m : PartnersAt(FkSide, row, e, m)
    BY FkSidesAre, PartnersAre
  <2>2. m \in Nat /\ DOMAIN Partners(FkSide, row) = 1..m /\ Len(Partners(FkSide, row)) = m
    BY <2>1 DEF PartnersAt
  <2>3. CASE m = 0
    <3>1. Partners(FkSide, row) = <<>>
      <4> DEFINE l == Partners(FkSide, row)
      <4>1. l = [k \in 1..Len(l) |-> l[k]]
        BY <2>2 DEF Partners, Kept
      <4>2. Len(l) = 0
        BY <2>2, <2>3
      <4> HIDE DEF l
      <4>3. l \in [1..0 -> {}]
        BY <4>1, <4>2
      <4>4. l \in Seq({}) /\ Len(l) = 0
        BY <4>3, ListOf
      <4> QED BY <4>4 DEF l
    <3> QED BY <3>1 DEF OrNone
  <2>4. CASE m # 0
    <3>1. 1 \in 1..m /\ Partners(FkSide, row) # <<>>
      BY <2>2, <2>4
    <3> QED BY <2>2, <3>1 DEF OrNone
  <2> QED BY <2>3, <2>4
<1>2. PartialRow(i) = z /\ PartnerOf(i) = ps[1]
  BY <1>1 DEF PartialRow, PartialRows, PartnerOf, FkRows, Both
<1>3. DOMAIN x = RowNames
  BY DEF Both, Combined, RowNames
<1>4. \A j \in 1..4 : j # Act /\ j # RowId /\ j \in RowNames
  BY ColumnsAre
<1>5. Act \in RowNames /\ RowId \in RowNames /\ Act # RowId
  BY NamesOfRows
<1> HIDE DEF x, a, w
<1>6. DOMAIN z = RowNames /\ z[RowId] = w /\ z[Act] = a /\ \A j \in 1..4 : z[j] = x[j]
  BY <1>3, <1>4, <1>5
<1> HIDE DEF z, ps
<1> QED BY <1>2, <1>6 DEF x, a, w

\* Rows in the order of their ids stay where they are.
LEMMA ByIdStays ==
  ASSUME NEW n \in Nat, NEW rows, DOMAIN rows = 1..n, \A i \in 1..n : rows[i][RowId] \in Int
  PROVE  /\ DOMAIN ById(rows) = 1..n
         /\ \A i \in 1..n : ById(rows)[i] = rows[Spot(rows, n, i)] /\ Spot(ById(rows), n, i) = i
<1> DEFINE lt == IdOrder(rows, n)
           b == ById(rows)
           bt == IdOrder(b, n)
<1>1. /\ IsOrder(lt, n) /\ DOMAIN b = 1..n
      /\ \A i \in 1..n : Spot(rows, n, i) \in 1..n /\ b[i] = rows[Spot(rows, n, i)]
  BY ByIdRows DEF Spot
<1>2. \A i \in 1..n : b[i][RowId] \in Int
  BY <1>1
<1>3. \A i, j \in 1..n : lt[i][j] <=>
        rows[i][RowId] < rows[j][RowId] \/ (rows[i][RowId] = rows[j][RowId] /\ i < j)
  BY DEF IdOrder
<1>4. \A i, j \in 1..n : bt[i][j] <=>
        b[i][RowId] < b[j][RowId] \/ (b[i][RowId] = b[j][RowId] /\ i < j)
  BY DEF IdOrder
<1> HIDE DEF b
<1>5. IsOrder(bt, n)
  BY <1>1, <1>2, ByIdRows
<1> HIDE DEF lt, bt
<1>6. \A i, j \in 1..n : i < j <=> lt[Ranked(lt, n, i)][Ranked(lt, n, j)]
  BY <1>1, RankedOrder, Zenon
<1>7. \A i, j \in 1..n : i < j => bt[i][j]
  <2> TAKE i, j \in 1..n
  <2> HAVE i < j
  <2>1. lt[Spot(rows, n, i)][Spot(rows, n, j)]
    BY <1>6 DEF Spot, lt
  <2>2. b[i] = rows[Spot(rows, n, i)] /\ b[j] = rows[Spot(rows, n, j)]
        /\ Spot(rows, n, i) \in 1..n /\ Spot(rows, n, j) \in 1..n
    BY <1>1
  <2>3. b[i][RowId] < b[j][RowId] \/ b[i][RowId] = b[j][RowId]
    BY <1>3, <2>1, <2>2
  <2> QED BY <1>4, <2>3
<1>8. \A i \in 1..n : Ranked(bt, n, i) = i
  BY <1>5, <1>7, RankedStays
<1> QED BY <1>1, <1>8 DEF Spot, b, bt

\* The id is the last field of a frame.
LEMMA IdIsField ==
  ASSUME NEW a \in Seq(Int)
  PROVE  \E i \in DOMAIN (a \o <<Act, RowId>>) : (a \o <<Act, RowId>>)[i] = RowId
<1> DEFINE b == <<Act, RowId>>
           d == a \o b
           m == Len(a)
<1>1. b \in Seq(Int) /\ Len(b) = 2 /\ b[2] = RowId
  BY ColumnsAre
<1>2. m \in Nat /\ Len(a) = m
  OBVIOUS
<1> HIDE DEF b, m
<1>3. d \in Seq(Int) /\ ConsistsOf(d, a, m, b, 2)
  BY <1>1, <1>2, Joined
<1> HIDE DEF d
<1>4. d \in Seq(Int) /\ Len(d) = m + 2 /\ \A i \in 1..2 : d[m + i] = b[i]
  BY <1>3 DEF ConsistsOf
<1>5. m + 2 \in DOMAIN d /\ 2 \in 1..2
  BY <1>2, <1>4
<1>6. d[m + 2] = RowId
  BY <1>1, <1>4, <1>5
<1> QED BY <1>5, <1>6 DEF d, b

LEMMA PartialSpots ==
  ASSUME query \in Queries, PartnersAreUnique
  PROVE  /\ DOMAIN PartialList = 1..RowCount(FkSide) /\ Len(PartialList) = RowCount(FkSide)
         /\ \A i \in 1..RowCount(FkSide) :
              /\ FkRows[i][RowId] \in Int /\ PartialList[i] = PartialRow(i)
              /\ PartialList[i][RowId] = FkRows[i][RowId]
              /\ DOMAIN PartialList[i] = RowNames
              /\ Spot(PartialList, RowCount(FkSide), i) = Spot(FkRows, RowCount(FkSide), i)
<1> DEFINE n == RowCount(FkSide)
<1>1. /\ DOMAIN PartialList = 1..n /\ Len(PartialList) = n
      /\ \A i \in 1..n : PartialList[i] = PartialRow(i)
  BY OneRowEach
<1>2. \A i \in 1..n : DOMAIN PartialRow(i) = RowNames /\ PartialRow(i)[RowId] = FkRows[i][RowId]
  BY PartialRowIs
<1>3. \A i \in 1..n : FkRows[i][RowId] \in Int
  <2>1. \A i \in 1..n : Rows(FkSide)[i][RowId] \in 0..(n - 1)
    BY FkSidesAre, RowsAre
  <2>2. n \in Nat
    BY FkSidesAre, RowsAre
  <2> HIDE DEF n
  <2> QED BY <2>1, <2>2 DEF FkRows
<1>4. \A i \in 1..n : PartialList[i][RowId] = FkRows[i][RowId]
  BY <1>1, <1>2
<1> HIDE DEF n
<1>5. IdOrder(PartialList, n) = IdOrder(FkRows, n)
  BY <1>4 DEF IdOrder
<1>6. \A i : Spot(PartialList, n, i) = Spot(FkRows, n, i)
  BY <1>5 DEF Spot
<1> QED BY <1>1, <1>2, <1>3, <1>4, <1>6 DEF n

\* The columns of an input table.
LEMMA InputColumns ==
  ASSUME query \in Queries, NEW s \in Sides
  PROVE  LET n == RowCount(s)
         IN  \A m \in ColumnsOf(s) : \A i \in 1..n :
               Input(s)[m][i] = Enc(Rows(s)[Spot(Rows(s), n, i)][m])
<1> DEFINE n == RowCount(s)
           a == Cols(s)
           rows == Rows(s)
           f == Frame(a \o <<Act, RowId>>, rows, ColumnsOf(s) \cup {Act})
<1>1. a \in Seq(Int)
  BY SidesAre DEF Cols
<1>2. f.fields = a \o <<Act, RowId>> /\ f.rows = rows /\ f.mat = ColumnsOf(s) \cup {Act}
  BY DEF Frame
<1>3. Input(s) = EncodedColumns(f)
  BY DEF Input
<1>4. n \in Nat /\ DOMAIN rows = 1..n /\ Len(rows) = n
      /\ \A i \in 1..n : DOMAIN rows[i] = RowNames /\ rows[i][RowId] \in Int
  <2>1. n \in Nat /\ DOMAIN rows = 1..n /\ Len(rows) = n
        /\ \A i \in 1..n : rows[i] \in RowType /\ rows[i][RowId] \in 0..(n - 1)
    BY RowsAre DEF RowCount
  <2> HIDE DEF n, rows
  <2> QED BY <2>1 DEF RowType
<1> HIDE DEF a, f, n, rows
<1>5. \E i \in DOMAIN f.fields : f.fields[i] = RowId
  BY <1>1, <1>2, IdIsField
<1>6. Len(f.rows) = n /\ DOMAIN f.rows = 1..n
      /\ \A i \in 1..n : DOMAIN f.rows[i] = RowNames /\ f.rows[i][RowId] \in Int
  BY <1>2, <1>4
<1>7. \A m \in f.mat : \A i \in 1..n : EncodedColumns(f)[m][i] = Enc(f.rows[Spot(f.rows, n, i)][m])
  BY <1>4, <1>5, <1>6, FrameColumns
<1> QED BY <1>2, <1>3, <1>7 DEF n, rows

\* A partial output's own columns.
LEMMA PartialColumns ==
  ASSUME query \in Queries, PartnersAreUnique
  PROVE  LET n == RowCount(FkSide)
             e == EncodedColumns(PartialOutput)
             at(i) == Spot(FkRows, n, i)
         IN  /\ n \in Nat /\ DOMAIN e = ColumnsOf(PkSide) \cup {Act}
             /\ DOMAIN e[Act] = 1..PowerOfTwo(n)
             /\ \A i \in 1..n : at(i) \in 1..n
             /\ \A m \in ColumnsOf(PkSide) \cup {Act} : \A i \in 1..n :
                  e[m][i] = Enc(PartialRow(at(i))[m])
             /\ \A i \in 1..PowerOfTwo(n) : i > n => e[Act][i] = Enc(0)
<1> DEFINE n == RowCount(FkSide)
           a == Cols(FkSide) \o Cols(PkSide)
           rows == ById(PartialList)
           f == Frame(a \o <<Act, RowId>>, rows, ColumnsOf(PkSide) \cup {Act})
           e == EncodedColumns(f)
           at(i) == Spot(FkRows, n, i)
<1>1. a \in Seq(Int)
  <2>1. Cols(FkSide) \in Seq(Int) /\ Cols(PkSide) \in Seq(Int)
    BY FkSidesAre, SidesAre DEF Cols
  <2> QED BY <2>1
<1>2. f.fields = a \o <<Act, RowId>> /\ f.rows = rows /\ f.mat = ColumnsOf(PkSide) \cup {Act}
  BY DEF Frame
<1>3. PartialOutput = f
  BY DEF PartialOutput, PartialList
<1>4. /\ DOMAIN PartialList = 1..n /\ Len(PartialList) = n
      /\ \A i \in 1..n :
           /\ FkRows[i][RowId] \in Int /\ PartialList[i] = PartialRow(i)
           /\ PartialList[i][RowId] = FkRows[i][RowId]
           /\ DOMAIN PartialList[i] = RowNames
           /\ Spot(PartialList, n, i) = Spot(FkRows, n, i)
  BY PartialSpots
<1>5. n \in Nat
  BY FkSidesAre, RowsAre
<1> HIDE DEF n, a, rows
<1>6. \A i \in 1..n : PartialList[i][RowId] \in Int
  BY <1>4
<1>7. DOMAIN rows = 1..n
      /\ \A i \in 1..n : rows[i] = PartialList[Spot(PartialList, n, i)] /\ Spot(rows, n, i) = i
  BY <1>4, <1>5, <1>6, ByIdStays DEF rows
<1>8. \A i \in 1..n : Spot(PartialList, n, i) \in 1..n
  BY <1>4, <1>5, <1>6, SpotsAre
<1>9. \A i \in 1..n : at(i) \in 1..n /\ rows[i] = PartialRow(at(i)) /\ Spot(rows, n, i) = i
  BY <1>4, <1>7, <1>8
<1>10. Len(rows) = n
  <2>1. rows = [i \in DOMAIN PartialList |-> rows[i]]
    <3>1. rows = ById(PartialList)
      BY DEF rows
    <3> QED BY <3>1 DEF ById
  <2> QED BY <1>4, <1>5, <2>1
<1>11. \A i \in 1..n : DOMAIN rows[i] = RowNames /\ rows[i][RowId] \in Int
  BY <1>4, <1>6, <1>7, <1>8
<1> HIDE DEF f
<1>12. \E i \in DOMAIN f.fields : f.fields[i] = RowId
  BY <1>1, <1>2, IdIsField
<1>13. Len(f.rows) = n /\ DOMAIN f.rows = 1..n
      /\ \A i \in 1..n : DOMAIN f.rows[i] = RowNames /\ f.rows[i][RowId] \in Int
  BY <1>2, <1>7, <1>10, <1>11
<1>14. /\ DOMAIN e = f.mat
       /\ \A m \in f.mat :
            /\ DOMAIN e[m] = 1..PowerOfTwo(n) /\ Len(e[m]) = PowerOfTwo(n)
            /\ \A i \in 1..n : e[m][i] = Enc(f.rows[Spot(f.rows, n, i)][m])
       /\ Act \in f.mat => \A i \in 1..PowerOfTwo(n) : i > n => e[Act][i] = Enc(0)
  BY <1>5, <1>12, <1>13, FrameColumns
<1> HIDE DEF e, at
<1>15. Act \in f.mat
  BY <1>2
<1>16. \A m \in f.mat : \A i \in 1..n : e[m][i] = Enc(PartialRow(at(i))[m])
  BY <1>2, <1>9, <1>14
<1>17. /\ n \in Nat /\ DOMAIN e = ColumnsOf(PkSide) \cup {Act}
       /\ DOMAIN e[Act] = 1..PowerOfTwo(n)
       /\ \A i \in 1..n : at(i) \in 1..n
       /\ \A m \in ColumnsOf(PkSide) \cup {Act} : \A i \in 1..n :
            e[m][i] = Enc(PartialRow(at(i))[m])
       /\ \A i \in 1..PowerOfTwo(n) : i > n => e[Act][i] = Enc(0)
  BY <1>2, <1>5, <1>9, <1>14, <1>15, <1>16
<1>18. e = EncodedColumns(PartialOutput)
  BY <1>3 DEF e
<1> QED BY <1>17, <1>18 DEF n, at

\* A partial output's table, at the place of each row of the foreign key's: the
\* row and its partner, active where the row is and has one.
PartialRowsAt(out, n, N, at) ==
  /\ n \in Nat /\ N \in Nat /\ n <= N /\ DOMAIN out[Act] = 1..N
  /\ at \in [1..n -> 1..n]
  /\ \A i, j \in 1..n : at[i] = at[j] => i = j
  /\ \A m \in 1..n : \E i \in 1..n : at[i] = m
  /\ \A i \in 1..n : out[Act][i] = 1 <=> (PartnerOf(at[i]) # NoRow /\ FkRows[at[i]][Act] = 1)
  /\ \A i \in 1..N : out[Act][i] = 1 => i <= n
  /\ \A i \in 1..n : \A j \in 1..4 : out[j][i] = Enc(Both(FkRows[at[i]], PartnerOf(at[i]))[j])

LEMMA PartialTable ==
  ASSUME query \in Queries, HasOne, PartnersAreUnique,
         NEW c, c.output = EncodedColumns(PartialOutput), NEW count
  PROVE  \E N, at : PartialRowsAt(OutputTable(c, count), RowCount(FkSide), N, at)
<1> DEFINE n == RowCount(FkSide)
           e == EncodedColumns(PartialOutput)
           N == PowerOfTwo(n)
           spot(i) == Spot(FkRows, n, i)
           at == [i \in 1..n |-> spot(i)]
           out == OutputTable(c, count)
<1>1. /\ n \in Nat /\ DOMAIN e = ColumnsOf(PkSide) \cup {Act}
      /\ DOMAIN e[Act] = 1..N
      /\ \A i \in 1..n : spot(i) \in 1..n
      /\ \A m \in ColumnsOf(PkSide) \cup {Act} : \A i \in 1..n : e[m][i] = Enc(PartialRow(spot(i))[m])
      /\ \A i \in 1..N : i > n => e[Act][i] = Enc(0)
  BY PartialColumns
<1>2. \A m \in ColumnsOf(FkSide) : \A i \in 1..n : Input(FkSide)[m][i] = Enc(FkRows[spot(i)][m])
  BY FkSidesAre, InputColumns DEF FkRows
<1>3. N \in Nat /\ n <= N
  BY <1>1, PaddedSize
<1>4. /\ \A m \in 1..n : \E i \in 1..n : spot(i) = m
      /\ \A i, j \in 1..n : spot(i) = spot(j) => i = j
  <2>1. \A i \in 1..n : FkRows[i][RowId] \in Int
    BY PartialSpots
  <2>2. DOMAIN FkRows = 1..n
    BY FkSidesAre, RowsAre DEF FkRows
  <2> HIDE DEF n
  <2> QED BY <1>1, <2>1, <2>2, SpotsAre
<1>5. /\ 1..4 = ColumnsOf(FkSide) \cup ColumnsOf(PkSide)
      /\ ColumnsOf(FkSide) \cap ColumnsOf(PkSide) = {} /\ Act \notin ColumnsOf(FkSide)
  <2>1. 1..4 = {1, 2} \cup {3, 4}
    OBVIOUS
  <2>2. {1, 2} \cap {3, 4} = {} /\ 0 \notin {1, 2} /\ 0 \notin {3, 4}
    OBVIOUS
  <2> QED BY <2>1, <2>2, FkSidesAre, ColumnsAre
<1>6. /\ \A m \in ColumnsOf(FkSide) : out[m] = Input(FkSide)[m]
      /\ \A m \in ColumnsOf(PkSide) \cup {Act} : out[m] = e[m]
  <2>1. out = [m \in DOMAIN c.output \cup ColumnsOf(FkSide) |->
                IF m \in ColumnsOf(FkSide) THEN Input(FkSide)[m] ELSE c.output[m]]
    BY DEF OutputTable
  <2>2. c.output = e
    OBVIOUS
  <2> HIDE DEF out, e
  <2> QED BY <1>1, <1>5, <2>1, <2>2
<1> HIDE DEF e, out, spot, N
<1>7. \A i \in 1..n : /\ PartialRow(i)[Act] = IF PartnerOf(i) = NoRow THEN 0 ELSE FkRows[i][Act]
                      /\ \A j \in 1..4 : PartialRow(i)[j] = Both(FkRows[i], PartnerOf(i))[j]
  BY PartialRowIs
<1>8. \A i \in 1..n : FkRows[i][Act] \in {0, 1}
  BY FkSidesAre, RowsAre DEF FkRows
<1>9. ASSUME NEW i \in 1..n
      PROVE  out[Act][i] = 1 <=> (PartnerOf(spot(i)) # NoRow /\ FkRows[spot(i)][Act] = 1)
  <2>1. out[Act][i] = Enc(PartialRow(spot(i))[Act]) /\ spot(i) \in 1..n
    BY <1>1, <1>6
  <2>2. PartialRow(spot(i))[Act] = IF PartnerOf(spot(i)) = NoRow THEN 0 ELSE FkRows[spot(i)][Act]
    BY <1>7, <2>1
  <2>3. FkRows[spot(i)][Act] = 0 \/ FkRows[spot(i)][Act] = 1
    BY <1>8, <2>1
  <2> QED BY <2>1, <2>2, <2>3, BitsStay
<1>10. \A i \in 1..N : out[Act][i] = 1 => i <= n
  <2> TAKE i \in 1..N
  <2>1. i > n => out[Act][i] = 0
    BY <1>1, <1>6, BitsStay
  <2> QED BY <1>1, <1>3, <2>1
<1>11. \A x, y : /\ \A j \in ColumnsOf(FkSide) : Both(x, y)[j] = x[j]
                 /\ \A j \in ColumnsOf(PkSide) : Both(x, y)[j] = y[j]
  <2>1. \A j \in 1..4 : j \in -1..MaxCols
    BY ColumnsAre DEF RowNames
  <2>2. \A x, y : /\ \A j \in ColumnsOf("left") : Combined(x, y)[j] = x[j]
                  /\ \A j \in ColumnsOf("right") : Combined(x, y)[j] = y[j]
    <3> TAKE x, y
    <3>1. \A j \in ColumnsOf("left") \cup ColumnsOf("right") : j \in -1..MaxCols
      BY <1>5, <2>1, FkSidesAre
    <3>2. \A j \in ColumnsOf("right") : j \notin ColumnsOf("left")
      BY <1>5, FkSidesAre
    <3> QED BY <3>1, <3>2 DEF Combined
  <2> QED BY <2>2, FkSidesAre DEF Both
<1>12. ASSUME NEW i \in 1..n, NEW j \in 1..4
       PROVE  out[j][i] = Enc(Both(FkRows[spot(i)], PartnerOf(spot(i)))[j])
  <2>1. spot(i) \in 1..n
    BY <1>1
  <2>2. CASE j \in ColumnsOf(FkSide)
    <3>1. out[j][i] = Enc(FkRows[spot(i)][j])
      BY <1>2, <1>6, <2>2
    <3> QED BY <1>11, <2>2, <3>1
  <2>3. CASE j \in ColumnsOf(PkSide)
    <3>1. out[j][i] = Enc(PartialRow(spot(i))[j])
      BY <1>1, <1>6, <2>3
    <3> QED BY <1>7, <2>1, <3>1
  <2> QED BY <1>5, <2>2, <2>3
<1>13. DOMAIN out[Act] = 1..N
  BY <1>1, <1>6
<1>14. at \in [1..n -> 1..n] /\ \A i \in 1..n : at[i] = spot(i)
  BY <1>1
<1> HIDE DEF at, n
<1>15. /\ \A i, j \in 1..n : at[i] = at[j] => i = j
       /\ \A m \in 1..n : \E i \in 1..n : at[i] = m
  BY <1>4, <1>14
<1>16. \A i \in 1..n : out[Act][i] = 1 <=> (PartnerOf(at[i]) # NoRow /\ FkRows[at[i]][Act] = 1)
  <2> TAKE i \in 1..n
  <2>1. at[i] = spot(i)
    BY <1>14
  <2> QED BY <1>9, <2>1, Zenon
<1>17. \A i \in 1..n : \A j \in 1..4 : out[j][i] = Enc(Both(FkRows[at[i]], PartnerOf(at[i]))[j])
  <2> TAKE i \in 1..n
  <2> TAKE j \in 1..4
  <2>1. at[i] = spot(i)
    BY <1>14
  <2> QED BY <1>12, <2>1, Zenon
<1>18. PartialRowsAt(out, n, N, at)
  BY <1>1, <1>3, <1>10, <1>13, <1>14, <1>15, <1>16, <1>17, Zenon DEF PartialRowsAt
<1> QED BY <1>18 DEF out, n

LEMMA PartialResult ==
  ASSUME query \in Queries, HasOne, query.type = "Inner", PartnersAreUnique,
         NEW c, c.output = EncodedColumns(PartialOutput), NEW count
  PROVE  \A v : TimesIn(Shown(OutputTable(c, count)), v) = TimesIn(JoinView, v)
<1> DEFINE n == RowCount(FkSide)
           out == OutputTable(c, count)
           view == Shown(out)
           join == JoinView
<1>1. PICK N, at : PartialRowsAt(out, n, N, at)
  BY PartialTable
<1>2. PICK m, ki, kj : FkJoin(m, ki, kj)
  BY PairsByFk
<1>3. /\ m \in Nat /\ DOMAIN JoinedPairs = 1..m
      /\ ki \in [1..m -> 1..n] /\ kj \in [1..m -> 1..RowCount(PkSide)]
      /\ \A p \in 1..m : /\ FkPair(ki[p], kj[p])
                         /\ Combined(JoinedPairs[p][1], JoinedPairs[p][2])
                              = Both(FkRows[ki[p]], PkRows[kj[p]])
      /\ \A p, q \in 1..m : ki[p] = ki[q] /\ kj[p] = kj[q] => p = q
      /\ \A i \in 1..n, j \in 1..RowCount(PkSide) :
           FkPair(i, j) => \E p \in 1..m : ki[p] = i /\ kj[p] = j
  BY <1>2 DEF FkJoin
<1>4. /\ n \in Nat /\ N \in Nat /\ n <= N /\ DOMAIN out[Act] = 1..N /\ at \in [1..n -> 1..n]
      /\ \A i, j \in 1..n : at[i] = at[j] => i = j
      /\ \A k \in 1..n : \E i \in 1..n : at[i] = k
  BY <1>1 DEF PartialRowsAt
<1>5. /\ \A i \in 1..n : out[Act][i] = 1 <=> (PartnerOf(at[i]) # NoRow /\ FkRows[at[i]][Act] = 1)
      /\ \A i \in 1..N : out[Act][i] = 1 => i <= n
      /\ \A i \in 1..n : \A j \in 1..4 : out[j][i] = Enc(Both(FkRows[at[i]], PartnerOf(at[i]))[j])
  BY <1>1 DEF PartialRowsAt
<1> DEFINE g == [p \in 1..m |-> CHOOSE i \in 1..n : at[i] = ki[p]]
<1>6. \A p \in 1..m : g[p] \in 1..n /\ at[g[p]] = ki[p]
  BY <1>3, <1>4
<1>7. \A i \in 1..n : i \in 1..N
  BY <1>4
<1>8. g \in [1..m -> 1..N]
  BY <1>6, <1>7
<1> HIDE DEF out, g, n
<1>9. /\ DOMAIN view = 1..N
      /\ \A i \in 1..N : view[i].on = (out[Act][i] = 1) /\ view[i].v = [j \in 1..4 |-> out[j][i]]
  BY <1>4, ShownRows
<1>10. DOMAIN join = 1..m /\ \A p \in 1..m : join[p].on
       /\ join[p].v = [j \in 1..4 |-> Enc(Combined(JoinedPairs[p][1], JoinedPairs[p][2])[j])]
  BY <1>3 DEF JoinView
<1> HIDE DEF view, join
\* The only partner is the one in the table.
<1>11. ASSUME NEW i \in 1..n, NEW j \in 1..RowCount(PkSide), FkPair(i, j)
       PROVE  PartnerOf(i) # NoRow /\ PartnerOf(i) = PkRows[j] /\ FkRows[i][Act] = 1
              /\ \A k \in 1..RowCount(PkSide) : FkPair(i, k) => k = j
  <2>1. Partner(FkSide, FkRows[i], PkRows[j]) /\ FkRows[i][Act] = 1
    BY <1>11 DEF FkPair
  <2>2. PartnerOf(i) # NoRow
        /\ \E e \in 1..RowCount(PkSide) :
             /\ PartnerOf(i) = PkRows[e]
             /\ \A k \in 1..RowCount(PkSide) : Partner(FkSide, FkRows[i], PkRows[k]) <=> k = e
    BY <2>1, OnePartner DEF n
  <2>3. PICK e \in 1..RowCount(PkSide) :
             /\ PartnerOf(i) = PkRows[e]
             /\ \A k \in 1..RowCount(PkSide) : Partner(FkSide, FkRows[i], PkRows[k]) <=> k = e
    BY <2>2
  <2>4. e = j
    BY <2>1, <2>3
  <2> QED BY <2>1, <2>2, <2>3, <2>4 DEF FkPair
<1>12. ASSUME NEW p \in 1..m PROVE view[g[p]].on /\ view[g[p]].v = join[p].v
  <2>1. g[p] \in 1..n /\ g[p] \in 1..N /\ at[g[p]] = ki[p] /\ ki[p] \in 1..n
        /\ kj[p] \in 1..RowCount(PkSide)
    BY <1>3, <1>6, <1>7
  <2>2. PartnerOf(ki[p]) # NoRow /\ PartnerOf(ki[p]) = PkRows[kj[p]] /\ FkRows[ki[p]][Act] = 1
    BY <1>3, <1>11, <2>1
  <2>3. view[g[p]].on
    <3>1. out[Act][g[p]] = 1
      BY <1>5, <2>1, <2>2
    <3>2. view[g[p]].on = (out[Act][g[p]] = 1)
      BY <1>9, <2>1
    <3> QED BY <3>1, <3>2, Zenon
  <2>4. \A j \in 1..4 : out[j][g[p]] = Enc(Both(FkRows[ki[p]], PkRows[kj[p]])[j])
    BY <1>5, <2>1, <2>2
  <2>5. view[g[p]].v = [j \in 1..4 |-> out[j][g[p]]]
    BY <1>9, <2>1
  <2>6. join[p].v = [j \in 1..4 |-> Enc(Both(FkRows[ki[p]], PkRows[kj[p]])[j])]
    <3>1. Combined(JoinedPairs[p][1], JoinedPairs[p][2]) = Both(FkRows[ki[p]], PkRows[kj[p]])
      BY <1>3
    <3>2. join[p].v = [j \in 1..4 |-> Enc(Combined(JoinedPairs[p][1], JoinedPairs[p][2])[j])]
      BY <1>10
    <3> QED BY <3>1, <3>2, Zenon
  <2>7. view[g[p]].v = join[p].v
    BY <2>4, <2>5, <2>6
  <2> QED BY <2>3, <2>7
<1>13. ASSUME NEW i \in 1..N, view[i].on PROVE \E p \in 1..m : g[p] = i
  <2>1. out[Act][i] = 1 /\ i <= n
    BY <1>5, <1>9, <1>13
  <2>2. i \in 1..n
    BY <1>4, <2>1
  <2>3. PartnerOf(at[i]) # NoRow /\ FkRows[at[i]][Act] = 1 /\ at[i] \in 1..n
    BY <1>4, <1>5, <2>1, <2>2
  <2>4. PICK e \in 1..RowCount(PkSide) :
           \A k \in 1..RowCount(PkSide) : Partner(FkSide, FkRows[at[i]], PkRows[k]) <=> k = e
    BY <2>3, OnePartner DEF n
  <2>5. FkPair(at[i], e)
    BY <2>3, <2>4 DEF FkPair
  <2>6. PICK p \in 1..m : ki[p] = at[i]
    BY <1>3, <2>3, <2>5
  <2>7. g[p] = i
    BY <1>4, <1>6, <2>2, <2>6
  <2> QED BY <2>7
<1>14. ASSUME NEW p \in 1..m, NEW q \in 1..m, g[p] = g[q] PROVE p = q
  <2>1. ki[p] = ki[q] /\ ki[p] \in 1..n /\ kj[p] \in 1..RowCount(PkSide) /\ kj[q] \in 1..RowCount(PkSide)
    BY <1>3, <1>6, <1>14
  <2>2. FkPair(ki[p], kj[p]) /\ FkPair(ki[p], kj[q])
    BY <1>3, <2>1
  <2>3. kj[q] = kj[p]
    BY <1>11, <2>1, <2>2
  <2> QED BY <1>3, <2>1, <2>3
<1>15. \A p \in 1..m : join[p].on
  BY <1>10
<1>16. \A v : TimesIn(view, v) = TimesIn(join, v)
  <2>1. Counterparts(view, N, join, m, g)
    BY <1>3, <1>4, <1>8, <1>9, <1>10, <1>12, <1>13, <1>14, <1>15 DEF Counterparts
  <2> QED BY <2>1, SameTimes
<1> QED BY <1>16 DEF view, out, join

\* The table both sides end with is the one planned.
LEMMA LastOutput == LastTables.output = EncodedColumns(Output)
<1>1. "output" \in Range(Labels) /\ "output" \notin {"left_keys", "right_keys", "left_rows", "right_rows"}
  <2>1. "output" \in Range(Labels)
    <3>1. Labels[1] = "output"
      BY DEF Labels
    <3>2. Labels[1] \in Range(Labels)
      BY LabelsAre
    <3> QED BY <3>1, <3>2
  <2> QED BY <2>1
<1>2. "output" \in DOMAIN Planned /\ Planned["output"] = Output
  BY DEF Planned, GadgetFrames
<1>3. Encoded.output = EncodedColumns(Output)
  BY <1>1, <1>2 DEF Encoded
<1>4. DOMAIN Encoded = Range(Labels)
  BY DEF Encoded
<1>5. DOMAIN FirstTables = Range(Labels) /\ FirstTables.output = Encoded.output
  BY <1>1, <1>4 DEF FirstTables
<1>6. LastTables.output = FirstTables.output
  BY <1>1, <1>5 DEF LastTables
<1> QED BY <1>3, <1>5, <1>6

LEMMA HasOneIsInner ==
  ASSUME mode = DecideJoinMode, HasOne PROVE query.type = "Inner"
BY DEF DecideJoinMode, HasOne

\* The output table a verifier ends with holds the rows of the join, each as
\* often as the join does, whether it was materialized whole or as the foreign
\* key's table with a partner's columns, and in whatever order the rows came.
THEOREM JoinResult == Spec => []ResultIsJoin
<1>1. PlanInv /\ TableInv => ResultIsJoin
  <2> SUFFICES ASSUME PlanInv, TableInv, vpc = "done", HasOne => PartnersAreUnique
               PROVE  \A v : TimesIn(Shown(OutputTable(vtabs, misc.count)), v) = TimesIn(JoinView, v)
    BY DEF ResultIsJoin, Shown, AllCols, JoinView
  <2>1. pc = "sent" /\ vtabs = LastTables
    BY DEF TableInv
  <2>2. query \in Queries /\ mode = DecideJoinMode /\ misc.count = Count
    BY <2>1 DEF PlanInv
  <2>3. vtabs.output = EncodedColumns(Output)
    BY <2>1, LastOutput
  <2>4. CASE HasOne
    <3>1. vtabs.output = EncodedColumns(PartialOutput)
      BY <2>3, <2>4 DEF Output
    <3>2. query.type = "Inner"
      BY <2>2, <2>4, HasOneIsInner
    <3> QED BY <2>2, <2>4, <3>1, <3>2, PartialResult
  <2>5. CASE ~HasOne
    <3>1. vtabs.output = EncodedColumns(FullOutput) /\ misc.count = Len(FullOutput.rows)
      BY <2>2, <2>3, <2>5 DEF Output, Count
    <3> QED BY <2>2, <2>5, <3>1, FullResult
  <2> QED BY <2>4, <2>5
<1> QED BY <1>1, PlanHolds, TablesHold, PTL

-----------------------------------------------------------------------------
(* Pairs of rows of one key.                                               *)

\* The pairs of rows of two views that are there and have one value.
EqualPairs(a, b) ==
  {p \in (DOMAIN a) \X (DOMAIN b) : a[p[1]].on /\ b[p[2]].on /\ a[p[1]].v = b[p[2]].v}

\* Where the values are listed once each, the products of the numbers of rows that
\* have them add up to the number of pairs.
LEMMA PairsCount ==
  ASSUME NEW a, NEW b, NEW u, NEW la \in Nat, NEW lb \in Nat, NEW n \in Nat,
         DOMAIN a = 1..la, DOMAIN b = 1..lb, DOMAIN u = 1..n, NoRepeats(u), Among(a, u),
         Cardinality(EqualPairs(a, b)) < FieldSize,
         NEW act, \A i \in 1..n : act[i] = IF u[i].on THEN 1 ELSE 0
  PROVE  Total([i \in 1..n |->
                 (act[i] * Multiplicities(a, u)[i] * Multiplicities(b, u)[i]) % FieldSize])
           = Cardinality(EqualPairs(a, b))
<1> DEFINE P == EqualPairs(a, b)
           h == [p \in P |-> CHOOSE j \in 1..n : u[j].on /\ u[j].v = a[p[1]].v]
           A(v) == {k \in 1..la : a[k].on /\ a[k].v = v}
           B(v) == {k \in 1..lb : b[k].on /\ b[k].v = v}
           ma == Multiplicities(a, u)
           mb == Multiplicities(b, u)
           col == [i \in 1..n |-> (act[i] * ma[i] * mb[i]) % FieldSize]
<1>1. \A p : p \in P <=> /\ p \in (1..la) \X (1..lb)
                         /\ a[p[1]].on /\ b[p[2]].on /\ a[p[1]].v = b[p[2]].v
  BY DEF EqualPairs
<1>2. IsFiniteSet(P)
  <2>1. IsFiniteSet(1..la) /\ IsFiniteSet(1..lb)
    BY FS_Interval
  <2> DEFINE X == 1..la
             Y == 1..lb
  <2>2. P \in SUBSET (X \X Y)
    BY <1>1
  <2> HIDE DEF X, Y, P
  <2>3. IsFiniteSet(X \X Y)
    BY <2>1, FS_Product DEF X, Y
  <2> QED BY <2>2, <2>3, FS_Subset
<1> HIDE DEF P
<1>3. \A i, j \in 1..n : u[i].on /\ u[j].on /\ u[i].v = u[j].v => i = j
  BY DEF NoRepeats
<1>4. \A p \in P : h[p] \in 1..n /\ u[h[p]].on /\ u[h[p]].v = a[p[1]].v
  <2> TAKE p \in P
  <2>1. \E j \in 1..n : u[j].on /\ u[j].v = a[p[1]].v
    BY <1>1 DEF Among
  <2> QED BY <2>1
<1>5. h \in [P -> 1..n]
  BY <1>4
<1> HIDE DEF h
<1>6. ASSUME NEW i \in 1..n PROVE ma[i] = IF u[i].on THEN Cardinality(A(u[i].v)) ELSE 0
  <2>1. u[i].on => \A l \in 1..(i - 1) : ~(u[l].on /\ u[l].v = u[i].v)
    BY <1>3
  <2> QED BY <2>1 DEF Multiplicities, TimesIn
<1>7. ASSUME NEW i \in 1..n PROVE mb[i] = IF u[i].on THEN Cardinality(B(u[i].v)) ELSE 0
  <2>1. u[i].on => \A l \in 1..(i - 1) : ~(u[l].on /\ u[l].v = u[i].v)
    BY <1>3
  <2> QED BY <2>1 DEF Multiplicities, TimesIn
<1> HIDE DEF ma, mb
<1>8. \A v : IsFiniteSet(A(v)) /\ IsFiniteSet(B(v)) /\ Cardinality(A(v)) \in Nat /\ Cardinality(B(v)) \in Nat
  <2> TAKE v
  <2>1. A(v) \in SUBSET (1..la) /\ B(v) \in SUBSET (1..lb) /\ IsFiniteSet(1..la) /\ IsFiniteSet(1..lb)
    BY FS_Interval
  <2> HIDE DEF A, B
  <2> QED BY <2>1, FS_Subset, FS_CardinalityType
<1>9. FieldSize \in Nat /\ FieldSize > 0 /\ \A x, f \in Nat : x < f => x % f = x
  <2>1. FieldSize \in Nat
    BY SortAssumption
  <2>2. Cardinality(P) \in Nat /\ Cardinality(P) < FieldSize
    BY <1>2, FS_CardinalityType DEF P
  <2> QED BY <2>1, <2>2
<1>10. ASSUME NEW i \in 1..n PROVE col[i] = Cardinality({p \in P : h[p] = i})
  <2> DEFINE Q == {p \in P : h[p] = i}
             v == u[i].v
  <2>1. col[i] = (act[i] * ma[i] * mb[i]) % FieldSize
    OBVIOUS
  <2> HIDE DEF col
  <2>2. CASE u[i].on
    <3>1. \A p : p \in Q <=> p \in A(v) \X B(v)
      <4> TAKE p
      <4>1. ASSUME p \in Q PROVE p \in A(v) \X B(v)
        BY <1>1, <1>4, <4>1
      <4>2. ASSUME p \in A(v) \X B(v) PROVE p \in Q
        <5>1. p \in P /\ a[p[1]].v = v
          BY <1>1, <4>2
        <5> HIDE DEF A, B
        <5>2. h[p] = i
          BY <1>3, <1>4, <2>2, <5>1
        <5> QED BY <5>1, <5>2
      <4> QED BY <4>1, <4>2
    <3>2. IsFiniteSet(Q) /\ Cardinality(Q) <= Cardinality(P)
      <4>1. Q \in SUBSET P
        OBVIOUS
      <4> HIDE DEF Q
      <4> QED BY <1>2, <4>1, FS_Subset
    <3> HIDE DEF Q, A, B, v
    <3> DEFINE x == Cardinality(A(v))
               y == Cardinality(B(v))
    <3>3. Q = A(v) \X B(v)
      BY <3>1
    <3>4. Cardinality(A(v) \X B(v)) = x * y
      BY <1>8, FS_Product
    <3>5. Cardinality(Q) = x * y
      BY <3>3, <3>4
    <3>6. x \in Nat /\ y \in Nat
      BY <1>8
    <3>7. ma[i] = x /\ mb[i] = y /\ act[i] = 1
      BY <1>6, <1>7, <2>2 DEF v
    <3> HIDE DEF x, y
    <3>8. act[i] * ma[i] * mb[i] = x * y
      BY <3>6, <3>7
    <3>9. Cardinality(Q) \in Nat /\ Cardinality(Q) < FieldSize
      <4>1. Cardinality(Q) \in Nat /\ Cardinality(P) \in Nat /\ Cardinality(P) < FieldSize
        BY <1>2, <3>2, FS_CardinalityType DEF P
      <4> QED BY <1>9, <3>2, <4>1
    <3>10. Cardinality(Q) % FieldSize = Cardinality(Q)
      BY <1>9, <3>9
    <3> QED BY <2>1, <3>5, <3>8, <3>10 DEF Q
  <2>3. CASE ~u[i].on
    <3>1. Q = {}
      BY <1>4, <2>3
    <3>2. act[i] = 0 /\ ma[i] = 0 /\ mb[i] = 0
      BY <1>6, <1>7, <2>3
    <3>3. col[i] = 0
      BY <1>9, <2>1, <3>2
    <3> HIDE DEF Q
    <3> QED BY <3>1, <3>3, FS_EmptySet DEF Q
  <2> QED BY <2>2, <2>3
<1>11. DOMAIN col = 1..n /\ IsFiniteSet(1..n)
  BY FS_Interval
<1> HIDE DEF col
<1>12. CountsInto(P, 1..n, h, col)
  BY <1>2, <1>5, <1>10, <1>11 DEF CountsInto, P
<1>13. Total(col) = Cardinality(P)
  BY <1>12, TotalCounts
<1> QED BY <1>13 DEF col, ma, mb, P

-----------------------------------------------------------------------------
(* The tables of the gadget.                                               *)

\* Both executions return the same rows in the same order.
LEMMA RunsAgree ==
  ASSUME query \in Queries, ~(query.type = "Left" /\ Unmatched)
  PROVE  JoinRun(2) = JoinRun(1)
<1>1. PICK n, l, r : IsJoin(JoinRun(1), n, l, r) /\ Rises(JoinRun(1), n)
  BY RunsJoin
<1>2. PICK m, k, q : IsJoin(JoinRun(2), m, k, q) /\ Rises(JoinRun(2), m)
  BY RunsJoin
<1> DEFINE a == JoinRun(1)
           b == JoinRun(2)
           nl == RowCount("left")
           nr == RowCount("right")
           Same(i, j) == l[i] = k[j] /\ r[i] = q[j]
           p == [j \in 1..m |-> CHOOSE i \in 1..n : Same(i, j)]
           g == [i \in 1..n |-> CHOOSE j \in 1..m : Same(i, j)]
           lt == [i \in 1..n |-> [j \in 1..n |-> i < j]]
<1>3. /\ n \in Nat /\ DOMAIN a = 1..n /\ a \in Seq(RowPairs) /\ Len(a) = n
      /\ \A i \in 1..n : l[i] \in 1..nl /\ r[i] \in 1..nr /\ Pair(l[i], r[i])
                         /\ a[i] = <<Rows("left")[l[i]], Rows("right")[r[i]]>>
      /\ \A i, j \in 1..n : l[i] = l[j] /\ r[i] = r[j] => i = j
      /\ \A x \in 1..nl, y \in 1..nr : Pair(x, y) => \E i \in 1..n : l[i] = x /\ r[i] = y
      /\ \A i, j \in 1..n : i < j => IdsBefore(a[i], a[j])
  BY <1>1 DEF IsJoin, Rises
<1>4. /\ m \in Nat /\ DOMAIN b = 1..m /\ b \in Seq(RowPairs) /\ Len(b) = m
      /\ \A i \in 1..m : k[i] \in 1..nl /\ q[i] \in 1..nr /\ Pair(k[i], q[i])
                         /\ b[i] = <<Rows("left")[k[i]], Rows("right")[q[i]]>>
      /\ \A i, j \in 1..m : k[i] = k[j] /\ q[i] = q[j] => i = j
      /\ \A x \in 1..nl, y \in 1..nr : Pair(x, y) => \E i \in 1..m : k[i] = x /\ q[i] = y
      /\ \A i, j \in 1..m : i < j => IdsBefore(b[i], b[j])
  BY <1>2 DEF IsJoin, Rises
<1>5. ASSUME NEW i \in 1..n, NEW j \in 1..n PROVE ~(IdsBefore(a[i], a[j]) /\ IdsBefore(a[j], a[i]))
  <2>1. /\ \A x \in 1..nl : Rows("left")[x][RowId] \in Int
        /\ \A x \in 1..nr : Rows("right")[x][RowId] \in Int
    BY SidesAre, RowsAre
  <2> DEFINE x1 == a[i][1][RowId]
             x2 == a[i][2][RowId]
             y1 == a[j][1][RowId]
             y2 == a[j][2][RowId]
  <2>2. x1 \in Int /\ x2 \in Int /\ y1 \in Int /\ y2 \in Int
    <3>1. a[i] = <<Rows("left")[l[i]], Rows("right")[r[i]]>> /\ a[j] = <<Rows("left")[l[j]], Rows("right")[r[j]]>>
      BY <1>3
    <3>2. l[i] \in 1..nl /\ r[i] \in 1..nr /\ l[j] \in 1..nl /\ r[j] \in 1..nr
      BY <1>3
    <3> HIDE DEF a, nl, nr
    <3> QED BY <2>1, <3>1, <3>2
  <2>3. /\ IdsBefore(a[i], a[j]) <=> (x1 < y1 \/ (x1 = y1 /\ x2 < y2))
        /\ IdsBefore(a[j], a[i]) <=> (y1 < x1 \/ (y1 = x1 /\ y2 < x2))
    BY DEF IdsBefore
  <2> HIDE DEF x1, x2, y1, y2
  <2> QED BY <2>2, <2>3
<1> HIDE DEF a, b, nl, nr
<1>a. /\ \A i \in 1..n : l[i] \in 1..nl /\ r[i] \in 1..nr /\ Pair(l[i], r[i])
      /\ \A i, j \in 1..n : l[i] = l[j] /\ r[i] = r[j] => i = j
      /\ \A x \in 1..nl, y \in 1..nr : Pair(x, y) => \E i \in 1..n : l[i] = x /\ r[i] = y
  BY <1>3, Zenon
<1>b. /\ \A i \in 1..m : k[i] \in 1..nl /\ q[i] \in 1..nr /\ Pair(k[i], q[i])
      /\ \A i, j \in 1..m : k[i] = k[j] /\ q[i] = q[j] => i = j
      /\ \A x \in 1..nl, y \in 1..nr : Pair(x, y) => \E i \in 1..m : k[i] = x /\ q[i] = y
  BY <1>4, Zenon
<1>c. n \in Nat /\ m \in Nat
  BY <1>3, <1>4
<1>d. /\ \A i \in 1..n : a[i] = <<Rows("left")[l[i]], Rows("right")[r[i]]>>
      /\ \A i \in 1..m : b[i] = <<Rows("left")[k[i]], Rows("right")[q[i]]>>
  BY <1>3, <1>4, Zenon
<1>6. \A j \in 1..m : p[j] \in 1..n /\ Same(p[j], j)
  <2> TAKE j \in 1..m
  <2>1. \E i \in 1..n : Same(i, j)
    BY <1>a, <1>b
  <2> QED BY <2>1
<1> HIDE DEF p
<1>7. \A i \in 1..n : \E j \in 1..m : p[j] = i
  <2> TAKE i \in 1..n
  <2>1. PICK j \in 1..m : Same(i, j)
    BY <1>a, <1>b
  <2>2. Same(p[j], j) /\ p[j] \in 1..n
    BY <1>6
  <2>3. p[j] = i
    BY <1>a, <2>1, <2>2
  <2> QED BY <2>3
<1>8. \A i, j \in 1..m : p[i] = p[j] => i = j
  <2> SUFFICES ASSUME NEW i \in 1..m, NEW j \in 1..m, p[i] = p[j] PROVE i = j
    OBVIOUS
  <2>1. Same(p[i], i) /\ Same(p[i], j)
    BY <1>6
  <2>2. k[i] = k[j] /\ q[i] = q[j]
    BY <2>1
  <2>3. \A x, y \in 1..m : k[x] = k[y] /\ q[x] = q[y] => x = y
    BY <1>b, Zenon
  <2> QED BY <2>2, <2>3
<1>9. p \in [1..m -> 1..n]
  BY <1>6 DEF p
<1>10. m = n
  <2>1. IsFiniteSet(1..m) /\ Cardinality(1..m) = m /\ Cardinality(1..n) = n
    BY <1>c, FS_Interval
  <2> DEFINE X == 1..m
             Y == 1..n
  <2>2. /\ IsFiniteSet(X) /\ p \in [X -> Y] /\ \A i, j \in X : p[i] = p[j] => i = j
        /\ \A t \in Y : \E j \in X : p[j] = t
    BY <1>7, <1>8, <1>9, <2>1
  <2>3. Cardinality(X) = m /\ Cardinality(Y) = n
    BY <2>1
  <2> HIDE DEF X, Y
  <2>4. Cardinality(X) = Cardinality(Y)
    BY <2>2, CountMoved
  <2> QED BY <2>3, <2>4
<1>11. \A j \in 1..m : b[j] = a[p[j]]
  BY <1>d, <1>6
<1>12. \A i, j \in 1..n : i < j => p[i] < p[j]
  <2> SUFFICES ASSUME NEW i \in 1..n, NEW j \in 1..n, i < j PROVE p[i] < p[j]
    OBVIOUS
  <2>1. IdsBefore(b[i], b[j])
    BY <1>4, <1>10
  <2>2. IdsBefore(a[p[i]], a[p[j]]) /\ p[i] \in 1..n /\ p[j] \in 1..n
    BY <1>6, <1>10, <1>11, <2>1
  <2>3. ~(p[j] < p[i])
    BY <1>3, <1>5, <2>2
  <2>4. p[i] # p[j]
    BY <1>8, <1>10
  <2> QED BY <2>2, <2>3, <2>4
<1>13. IsOrder(lt, n) /\ (\A i, j \in 1..n : i < j => lt[i][j]) /\ \A i, j \in 1..n : i < j => lt[p[i]][p[j]]
  <2>1. \A i, j \in 1..n : lt[i][j] <=> i < j
    OBVIOUS
  <2>2. lt \in [1..n -> [1..n -> BOOLEAN]]
    OBVIOUS
  <2> HIDE DEF lt
  <2>3. \A i \in 1..n : ~lt[i][i]
    BY <2>1
  <2>4. \A i, j \in 1..n : i # j => lt[i][j] \/ lt[j][i]
    BY <2>1
  <2>5. \A i, j, h \in 1..n : lt[i][j] /\ lt[j][h] => lt[i][h]
    BY <2>1
  <2>6. \A i, j \in 1..n : i < j => lt[p[i]][p[j]]
    BY <1>6, <1>10, <1>12, <2>1
  <2> QED BY <2>1, <2>2, <2>3, <2>4, <2>5, <2>6 DEF IsOrder
<1> HIDE DEF lt
<1>14. \A i \in 1..n : Ranked(lt, n, i) = p[i]
  <2>1. p \in [1..n -> 1..n]
    BY <1>9, <1>10
  <2>2. n \in Nat
    BY <1>c
  <2>3. IsOrder(lt, n)
    BY <1>13
  <2>4. \A i, j \in 1..n : i < j => lt[p[i]][p[j]]
    BY <1>13
  <2> QED BY <2>1, <2>2, <2>3, <2>4, RankedIs, SMTT(30)
<1>15. \A i \in 1..n : Ranked(lt, n, i) = i
  BY <1>c, <1>13, RankedStays
<1>16. \A i \in 1..n : b[i] = a[i]
  BY <1>10, <1>11, <1>14, <1>15
<1>17. a = b
  BY <1>3, <1>4, <1>10, <1>16
<1> QED BY <1>17 DEF a, b

\* The columns of an input table, its activator with them.
LEMMA InputTable ==
  ASSUME query \in Queries, NEW s \in Sides
  PROVE  LET n == RowCount(s)
         IN  /\ DOMAIN Input(s)[Act] = 1..PowerOfTwo(n)
             /\ \A m \in ColumnsOf(s) \cup {Act} : \A i \in 1..n :
                  Input(s)[m][i] = Enc(Rows(s)[Spot(Rows(s), n, i)][m])
             /\ \A i \in 1..PowerOfTwo(n) : i > n => Input(s)[Act][i] = 0
<1> DEFINE n == RowCount(s)
           a == Cols(s)
           rows == Rows(s)
           f == Frame(a \o <<Act, RowId>>, rows, ColumnsOf(s) \cup {Act})
<1>1. a \in Seq(Int)
  BY SidesAre DEF Cols
<1>2. f.fields = a \o <<Act, RowId>> /\ f.rows = rows /\ f.mat = ColumnsOf(s) \cup {Act}
  BY DEF Frame
<1>3. Input(s) = EncodedColumns(f)
  BY DEF Input
<1>4. n \in Nat /\ DOMAIN rows = 1..n /\ Len(rows) = n
      /\ \A i \in 1..n : DOMAIN rows[i] = RowNames /\ rows[i][RowId] \in Int
  <2>1. n \in Nat /\ DOMAIN rows = 1..n /\ Len(rows) = n
        /\ \A i \in 1..n : rows[i] \in RowType /\ rows[i][RowId] \in 0..(n - 1)
    BY RowsAre DEF RowCount
  <2> HIDE DEF n, rows
  <2> QED BY <2>1 DEF RowType
<1> HIDE DEF a, f, n, rows
<1>5. \E i \in DOMAIN f.fields : f.fields[i] = RowId
  BY <1>1, <1>2, IdIsField
<1>6. Len(f.rows) = n /\ DOMAIN f.rows = 1..n
      /\ \A i \in 1..n : DOMAIN f.rows[i] = RowNames /\ f.rows[i][RowId] \in Int
  BY <1>2, <1>4
<1>7. /\ \A m \in f.mat : /\ DOMAIN EncodedColumns(f)[m] = 1..PowerOfTwo(n)
                          /\ \A i \in 1..n : EncodedColumns(f)[m][i] = Enc(f.rows[Spot(f.rows, n, i)][m])
      /\ Act \in f.mat => \A i \in 1..PowerOfTwo(n) : i > n => EncodedColumns(f)[Act][i] = Enc(0)
  BY <1>4, <1>5, <1>6, FrameColumns
<1>8. Act \in f.mat
  BY <1>2
<1> QED BY <1>2, <1>3, <1>7, <1>8, BitsStay DEF n, rows

\* The columns of a frame whose rows are numbered as they come.
LEMMA NumberedColumns ==
  ASSUME NEW n \in Nat, NEW f, \E i \in DOMAIN f.fields : f.fields[i] = RowId,
         Len(f.rows) = n, DOMAIN f.rows = 1..n,
         \A i \in 1..n : DOMAIN f.rows[i] = RowNames /\ f.rows[i][RowId] = i - 1
  PROVE  /\ DOMAIN EncodedColumns(f) = f.mat
         /\ \A m \in f.mat : /\ DOMAIN EncodedColumns(f)[m] = 1..PowerOfTwo(n)
                             /\ \A i \in 1..n : EncodedColumns(f)[m][i] = Enc(f.rows[i][m])
         /\ Act \in f.mat => \A i \in 1..PowerOfTwo(n) : i > n => EncodedColumns(f)[Act][i] = 0
<1>1. \A i \in 1..n : f.rows[i][RowId] = i - 1
  OBVIOUS
<1>2. \A i \in 1..n : f.rows[i][RowId] \in Int
  BY <1>1
<1>3. \A i \in 1..n : Spot(f.rows, n, i) = i
  BY <1>1, SpotStays
<1>4. /\ DOMAIN EncodedColumns(f) = f.mat
      /\ \A m \in f.mat : /\ DOMAIN EncodedColumns(f)[m] = 1..PowerOfTwo(n)
                          /\ \A i \in 1..n : EncodedColumns(f)[m][i] = Enc(f.rows[Spot(f.rows, n, i)][m])
      /\ Act \in f.mat => \A i \in 1..PowerOfTwo(n) : i > n => EncodedColumns(f)[Act][i] = Enc(0)
  BY <1>2, FrameColumns
<1> QED BY <1>3, <1>4, BitsStay

\* The input row a row of the join comes from.
From(s, l, r) == IF s = "left" THEN l ELSE r

LEMMA SourceIdsAre ==
  ASSUME query \in Queries, NEW s \in Sides, NEW n, NEW l, NEW r, IsJoin(JoinRun(2), n, l, r)
  PROVE  /\ n \in Nat /\ DOMAIN SourceIds(s) = 1..n /\ From(s, l, r) \in [1..n -> 1..RowCount(s)]
         /\ \A i \in 1..n : /\ Rows(s)[From(s, l, r)[i]][Act] = 1
                            /\ SourceIds(s)[i] = Rows(s)[From(s, l, r)[i]][RowId]
<1> DEFINE apart == \A x, y \in ActiveRows(s) : Payload(s, x) = Payload(s, y) => x = y
           found == \A i \in DOMAIN JoinRun(2) : SameRow(s, i) # {}
           id(i) == (CHOOSE x \in SameRow(s, i) : TRUE)[RowId]
           again(i) == Replayed(s, i)[RowId]
           at == From(s, l, r)
<1>1. /\ n \in Nat /\ DOMAIN JoinRun(2) = 1..n
      /\ l \in [1..n -> 1..RowCount("left")] /\ r \in [1..n -> 1..RowCount("right")]
      /\ \A p \in 1..n : JoinRun(2)[p] = <<Rows("left")[l[p]], Rows("right")[r[p]]>> /\ Pair(l[p], r[p])
  BY DEF IsJoin
<1>2. s = "left" \/ s = "right"
  BY SidesAre
<1>3. at \in [1..n -> 1..RowCount(s)]
  BY <1>1, <1>2 DEF From
<1>4. \A i \in 1..n : Replayed(s, i) = Rows(s)[at[i]] /\ Rows(s)[at[i]][Act] = 1
  BY <1>1, <1>2 DEF Replayed, From, Pair
<1>5. \A i \in 1..n : Replayed(s, i) \in ActiveRows(s)
  <2>1. DOMAIN Rows(s) = 1..RowCount(s)
    BY RowsAre
  <2> HIDE DEF at
  <2>2. \A i \in 1..n : at[i] \in DOMAIN Rows(s)
    BY <1>3, <2>1
  <2> QED BY <1>4, <2>2 DEF ActiveRows, Range
<1>6. SourceIds(s) = [i \in DOMAIN JoinRun(2) |-> IF apart /\ found THEN id(i) ELSE again(i)]
  BY DEF SourceIds
<1>7. ASSUME NEW i \in 1..n, apart PROVE id(i) = again(i)
  <2>1. Replayed(s, i) \in SameRow(s, i)
    BY <1>5 DEF SameRow
  <2>2. \A x \in SameRow(s, i) : x = Replayed(s, i)
    BY <1>5, <1>7 DEF SameRow
  <2> QED BY <2>1, <2>2
<1> HIDE DEF apart, found, id
<1>8. DOMAIN SourceIds(s) = 1..n /\ \A i \in 1..n : SourceIds(s)[i] = again(i)
  BY <1>1, <1>6, <1>7
<1> QED BY <1>1, <1>3, <1>4, <1>8

\* Row ids are elements of the field.
LEMMA IdsStay ==
  ASSUME query \in Queries, NEW s \in Sides, NEW i \in 1..RowCount(s)
  PROVE  /\ Rows(s)[i][RowId] \in 0..(RowCount(s) - 1) /\ Enc(Rows(s)[i][RowId]) = Rows(s)[i][RowId]
         /\ RowCount(s) \in Nat /\ RowCount(s) < FieldSize
<1> DEFINE n == RowCount(s)
           x == Rows(s)[i][RowId]
<1>1. n \in Nat /\ x \in 0..(n - 1)
  BY RowsAre
<1>2. n < FieldSize
  BY QueryAssumption DEF RowCount, Rows
<1>3. FieldSize \in Nat /\ Null \notin Int
  BY SortAssumption
<1> HIDE DEF n, x
<1>4. x \in Nat /\ x < FieldSize
  BY <1>1, <1>2, <1>3
<1>5. \A a, f \in Nat : a < f => a % f = a
  OBVIOUS
<1>6. Enc(x) = x
  BY <1>3, <1>4, <1>5 DEF Enc
<1> QED BY <1>1, <1>2, <1>6 DEF n, x

\* The tables of sources and of pairs, of n rows, hold the ids of the rows joined.
LEMMA SourceTables ==
  ASSUME query \in Queries, NEW n, NEW l, NEW r, IsJoin(JoinRun(2), n, l, r)
  PROVE  LET e == EncodedColumns(PairsFrame)
             N == PowerOfTwo(n)
             id(s, i) == Rows(s)[From(s, l, r)[i]][RowId]
         IN  /\ n \in Nat /\ DOMAIN e[Act] = 1..N
             /\ \A i \in 1..N : e[Act][i] = IF i <= n THEN 1 ELSE 0
             /\ \A s \in Sides : \A i \in 1..n :
                  /\ e[Src(s)][i] = id(s, i)
                  /\ EncodedColumns(SourceFrame(s))[Src(s)][i] = id(s, i)
<1> DEFINE N == PowerOfTwo(n)
           id(s, i) == Rows(s)[From(s, l, r)[i]][RowId]
           e == EncodedColumns(PairsFrame)
           left == SourceIds("left")
           right == SourceIds("right")
           row(i) == [m \in -1..MaxCols |->
                       CASE m = Src("left") -> left[i] [] m = Src("right") -> right[i]
                         [] m = Act -> 1 [] m = RowId -> i - 1 [] OTHER -> Null]
           rows == SourceRows
<1>1. /\ n \in Nat /\ DOMAIN left = 1..n /\ DOMAIN right = 1..n
      /\ \A i \in 1..n : left[i] = id("left", i) /\ right[i] = id("right", i)
  BY SidesAre, SourceIdsAre
<1>2. \A s \in Sides : \A i \in 1..n : Enc(id(s, i)) = id(s, i)
  <2> TAKE s \in Sides
  <2> TAKE i \in 1..n
  <2>1. From(s, l, r) \in [1..n -> 1..RowCount(s)]
    BY SourceIdsAre
  <2>2. From(s, l, r)[i] \in 1..RowCount(s)
    BY <2>1
  <2> QED BY <2>2, IdsStay
<1> HIDE DEF left, right, id
<1>3. rows = [i \in 1..n |-> row(i)]
  BY <1>1 DEF SourceRows, left, right
<1>4. Len(rows) = n /\ DOMAIN rows = 1..n /\ \A i \in 1..n : rows[i] = row(i)
  <2> HIDE DEF row, rows
  <2> QED BY <1>1, <1>3
<1>5. Src("left") = 5 /\ Src("right") = 6 /\ MaxCols = 6 /\ Act = 0 /\ RowId = -1
  BY ColumnsAre, QueryAssumption DEF Src
<1>6. \A i : /\ DOMAIN row(i) = RowNames /\ row(i)[RowId] = i - 1 /\ row(i)[Act] = 1
             /\ row(i)[5] = left[i] /\ row(i)[6] = right[i]
  BY <1>5 DEF RowNames
<1> HIDE DEF row, rows
<1>7. \A i \in 1..n : DOMAIN rows[i] = RowNames /\ rows[i][RowId] = i - 1
  BY <1>4, <1>6
<1>8. /\ PairsFrame.fields = <<5, 6, Act, RowId>> /\ PairsFrame.rows = rows /\ PairsFrame.mat = {5, 6, Act}
      /\ \A s : SourceFrame(s).fields = <<Src(s), Act, RowId>>
                /\ SourceFrame(s).rows = rows /\ SourceFrame(s).mat = {Src(s)}
  BY <1>5 DEF PairsFrame, SourceFrame, Frame, rows
<1>9. (\E i \in DOMAIN <<5, 6, Act, RowId>> : <<5, 6, Act, RowId>>[i] = RowId)
      /\ \A x : \E i \in DOMAIN <<x, Act, RowId>> : <<x, Act, RowId>>[i] = RowId
  <2>1. 4 \in DOMAIN <<5, 6, Act, RowId>> /\ <<5, 6, Act, RowId>>[4] = RowId
    OBVIOUS
  <2>2. \A x : 3 \in DOMAIN <<x, Act, RowId>> /\ <<x, Act, RowId>>[3] = RowId
    OBVIOUS
  <2> QED BY <2>1, <2>2
<1>10. /\ \A m \in PairsFrame.mat : DOMAIN e[m] = 1..N /\ \A i \in 1..n : e[m][i] = Enc(rows[i][m])
       /\ Act \in PairsFrame.mat => \A i \in 1..N : i > n => e[Act][i] = 0
  <2> DEFINE f == PairsFrame
  <2>1. /\ \E i \in DOMAIN f.fields : f.fields[i] = RowId
        /\ Len(f.rows) = n /\ DOMAIN f.rows = 1..n
        /\ \A i \in 1..n : DOMAIN f.rows[i] = RowNames /\ f.rows[i][RowId] = i - 1
    BY <1>4, <1>7, <1>8, <1>9
  <2> HIDE DEF f
  <2>2. /\ \A m \in f.mat : DOMAIN EncodedColumns(f)[m] = 1..PowerOfTwo(n)
                            /\ \A i \in 1..n : EncodedColumns(f)[m][i] = Enc(f.rows[i][m])
        /\ Act \in f.mat => \A i \in 1..PowerOfTwo(n) : i > n => EncodedColumns(f)[Act][i] = 0
    BY <1>1, <2>1, NumberedColumns
  <2> QED BY <1>8, <2>2 DEF f
<1>11. ASSUME NEW s \in Sides
       PROVE  \A i \in 1..n : EncodedColumns(SourceFrame(s))[Src(s)][i] = Enc(rows[i][Src(s)])
  <2> DEFINE f == SourceFrame(s)
  <2>1. /\ \E i \in DOMAIN f.fields : f.fields[i] = RowId
        /\ Len(f.rows) = n /\ DOMAIN f.rows = 1..n /\ f.rows = rows /\ f.mat = {Src(s)}
        /\ \A i \in 1..n : DOMAIN f.rows[i] = RowNames /\ f.rows[i][RowId] = i - 1
    BY <1>4, <1>7, <1>8, <1>9
  <2> HIDE DEF f
  <2>2. \A m \in f.mat : \A i \in 1..n : EncodedColumns(f)[m][i] = Enc(f.rows[i][m])
    BY <1>1, <2>1, NumberedColumns
  <2> QED BY <2>1, <2>2 DEF f
<1>12. \A s \in Sides : \A i \in 1..n : rows[i][Src(s)] = id(s, i) /\ Src(s) \in PairsFrame.mat
  <2> TAKE s \in Sides
  <2> TAKE i \in 1..n
  <2>1. s = "left" \/ s = "right"
    BY SidesAre
  <2>2. CASE s = "left"
    <3>1. rows[i][5] = left[i] /\ left[i] = id("left", i) /\ 5 \in PairsFrame.mat
      BY <1>1, <1>4, <1>6, <1>8
    <3> QED BY <1>5, <2>2, <3>1
  <2>3. CASE s = "right"
    <3>1. rows[i][6] = right[i] /\ right[i] = id("right", i) /\ 6 \in PairsFrame.mat
      BY <1>1, <1>4, <1>6, <1>8
    <3> QED BY <1>5, <2>3, <3>1
  <2> QED BY <2>1, <2>2, <2>3
<1>13. \A i \in 1..N : e[Act][i] = IF i <= n THEN 1 ELSE 0
  <2> TAKE i \in 1..N
  <2>1. N \in Nat
    BY <1>1, PaddedSize
  <2> HIDE DEF N, e
  <2>2. CASE i <= n
    <3>1. i \in 1..n /\ Act \in PairsFrame.mat
      BY <1>1, <1>8, <2>1, <2>2
    <3>2. e[Act][i] = Enc(rows[i][Act]) /\ rows[i][Act] = 1
      BY <1>4, <1>6, <1>10, <3>1
    <3> QED BY <2>2, <3>2, BitsStay
  <2>3. CASE ~(i <= n)
    <3>1. i > n /\ Act \in PairsFrame.mat
      BY <1>1, <1>8, <2>1, <2>3
    <3> QED BY <1>10, <2>3, <3>1
  <2> QED BY <2>2, <2>3
<1>14. DOMAIN e[Act] = 1..N
  BY <1>8, <1>10
<1> HIDE DEF N, e
<1>15. \A s \in Sides : \A i \in 1..n : e[Src(s)][i] = id(s, i) /\ EncodedColumns(SourceFrame(s))[Src(s)][i] = id(s, i)
  BY <1>2, <1>10, <1>11, <1>12
<1> QED BY <1>1, <1>13, <1>14, <1>15 DEF N, e, id

\* The keys of the active rows.
KeysOf(s) == {Key(s, row) : row \in ActiveRows(s)}
AllKeys == KeysOf("left") \cup KeysOf("right")

LEMMA KeySeqIs ==
  ASSUME query \in Queries, NEW s \in Sides
  PROVE  /\ KeySeq(s) \in Seq(KeysOf(s))
         /\ \A k \in KeysOf(s) : \E i \in 1..Len(KeySeq(s)) : KeySeq(s)[i] = k
<1> DEFINE n == RowCount(s)
           list == ById(Rows(s))
           keep == ActiveRows(s)
           kept == Kept(list, keep)
           seq == KeySeq(s)
<1>1. n \in Nat /\ DOMAIN Rows(s) = 1..n /\ \A i \in 1..n : Rows(s)[i][RowId] \in Int
  BY RowsAre
<1>2. DOMAIN list = 1..n /\ \A i \in 1..n : list[i] = Rows(s)[Spot(Rows(s), n, i)]
  BY <1>1, ByIdStays
<1>3. \A j \in 1..n : \E i \in 1..n : Spot(Rows(s), n, i) = j
  BY <1>1, SpotsAre
<1> HIDE DEF list, n
<1>4. PICK e, m : Keeps(list, n, keep, e, m)
  BY <1>1, <1>2, KeptMembers
<1>5. /\ m \in Nat /\ e \in [1..m -> 1..n] /\ DOMAIN kept = 1..m
      /\ \A i \in 1..n : list[i] \in keep <=> \E k \in 1..m : e[k] = i
      /\ \A k \in 1..m : kept[k] = list[e[k]]
  BY <1>4 DEF Keeps
<1>6. \A k \in 1..m : kept[k] \in keep
  BY <1>5
<1>7. \A x \in keep : \E k \in 1..m : kept[k] = x
  <2> TAKE x \in keep
  <2>1. PICK j \in 1..n : Rows(s)[j] = x
    BY <1>1 DEF ActiveRows, Range
  <2>2. PICK i \in 1..n : Spot(Rows(s), n, i) = j
    BY <1>3
  <2>3. list[i] = x
    BY <1>2, <2>1, <2>2
  <2> QED BY <1>5, <2>3
<1>8. seq = [i \in 1..m |-> Key(s, kept[i])]
  <2>1. seq = [i \in DOMAIN kept |-> Key(s, kept[i])]
    BY DEF KeySeq, list
  <2> HIDE DEF seq, kept, keep
  <2> QED BY <1>5, <2>1
<1> HIDE DEF kept, seq
<1>9. \A i \in 1..m : Key(s, kept[i]) \in KeysOf(s)
  BY <1>6 DEF KeysOf
<1>10. seq \in [1..m -> KeysOf(s)] /\ \A i \in 1..m : seq[i] = Key(s, kept[i])
  BY <1>8, <1>9
<1>11. seq \in Seq(KeysOf(s)) /\ Len(seq) = m
  BY <1>5, <1>10, ListOf
<1>12. ASSUME NEW k \in KeysOf(s) PROVE \E i \in 1..m : seq[i] = k
  <2>1. PICK x \in keep : k = Key(s, x)
    BY DEF KeysOf
  <2>2. PICK i \in 1..m : kept[i] = x
    BY <1>7
  <2> QED BY <1>10, <2>1, <2>2
<1> QED BY <1>11, <1>12 DEF seq

\* Each key is there once.
LEMMA UnionKeysAre ==
  ASSUME query \in Queries
  PROVE  \E m \in Nat :
           /\ Len(UnionKeys) = m /\ DOMAIN UnionKeys = 1..m
           /\ \A i \in 1..m : UnionKeys[i] \in AllKeys
           /\ \A i, j \in 1..m : UnionKeys[i] = UnionKeys[j] => i = j
           /\ \A k \in AllKeys : \E i \in 1..m : UnionKeys[i] = k
<1> DEFINE a == KeySeq("left")
           b == KeySeq("right")
           all == a \o b
           S == AllKeys
           N == Len(all)
           first == {i \in DOMAIN all : \A j \in 1..(i - 1) : all[j] # all[i]}
           u == UnionKeys
<1>1. /\ a \in Seq(S) /\ b \in Seq(S)
      /\ \A k \in S : (\E i \in 1..Len(a) : a[i] = k) \/ \E i \in 1..Len(b) : b[i] = k
  <2>1. KeysOf("left") \in SUBSET S /\ KeysOf("right") \in SUBSET S
    BY DEF AllKeys
  <2>2. a \in Seq(KeysOf("left")) /\ b \in Seq(KeysOf("right"))
    BY SidesAre, KeySeqIs
  <2>3. a \in Seq(S) /\ b \in Seq(S)
    <3> HIDE DEF a, b, S
    <3>1. \A X, Y : X \in SUBSET Y => \A c \in Seq(X) : c \in Seq(Y)
      OBVIOUS
    <3> QED BY <2>1, <2>2, <3>1
  <2>4. ASSUME NEW k \in S PROVE (\E i \in 1..Len(a) : a[i] = k) \/ \E i \in 1..Len(b) : b[i] = k
    <3>1. k \in KeysOf("left") \/ k \in KeysOf("right")
      BY DEF AllKeys
    <3> QED BY <3>1, SidesAre, KeySeqIs
  <2> QED BY <2>3, <2>4
<1> HIDE DEF a, b, S
<1>2. all \in Seq(S) /\ ConsistsOf(all, a, Len(a), b, Len(b))
  BY <1>1, Joined
<1>3. /\ N = Len(a) + Len(b) /\ Len(a) \in Nat /\ Len(b) \in Nat
      /\ (\A i \in 1..Len(a) : all[i] = a[i]) /\ \A i \in 1..Len(b) : all[Len(a) + i] = b[i]
  BY <1>2 DEF ConsistsOf
<1>4. u = [k \in 1..Cardinality(first) |-> all[Nth(first, k)]]
  BY DEF UnionKeys, a, b
<1> HIDE DEF all
<1>5. N \in Nat /\ DOMAIN all = 1..N /\ \A i \in 1..N : all[i] \in S
  BY <1>2
<1> HIDE DEF N, u
<1>6. \A k \in S : \E i \in 1..N : all[i] = k
  <2> TAKE k \in S
  <2>1. CASE \E i \in 1..Len(a) : a[i] = k
    <3>1. PICK i \in 1..Len(a) : a[i] = k
      BY <2>1
    <3>2. i \in 1..N /\ all[i] = k
      BY <1>3, <3>1
    <3> QED BY <3>2
  <2>2. CASE \E i \in 1..Len(b) : b[i] = k
    <3>1. PICK i \in 1..Len(b) : b[i] = k
      BY <2>2
    <3>2. Len(a) + i \in 1..N /\ all[Len(a) + i] = k
      BY <1>3, <3>1
    <3> QED BY <3>2
  <2> QED BY <1>1, <2>1, <2>2
<1>7. first \in SUBSET (1..N) /\ \A i : i \in first <=> i \in 1..N /\ \A j \in 1..(i - 1) : all[j] # all[i]
  BY <1>5
<1> HIDE DEF first
<1>8. PICK m, e : Lists(e, m, first)
  BY <1>5, <1>7, Listing
<1>9. m \in Nat /\ e \in [1..m -> first] /\ (\A j, k \in 1..m : j < k => e[j] < e[k])
      /\ \A i \in first : \E k \in 1..m : e[k] = i
  BY <1>8 DEF Lists
<1>10. Cardinality(first) = m /\ \A k \in 1..m : Nth(first, k) = e[k]
  <2>1. first \in SUBSET Nat
    BY <1>7
  <2> QED BY <1>9, <2>1, NthIs
<1>11. u = [k \in 1..m |-> all[e[k]]]
  BY <1>4, <1>10
<1>12. Len(u) = m /\ DOMAIN u = 1..m /\ \A k \in 1..m : u[k] = all[e[k]] /\ e[k] \in first /\ e[k] \in 1..N
  BY <1>7, <1>9, <1>11
<1>13. \A i \in 1..m : u[i] \in S
  BY <1>5, <1>12
<1>14. ASSUME NEW i \in 1..m, NEW j \in 1..m, i < j PROVE u[i] # u[j]
  <2>1. e[i] < e[j] /\ e[i] \in 1..N /\ e[j] \in 1..N /\ e[j] \in first
    BY <1>9, <1>12, <1>14
  <2>2. e[i] \in 1..(e[j] - 1)
    BY <1>5, <2>1
  <2>3. all[e[i]] # all[e[j]]
    BY <1>7, <2>1, <2>2
  <2> QED BY <1>12, <2>3
<1>15. \A i, j \in 1..m : u[i] = u[j] => i = j
  <2> TAKE i, j \in 1..m
  <2>1. i < j \/ j < i \/ i = j
    BY <1>9
  <2> QED BY <1>14, <2>1
<1>16. ASSUME NEW k \in S PROVE \E i \in 1..m : u[i] = k
  <2> DEFINE D == {i \in 1..N : all[i] = k}
  <2>1. D # {}
    BY <1>6
  <2>2. D \in SUBSET Nat /\ \A i : i \in D <=> i \in 1..N /\ all[i] = k
    OBVIOUS
  <2> HIDE DEF D
  <2>3. PICK d \in D : \A i \in D : d <= i
    BY <2>1, <2>2, Least
  <2>4. d \in 1..N /\ all[d] = k /\ \A j \in 1..(d - 1) : j \in 1..N /\ ~(d <= j)
    BY <1>5, <2>2
  <2>5. d \in first
    BY <1>7, <2>2, <2>3, <2>4
  <2>6. PICK i \in 1..m : e[i] = d
    BY <1>9, <2>5
  <2> QED BY <1>12, <2>4, <2>6
<1> QED BY <1>9, <1>12, <1>13, <1>15, <1>16 DEF u, S

\* How the fields of a key are encoded.
KeyCodes(key) == [j \in 1..KeyCount |-> Enc(key[j])]

LEMMA KeysAre ==
  ASSUME query \in Queries, NEW s \in Sides
  PROVE  /\ KeyCount \in Nat /\ KeyCount <= 6 /\ DOMAIN KeyCols(s) = 1..KeyCount
         /\ \A j \in 1..KeyCount : KeyCols(s)[j] \in ColumnsOf(s)
         /\ \A row : Codes(s, row) = KeyCodes(Key(s, row))
                     /\ \A j \in 1..KeyCount : Key(s, row)[j] = row[KeyCols(s)[j]]
<1> DEFINE on == query.on
           n == KeyCount
           L == ColumnsOf("left")
           R == ColumnsOf("right")
<1>1. on \in Seq(L \X R) /\ Len(on) <= MaxCols /\ MaxCols = 6
  BY QueryAssumption
<1>2. n = Len(on)
  BY DEF KeyCount
<1> HIDE DEF L, R, on, n
<1>3. n \in Nat /\ n <= 6 /\ DOMAIN on = 1..n /\ \A j \in 1..n : on[j] \in L \X R
  BY <1>1, <1>2
<1>4. KeyCols(s) = [i \in DOMAIN on |-> on[i][IF s = "left" THEN 1 ELSE 2]]
  BY DEF KeyCols, on
<1>5. DOMAIN KeyCols(s) = 1..n /\ \A j \in 1..n : KeyCols(s)[j] = on[j][IF s = "left" THEN 1 ELSE 2]
  BY <1>3, <1>4
<1>6. \A j \in 1..n : KeyCols(s)[j] \in ColumnsOf(s)
  <2>1. s = "left" \/ s = "right"
    BY SidesAre
  <2>2. CASE s = "left"
    BY <1>3, <1>5, <2>2 DEF L
  <2>3. CASE s = "right"
    BY <1>3, <1>5, <2>3 DEF R
  <2> QED BY <2>1, <2>2, <2>3
<1>7. \A row : Codes(s, row) = KeyCodes(Key(s, row)) /\ \A j \in 1..n : Key(s, row)[j] = row[KeyCols(s)[j]]
  BY DEF Codes, KeyCodes, Key, n
<1> QED BY <1>3, <1>5, <1>6, <1>7 DEF n

\* The rows of the table of keys that are there: each key's, encoded, once.
IsUnion(view, m, M, u) ==
  /\ m \in Nat /\ M \in Nat /\ m <= M /\ DOMAIN view = 1..M
  /\ \A i \in 1..M : (view[i].on <=> i <= m)
  /\ \A i \in 1..m : u[i] \in AllKeys /\ view[i].v = KeyCodes(u[i])
  /\ \A i, j \in 1..m : u[i] = u[j] => i = j
  /\ \A k \in AllKeys : \E i \in 1..m : u[i] = k

LEMMA UnionViewIs ==
  ASSUME query \in Queries, NEW c, c.union = EncodedColumns(UnionFrame)
  PROVE  \E m, M, u : /\ IsUnion(UnionView(c), m, M, u) /\ DOMAIN c.union[Act] = 1..M
                      /\ \A i \in 1..M : c.union[Act][i] = IF UnionView(c)[i].on THEN 1 ELSE 0
<1> DEFINE u == UnionKeys
           K == KeyCount
<1>1. PICK m \in Nat :
           /\ Len(u) = m /\ DOMAIN u = 1..m
           /\ \A i \in 1..m : u[i] \in AllKeys
           /\ \A i, j \in 1..m : u[i] = u[j] => i = j
           /\ \A k \in AllKeys : \E i \in 1..m : u[i] = k
  BY UnionKeysAre
<1> DEFINE n == PowerOfTwo(m)
           M == PowerOfTwo(n)
           f == UnionFrame
           e == EncodedColumns(f)
           full(i) == [c1 \in -1..MaxCols |->
                 CASE c1 = Act -> 1 [] c1 = RowId -> i - 1
                   [] c1 \in 1..K -> u[i][c1] [] OTHER -> Null]
           row(i) == IF i > m THEN NullRow(i) ELSE full(i)
<1>2. n \in Nat /\ m <= n /\ M \in Nat /\ n <= M
  BY PaddedSize
<1>3. f.rows = [i \in 1..n |-> row(i)] /\ f.mat = Range(UnionFields) \cup {Act}
      /\ f.fields = UnionFields \o <<Act, RowId>>
  BY <1>1 DEF UnionFrame, Frame
<1> HIDE DEF u
<1>4. K \in Nat /\ K <= 6
  BY KeysAre, SidesAre
<1>5. MaxCols = 6 /\ Act = 0 /\ RowId = -1 /\ RowNames = -1..6
  BY QueryAssumption, ColumnsAre
<1>6. UnionFields \in Seq(Int) /\ DOMAIN UnionFields = 1..K /\ \A j \in 1..K : UnionFields[j] = j
  BY <1>4 DEF UnionFields
<1>7. \A j \in 1..K : j \in f.mat
  BY <1>3, <1>6 DEF Range
<1>8. Act \in f.mat
  BY <1>3
<1>9. \E i \in DOMAIN f.fields : f.fields[i] = RowId
  <2> DEFINE b == UnionFields \o <<Act, RowId>>
  <2>1. \E i \in DOMAIN b : b[i] = RowId
    BY <1>6, IdIsField
  <2>2. f.fields = b
    BY <1>3
  <2> HIDE DEF b, f
  <2> QED BY <2>1, <2>2
<1>10. \A i : /\ DOMAIN full(i) = RowNames /\ full(i)[RowId] = i - 1 /\ full(i)[Act] = 1
              /\ \A j \in 1..K : full(i)[j] = u[i][j]
  BY <1>4, <1>5
<1>11. \A i : DOMAIN NullRow(i) = RowNames /\ NullRow(i)[RowId] = i - 1 /\ NullRow(i)[Act] = 0
  BY <1>5 DEF NullRow
<1> HIDE DEF full, f, n, K
<1>12. Len(f.rows) = n /\ DOMAIN f.rows = 1..n /\ \A i \in 1..n : f.rows[i] = row(i)
  <2> HIDE DEF row
  <2> QED BY <1>2, <1>3
<1>13. \A i \in 1..n : DOMAIN f.rows[i] = RowNames /\ f.rows[i][RowId] = i - 1
  BY <1>10, <1>11, <1>12
<1>14. /\ \A c1 \in f.mat : /\ DOMAIN EncodedColumns(f)[c1] = 1..PowerOfTwo(n)
                            /\ \A i \in 1..n : EncodedColumns(f)[c1][i] = Enc(f.rows[i][c1])
       /\ Act \in f.mat => \A i \in 1..PowerOfTwo(n) : i > n => EncodedColumns(f)[Act][i] = 0
  BY <1>2, <1>9, <1>12, <1>13, NumberedColumns
<1>15. \A i \in 1..M : e[Act][i] = IF i <= m THEN 1 ELSE 0
  <2> TAKE i \in 1..M
  <2> HIDE DEF M
  <2>1. CASE i <= m
    <3>1. i \in 1..n /\ f.rows[i] = full(i)
      BY <1>1, <1>2, <1>12, <2>1
    <3> QED BY <1>8, <1>10, <1>14, <2>1, <3>1, BitsStay
  <2>2. CASE i > m /\ i <= n
    <3>1. i \in 1..n /\ f.rows[i] = NullRow(i)
      BY <1>1, <1>2, <1>12, <2>2
    <3>2. ~(i <= m)
      BY <1>1, <1>2, <2>2
    <3> QED BY <1>8, <1>11, <1>14, <3>1, <3>2, BitsStay
  <2>3. CASE i > n
    <3>1. ~(i <= m)
      BY <1>1, <1>2, <2>3
    <3> QED BY <1>8, <1>14, <2>3, <3>1 DEF M
  <2> QED BY <1>1, <1>2, <2>1, <2>2, <2>3
<1> DEFINE view == UnionView(c)
<1>16. c.union = e
  BY DEF f
<1> HIDE DEF e
<1>17. DOMAIN c.union[Act] = 1..M
  BY <1>8, <1>14, <1>16 DEF M, e
<1>18. view = [i \in 1..M |-> [v |-> [j \in DOMAIN UnionFields |-> c.union[UnionFields[j]][i]],
                               on |-> c.union[Act][i] = 1]]
  BY <1>17 DEF UnionView, View
<1>19. DOMAIN view = 1..M /\ \A i \in 1..M :
         /\ view[i].on = (c.union[Act][i] = 1)
         /\ view[i].v = [j \in 1..K |-> c.union[j][i]]
  <2> HIDE DEF view, M
  <2>1. \A i : [j \in DOMAIN UnionFields |-> c.union[UnionFields[j]][i]] = [j \in 1..K |-> c.union[j][i]]
    BY <1>6
  <2> QED BY <1>18, <2>1
<1> HIDE DEF view
<1>20. \A i \in 1..M : (view[i].on <=> i <= m)
  <2> TAKE i \in 1..M
  <2> HIDE DEF M
  <2>1. view[i].on = (e[Act][i] = 1)
    BY <1>16, <1>19
  <2>2. e[Act][i] = 1 <=> i <= m
    BY <1>15
  <2> QED BY <2>1, <2>2
<1>21. ASSUME NEW i \in 1..m PROVE u[i] \in AllKeys /\ view[i].v = KeyCodes(u[i])
  <2>1. i \in 1..n /\ i \in 1..M /\ f.rows[i] = full(i)
    BY <1>1, <1>2, <1>12
  <2>2. \A j \in 1..K : e[j][i] = Enc(u[i][j])
    BY <1>7, <1>10, <1>14, <2>1 DEF e
  <2>3. [j \in 1..K |-> c.union[j][i]] = KeyCodes(u[i])
    BY <1>16, <2>2 DEF KeyCodes, K
  <2> QED BY <1>1, <1>19, <2>1, <2>3
<1>22. \A i \in 1..M : c.union[Act][i] = IF view[i].on THEN 1 ELSE 0
  BY <1>15, <1>16, <1>20
<1>23. m <= M /\ M \in Nat
  BY <1>1, <1>2
<1> HIDE DEF M
<1>24. IsUnion(view, m, M, u)
  <2>1. m \in Nat /\ M \in Nat /\ m <= M /\ DOMAIN view = 1..M
    BY <1>19, <1>23
  <2>2. (\A i, j \in 1..m : u[i] = u[j] => i = j) /\ \A k \in AllKeys : \E i \in 1..m : u[i] = k
    BY <1>1 DEF u
  <2> QED BY <1>20, <1>21, <2>1, <2>2 DEF IsUnion
<1> QED BY <1>17, <1>22, <1>24 DEF view

\* Row i of a table by its id.
At(s, i) == Rows(s)[Spot(Rows(s), RowCount(s), i)]

LEMMA AtIs ==
  ASSUME query \in Queries, NEW s \in Sides
  PROVE  /\ \A i \in 1..RowCount(s) : /\ Spot(Rows(s), RowCount(s), i) \in 1..RowCount(s)
                                      /\ At(s, i) \in Range(Rows(s)) /\ At(s, i)[Act] \in {0, 1}
         /\ \A m \in 1..RowCount(s) : \E i \in 1..RowCount(s) : Spot(Rows(s), RowCount(s), i) = m
         /\ \A i, j \in 1..RowCount(s) :
              Spot(Rows(s), RowCount(s), i) = Spot(Rows(s), RowCount(s), j) => i = j
<1> DEFINE n == RowCount(s)
           rows == Rows(s)
<1>1. n \in Nat /\ DOMAIN rows = 1..n
      /\ \A i \in 1..n : rows[i][RowId] \in 0..(n - 1) /\ rows[i][Act] \in {0, 1}
  BY RowsAre
<1> HIDE DEF n, rows
<1>2. \A i \in 1..n : rows[i][RowId] \in Int
  BY <1>1
<1>3. /\ \A i \in 1..n : Spot(rows, n, i) \in 1..n
      /\ \A m \in 1..n : \E i \in 1..n : Spot(rows, n, i) = m
      /\ \A i, j \in 1..n : Spot(rows, n, i) = Spot(rows, n, j) => i = j
  BY <1>1, <1>2, SpotsAre
<1>4. \A i \in 1..n : rows[Spot(rows, n, i)] \in Range(rows) /\ rows[Spot(rows, n, i)][Act] \in {0, 1}
  BY <1>1, <1>3 DEF Range
<1> QED BY <1>3, <1>4 DEF At, n, rows

\* The keys of a table's rows.
LEMMA KeyViewIs ==
  ASSUME query \in Queries, NEW s \in Sides
  PROVE  /\ RowCount(s) \in Nat /\ PowerOfTwo(RowCount(s)) \in Nat
         /\ DOMAIN KeyView(s) = 1..PowerOfTwo(RowCount(s))
         /\ \A i \in 1..PowerOfTwo(RowCount(s)) : KeyView(s)[i].on => i <= RowCount(s)
         /\ \A i \in 1..RowCount(s) : /\ i \in 1..PowerOfTwo(RowCount(s))
                                      /\ (KeyView(s)[i].on <=> At(s, i)[Act] = 1)
                                      /\ KeyView(s)[i].v = KeyCodes(Key(s, At(s, i)))
<1> DEFINE n == RowCount(s)
           N == PowerOfTwo(n)
           in == Input(s)
           view == KeyView(s)
           K == KeyCount
<1>1. /\ DOMAIN in[Act] = 1..N
      /\ \A m \in ColumnsOf(s) \cup {Act} : \A i \in 1..n : in[m][i] = Enc(At(s, i)[m])
      /\ \A i \in 1..N : i > n => in[Act][i] = 0
  BY InputTable DEF At
<1>2. n \in Nat /\ N \in Nat /\ n <= N
  BY RowsAre, PaddedSize
<1> HIDE DEF n, N, in, K
<1>3. /\ DOMAIN KeyCols(s) = 1..K /\ \A j \in 1..K : KeyCols(s)[j] \in ColumnsOf(s)
      /\ \A row : \A j \in 1..K : Key(s, row)[j] = row[KeyCols(s)[j]]
  BY KeysAre DEF K
<1>4. view = [i \in 1..N |-> [v |-> [j \in DOMAIN KeyCols(s) |-> in[KeyCols(s)[j]][i]], on |-> in[Act][i] = 1]]
  BY <1>1 DEF KeyView, View, in
<1>5. DOMAIN view = 1..N /\ \A i \in 1..N :
         view[i].on = (in[Act][i] = 1) /\ view[i].v = [j \in 1..K |-> in[KeyCols(s)[j]][i]]
  <2> HIDE DEF view
  <2> QED BY <1>3, <1>4
<1> HIDE DEF view
<1>6. \A i \in 1..N : view[i].on => i <= n
  <2> TAKE i \in 1..N
  <2> HAVE view[i].on
  <2>1. in[Act][i] = 1
    BY <1>5
  <2>2. ~(i > n)
    BY <1>1, <2>1
  <2> QED BY <1>2, <2>2
<1>7. ASSUME NEW i \in 1..n
      PROVE  i \in 1..N /\ (view[i].on <=> At(s, i)[Act] = 1) /\ view[i].v = KeyCodes(Key(s, At(s, i)))
  <2>1. i \in 1..N
    BY <1>2
  <2>2. At(s, i)[Act] \in {0, 1}
    BY AtIs DEF n
  <2>3. in[Act][i] = At(s, i)[Act]
    BY <1>1, <2>2, BitsStay
  <2>4. \A j \in 1..K : in[KeyCols(s)[j]][i] = Enc(Key(s, At(s, i))[j])
    BY <1>1, <1>3
  <2>5. [j \in 1..K |-> in[KeyCols(s)[j]][i]] = KeyCodes(Key(s, At(s, i)))
    BY <2>4 DEF KeyCodes, K
  <2> QED BY <1>5, <2>1, <2>3, <2>5
<1> QED BY <1>2, <1>5, <1>6, <1>7 DEF n, N, view

\* Keys that differ have different codes.
LEMMA CodesTell ==
  ASSUME query \in Queries, Expressible, NEW k \in AllKeys, NEW q \in AllKeys, KeyCodes(k) = KeyCodes(q)
  PROVE  k = q
<1>1. \A s \in Sides : \A row : Codes(s, row) = KeyCodes(Key(s, row))
  BY KeysAre
<1>2. ASSUME NEW l \in ActiveRows("left"), NEW r \in ActiveRows("right"),
             KeyCodes(Key("left", l)) = KeyCodes(Key("right", r))
      PROVE  Key("left", l) = Key("right", r)
  <2>1. Codes("left", l) = Codes("right", r)
    BY <1>1, <1>2, SidesAre
  <2> QED BY <2>1 DEF Expressible, Matches
<1>3. ASSUME NEW s \in Sides, NEW x \in ActiveRows(s), NEW y \in ActiveRows(s),
             KeyCodes(Key(s, x)) = KeyCodes(Key(s, y))
      PROVE  Key(s, x) = Key(s, y)
  BY <1>1, <1>3 DEF Expressible
<1>4. PICK s \in Sides : k \in KeysOf(s)
  BY SidesAre DEF AllKeys
<1>5. PICK t \in Sides : q \in KeysOf(t)
  BY SidesAre DEF AllKeys
<1>6. PICK x \in ActiveRows(s) : k = Key(s, x)
  BY <1>4 DEF KeysOf
<1>7. PICK y \in ActiveRows(t) : q = Key(t, y)
  BY <1>5 DEF KeysOf
<1>8. CASE s = t
  BY <1>3, <1>6, <1>7, <1>8
<1>9. CASE s = "left" /\ t = "right"
  BY <1>2, <1>6, <1>7, <1>9
<1>10. CASE s = "right" /\ t = "left"
  BY <1>2, <1>6, <1>7, <1>10
<1> QED BY <1>8, <1>9, <1>10, SidesAre

\* The keys are told apart by their codes, and each row's is found.
LEMMA KeysListed ==
  ASSUME query \in Queries, Expressible, NEW view, NEW m, NEW M, NEW u, IsUnion(view, m, M, u)
  PROVE  /\ NoRepeats(view)
         /\ \A s \in Sides : Among(KeyView(s), view) /\ \A v : TimesIn(KeyView(s), v) < FieldSize
<1>1. /\ m \in Nat /\ M \in Nat /\ m <= M /\ DOMAIN view = 1..M
      /\ \A i \in 1..M : (view[i].on <=> i <= m)
      /\ \A i \in 1..m : u[i] \in AllKeys /\ view[i].v = KeyCodes(u[i])
      /\ \A i, j \in 1..m : u[i] = u[j] => i = j
      /\ \A k \in AllKeys : \E i \in 1..m : u[i] = k
  BY DEF IsUnion
<1>2. ASSUME NEW i \in 1..M, NEW j \in 1..M, view[i].on, view[j].on, view[i].v = view[j].v
      PROVE  i = j
  <2>1. i \in 1..m /\ j \in 1..m
    BY <1>1, <1>2
  <2>2. u[i] \in AllKeys /\ u[j] \in AllKeys /\ KeyCodes(u[i]) = KeyCodes(u[j])
    BY <1>1, <1>2, <2>1
  <2>3. u[i] = u[j]
    BY <2>2, CodesTell
  <2> QED BY <1>1, <2>1, <2>3
<1>3. ASSUME NEW s \in Sides PROVE Among(KeyView(s), view) /\ \A v : TimesIn(KeyView(s), v) < FieldSize
  <2> DEFINE n == RowCount(s)
             N == PowerOfTwo(n)
             keys == KeyView(s)
  <2>1. /\ n \in Nat /\ N \in Nat /\ DOMAIN keys = 1..N
        /\ \A i \in 1..N : keys[i].on => i <= n
        /\ \A i \in 1..n : /\ (keys[i].on <=> At(s, i)[Act] = 1) /\ keys[i].v = KeyCodes(Key(s, At(s, i)))
    BY KeyViewIs
  <2>2. n < FieldSize
    BY QueryAssumption DEF RowCount, Rows
  <2>3. \A i \in 1..n : At(s, i) \in Range(Rows(s))
    BY AtIs
  <2> HIDE DEF n, N, keys
  <2>4. \A v : TimesIn(keys, v) < FieldSize
    BY <2>1, <2>2, FewTimes
  <2>5. ASSUME NEW i \in 1..N, keys[i].on PROVE \E j \in 1..M : view[j].on /\ view[j].v = keys[i].v
    <3>1. i \in 1..n
      BY <2>1, <2>5
    <3>2. At(s, i) \in ActiveRows(s) /\ keys[i].v = KeyCodes(Key(s, At(s, i)))
      BY <2>1, <2>3, <2>5, <3>1 DEF ActiveRows
    <3>3. Key(s, At(s, i)) \in AllKeys
      BY <3>2, SidesAre DEF KeysOf, AllKeys
    <3>4. PICK j \in 1..m : u[j] = Key(s, At(s, i))
      BY <1>1, <3>3
    <3>5. j \in 1..M /\ view[j].on /\ view[j].v = keys[i].v
      BY <1>1, <3>2, <3>4
    <3> QED BY <3>5
  <2> QED BY <1>1, <2>1, <2>4, <2>5 DEF Among, keys
<1> QED BY <1>1, <1>2, <1>3 DEF NoRepeats

\* The rows of the two tables whose keys have the same codes are the rows joined.
LEMMA PairsAreJoin ==
  ASSUME query \in Queries, Expressible, NEW list, NEW n, NEW l, NEW r, IsJoin(list, n, l, r)
  PROVE  /\ Cardinality(EqualPairs(KeyView("left"), KeyView("right"))) = n /\ n < FieldSize
         /\ n \in Nat
<1> DEFINE L == RowCount("left")
           R == RowCount("right")
           left == KeyView("left")
           right == KeyView("right")
           E == EqualPairs(left, right)
           i(p) == CHOOSE x \in 1..L : Spot(Rows("left"), L, x) = l[p]
           j(p) == CHOOSE x \in 1..R : Spot(Rows("right"), R, x) = r[p]
           f == [p \in 1..n |-> <<i(p), j(p)>>]
<1>1. /\ n \in Nat /\ l \in [1..n -> 1..L] /\ r \in [1..n -> 1..R]
      /\ \A p \in 1..n : Pair(l[p], r[p])
      /\ \A p, q \in 1..n : l[p] = l[q] /\ r[p] = r[q] => p = q
      /\ \A x \in 1..L, y \in 1..R : Pair(x, y) => \E p \in 1..n : l[p] = x /\ r[p] = y
  BY DEF IsJoin
<1>2. /\ L \in Nat /\ R \in Nat
      /\ DOMAIN left = 1..PowerOfTwo(L) /\ DOMAIN right = 1..PowerOfTwo(R)
      /\ \A x \in 1..PowerOfTwo(L) : left[x].on => x <= L
      /\ \A x \in 1..PowerOfTwo(R) : right[x].on => x <= R
      /\ \A x \in 1..L : /\ x \in 1..PowerOfTwo(L) /\ (left[x].on <=> At("left", x)[Act] = 1)
                         /\ left[x].v = KeyCodes(Key("left", At("left", x)))
      /\ \A x \in 1..R : /\ x \in 1..PowerOfTwo(R) /\ (right[x].on <=> At("right", x)[Act] = 1)
                         /\ right[x].v = KeyCodes(Key("right", At("right", x)))
  BY SidesAre, KeyViewIs
<1> HIDE DEF L, R, left, right, E
<1>3. \A p \in 1..n : i(p) \in 1..L /\ Spot(Rows("left"), L, i(p)) = l[p]
                      /\ j(p) \in 1..R /\ Spot(Rows("right"), R, j(p)) = r[p]
  <2> TAKE p \in 1..n
  <2>1. l[p] \in 1..L /\ r[p] \in 1..R
    BY <1>1
  <2>2. \E x \in 1..L : Spot(Rows("left"), L, x) = l[p]
    BY <2>1, SidesAre, AtIs DEF L
  <2>3. \E x \in 1..R : Spot(Rows("right"), R, x) = r[p]
    BY <2>1, SidesAre, AtIs DEF R
  <2> QED BY <2>2, <2>3
<1> HIDE DEF i, j
<1>4. \A x : At("left", x) = Rows("left")[Spot(Rows("left"), L, x)]
             /\ At("right", x) = Rows("right")[Spot(Rows("right"), R, x)]
  BY DEF At, L, R
<1>5. ASSUME NEW x \in 1..L, NEW y \in 1..R
      PROVE  <<x, y>> \in E <=> Pair(Spot(Rows("left"), L, x), Spot(Rows("right"), R, y))
  <2>1. <<x, y>> \in E <=> left[x].on /\ right[y].on /\ left[x].v = right[y].v
    BY <1>2 DEF E, EqualPairs
  <2>2. left[x].on <=> At("left", x)[Act] = 1
    BY <1>2
  <2>3. right[y].on <=> At("right", y)[Act] = 1
    BY <1>2
  <2>4. left[x].v = Codes("left", At("left", x)) /\ right[y].v = Codes("right", At("right", y))
    BY <1>2, SidesAre, KeysAre
  <2>5. /\ At("left", x)[Act] = 1 => At("left", x) \in ActiveRows("left")
        /\ At("right", y)[Act] = 1 => At("right", y) \in ActiveRows("right")
    BY SidesAre, AtIs DEF L, R, ActiveRows
  <2>6. ASSUME At("left", x)[Act] = 1, At("right", y)[Act] = 1
        PROVE  left[x].v = right[y].v <=> Matches(At("left", x), At("right", y))
    <3>1. Matches(At("left", x), At("right", y)) => Key("left", At("left", x)) = Key("right", At("right", y))
      BY DEF Matches
    <3>2. Matches(At("left", x), At("right", y)) => left[x].v = right[y].v
      BY <1>2, <3>1
    <3>3. Codes("left", At("left", x)) = Codes("right", At("right", y)) => Matches(At("left", x), At("right", y))
      BY <2>5, <2>6 DEF Expressible
    <3> QED BY <2>4, <3>2, <3>3
  <2>7. Pair(Spot(Rows("left"), L, x), Spot(Rows("right"), R, y)) <=>
          At("left", x)[Act] = 1 /\ At("right", y)[Act] = 1 /\ Matches(At("left", x), At("right", y))
    BY <1>4 DEF Pair
  <2> QED BY <2>1, <2>2, <2>3, <2>6, <2>7
<1>6. E \in SUBSET ((1..L) \X (1..R))
  <2> SUFFICES ASSUME NEW p \in E PROVE p \in (1..L) \X (1..R)
    OBVIOUS
  <2>1. p \in (DOMAIN left) \X (DOMAIN right) /\ left[p[1]].on /\ right[p[2]].on
    BY DEF E, EqualPairs
  <2>2. p = <<p[1], p[2]>> /\ p[1] \in 1..PowerOfTwo(L) /\ p[2] \in 1..PowerOfTwo(R)
    BY <1>2, <2>1
  <2>3. p[1] <= L /\ p[2] <= R
    BY <1>2, <2>1, <2>2
  <2>4. PowerOfTwo(L) \in Nat /\ PowerOfTwo(R) \in Nat
    BY <1>2, PaddedSize
  <2>5. p[1] \in 1..L /\ p[2] \in 1..R
    BY <1>2, <2>2, <2>3, <2>4
  <2> QED BY <2>2, <2>5
<1>7. f \in [1..n -> E]
  <2> SUFFICES ASSUME NEW p \in 1..n PROVE <<i(p), j(p)>> \in E
    OBVIOUS
  <2> QED BY <1>1, <1>3, <1>5
<1>8. ASSUME NEW p \in 1..n, NEW q \in 1..n, f[p] = f[q] PROVE p = q
  <2>1. i(p) = i(q) /\ j(p) = j(q)
    BY <1>8
  <2>2. l[p] = l[q] /\ r[p] = r[q]
    BY <1>3, <2>1
  <2> QED BY <1>1, <2>2
<1>9. ASSUME NEW e \in E PROVE \E p \in 1..n : f[p] = e
  <2>1. PICK x \in 1..L, y \in 1..R : e = <<x, y>>
    BY <1>6
  <2>2. Pair(Spot(Rows("left"), L, x), Spot(Rows("right"), R, y))
    BY <1>5, <2>1
  <2>3. Spot(Rows("left"), L, x) \in 1..L /\ Spot(Rows("right"), R, y) \in 1..R
    BY SidesAre, AtIs DEF L, R
  <2>4. PICK p \in 1..n : l[p] = Spot(Rows("left"), L, x) /\ r[p] = Spot(Rows("right"), R, y)
    BY <1>1, <2>2, <2>3
  <2>5. Spot(Rows("left"), L, i(p)) = Spot(Rows("left"), L, x) /\ Spot(Rows("right"), R, j(p)) = Spot(Rows("right"), R, y)
        /\ i(p) \in 1..L /\ j(p) \in 1..R
    BY <1>3, <2>4
  <2>6. i(p) = x
    BY <2>5, SidesAre, AtIs DEF L
  <2>7. j(p) = y
    BY <2>5, SidesAre, AtIs DEF R
  <2> QED BY <2>1, <2>6, <2>7
<1>10. IsFiniteSet(1..n) /\ Cardinality(1..n) = n
  <2>1. IsFiniteSet(1..n) /\ Cardinality(1..n) = IF 1 > n THEN 0 ELSE n - 1 + 1
    BY <1>1, FS_Interval
  <2> QED BY <1>1, <2>1
<1> HIDE DEF f
<1>11. Cardinality(1..n) = Cardinality(E)
  BY <1>7, <1>8, <1>9, <1>10, CountMoved
<1>12. Cardinality(E) <= L * R
  <2> DEFINE P == (1..L) \X (1..R)
  <2>1. IsFiniteSet(1..L) /\ Cardinality(1..L) = L
    <3>1. IsFiniteSet(1..L) /\ Cardinality(1..L) = IF 1 > L THEN 0 ELSE L - 1 + 1
      BY <1>2, FS_Interval
    <3> QED BY <1>2, <3>1
  <2>2. IsFiniteSet(1..R) /\ Cardinality(1..R) = R
    <3>1. IsFiniteSet(1..R) /\ Cardinality(1..R) = IF 1 > R THEN 0 ELSE R - 1 + 1
      BY <1>2, FS_Interval
    <3> QED BY <1>2, <3>1
  <2>3. IsFiniteSet(P) /\ Cardinality(P) = Cardinality(1..L) * Cardinality(1..R)
    BY <2>1, <2>2, FS_Product
  <2> HIDE DEF P
  <2>4. Cardinality(E) <= Cardinality(P)
    BY <1>6, <2>3, FS_Subset, Zenon DEF P
  <2> QED BY <2>1, <2>2, <2>3, <2>4
<1>13. L * R < FieldSize /\ FieldSize \in Nat
  BY QueryAssumption, SortAssumption DEF L, R, RowCount, Rows
<1>14. n <= L * R
  BY <1>10, <1>11, <1>12
<1>15. n < FieldSize
  <2>1. L * R \in Nat
    BY <1>2
  <2> DEFINE x == L * R
  <2> HIDE DEF x
  <2> QED BY <1>1, <1>13, <1>14, <2>1 DEF x
<1> QED BY <1>1, <1>10, <1>11, <1>15 DEF E, left, right

\* Rows are at the place their id says.
LEMMA AtId ==
  ASSUME query \in Queries, NEW s \in Sides
  PROVE  \A i \in 1..RowCount(s) : At(s, i)[RowId] = i - 1
<1> DEFINE n == RowCount(s)
           rows == Rows(s)
           lt == IdOrder(rows, n)
           p == [i \in 1..n |-> CHOOSE x \in 1..n : rows[x][RowId] = i - 1]
<1>1. /\ n \in Nat /\ DOMAIN rows = 1..n /\ \A i \in 1..n : rows[i][RowId] \in 0..(n - 1)
      /\ \A i \in 1..n : rows[i][RowId] \in Int
  <2>1. n \in Nat /\ DOMAIN rows = 1..n /\ \A i \in 1..n : rows[i][RowId] \in 0..(n - 1)
    BY RowsAre
  <2> HIDE DEF n, rows
  <2> QED BY <2>1
<1>2. {rows[i][RowId] : i \in DOMAIN rows} = 0..(n - 1)
  BY QueryAssumption DEF Rows, RowCount
<1> HIDE DEF n, rows
<1>3. \A i \in 1..n : p[i] \in 1..n /\ rows[p[i]][RowId] = i - 1
  <2> TAKE i \in 1..n
  <2>1. i - 1 \in 0..(n - 1)
    BY <1>1
  <2>2. \E x \in 1..n : rows[x][RowId] = i - 1
    BY <1>1, <1>2, <2>1
  <2> QED BY <2>2
<1>4. p \in [1..n -> 1..n]
  BY <1>3
<1>5. \A i, j \in 1..n : lt[i][j] <=>
        rows[i][RowId] < rows[j][RowId] \/ (rows[i][RowId] = rows[j][RowId] /\ i < j)
  BY DEF IdOrder
<1>6. IsOrder(lt, n)
  BY <1>1, ByIdRows
<1> HIDE DEF lt, p
<1>7. \A i, j \in 1..n : i < j => lt[p[i]][p[j]]
  <2> TAKE i, j \in 1..n
  <2> HAVE i < j
  <2>1. p[i] \in 1..n /\ p[j] \in 1..n /\ rows[p[i]][RowId] < rows[p[j]][RowId]
    BY <1>3
  <2> QED BY <1>5, <2>1
<1>8. \A i \in 1..n : Ranked(lt, n, i) = p[i]
  <2>1. n \in Nat
    BY <1>1
  <2> QED BY <2>1, <1>4, <1>6, <1>7, RankedIs, SMTT(30)
<1>9. \A i \in 1..n : At(s, i) = rows[p[i]]
  BY <1>8 DEF At, Spot, lt, n, rows
<1> QED BY <1>3, <1>9 DEF n

LEMMA WithColumn ==
  ASSUME NEW table, NEW cols, NEW act, NEW col, NEW N, DOMAIN act = 1..N
  PROVE  LET view == With(View(table, cols, act), col)
         IN  /\ DOMAIN view = 1..N
             /\ \A i \in 1..N : /\ view[i].on <=> act[i] = 1
                                /\ view[i].v = Append([j \in DOMAIN cols |-> table[cols[j]][i]], col[i])
<1> DEFINE first == View(table, cols, act)
           view == With(first, col)
           v(i) == [j \in DOMAIN cols |-> table[cols[j]][i]]
<1>1. first = [i \in 1..N |-> [v |-> v(i), on |-> act[i] = 1]]
  BY DEF View
<1> HIDE DEF first, v
<1>2. DOMAIN first = 1..N /\ \A i \in 1..N : first[i] = [v |-> v(i), on |-> act[i] = 1]
  BY <1>1
<1>3. view = [i \in 1..N |-> [first[i] EXCEPT !.v = Append(@, col[i])]]
  BY <1>2 DEF With
<1> HIDE DEF view
<1>4. DOMAIN view = 1..N
  BY <1>3
<1>5. ASSUME NEW i \in 1..N PROVE view[i].v = Append(v(i), col[i]) /\ (view[i].on <=> act[i] = 1)
  <2>1. view[i] = [first[i] EXCEPT !.v = Append(@, col[i])]
    <3> DEFINE row(k) == [first[k] EXCEPT !.v = Append(@, col[k])]
    <3>1. view = [k \in 1..N |-> row(k)]
      BY <1>3
    <3> HIDE DEF row
    <3>2. view[i] = row(i)
      BY <3>1
    <3> QED BY <3>2 DEF row
  <2>2. view[i] = [v |-> Append(v(i), col[i]), on |-> act[i] = 1]
    <3> DEFINE x == v(i)
               y == col[i]
               o == act[i] = 1
               z == [v |-> x, on |-> o]
    <3>1. first[i] = z
      BY <1>2
    <3>2. [z EXCEPT !.v = Append(@, y)] = [v |-> Append(x, y), on |-> o]
      <4>1. \A d, e, g : [[v |-> d, on |-> e] EXCEPT !.v = g] = [v |-> g, on |-> e]
        OBVIOUS
      <4>2. z.v = x
        <5>1. \A d, e : [v |-> d, on |-> e].v = d
          OBVIOUS
        <5> QED BY <5>1, Zenon
      <4>3. [z EXCEPT !.v = Append(@, y)] = [z EXCEPT !.v = Append(x, y)]
        <5> HIDE DEF x, y, z
        <5> QED BY <4>2, Zenon
      <4> DEFINE g == Append(x, y)
      <4>4. [z EXCEPT !.v = g] = [v |-> g, on |-> o]
        <5> HIDE DEF x, g, o
        <5> QED BY <4>1
      <4> HIDE DEF x, y, o, z
      <4> QED BY <4>3, <4>4, Zenon
    <3> QED BY <2>1, <3>1, <3>2, Zenon
  <2> DEFINE w == Append(v(i), col[i])
             b == act[i] = 1
  <2>3. [v |-> w, on |-> b].v = w /\ [v |-> w, on |-> b].on = b
    <3> HIDE DEF w, b
    <3> QED OBVIOUS
  <2>4. view[i].v = w /\ view[i].on = b
    BY <2>2, <2>3, Zenon
  <2> QED BY <2>4
<1> QED BY <1>4, <1>5 DEF view, first, v

\* What a side's columns of a row are encoded as.
PayCodes(s, row) == [j \in DOMAIN Cols(s) |-> Enc(row[Cols(s)[j]])]

LEMMA SourceViewIs ==
  ASSUME query \in Queries, NEW s \in Sides
  PROVE  /\ DOMAIN SourceView(s) = 1..PowerOfTwo(RowCount(s))
         /\ \A i \in 1..RowCount(s) : /\ i \in 1..PowerOfTwo(RowCount(s))
                                      /\ SourceView(s)[i].on <=> At(s, i)[Act] = 1
                                      /\ SourceView(s)[i].v = Append(PayCodes(s, At(s, i)), i - 1)
<1> DEFINE n == RowCount(s)
           N == PowerOfTwo(n)
           in == Input(s)
           first == View(in, Cols(s), in[Act])
           view == SourceView(s)
<1>1. /\ DOMAIN in[Act] = 1..N
      /\ \A m \in ColumnsOf(s) \cup {Act} : \A i \in 1..n : in[m][i] = Enc(At(s, i)[m])
  BY InputTable DEF At
<1>2. n \in Nat /\ N \in Nat /\ n <= N
  BY RowsAre, PaddedSize
<1>3. DOMAIN first = 1..N
  BY <1>1 DEF View
<1>4. view = With(first, Index(first))
  BY DEF SourceView
<1>5. \A i \in 1..N : Index(first)[i] = i - 1
  BY <1>3 DEF Index
<1> DEFINE col == Index(first)
<1> HIDE DEF n, N, in, view, col
<1>6. /\ DOMAIN view = 1..N
      /\ \A i \in 1..N : /\ view[i].on <=> in[Act][i] = 1
                         /\ view[i].v = Append([j \in DOMAIN Cols(s) |-> in[Cols(s)[j]][i]], col[i])
  <2>1. view = With(View(in, Cols(s), in[Act]), col)
    BY <1>4 DEF col
  <2> QED BY <1>1, <2>1, WithColumn
<1>7. \A j \in DOMAIN Cols(s) : Cols(s)[j] \in ColumnsOf(s)
  BY DEF ColumnsOf, Range
<1>8. ASSUME NEW i \in 1..n
      PROVE  i \in 1..N /\ (view[i].on <=> At(s, i)[Act] = 1) /\ view[i].v = Append(PayCodes(s, At(s, i)), i - 1)
  <2>1. i \in 1..N
    BY <1>2
  <2>2. At(s, i)[Act] \in {0, 1}
    BY AtIs DEF n
  <2>3. in[Act][i] = At(s, i)[Act]
    BY <1>1, <2>2, BitsStay
  <2>4. \A j \in DOMAIN Cols(s) : in[Cols(s)[j]][i] = Enc(At(s, i)[Cols(s)[j]])
    BY <1>1, <1>7
  <2>5. [j \in DOMAIN Cols(s) |-> in[Cols(s)[j]][i]] = PayCodes(s, At(s, i))
    BY <2>4 DEF PayCodes
  <2>6. col[i] = i - 1
    BY <1>5, <2>1 DEF col
  <2>7. view[i].v = Append([j \in DOMAIN Cols(s) |-> in[Cols(s)[j]][i]], col[i])
    BY <1>6, <2>1
  <2>8. view[i].v = Append(PayCodes(s, At(s, i)), i - 1)
    BY <2>5, <2>6, <2>7
  <2>9. view[i].on <=> At(s, i)[Act] = 1
    BY <1>6, <2>1, <2>3
  <2> QED BY <2>1, <2>8, <2>9
<1> QED BY <1>6, <1>8 DEF n, N, view

\* The tables a whole output and its hints are committed as.
Materialized(c) ==
  /\ c.output = EncodedColumns(FullOutput) /\ c.pairs = EncodedColumns(PairsFrame)
  /\ c.src_left = EncodedColumns(SourceFrame("left")) /\ c.src_right = EncodedColumns(SourceFrame("right"))
  /\ c.union = EncodedColumns(UnionFrame)

\* The rows of the output seen as rows of a side, each with the id of its source.
LEMMA FromViewIs ==
  ASSUME query \in Queries, ~HasOne, ~(query.type = "Left" /\ Unmatched), NEW c, Materialized(c),
         NEW n, NEW l, NEW r, IsJoin(JoinRun(1), n, l, r), NEW s \in Sides
  PROVE  /\ DOMAIN FromView(c, s, OutputTable(c, n)) = 1..PowerOfTwo(n)
         /\ \A i \in 1..PowerOfTwo(n) : FromView(c, s, OutputTable(c, n))[i].on <=> i <= n
         /\ \A i \in 1..n : FromView(c, s, OutputTable(c, n))[i].v =
              Append(PayCodes(s, Rows(s)[From(s, l, r)[i]]), Rows(s)[From(s, l, r)[i]][RowId])
<1> DEFINE N == PowerOfTwo(n)
           run == JoinRun(1)
           out == OutputTable(c, n)
           view == FromView(c, s, out)
           row(i) == Rows(s)[From(s, l, r)[i]]
           col == EncodedColumns(SourceFrame(s))[Src(s)]
<1>1. /\ n \in Nat /\ DOMAIN run = 1..n
      /\ \A i \in 1..n : run[i] = <<Rows("left")[l[i]], Rows("right")[r[i]]>>
  BY DEF IsJoin
<1>2. s = "left" \/ s = "right"
  BY SidesAre
<1>3. IsJoin(JoinRun(2), n, l, r)
  BY RunsAgree
<1>4. \A i \in 1..n : col[i] = row(i)[RowId]
  BY <1>3, SourceTables
<1>5. /\ DOMAIN out[Act] = 1..N
      /\ \A i \in 1..N : out[Act][i] = 1 <=> i <= n
      /\ \A i \in 1..n : \A j \in 1..4 : out[j][i] = Enc(Combined(run[i][1], run[i][2])[j])
  <2>1. c.output = EncodedColumns(FullOutput)
    BY DEF Materialized
  <2> QED BY <1>1, <2>1, FullTable
<1>6. view = With(View(out, Cols(s), out[Act]), col)
  <2>1. c[IF s = "left" THEN "src_left" ELSE "src_right"] = EncodedColumns(SourceFrame(s))
    BY <1>2 DEF Materialized
  <2> QED BY <2>1 DEF FromView
<1> HIDE DEF out, col, view
<1>7. /\ DOMAIN view = 1..N
      /\ \A i \in 1..N : /\ view[i].on <=> out[Act][i] = 1
                         /\ view[i].v = Append([j \in DOMAIN Cols(s) |-> out[Cols(s)[j]][i]], col[i])
  BY <1>5, <1>6, WithColumn
<1>8. \A j \in DOMAIN Cols(s) : Cols(s)[j] \in ColumnsOf(s)
  BY DEF ColumnsOf, Range
<1>9. \A i \in 1..n : \A m \in ColumnsOf(s) : m \in 1..4 /\ Combined(run[i][1], run[i][2])[m] = row(i)[m]
  <2> TAKE i \in 1..n
  <2> TAKE m \in ColumnsOf(s)
  <2> DEFINE x == Rows("left")[l[i]]
             y == Rows("right")[r[i]]
  <2>1. Combined(run[i][1], run[i][2]) = Combined(x, y)
    <3>1. run[i] = <<x, y>>
      BY <1>1
    <3> HIDE DEF x, y
    <3> QED BY <3>1
  <2> HIDE DEF x, y
  <2>2. m \in 1..4 /\ m \in -1..MaxCols
    BY <1>2, ColumnsAre, QueryAssumption
  <2>3. Combined(x, y)[m] = IF m \in ColumnsOf("left") THEN x[m] ELSE IF m \in ColumnsOf("right") THEN y[m] ELSE Null
    BY <2>2 DEF Combined
  <2>4. s = "left" => Combined(x, y)[m] = x[m]
    BY <2>3
  <2>5. s = "right" => Combined(x, y)[m] = y[m]
    BY <2>3, ColumnsAre
  <2>6. row(i) = IF s = "left" THEN x ELSE y
    BY <1>2 DEF From, x, y
  <2> QED BY <1>2, <2>1, <2>2, <2>4, <2>5, <2>6
<1>10. n <= N /\ N \in Nat
  BY <1>1, PaddedSize
<1> HIDE DEF run, row, N
<1>11. ASSUME NEW i \in 1..n PROVE view[i].v = Append(PayCodes(s, row(i)), row(i)[RowId])
  <2>1. i \in 1..N
    BY <1>1, <1>10
  <2>2. \A j \in DOMAIN Cols(s) : out[Cols(s)[j]][i] = Enc(row(i)[Cols(s)[j]])
    BY <1>5, <1>8, <1>9
  <2>3. [j \in DOMAIN Cols(s) |-> out[Cols(s)[j]][i]] = PayCodes(s, row(i))
    BY <2>2 DEF PayCodes
  <2> QED BY <1>4, <1>7, <2>1, <2>3
<1>12. \A i \in 1..N : view[i].on <=> i <= n
  BY <1>5, <1>7
<1> QED BY <1>7, <1>11, <1>12 DEF view, out, row, N

\* Each of them is a row of that side.
LEMMA RowsFound ==
  ASSUME query \in Queries, ~HasOne, ~(query.type = "Left" /\ Unmatched), NEW c, Materialized(c),
         NEW n, NEW l, NEW r, IsJoin(JoinRun(1), n, l, r), n < FieldSize, NEW s \in Sides
  PROVE  /\ Among(FromView(c, s, OutputTable(c, n)), SourceView(s))
         /\ \A v : TimesIn(FromView(c, s, OutputTable(c, n)), v) < FieldSize
<1> DEFINE N == PowerOfTwo(n)
           k == RowCount(s)
           K == PowerOfTwo(k)
           view == FromView(c, s, OutputTable(c, n))
           super == SourceView(s)
           from == From(s, l, r)
<1>1. /\ DOMAIN view = 1..N
      /\ \A i \in 1..N : view[i].on <=> i <= n
      /\ \A i \in 1..n : view[i].v = Append(PayCodes(s, Rows(s)[from[i]]), Rows(s)[from[i]][RowId])
  BY FromViewIs
<1>2. /\ DOMAIN super = 1..K
      /\ \A i \in 1..k : /\ i \in 1..K /\ (super[i].on <=> At(s, i)[Act] = 1)
                         /\ super[i].v = Append(PayCodes(s, At(s, i)), i - 1)
  BY SourceViewIs
<1>3. n \in Nat /\ N \in Nat
  BY PaddedSize DEF IsJoin
<1>4. from \in [1..n -> 1..k] /\ \A i \in 1..n : Rows(s)[from[i]][Act] = 1
  <2>1. IsJoin(JoinRun(2), n, l, r)
    BY RunsAgree
  <2> QED BY <2>1, SourceIdsAre
<1> HIDE DEF N, K, view, super, from
<1>5. \A v : TimesIn(view, v) < FieldSize
  BY <1>1, <1>3, FewTimes
<1>6. ASSUME NEW i \in 1..N, view[i].on PROVE \E j \in 1..K : super[j].on /\ super[j].v = view[i].v
  <2>1. i \in 1..n
    BY <1>1, <1>3, <1>6
  <2>2. from[i] \in 1..k
    BY <1>4, <2>1
  <2>3. PICK j \in 1..k : Spot(Rows(s), k, j) = from[i]
    BY <2>2, AtIs
  <2>4. At(s, j) = Rows(s)[from[i]]
    BY <2>3 DEF At
  <2>5. At(s, j)[RowId] = j - 1
    BY <2>3, AtId
  <2>6. super[j].v = view[i].v
    <3>1. view[i].v = Append(PayCodes(s, At(s, j)), At(s, j)[RowId])
      BY <1>1, <2>1, <2>4
    <3>2. super[j].v = Append(PayCodes(s, At(s, j)), j - 1)
      BY <1>2
    <3> QED BY <2>5, <3>1, <3>2
  <2>7. super[j].on /\ j \in 1..K
    BY <1>2, <1>4, <2>1, <2>4
  <2> QED BY <2>6, <2>7
<1> QED BY <1>1, <1>2, <1>5, <1>6 DEF Among, view, super

\* No two of the pairs of row ids agree.
LEMMA PairsTold ==
  ASSUME query \in Queries, ~(query.type = "Left" /\ Unmatched), NEW c, Materialized(c)
  PROVE  NoRepeats(View(c.pairs, <<Src("left"), Src("right")>>, c.pairs[Act]))
<1>1. PICK n, l, r : IsJoin(JoinRun(2), n, l, r)
  BY RunsJoin
<1> DEFINE e == EncodedColumns(PairsFrame)
           N == PowerOfTwo(n)
           cols == <<Src("left"), Src("right")>>
           view == View(e, cols, e[Act])
<1>2. c.pairs = e
  BY DEF Materialized
<1>3. /\ n \in Nat /\ DOMAIN e[Act] = 1..N
      /\ \A i \in 1..N : e[Act][i] = IF i <= n THEN 1 ELSE 0
      /\ \A i \in 1..n : /\ e[Src("left")][i] = Rows("left")[l[i]][RowId]
                         /\ e[Src("right")][i] = Rows("right")[r[i]][RowId]
  <2>1. From("left", l, r) = l /\ From("right", l, r) = r
    BY DEF From
  <2> QED BY <1>1, <2>1, SourceTables, SidesAre
<1>4. /\ l \in [1..n -> 1..RowCount("left")] /\ r \in [1..n -> 1..RowCount("right")]
      /\ \A p, q \in 1..n : l[p] = l[q] /\ r[p] = r[q] => p = q
  BY <1>1 DEF IsJoin
<1>5. N \in Nat
  BY <1>3, PaddedSize
<1> HIDE DEF e, N
<1>6. view = [i \in 1..N |-> [v |-> [j \in DOMAIN cols |-> e[cols[j]][i]], on |-> e[Act][i] = 1]]
  BY <1>3 DEF View
<1>7. DOMAIN view = 1..N /\ \A i \in 1..N :
        view[i].on = (e[Act][i] = 1) /\ view[i].v = [j \in DOMAIN cols |-> e[cols[j]][i]]
  <2> HIDE DEF view
  <2> QED BY <1>6
<1>8. \A i : LET v == [j \in DOMAIN cols |-> e[cols[j]][i]]
             IN  v[1] = e[Src("left")][i] /\ v[2] = e[Src("right")][i]
  <2>1. 1 \in DOMAIN cols /\ 2 \in DOMAIN cols /\ cols[1] = Src("left") /\ cols[2] = Src("right")
    OBVIOUS
  <2> HIDE DEF cols
  <2> QED BY <2>1
<1> HIDE DEF view, cols
<1>9. \A i \in 1..N : /\ view[i].on => i \in 1..n
                      /\ view[i].v[1] = e[Src("left")][i] /\ view[i].v[2] = e[Src("right")][i]
  <2> TAKE i \in 1..N
  <2>1. view[i].on => i <= n
    <3>1. view[i].on = (e[Act][i] = 1)
      BY <1>7
    <3>2. e[Act][i] = 1 => i <= n
      BY <1>3
    <3> QED BY <3>1, <3>2
  <2>2. view[i].v[1] = e[Src("left")][i] /\ view[i].v[2] = e[Src("right")][i]
    BY <1>7, <1>8
  <2> QED BY <1>3, <1>5, <2>1, <2>2
<1>10. ASSUME NEW i \in 1..N, NEW j \in 1..N, view[i].on, view[j].on, view[i].v = view[j].v
       PROVE  i = j
  <2>1. i \in 1..n /\ j \in 1..n
    BY <1>9, <1>10
  <2>2. e[Src("left")][i] = e[Src("left")][j] /\ e[Src("right")][i] = e[Src("right")][j]
    BY <1>9, <1>10
  <2>3. /\ Rows("left")[l[i]][RowId] = Rows("left")[l[j]][RowId]
        /\ Rows("right")[r[i]][RowId] = Rows("right")[r[j]][RowId]
    BY <1>3, <2>1, <2>2
  <2>4. l[i] \in 1..RowCount("left") /\ l[j] \in 1..RowCount("left")
        /\ r[i] \in 1..RowCount("right") /\ r[j] \in 1..RowCount("right")
    BY <1>4, <2>1
  <2>5. l[i] = l[j]
    BY <2>3, <2>4, SidesAre, RowsAre
  <2>6. r[i] = r[j]
    BY <2>3, <2>4, SidesAre, RowsAre
  <2> QED BY <1>4, <2>1, <2>5, <2>6
<1> QED BY <1>2, <1>7, <1>10 DEF NoRepeats, view, cols

\* A whole output's activator counts its rows.
LEMMA OutputCounts ==
  ASSUME query \in Queries, ~HasOne, NEW c, Materialized(c), NEW n \in Nat, DOMAIN JoinRun(1) = 1..n,
         n < FieldSize
  PROVE  LET act == OutputTable(c, n)[Act]
         IN  Total(act) = n /\ Cardinality({i \in DOMAIN act : act[i] = 1}) = n
<1> DEFINE act == OutputTable(c, n)[Act]
           N == PowerOfTwo(n)
           h == [i \in 1..n |-> i]
<1>1. DOMAIN act = 1..N /\ \A i \in 1..N : act[i] = 1 <=> i <= n
  BY FullTable DEF Materialized
<1>2. act = [i \in 1..Size(c.output) |-> IF i <= n THEN 1 ELSE 0]
  BY DEF OutputTable
<1>3. \A i \in 1..N : act[i] = IF i <= n THEN 1 ELSE 0
  <2> HIDE DEF act
  <2> QED BY <1>1, <1>2
<1>4. n <= N /\ N \in Nat
  BY PaddedSize
<1> HIDE DEF act, N
<1>5. IsFiniteSet(1..n) /\ Cardinality(1..n) = n /\ IsFiniteSet(1..N)
  <2>1. IsFiniteSet(1..n) /\ Cardinality(1..n) = IF 1 > n THEN 0 ELSE n - 1 + 1
    BY FS_Interval
  <2>2. IsFiniteSet(1..N)
    BY <1>4, FS_Interval
  <2> QED BY <2>1, <2>2
<1>6. {i \in DOMAIN act : act[i] = 1} = 1..n
  BY <1>1, <1>4
<1>7. ASSUME NEW i \in 1..N PROVE act[i] = Cardinality({p \in 1..n : h[p] = i})
  <2>1. {p \in 1..n : h[p] = i} = IF i <= n THEN {i} ELSE {}
    BY <1>4
  <2>2. Cardinality({i}) = 1 /\ Cardinality({}) = 0
    BY FS_Singleton, FS_EmptySet
  <2>3. CASE i <= n
    <3>1. {p \in 1..n : h[p] = i} = {i}
      BY <2>1, <2>3
    <3>2. Cardinality({p \in 1..n : h[p] = i}) = 1
      BY <2>2, <3>1, Zenon
    <3> QED BY <1>3, <2>3, <3>2
  <2>4. CASE ~(i <= n)
    <3>1. {p \in 1..n : h[p] = i} = {}
      BY <2>1, <2>4
    <3>2. Cardinality({p \in 1..n : h[p] = i}) = 0
      BY <2>2, <3>1, Zenon
    <3> QED BY <1>3, <2>4, <3>2
  <2> QED BY <2>3, <2>4
<1>8. h \in [1..n -> 1..N]
  BY <1>4
<1> HIDE DEF h
<1>9. CountsInto(1..n, 1..N, h, act)
  BY <1>1, <1>5, <1>7, <1>8 DEF CountsInto
<1>10. Total(act) = Cardinality(1..n)
  BY <1>9, TotalCounts
<1>11. Cardinality({i \in DOMAIN act : act[i] = 1}) = n
  BY <1>5, <1>6, Zenon
<1> QED BY <1>5, <1>10, <1>11 DEF act

-----------------------------------------------------------------------------
(* What is claimed of an output materialized whole, and that it holds.     *)

\* The multiplicities that are counted of tables c.
CountsKeys(c) ==
  /\ c.left_keys = <<Multiplicities(KeyView("left"), UnionView(c))>>
  /\ c.right_keys = <<Multiplicities(KeyView("right"), UnionView(c))>>
CountsRows(c, out) ==
  /\ c.left_rows = <<Multiplicities(FromView(c, "left", out), SourceView("left"))>>
  /\ c.right_rows = <<Multiplicities(FromView(c, "right", out), SourceView("right"))>>

\* What the gadgets check for themselves holds, and so does what they claim.
LEMMA HonestHolds ==
  ASSUME query \in Queries, ~HasOne, Expressible, ~(query.type = "Left" /\ Unmatched),
         NEW c, Materialized(c), NEW n, n = Len(FullOutput.rows)
  PROVE  HonestCheck(c, n)
<1>1. PICK m, l, r : IsJoin(JoinRun(1), m, l, r)
  BY RunsJoin
<1>2. m \in Nat /\ DOMAIN JoinRun(1) = 1..m
  BY <1>1 DEF IsJoin
<1> DEFINE out == OutputTable(c, n)
           left == KeyView("left")
           right == KeyView("right")
<1>3. n = m
  BY <1>2, FullTable DEF Materialized
<1>4. Cardinality(EqualPairs(left, right)) = n /\ n < FieldSize
  BY <1>1, <1>3, PairsAreJoin
<1>5. PICK k, M, u : IsUnion(UnionView(c), k, M, u)
  BY UnionViewIs DEF Materialized
<1>6. NoRepeats(UnionView(c)) /\ \A s \in Sides : Among(KeyView(s), UnionView(c))
  BY <1>5, KeysListed
<1>7. \A s \in Sides : Among(FromView(c, s, out), SourceView(s))
  BY <1>1, <1>3, <1>4, RowsFound
<1>8. Cardinality({i \in DOMAIN out[Act] : out[Act][i] = 1}) = n
  BY <1>2, <1>3, <1>4, OutputCounts
<1>9. NoRepeats(View(c.pairs, <<Src("left"), Src("right")>>, c.pairs[Act]))
  BY PairsTold
<1>10. EqualPairs(left, right) =
         {p \in (DOMAIN left) \X (DOMAIN right) :
           left[p[1]].on /\ right[p[2]].on /\ left[p[1]].v = right[p[2]].v}
  BY DEF EqualPairs
<1> HIDE DEF out, left, right
<1>11. Cardinality({i \in DOMAIN out[Act] : out[Act][i] = 1}) =
         Cardinality({p \in (DOMAIN left) \X (DOMAIN right) :
           left[p[1]].on /\ right[p[2]].on /\ left[p[1]].v = right[p[2]].v})
  BY <1>4, <1>8, <1>10, Zenon
<1> QED BY <1>6, <1>7, <1>9, <1>11, Zenon DEF HonestCheck, out, left, right

LEMMA LookupsHold ==
  ASSUME query \in Queries, ~HasOne, Expressible, ~(query.type = "Left" /\ Unmatched),
         NEW c, Materialized(c), NEW n, n = Len(FullOutput.rows), NEW s \in Sides
  PROVE  /\ LookupHolds(LookupClaim(KeyView(s), UnionView(c), Multiplicities(KeyView(s), UnionView(c))))
         /\ LookupHolds(LookupClaim(FromView(c, s, OutputTable(c, n)), SourceView(s),
              Multiplicities(FromView(c, s, OutputTable(c, n)), SourceView(s))))
<1>1. PICK m, l, r : IsJoin(JoinRun(1), m, l, r)
  BY RunsJoin
<1>2. m \in Nat /\ DOMAIN JoinRun(1) = 1..m
  BY <1>1 DEF IsJoin
<1> DEFINE out == OutputTable(c, n)
           from == FromView(c, s, out)
           keys == KeyView(s)
           K == PowerOfTwo(RowCount(s))
           N == PowerOfTwo(n)
<1>3. n = m
  BY <1>2, FullTable DEF Materialized
<1>4. n < FieldSize
  BY <1>1, <1>3, PairsAreJoin
<1>5. PICK k, M, u : IsUnion(UnionView(c), k, M, u)
  BY UnionViewIs DEF Materialized
<1>6. M \in Nat /\ DOMAIN UnionView(c) = 1..M
  BY <1>5 DEF IsUnion
<1>7. Among(keys, UnionView(c)) /\ \A v : TimesIn(keys, v) < FieldSize
  BY <1>5, KeysListed
<1>8. K \in Nat /\ DOMAIN keys = 1..K /\ DOMAIN SourceView(s) = 1..K
  BY KeyViewIs, SourceViewIs
<1>9. Among(from, SourceView(s)) /\ \A v : TimesIn(from, v) < FieldSize
  BY <1>1, <1>3, <1>4, RowsFound
<1>10. N \in Nat /\ DOMAIN from = 1..N
  BY <1>1, <1>2, <1>3, FromViewIs, PaddedSize
<1> HIDE DEF from, keys, K, N
<1>11. LookupHolds(LookupClaim(keys, UnionView(c), Multiplicities(keys, UnionView(c))))
  BY <1>6, <1>7, <1>8, LookupCounts
<1>12. LookupHolds(LookupClaim(from, SourceView(s), Multiplicities(from, SourceView(s))))
  BY <1>8, <1>9, <1>10, LookupCounts
<1> QED BY <1>11, <1>12 DEF from, keys

LEMMA SumHolds ==
  ASSUME query \in Queries, ~HasOne, Expressible, ~(query.type = "Left" /\ Unmatched),
         NEW c, Materialized(c), CountsKeys(c), NEW n, n = Len(FullOutput.rows)
  PROVE  Total([i \in DOMAIN c.union[Act] |->
                 (c.union[Act][i] * c.left_keys[1][i] * c.right_keys[1][i]) % FieldSize])
           = Total(OutputTable(c, n)[Act])
<1>1. PICK m, l, r : IsJoin(JoinRun(1), m, l, r)
  BY RunsJoin
<1>2. m \in Nat /\ DOMAIN JoinRun(1) = 1..m
  BY <1>1 DEF IsJoin
<1>3. n = m
  BY <1>2, FullTable DEF Materialized
<1> DEFINE a == KeyView("left")
           b == KeyView("right")
           view == UnionView(c)
           act == c.union[Act]
           la == PowerOfTwo(RowCount("left"))
           lb == PowerOfTwo(RowCount("right"))
<1>4. Cardinality(EqualPairs(a, b)) = n /\ n < FieldSize
  BY <1>1, <1>3, PairsAreJoin
<1>5. PICK k, M, u : /\ IsUnion(view, k, M, u) /\ DOMAIN act = 1..M
                     /\ \A i \in 1..M : act[i] = IF view[i].on THEN 1 ELSE 0
  BY UnionViewIs DEF Materialized
<1>6. M \in Nat /\ DOMAIN view = 1..M
  BY <1>5 DEF IsUnion
<1>7. NoRepeats(view) /\ Among(a, view)
  BY <1>5, KeysListed, SidesAre
<1>8. la \in Nat /\ lb \in Nat /\ DOMAIN a = 1..la /\ DOMAIN b = 1..lb
  BY KeyViewIs, SidesAre
<1>9. Total(OutputTable(c, n)[Act]) = n
  BY <1>2, <1>3, <1>4, OutputCounts
<1>10. c.left_keys[1] = Multiplicities(a, view) /\ c.right_keys[1] = Multiplicities(b, view)
  BY DEF CountsKeys
<1> HIDE DEF a, b, view, act, la, lb
<1>11. Total([i \in 1..M |-> (act[i] * Multiplicities(a, view)[i] * Multiplicities(b, view)[i]) % FieldSize])
         = Cardinality(EqualPairs(a, b))
  <2>1. Cardinality(EqualPairs(a, b)) < FieldSize
    BY <1>4
  <2>2. \A i \in 1..M : act[i] = IF view[i].on THEN 1 ELSE 0
    BY <1>5
  <2>3. M \in Nat /\ la \in Nat /\ lb \in Nat
    BY <1>6, <1>8
  <2>4. DOMAIN a = 1..la /\ DOMAIN b = 1..lb /\ DOMAIN view = 1..M
    BY <1>6, <1>8
  <2> QED BY <1>7, <2>1, <2>2, <2>3, <2>4, PairsCount, SMTT(60)
<1>12. Total([i \in DOMAIN act |-> (act[i] * c.left_keys[1][i] * c.right_keys[1][i]) % FieldSize])
         = Cardinality(EqualPairs(a, b))
  BY <1>5, <1>10, <1>11, Zenon
<1> QED BY <1>4, <1>9, <1>12 DEF act

LEMMA ClaimsHold ==
  ASSUME query \in Queries, ~HasOne, Expressible, ~(query.type = "Left" /\ Unmatched),
         NEW c, Materialized(c), NEW n, n = Len(FullOutput.rows),
         CountsKeys(c), CountsRows(c, OutputTable(c, n))
  PROVE  AllHold(JoinClaims(c, n, Total(OutputTable(c, n)[Act])))
<1> DEFINE out == OutputTable(c, n)
           sum == Total(out[Act])
           pairs == View(c.pairs, <<Src("left"), Src("right")>>, c.pairs[Act])
           values == [i \in DOMAIN c.union[Act] |->
                       (c.union[Act][i] * c.left_keys[1][i] * c.right_keys[1][i]) % FieldSize]
           k1 == LookupClaim(KeyView("left"), UnionView(c), c.left_keys[1])
           k2 == LookupClaim(KeyView("right"), UnionView(c), c.right_keys[1])
           k3 == LookupClaim(FromView(c, "left", out), SourceView("left"), c.left_rows[1])
           k4 == LookupClaim(FromView(c, "right", out), SourceView("right"), c.right_rows[1])
           k == [nodup |-> <<pairs, UnionView(c)>>, lookup |-> <<k1, k2, k3, k4>>,
                 sum |-> <<[values |-> values, sum |-> sum]>>]
<1>1. JoinClaims(c, n, sum) = k
  BY DEF JoinClaims
<1>2. NoRepeats(pairs)
  BY PairsTold
<1>3. NoRepeats(UnionView(c))
  <2>1. PICK m, M, u : IsUnion(UnionView(c), m, M, u)
    BY UnionViewIs DEF Materialized
  <2> QED BY <2>1, KeysListed
<1>4. LookupHolds(k1) /\ LookupHolds(k2) /\ LookupHolds(k3) /\ LookupHolds(k4)
  <2>1. c.left_keys[1] = Multiplicities(KeyView("left"), UnionView(c))
        /\ c.right_keys[1] = Multiplicities(KeyView("right"), UnionView(c))
    BY DEF CountsKeys
  <2>2. c.left_rows[1] = Multiplicities(FromView(c, "left", out), SourceView("left"))
        /\ c.right_rows[1] = Multiplicities(FromView(c, "right", out), SourceView("right"))
    BY DEF CountsRows
  <2> HIDE DEF out
  <2>3. \A s \in Sides :
         /\ LookupHolds(LookupClaim(KeyView(s), UnionView(c), Multiplicities(KeyView(s), UnionView(c))))
         /\ LookupHolds(LookupClaim(FromView(c, s, out), SourceView(s),
              Multiplicities(FromView(c, s, out), SourceView(s))))
    BY LookupsHold DEF out
  <2> QED BY <2>1, <2>2, <2>3, SidesAre
<1>5. Total(values) = sum
  BY SumHolds
<1> HIDE DEF out, sum, pairs, values, k1, k2, k3, k4
<1>6. \A i \in DOMAIN k.nodup : NoRepeats(k.nodup[i])
  <2>1. k.nodup = <<pairs, UnionView(c)>> /\ DOMAIN <<pairs, UnionView(c)>> = {1, 2}
    OBVIOUS
  <2> HIDE DEF k
  <2> QED BY <1>2, <1>3, <2>1
<1>7. \A i \in DOMAIN k.lookup : LookupHolds(k.lookup[i])
  <2>1. k.lookup = <<k1, k2, k3, k4>> /\ DOMAIN <<k1, k2, k3, k4>> = {1, 2, 3, 4}
    OBVIOUS
  <2> HIDE DEF k
  <2> QED BY <1>4, <2>1
<1>8. \A i \in DOMAIN k.sum : Total(k.sum[i].values) = k.sum[i].sum
  <2> DEFINE x == [values |-> values, sum |-> sum]
  <2>1. k.sum = <<x>> /\ DOMAIN <<x>> = {1} /\ x.values = values /\ x.sum = sum
    OBVIOUS
  <2> HIDE DEF k, x
  <2> QED BY <1>5, <2>1
<1> HIDE DEF k
<1>9. AllHold(k)
  BY <1>6, <1>7, <1>8 DEF AllHold
<1> QED BY <1>1, <1>9 DEF sum, out

LEMMA SameViews ==
  ASSUME NEW a, NEW b, a.output = b.output, a.union = b.union, a.src_left = b.src_left,
         a.src_right = b.src_right
  PROVE  /\ UnionView(a) = UnionView(b) /\ \A n : OutputTable(a, n) = OutputTable(b, n)
         /\ \A s \in Sides : \A out : FromView(a, s, out) = FromView(b, s, out)
<1>1. UnionView(a) = UnionView(b)
  BY DEF UnionView
<1>2. \A n : OutputTable(a, n) = OutputTable(b, n)
  BY DEF OutputTable
<1>3. \A s \in Sides : \A out : FromView(a, s, out) = FromView(b, s, out)
  <2> TAKE s \in Sides
  <2>1. a[IF s = "left" THEN "src_left" ELSE "src_right"] = b[IF s = "left" THEN "src_left" ELSE "src_right"]
    BY SidesAre
  <2> QED BY <2>1 DEF FromView
<1> QED BY <1>1, <1>2, <1>3

\* The tables the prover ends with are those planned, and count what they say.
LEMMA TablesAre ==
  ASSUME ~HasOne
  PROVE  /\ Materialized(FirstTables) /\ Materialized(LastTables) /\ CountsKeys(LastTables)
         /\ CountsRows(LastTables, OutputTable(LastTables, Count))
         /\ OutputTable(FirstTables, Count) = OutputTable(LastTables, Count)
<1> DEFINE plan == {"output", "src_left", "src_right", "pairs", "union"}
           keys == {"left_keys", "right_keys"}
           rows == {"left_rows", "right_rows"}
           E == Encoded
           F == FirstTables
           L == LastTables
<1>1. Range(Labels) = plan \cup keys \cup rows
  BY DEF Labels, Range
<1>2. Planned = GadgetFrames(FullOutput)
  BY DEF Planned, Output
<1>3. \A l \in plan : l \in DOMAIN Planned
  BY <1>2 DEF GadgetFrames
<1>4. /\ Planned["output"] = FullOutput /\ Planned["pairs"] = PairsFrame /\ Planned["union"] = UnionFrame
      /\ Planned["src_left"] = SourceFrame("left") /\ Planned["src_right"] = SourceFrame("right")
  BY <1>2 DEF GadgetFrames
<1>5. DOMAIN E = Range(Labels) /\ \A l \in plan : E[l] = EncodedColumns(Planned[l])
  BY <1>1, <1>3 DEF Encoded
<1>6. Materialized(E)
  BY <1>4, <1>5 DEF Materialized
<1>7. F = [E EXCEPT !.left_keys = KeyCounts("left"), !.right_keys = KeyCounts("right")]
  BY DEF FirstTables
<1>8. L = [F EXCEPT !.left_rows = RowCounts("left"), !.right_rows = RowCounts("right")]
  BY DEF LastTables
<1> HIDE DEF E, F, L
<1>9. /\ DOMAIN F = Range(Labels) /\ F.left_keys = KeyCounts("left") /\ F.right_keys = KeyCounts("right")
      /\ F.output = E.output /\ F.pairs = E.pairs /\ F.union = E.union
      /\ F.src_left = E.src_left /\ F.src_right = E.src_right
  BY <1>1, <1>5, <1>7
<1>10. /\ L.left_keys = F.left_keys /\ L.right_keys = F.right_keys
       /\ L.left_rows = RowCounts("left") /\ L.right_rows = RowCounts("right")
       /\ L.output = F.output /\ L.pairs = F.pairs /\ L.union = F.union
       /\ L.src_left = F.src_left /\ L.src_right = F.src_right
  BY <1>1, <1>8, <1>9
<1>11. Materialized(F) /\ Materialized(L)
  BY <1>6, <1>9, <1>10 DEF Materialized
<1>12. UnionView(L) = UnionView(E)
  <2>1. UnionView(F) = UnionView(E)
    BY <1>9, SameViews
  <2>2. UnionView(L) = UnionView(F)
    BY <1>10, SameViews
  <2> QED BY <2>1, <2>2
<1>13. CountsKeys(L)
  BY <1>9, <1>10, <1>12 DEF CountsKeys, KeyCounts, E
<1>14. OutputTable(L, Count) = OutputTable(F, Count)
  BY <1>10, SameViews
<1>15. \A s \in Sides : \A out : FromView(L, s, out) = FromView(F, s, out)
  BY <1>10, SameViews
<1>16. CountsRows(L, OutputTable(L, Count))
  <2>1. \A s \in Sides : RowCounts(s) = <<Multiplicities(FromView(L, s, OutputTable(L, Count)), SourceView(s))>>
    BY <1>14, <1>15 DEF RowCounts, F
  <2> QED BY <1>10, <2>1, SidesAre DEF CountsRows
<1> QED BY <1>11, <1>13, <1>14, <1>16 DEF F, L

\* What the honest prover stops for, and the sum it sends.
SumInv ==
  /\ pc = "error" => ~HonestCheck(FirstTables, Count)
  /\ pc = "sent" /\ ~HasOne => misc.sum = Total(OutputTable(FirstTables, Count)[Act])

LEMMA SameCheck ==
  ASSUME query' = query, mode' = mode
  PROVE  /\ HonestCheck(FirstTables, Count)' <=> HonestCheck(FirstTables, Count)
         /\ OutputTable(FirstTables, Count)' = OutputTable(FirstTables, Count) /\ (HasOne' <=> HasOne)
<1>1. FirstTables' = FirstTables /\ Count' = Count /\ (HasOne' <=> HasOne)
  BY SameTables, SamePlan
<1>2. OutputTable(FirstTables, Count)' = OutputTable(FirstTables, Count)
  <2>1. Input(FkSide)' = Input(FkSide) /\ FkSide' = FkSide
    BY SameOutput, SameClaims
  <2> QED BY <1>1, <2>1 DEF OutputTable
<1>3. \A s : KeyView(s)' = KeyView(s) /\ SourceView(s)' = SourceView(s)
  BY SameClaims
<1>4. UnionView(FirstTables)' = UnionView(FirstTables)
  <2>1. UnionFields' = UnionFields
    BY SameRows DEF UnionFields
  <2> QED BY <1>1, <2>1 DEF UnionView
<1>5. HonestCheck(FirstTables, Count)' <=> HonestCheck(FirstTables, Count)
  <2>1. \A s, out : FromView(FirstTables, s, out)' = FromView(FirstTables, s, out)
    BY <1>1 DEF FromView
  <2> QED BY <1>1, <1>2, <1>3, <1>4, <2>1 DEF HonestCheck, FromView
<1> QED BY <1>1, <1>2, <1>5

LEMMA SumsHold == Spec => []SumInv
<1>1. Init => SumInv
  BY DEF Init, SumInv
<1>2. PlanInv /\ TableInv /\ SumInv /\ [Next]_vars => SumInv'
  <2> SUFFICES ASSUME PlanInv, TableInv, SumInv, [Next]_vars PROVE SumInv'
    OBVIOUS
  <2> DEFINE same == query' = query /\ mode' = mode
  <2>1. ASSUME same
        PROVE  /\ HonestCheck(FirstTables, Count)' <=> HonestCheck(FirstTables, Count)
               /\ OutputTable(FirstTables, Count)' = OutputTable(FirstTables, Count) /\ (HasOne' <=> HasOne)
    BY <2>1, SameCheck
  <2>2. CASE SetJoinMode \/ Plan \/ GadgetPlan \/ Commit
    <3>1. pc' \notin {"error", "sent"}
      BY <2>2 DEF SetJoinMode, Plan, GadgetPlan, Commit
    <3> QED BY <3>1 DEF SumInv
  <2>3. CASE Check
    <3>1. same /\ pc = "check" /\ pc' = IF HonestCheck(tabs, misc.count) THEN "prove" ELSE "error"
      BY <2>3 DEF Check
    <3>2. tabs = FirstTables /\ misc.count = Count
      BY <3>1 DEF PlanInv, TableInv
    <3>3. HonestCheck(tabs, misc.count) <=> HonestCheck(FirstTables, Count)
      BY <3>2
    <3> HIDE DEF same
    <3> QED BY <2>1, <3>1, <3>3 DEF SumInv
  <2>4. CASE Prove
    <3> DEFINE sum == IF HasOne THEN 0 ELSE Total(OutputTable(tabs, misc.count)[Act])
    <3>1. same /\ pc = "prove" /\ pc' = "sent" /\ misc' = [misc EXCEPT !.sum = sum]
      BY <2>4 DEF Prove
    <3>2. tabs = FirstTables /\ misc.count = Count /\ misc = [count |-> misc.count, sum |-> misc.sum]
      BY <3>1 DEF PlanInv, TableInv
    <3>3. ~HasOne => sum = Total(OutputTable(FirstTables, Count)[Act])
      BY <3>2
    <3> HIDE DEF sum, same
    <3>4. misc'.sum = sum
      BY <3>1, <3>2
    <3>5. Total(OutputTable(FirstTables, Count)[Act])' = Total(OutputTable(FirstTables, Count)[Act])
      BY <2>1, <3>1
    <3> QED BY <2>1, <3>1, <3>3, <3>4, <3>5 DEF SumInv
  <2>5. CASE VTrack \/ VClaim \/ UNCHANGED vars
    <3>1. same /\ pc' = pc /\ misc' = misc
      BY <2>5 DEF VTrack, VClaim, vars, pvars
    <3> HIDE DEF same
    <3>2. Total(OutputTable(FirstTables, Count)[Act])' = Total(OutputTable(FirstTables, Count)[Act])
      BY <2>1, <3>1
    <3> QED BY <2>1, <3>1, <3>2 DEF SumInv
  <2> QED BY <2>2, <2>3, <2>4, <2>5 DEF Next, Stop
<1> QED BY <1>1, <1>2, PlanHolds, TablesHold, PTL DEF Spec

\* Of every equi-join the gadget can express the prover makes a proof, in whatever
\* order the two executions of it return the rows, and what the verifier checks is
\* true: the lookups, the pairs and keys listed once, and the count of the rows.
THEOREM JoinProvable == Spec => []JoinIsProvable
<1>1. PlanInv /\ TableInv /\ SumInv => JoinIsProvable
  <2> SUFFICES ASSUME PlanInv, TableInv, SumInv, ~HasOne, query.on # <<>>, Expressible,
                      query.type = "Left" => ~Unmatched
               PROVE  pc \notin {"panic", "error"} /\ (vpc = "done" => AllHold(vclaims))
    BY DEF JoinIsProvable
  <2>1. query \in Queries /\ ~(query.type = "Left" /\ Unmatched)
    BY DEF PlanInv
  <2>2. Count = Len(FullOutput.rows)
    BY DEF Count, Output
  <2>3. Materialized(FirstTables) /\ Materialized(LastTables) /\ CountsKeys(LastTables)
        /\ CountsRows(LastTables, OutputTable(LastTables, Count))
        /\ OutputTable(FirstTables, Count) = OutputTable(LastTables, Count)
    BY TablesAre
  <2>4. pc # "panic"
    <3>1. GadgetPlannable
      BY <2>1, SourcesExist DEF GadgetPlannable
    <3> QED BY <3>1 DEF PlanInv, Stuck
  <2>5. pc # "error"
    <3>1. HonestCheck(FirstTables, Count)
      BY <2>1, <2>2, <2>3, HonestHolds
    <3> QED BY <3>1 DEF SumInv
  <2>6. ASSUME vpc = "done" PROVE AllHold(vclaims)
    <3>1. pc = "sent" /\ vclaims = JoinClaims(LastTables, misc.count, misc.sum)
      BY <2>6 DEF TableInv, LastClaims
    <3>2. misc.count = Count
      BY <3>1 DEF PlanInv
    <3>3. misc.sum = Total(OutputTable(FirstTables, Count)[Act])
      BY <3>1 DEF SumInv
    <3>4. misc.sum = Total(OutputTable(LastTables, Count)[Act])
      BY <2>3, <3>3, Zenon
    <3>5. AllHold(JoinClaims(LastTables, Count, Total(OutputTable(LastTables, Count)[Act])))
      BY <2>1, <2>2, <2>3, ClaimsHold
    <3> QED BY <3>1, <3>2, <3>4, <3>5, Zenon
  <2> QED BY <2>4, <2>5, <2>6
<1> QED BY <1>1, PlanHolds, TablesHold, SumsHold, PTL
=============================================================================
