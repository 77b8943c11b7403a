------------------------ MODULE AggregateCheck_proofs ------------------------
(***************************************************************************)
(* Aggregates of tables of any length: the verifier gets the prover's      *)
(* tables, and they hold one active row for each group, with the group's   *)
(* aggregates; and every aggregate the gadgets can express is proved.      *)
(***************************************************************************)
EXTENDS AggregateCheck, SortHints_proofs

-----------------------------------------------------------------------------
(* The functions an aggregate is left with.                                *)

\* Of each function an AVG may make three, and what it adds is a SUM or a COUNT.
LEMMA SupportList ==
  ASSUME NEW S, "sum" \in S, "count" \in S, NEW fs \in Seq(S)
  PROVE  AddAvgSupport(fs) \in Seq(S) /\ Len(AddAvgSupport(fs)) <= 3 * Len(fs)
<1> DEFINE Missing(have, f) == IF f \in Range(have) \cup Range(fs) THEN <<>> ELSE <<f>>
           sum(have, f) == Append(have, f) \o Missing(Append(have, f), "sum")
           with(have, f) ==
             IF f = "avg" THEN sum(have, f) \o Missing(sum(have, f), "count") ELSE Append(have, f)
           N == Len(fs)
           Is(d) == d = [n \in 0..N |-> IF n = 0 THEN <<>> ELSE with(d[n - 1], fs[n])]
           step == [x \in Nat \X Seq(S) |-> IF x[1] \in 1..N THEN with(x[2], fs[x[1]]) ELSE <<>>]
<1>1. N \in Nat /\ \A n \in 1..N : fs[n] \in S
  OBVIOUS
<1>2. ASSUME NEW have \in Seq(S), NEW f \in S
      PROVE  with(have, f) \in Seq(S) /\ Len(with(have, f)) <= Len(have) + 3
  <2>1. \A h \in Seq(S) : \A g \in S :
          Missing(h, g) \in Seq(S) /\ Len(Missing(h, g)) \in 0..1
    OBVIOUS
  <2>2. Append(have, f) \in Seq(S) /\ Len(Append(have, f)) = Len(have) + 1 /\ Len(have) \in Nat
    OBVIOUS
  <2>3. "sum" \in S /\ "count" \in S
    OBVIOUS
  <2> HIDE DEF Missing
  <2>4. sum(have, f) \in Seq(S) /\ Len(sum(have, f)) <= Len(have) + 2
        /\ Len(sum(have, f)) \in Nat
    <3>1. Missing(Append(have, f), "sum") \in Seq(S)
          /\ Len(Missing(Append(have, f), "sum")) \in 0..1
      BY <2>1, <2>2, <2>3
    <3> QED BY <2>2, <3>1, ConcatProperties
  <2> HIDE DEF sum
  <2>5. sum(have, f) \o Missing(sum(have, f), "count") \in Seq(S)
        /\ Len(sum(have, f) \o Missing(sum(have, f), "count")) <= Len(have) + 3
    <3>1. Missing(sum(have, f), "count") \in Seq(S)
          /\ Len(Missing(sum(have, f), "count")) \in 0..1
      BY <2>1, <2>3, <2>4
    <3> DEFINE a == sum(have, f)
               b == Missing(a, "count")
    <3>2. a \in Seq(S) /\ Len(a) \in Nat /\ Len(a) <= Len(have) + 2
          /\ b \in Seq(S) /\ Len(b) \in 0..1
      BY <2>4, <3>1
    <3> HIDE DEF a, b
    <3> DEFINE l == Len(a \o b)
    <3>3. a \o b \in Seq(S) /\ l = Len(a) + Len(b)
      BY <3>2, ConcatProperties
    <3>4. l <= Len(have) + 3
      <4>1. Len(have) \in Nat
        BY <2>2
      <4> DEFINE h == Len(have)
                 x == Len(a)
                 y == Len(b)
      <4>2. h \in Nat /\ x \in Nat /\ y \in 0..1 /\ x <= h + 2 /\ l = x + y
        BY <3>2, <3>3, <4>1
      <4> HIDE DEF l, h, x, y
      <4>3. l <= h + 3
        BY <4>2
      <4> QED BY <4>3 DEF h
    <3> QED BY <3>3, <3>4 DEF a, b
  <2> QED BY <2>2, <2>5
<1>3. AddAvgSupport(fs) = (CHOOSE d : Is(d))[N]
  BY DEF AddAvgSupport
<1> HIDE DEF with, N
<1>4. \E d \in [0..N -> Seq(S)] : Is(d)
  <2>1. step \in [Nat \X Seq(S) -> Seq(S)]
    <3>1. <<>> \in Seq(S)
      OBVIOUS
    <3>2. \A x \in Nat \X Seq(S) : x[2] \in Seq(S)
            /\ (x[1] \in 1..N => with(x[2], fs[x[1]]) \in Seq(S))
      BY <1>1, <1>2
    <3> QED BY <3>1, <3>2
  <2>2. \A n \in 1..N : \A h \in Seq(S) : step[<<n, h>>] = with(h, fs[n])
    BY <1>1
  <2> HIDE DEF step
  <2>3. PICK d \in [0..N -> Seq(S)] : Steps(d, N, <<>>, step)
    <3>1. <<>> \in Seq(S)
      OBVIOUS
    <3> QED BY <1>1, <2>1, <3>1, StepsExist
  <2>4. d = [n \in 0..N |-> IF n = 0 THEN <<>> ELSE step[<<n, d[n - 1]>>]]
    BY <2>3 DEF Steps
  <2>5. \A n \in 1..N : n - 1 \in 0..N /\ d[n - 1] \in Seq(S)
    BY <1>1
  <2>6. \A n \in 1..N : step[<<n, d[n - 1]>>] = with(d[n - 1], fs[n])
    BY <2>2, <2>5
  <2>7. d[0] = <<>> /\ \A n \in 1..N : d[n] = with(d[n - 1], fs[n])
    BY <1>1, <2>4, <2>6
  <2>8. d = [n \in 0..N |-> d[n]]
    OBVIOUS
  <2>9. \A n \in 0..N : d[n] = IF n = 0 THEN <<>> ELSE with(d[n - 1], fs[n])
    BY <1>1, <2>7
  <2>10. Is(d)
    BY <2>8, <2>9
  <2> QED BY <2>10
<1> DEFINE c == CHOOSE d : Is(d)
<1>5. Is(c)
  BY <1>4
<1>6. c[0] = <<>> /\ \A n \in 1..N : c[n] = with(c[n - 1], fs[n])
  <2>1. \A n \in 1..N : n \in 0..N /\ n # 0
    BY <1>1
  <2>2. 0 \in 0..N
    BY <1>1
  <2> HIDE DEF c
  <2> QED BY <1>5, <2>1, <2>2
<1> HIDE DEF c, Is
<1> DEFINE Right(n) == c[n] \in Seq(S) /\ Len(c[n]) <= 3 * n
           D == { n \in 0..N : ~Right(n) }
<1>7. \A n \in 0..N : Right(n)
  <2> SUFFICES ASSUME D # {} PROVE FALSE
    OBVIOUS
  <2>1. D \in SUBSET Nat /\ \A n : n \in D <=> n \in 0..N /\ ~Right(n)
    OBVIOUS
  <2> HIDE DEF D
  <2>2. PICK n \in D : \A l \in D : n <= l
    BY <2>1, Least
  <2>3. n # 0
    <3>1. Right(0)
      <4>1. c[0] = <<>>
        BY <1>6
      <4>2. <<>> \in Seq(S) /\ Len(<<>>) = 0
        OBVIOUS
      <4> QED BY <4>1, <4>2
    <3> QED BY <2>1, <3>1
  <2>4. n \in 1..N /\ n - 1 \in 0..N /\ n - 1 \notin D
    BY <1>1, <2>1, <2>2, <2>3
  <2>5. c[n - 1] \in Seq(S) /\ Len(c[n - 1]) <= 3 * (n - 1) /\ Len(c[n - 1]) \in Nat
    BY <2>1, <2>4
  <2>6. with(c[n - 1], fs[n]) \in Seq(S) /\ Len(with(c[n - 1], fs[n])) <= Len(c[n - 1]) + 3
    BY <1>1, <1>2, <2>4, <2>5
  <2>7. Len(with(c[n - 1], fs[n])) \in Nat
    BY <2>6
  <2>8. Right(n)
    <3>1. c[n] = with(c[n - 1], fs[n])
      BY <1>6, <2>4
    <3>2. Len(c[n]) \in Nat /\ Len(c[n]) <= Len(c[n - 1]) + 3
      BY <2>6, <2>7, <3>1
    <3> QED BY <2>4, <2>5, <2>6, <3>1, <3>2
  <2> QED BY <2>1, <2>8
<1>8. Right(N) /\ AddAvgSupport(fs) = c[N]
  BY <1>1, <1>3, <1>7 DEF c, N
<1> QED BY <1>8 DEF N

-----------------------------------------------------------------------------
(* The committed columns.                                                  *)

\* The columns of n aggregates, and the activator.
ColumnsOf(n) == [j \in 1..n |-> Arg + j]
SchemaOf(n) == [j \in 1..(n + 1) |-> IF j = n + 1 THEN Act ELSE Arg + j]

LEMMA ColumnNames ==
  ASSUME NEW n \in Nat, Len(aggs) = n, DOMAIN aggs = 1..n
  PROVE  /\ AggCols = ColumnsOf(n) /\ Schema = SchemaOf(n)
         /\ Len(Schema) = n + 1 /\ DOMAIN Schema = 1..(n + 1)
         /\ Range(AggCols) = {Arg + j : j \in 1..n}
         /\ Range(Schema) = Range(AggCols) \cup {Act}
         /\ \A i, j \in DOMAIN Schema : Schema[i] = Schema[j] => i = j
<1>1. AggCols = ColumnsOf(n)
  BY DEF AggCols, AggCol, ColumnsOf
<1>2. ColumnsOf(n) \in Seq(Nat) /\ Len(ColumnsOf(n)) = n
  BY DEF ColumnsOf, Arg
<1>3. Schema \in Seq(Int) /\ Len(Schema) = n + 1
      /\ \A j \in 1..(n + 1) : Schema[j] = IF j = n + 1 THEN Act ELSE ColumnsOf(n)[j]
  BY <1>1, <1>2, AppendProperties DEF Schema, Act
<1>4. DOMAIN Schema = 1..(n + 1)
  BY <1>3
<1>5. \A j \in 1..(n + 1) : Schema[j] = IF j = n + 1 THEN Act ELSE Arg + j
  <2> TAKE j \in 1..(n + 1)
  <2>1. j # n + 1 => j \in 1..n
    OBVIOUS
  <2> QED BY <1>3, <2>1 DEF ColumnsOf
<1>6. Schema = SchemaOf(n)
  BY <1>3, <1>4, <1>5 DEF SchemaOf
<1>7. Range(AggCols) = {Arg + j : j \in 1..n}
  BY <1>1 DEF Range, ColumnsOf
<1>8. Range(Schema) = Range(AggCols) \cup {Act}
  <2>1. ASSUME NEW x \in Range(Schema) PROVE x \in Range(AggCols) \cup {Act}
    <3>1. PICK j \in 1..(n + 1) : x = Schema[j]
      BY <1>4 DEF Range
    <3>2. j # n + 1 => j \in 1..n
      OBVIOUS
    <3> QED BY <1>5, <1>7, <3>1, <3>2
  <2>2. ASSUME NEW x \in Range(AggCols) \cup {Act} PROVE x \in Range(Schema)
    <3>1. CASE x = Act
      <4>1. n + 1 \in 1..(n + 1) /\ Schema[n + 1] = x
        BY <1>5, <3>1
      <4> QED BY <1>4, <4>1 DEF Range
    <3>2. CASE x # Act
      <4>1. PICK j \in 1..n : x = Arg + j
        BY <1>7, <3>2
      <4>2. j \in 1..(n + 1) /\ Schema[j] = x
        BY <1>5, <4>1
      <4> QED BY <1>4, <4>2 DEF Range
    <3> QED BY <3>1, <3>2
  <2> QED BY <2>1, <2>2
<1>9. \A i, j \in DOMAIN Schema : Schema[i] = Schema[j] => i = j
  BY <1>4, <1>5 DEF Act, Arg
<1> QED BY <1>1, <1>3, <1>4, <1>6, <1>7, <1>8, <1>9

\* The fields of the output that are committed are those the verifier expects.
OutputFields == InputFields \o AggCols \o <<Act>>
LEMMA SchemaIsCommitted ==
  ASSUME NEW n \in Nat, Len(aggs) = n, DOMAIN aggs = 1..n
  PROVE  Kept(OutputFields, Range(AggCols) \cup {Act}) = Schema
<1> DEFINE m == IF query.numbered THEN 4 ELSE 3
           keep == Range(AggCols) \cup {Act}
<1>1. AggCols = ColumnsOf(n) /\ Schema = SchemaOf(n) /\ keep = {Arg + j : j \in 1..n} \cup {Act}
  BY ColumnNames
<1>2. ColumnsOf(n) \in Seq(Int) /\ Len(ColumnsOf(n)) = n
  BY DEF ColumnsOf, Arg
<1>3. InputFields \in Seq(Int) /\ Len(InputFields) = m
      /\ \A k \in 1..m : InputFields[k] \in {1, 2, Arg, RowId}
  BY DEF InputFields, Arg, RowId
<1> DEFINE front == InputFields \o AggCols
<1> HIDE DEF m
<1>4. front \in Seq(Int) /\ Len(front) = m + n
      /\ \A k \in 1..(m + n) : front[k] = IF k <= m THEN InputFields[k] ELSE ColumnsOf(n)[k - m]
  <2>1. AggCols \in Seq(Int) /\ Len(AggCols) = n
    BY <1>1, <1>2
  <2>2. front \in Seq(Int) /\ Len(front) = Len(InputFields) + Len(AggCols)
        /\ \A k \in 1..Len(front) : front[k] = IF k <= Len(InputFields) THEN InputFields[k]
                                               ELSE AggCols[k - Len(InputFields)]
    <3>1. InputFields \in Seq(Int)
      BY <1>3
    <3>2. /\ front \in Seq(Int) /\ Len(front) = Len(InputFields) + Len(AggCols)
          /\ \A k \in 1..(Len(InputFields) + Len(AggCols)) :
               front[k] = IF k <= Len(InputFields) THEN InputFields[k]
                          ELSE AggCols[k - Len(InputFields)]
      BY <2>1, <3>1, ConcatProperties, Zenon
    <3> HIDE DEF front
    <3> QED BY <3>2
  <2> HIDE DEF front
  <2> QED BY <1>1, <1>3, <2>1, <2>2
<1> HIDE DEF front
<1>5. <<Act>> \in Seq(Int) /\ Len(<<Act>>) = 1 /\ <<Act>>[1] = Act
  BY DEF Act
<1>6. OutputFields \in Seq(Int) /\ Len(OutputFields) = m + n + 1
      /\ \A k \in 1..(m + n + 1) : OutputFields[k] = IF k <= m + n THEN front[k] ELSE <<Act>>[k - (m + n)]
  <2>1. OutputFields = front \o <<Act>>
    BY DEF OutputFields, front
  <2> QED BY <1>4, <1>5, <2>1, ConcatProperties
<1>7. m \in Nat /\ DOMAIN OutputFields = 1..(m + n + 1)
  BY <1>6 DEF m
<1>8. \A k \in 1..(m + n + 1) : OutputFields[k] =
        IF k <= m THEN InputFields[k] ELSE IF k <= m + n THEN Arg + (k - m) ELSE Act
  <2> TAKE k \in 1..(m + n + 1)
  <2>1. CASE k <= m
    BY <1>4, <1>6, <1>7, <2>1
  <2>2. CASE k > m /\ k <= m + n
    <3>1. k - m \in 1..n /\ k \in 1..(m + n)
      BY <1>7, <2>2
    <3>2. OutputFields[k] = ColumnsOf(n)[k - m]
      BY <1>4, <1>6, <1>7, <2>2, <3>1
    <3> QED BY <1>7, <2>2, <3>1, <3>2 DEF ColumnsOf
  <2>3. CASE k > m + n
    <3>1. k = m + n + 1 /\ k - (m + n) = 1
      BY <1>7, <2>3
    <3> QED BY <1>5, <1>6, <1>7, <2>3, <3>1
  <2> QED BY <1>7, <2>1, <2>2, <2>3
<1>9. \A k \in 1..(m + n + 1) : OutputFields[k] \in keep <=> k \in (m + 1)..(m + (n + 1))
  <2> TAKE k \in 1..(m + n + 1)
  <2>1. CASE k <= m
    <3>1. OutputFields[k] \in {1, 2, Arg, RowId}
      BY <1>3, <1>7, <1>8, <2>1
    <3>2. {1, 2, Arg, RowId} \cap keep = {}
      BY <1>1 DEF Arg, RowId, Act
    <3>3. OutputFields[k] \notin keep
      <4> HIDE DEF keep
      <4> QED BY <3>1, <3>2
    <3>4. k \notin (m + 1)..(m + (n + 1))
      BY <1>7, <2>1
    <3> QED BY <3>3, <3>4
  <2>2. CASE k > m
    <3>1. OutputFields[k] \in keep
      <4>1. CASE k <= m + n
        <5>1. k - m \in 1..n
          BY <1>7, <2>2, <4>1
        <5> QED BY <1>1, <1>7, <1>8, <2>2, <4>1, <5>1
      <4>2. CASE k > m + n
        BY <1>7, <1>8, <2>2, <4>2
      <4> QED BY <1>7, <4>1, <4>2
    <3> QED BY <1>7, <2>2, <3>1
  <2> QED BY <1>7, <2>1, <2>2
<1> HIDE DEF keep
<1>10. Kept(OutputFields, keep) = Part(OutputFields, m, n + 1)
  <2>1. m + n + 1 \in Nat /\ n + 1 \in Nat /\ m + (n + 1) <= m + n + 1
    BY <1>7
  <2> QED BY <1>7, <1>9, <2>1, KeptPart
<1>11. \A j \in 1..(n + 1) : OutputFields[m + j] = SchemaOf(n)[j]
  <2> TAKE j \in 1..(n + 1)
  <2>1. m + j \in 1..(m + n + 1) /\ ~(m + j <= m) /\ (m + j) - m = j
        /\ (m + j <= m + n <=> j # n + 1)
    BY <1>7
  <2> QED BY <1>8, <2>1 DEF SchemaOf
<1>12. Part(OutputFields, m, n + 1) = SchemaOf(n)
  <2>1. SchemaOf(n) = [j \in 1..(n + 1) |-> SchemaOf(n)[j]]
    BY DEF SchemaOf
  <2> QED BY <1>11, <2>1 DEF Part
<1> QED BY <1>1, <1>10, <1>12 DEF keep

-----------------------------------------------------------------------------
(* The tables, the verifier's and the prover's.                            *)

\* The columns the verifier reads off a list of them.
ReadOff(list) ==
  [x \in Range(Schema) |-> list[CHOOSE i \in DOMAIN Schema : Schema[i] = x]]

\* The columns of the proof, in the order of the schema.
LEMMA TableRead ==
  ASSUME NEW n \in Nat, Len(aggs) = n, DOMAIN aggs = 1..n,
         NEW f, f.fields = OutputFields, f.mat = Range(AggCols) \cup {Act},
         NEW mult, mult \in Seq({mult[1]}), NEW list, list = Commitments(f) \o mult
  PROVE  /\ ReadOff(list) = EncodedColumns(f)
         /\ SubSeq(list, Len(Schema) + 1, Len(list)) = mult
<1> DEFINE cs == Commitments(f)
           e == EncodedColumns(f)
           S == {cs[i] : i \in 1..(n + 1)} \cup {mult[1]}
<1>1. MatFields(f) = Schema /\ Len(Schema) = n + 1 /\ DOMAIN Schema = 1..(n + 1)
      /\ (\A i, j \in DOMAIN Schema : Schema[i] = Schema[j] => i = j)
      /\ Range(Schema) = Range(AggCols) \cup {Act}
  BY SchemaIsCommitted, ColumnNames DEF MatFields
<1>2. cs = [i \in 1..(n + 1) |-> e[Schema[i]]]
  BY <1>1 DEF Commitments
<1>3. DOMAIN e = Range(Schema) /\ e = [x \in Range(Schema) |-> e[x]]
  BY <1>1 DEF EncodedColumns
<1> HIDE DEF cs, e
<1>4. cs \in Seq(S) /\ Len(cs) = n + 1
  <2>1. cs \in [1..(n + 1) -> S]
    BY <1>2
  <2>2. n + 1 \in Nat
    OBVIOUS
  <2> HIDE DEF S
  <2> QED BY <2>1, <2>2, ListOf
<1>5. mult \in Seq(S)
  <2>1. Len(mult) \in Nat /\ mult = [i \in 1..Len(mult) |-> mult[i]]
    OBVIOUS
  <2>2. \A i \in 1..Len(mult) : mult[i] \in {mult[1]}
    OBVIOUS
  <2>3. mult[1] \in S
    BY DEF S
  <2>4. \A i \in 1..Len(mult) : mult[i] \in S
    BY <2>2, <2>3
  <2>5. mult \in [1..Len(mult) -> S]
    BY <2>1, <2>4
  <2> HIDE DEF S
  <2> QED BY <2>1, <2>5, ListOf
<1> HIDE DEF S
<1>6. /\ Len(list) = n + 1 + Len(mult)
      /\ \A i \in 1..(n + 1) : list[i] = cs[i]
      /\ SubSeq(list, n + 1 + 1, Len(list)) = mult
  <2>1. list = cs \o mult
    BY DEF cs
  <2> DEFINE m == Len(cs)
             l == Len(mult)
             k == n + 1
  <2>2. m = Len(cs) /\ l = Len(mult) /\ m = k
    BY <1>4
  <2> HIDE DEF k, l, m
  <2>3. ConsistsOf(cs \o mult, cs, m, mult, l)
    BY <1>4, <1>5, <2>2, Joined
  <2>4. Len(list) = k + l /\ (\A i \in 1..k : list[i] = cs[i]) /\ SubSeq(list, k + 1, Len(list)) = mult
    BY <2>1, <2>2, <2>3 DEF ConsistsOf
  <2> QED BY <2>4 DEF k, l
<1>7. \A x \in Range(Schema) : list[CHOOSE i \in DOMAIN Schema : Schema[i] = x] = e[x]
  <2> TAKE x \in Range(Schema)
  <2>1. PICK i \in 1..(n + 1) : Schema[i] = x
    BY <1>1 DEF Range
  <2>2. (CHOOSE j \in DOMAIN Schema : Schema[j] = x) = i
    BY <1>1, <2>1
  <2>3. list[i] = cs[i]
    BY <1>6
  <2> QED BY <1>2, <2>1, <2>2, <2>3
<1>8. SubSeq(list, Len(Schema) + 1, Len(list)) = mult
  BY <1>1, <1>6
<1>9. ReadOff(list) = e
  BY <1>3, <1>7 DEF ReadOff
<1> QED BY <1>8, <1>9 DEF e

\* The rows of the output, of an input with ids.
OutputRows == [i \in DOMAIN query.rows |-> OutputRow(query.rows[i])]

\* The aggregate does not change, and neither does what is computed from it.
LEMMA SameAggregate ==
  ASSUME query' = query, aggs' = aggs
  PROVE  /\ OutputFields' = OutputFields /\ AggCols' = AggCols /\ Schema' = Schema
         /\ OutputRows' = OutputRows
         /\ \A c : AggregateClaims(c)' = AggregateClaims(c)
<1>1. AggCols' = AggCols
  BY DEF AggCols
<1>2. OutputFields' = OutputFields /\ Schema' = Schema
  BY <1>1 DEF OutputFields, Schema, InputFields
<1>3. \A row : Key(row)' = Key(row)
  BY DEF Key
<1>4. ActiveRows' = ActiveRows /\ HasGroups' = HasGroups
  BY DEF ActiveRows, HasGroups
<1>5. \A k : Group(k)' = Group(k)
  BY <1>3, <1>4 DEF Group
<1>6. \A f, row : JoinedBack(f, row)' = JoinedBack(f, row)
  BY <1>3, <1>4, <1>5 DEF JoinedBack
<1>7. \A row : RowNumber(row)' = RowNumber(row)
  BY <1>3 DEF RowNumber
<1>8. \A row : Represents(row)' = Represents(row)
  BY <1>7 DEF Represents
<1>9. \A row : OutputRow(row)' = OutputRow(row)
  BY <1>1, <1>6, <1>8 DEF OutputRow
<1>10. Input' = Input
  BY DEF Input, InputFields
<1>11. \A c : Merged(c)' = Merged(c)
  BY <1>10 DEF Merged
<1>12. InputKeys' = InputKeys /\ \A c : OutputKeys(c)' = OutputKeys(c)
  BY <1>10, <1>11 DEF InputKeys, OutputKeys, Groups
<1>13. \A f : Where(f)' = Where(f)
  BY <1>1 DEF Where
<1>14. \A c, n : MaxClaims(c, n)' = MaxClaims(c, n) /\ MinClaims(c, n)' = MinClaims(c, n)
  BY <1>10, <1>11 DEF MaxClaims, MinClaims, SignClaims, Margin
<1>15. \A c, n : SumClaim(c, n)' = SumClaim(c, n)
  BY <1>10, <1>11, <1>12 DEF SumClaim
<1>16. \A c : AggregateClaims(c)' = AggregateClaims(c)
  BY <1>4, <1>11, <1>12, <1>13, <1>14, <1>15 DEF AggregateClaims
<1>17. OutputRows' = OutputRows
  BY <1>9 DEF OutputRows
<1> QED BY <1>1, <1>2, <1>16, <1>17

-----------------------------------------------------------------------------
(* The invariant.                                                          *)

Planned ==
  /\ query.shape = "columns"
  /\ output.fields = OutputFields /\ output.mat = Range(AggCols) \cup {Act}
  /\ query.numbered => output.rows = OutputRows
PlanPart ==
  /\ query \in Queries
  /\ pc # "rewrite" => aggs = AddAvgSupport(query.aggs)
  /\ pc \in {"commit", "gadgets", "check", "prove", "sent"} => Planned
TablePart ==
  /\ pc \in {"rewrite", "plan", "commit"} => tabs = NoTables
  /\ pc = "gadgets" =>
       coms = Commitments(output) /\ tabs = [output |-> EncodedColumns(output), mult |-> <<>>]
  /\ pc \in {"check", "prove", "sent"} =>
       /\ tabs = [output |-> EncodedColumns(output), mult |-> tabs.mult]
       /\ tabs.mult \in Seq({tabs.mult[1]}) /\ coms = Commitments(output) \o tabs.mult
VerifierPart ==
  /\ pc = "sent" => claims = AggregateClaims(tabs)
  /\ vpc # "track" => pc = "sent" /\ vtabs = tabs
  /\ vpc = "done" => vclaims = claims
AggregateInv == PlanPart /\ TablePart /\ VerifierPart

LEMMA InvHolds == Spec => []AggregateInv
<1>1. Init => AggregateInv
  BY DEF Init, AggregateInv, PlanPart, TablePart, VerifierPart
<1>2. AggregateInv /\ [Next]_vars => AggregateInv'
  <2> SUFFICES ASSUME AggregateInv, [Next]_vars PROVE AggregateInv'
    OBVIOUS
  <2> USE DEF AggregateInv
  <2>1. ASSUME query' = query, aggs' = aggs, output' = output, Planned PROVE Planned'
    BY <2>1, SameAggregate DEF Planned
  <2>2. CASE Rewrite
    BY <2>2 DEF Rewrite, PlanPart, TablePart, VerifierPart, vvars
  <2>3. CASE Plan
    <3>1. query' = query /\ aggs' = aggs /\ pc = "plan" /\ tabs' = tabs /\ vpc' = vpc
          /\ (pc' = "panic" \/ (pc' = "commit" /\ query.shape = "columns" /\ output' = OutputFrame))
      BY <2>3 DEF Plan, vvars
    <3>2. ASSUME pc' = "commit" PROVE Planned'
      <4>1. /\ OutputFields' = OutputFields /\ AggCols' = AggCols /\ OutputRows' = OutputRows
            /\ output' = OutputFrame /\ query.shape = "columns"
        BY <3>1, <3>2, SameAggregate
      <4>2. /\ OutputFrame.fields = OutputFields /\ OutputFrame.mat = Range(AggCols) \cup {Act}
            /\ query.numbered => OutputFrame.rows = OutputRows
        BY DEF OutputFrame, Frame, OutputFields, OutputRows
      <4> QED BY <3>1, <4>1, <4>2 DEF Planned
    <3>3. PlanPart'
      BY <3>1, <3>2 DEF PlanPart
    <3> QED BY <3>1, <3>3 DEF TablePart, VerifierPart
  <2>4. CASE Commit
    <3>1. Planned'
      BY <2>1, <2>4 DEF Commit, PlanPart
    <3> QED BY <2>4, <3>1 DEF Commit, PlanPart, TablePart, VerifierPart, vvars, NoTables
  <2>5. CASE InitGadgets
    <3>1. Planned'
      BY <2>1, <2>5 DEF InitGadgets, PlanPart
    <3> DEFINE counts == Multiplicities(InputKeys, OutputKeys(tabs))
               mult == IF HasGroups THEN <<counts>> ELSE <<>>
    <3>2. pc = "gadgets" /\ pc' \in {"check", "prove"} /\ coms' = coms \o mult
          /\ tabs' = [tabs EXCEPT !.mult = mult]
          /\ query' = query /\ aggs' = aggs /\ output' = output /\ vpc' = vpc
      BY <2>5 DEF InitGadgets, vvars
    <3> HIDE DEF counts
    <3>3. mult \in Seq({mult[1]})
      <4>1. <<counts>> \in Seq({counts}) /\ <<counts>>[1] = counts
        OBVIOUS
      <4>2. HasGroups => mult = <<counts>>
        OBVIOUS
      <4>3. ~HasGroups => mult = <<>>
        OBVIOUS
      <4> HIDE DEF mult
      <4>4. <<>> \in Seq({mult[1]})
        BY EmptySeq
      <4> QED BY <4>1, <4>2, <4>3, <4>4
    <3> HIDE DEF mult
    <3>4. PlanPart'
      BY <3>1, <3>2 DEF PlanPart
    <3>5. tabs' = [output |-> EncodedColumns(output), mult |-> mult]
          /\ coms' = Commitments(output) \o mult
      BY <3>2 DEF TablePart
    <3> QED BY <3>2, <3>3, <3>4, <3>5 DEF TablePart, VerifierPart
  <2>6. CASE Check
    <3>1. Planned'
      BY <2>1, <2>6 DEF Check, PlanPart
    <3> QED BY <2>6, <3>1 DEF Check, PlanPart, TablePart, VerifierPart, vvars
  <2>7. CASE Prove
    <3>1. Planned'
      BY <2>1, <2>7 DEF Prove, PlanPart
    <3>2. AggregateClaims(tabs)' = AggregateClaims(tabs)
      BY <2>7, SameAggregate DEF Prove
    <3> QED BY <2>7, <3>1, <3>2 DEF Prove, PlanPart, TablePart, VerifierPart, vvars
  <2>8. CASE VTrack
    <3>1. Planned'
      BY <2>1, <2>8 DEF VTrack, PlanPart, pvars
    <3>2. vtabs' = tabs
      <4>1. PICK n \in Nat : Len(aggs) = n /\ DOMAIN aggs = 1..n
        <5>1. query.aggs \in Seq(Funs) /\ aggs = AddAvgSupport(query.aggs)
          BY <2>8, QueryAssumption DEF PlanPart, VTrack
        <5>2. aggs \in Seq(Funs)
          BY <5>1, SupportList DEF Funs
        <5> QED BY <5>2
      <4>2. /\ output.fields = OutputFields /\ output.mat = Range(AggCols) \cup {Act}
            /\ tabs.mult \in Seq({tabs.mult[1]}) /\ coms = Commitments(output) \o tabs.mult
            /\ tabs = [output |-> EncodedColumns(output), mult |-> tabs.mult]
        BY <2>8 DEF VTrack, PlanPart, TablePart, Planned
      <4>3. /\ ReadOff(coms) = EncodedColumns(output)
            /\ SubSeq(coms, Len(Schema) + 1, Len(coms)) = tabs.mult
        BY <4>1, <4>2, TableRead
      <4>4. vtabs' = [output |-> ReadOff(coms), mult |-> SubSeq(coms, Len(Schema) + 1, Len(coms))]
        BY <2>8 DEF VTrack, ReadOff
      <4> QED BY <4>2, <4>3, <4>4
    <3> QED BY <2>8, <3>1, <3>2, SameAggregate
        DEF VTrack, PlanPart, TablePart, VerifierPart, pvars
  <2>9. CASE VClaim
    <3>1. Planned'
      BY <2>1, <2>9 DEF VClaim, PlanPart, pvars, VerifierPart
    <3>2. vclaims' = claims /\ AggregateClaims(tabs)' = AggregateClaims(tabs)
      BY <2>9, SameAggregate DEF VClaim, VerifierPart, pvars
    <3> QED BY <2>9, <3>1, <3>2 DEF VClaim, PlanPart, TablePart, VerifierPart, pvars
  <2>10. CASE UNCHANGED vars
    <3>1. query' = query /\ aggs' = aggs /\ output' = output
      BY <2>10 DEF vars, pvars
    <3>2. Planned => Planned'
      BY <2>1, <3>1
    <3>3. tabs' = tabs => AggregateClaims(tabs)' = AggregateClaims(tabs)
      BY <3>1, SameAggregate
    <3> QED BY <2>10, <3>2, <3>3 DEF vars, pvars, vvars, PlanPart, TablePart, VerifierPart
  <2> QED BY <2>2, <2>3, <2>4, <2>5, <2>6, <2>7, <2>8, <2>9, <2>10 DEF Next, Stop
<1> QED BY <1>1, <1>2, PTL DEF Spec

\* The verifier, which has the plan and the commitments, gets the tables the
\* prover has and makes the claims the prover made, of every aggregate.
THEOREM TablesMirrored == Spec => []VerifierMirrors
<1>1. AggregateInv => VerifierMirrors
  BY DEF AggregateInv, VerifierPart, VerifierMirrors
<1> QED BY <1>1, InvHolds, PTL

-----------------------------------------------------------------------------
(* The rows of an input.                                                   *)

\* What is assumed of the rows of a query.
RowsOk(n) ==
  /\ n \in Nat /\ Len(query.rows) = n /\ DOMAIN query.rows = 1..n
  /\ \A i \in 1..n : /\ DOMAIN query.rows[i] = RowNames
                     /\ query.rows[i][Act] \in {0, 1} /\ query.rows[i][RowId] \in Nat
                     /\ \A c \in 1..Arg : query.rows[i][c] \in Int \cup {Null}
                                         /\ Fits(query.rows[i][c])
  /\ \A i, j \in 1..n : query.rows[i][RowId] = query.rows[j][RowId] => i = j

LEMMA InputRows ==
  ASSUME query \in Queries
  PROVE  RowsOk(Len(query.rows))
<1> DEFINE rs == query.rows
           n == Len(rs)
           Row == [-1..MaxCols -> Int \cup {Null}]
<1>1. rs \in Seq(Row)
      /\ (\A i \in DOMAIN rs : rs[i][Act] \in {0, 1} /\ \A c \in 1..Arg : Fits(rs[i][c]))
      /\ {rs[i][RowId] : i \in DOMAIN rs} = 0..(Len(rs) - 1)
  BY QueryAssumption
<1>2. n \in Nat /\ DOMAIN rs = 1..n
  BY <1>1
<1>3. \A i \in 1..n : rs[i] \in Row
  BY <1>1, <1>2
<1>4. \A i \in 1..n : DOMAIN rs[i] = RowNames
  BY <1>3 DEF RowNames
<1>5. \A i \in 1..n : \A c \in 1..Arg : rs[i][c] \in Int \cup {Null}
  <2>1. 1..Arg \subseteq -1..MaxCols
    BY QueryAssumption, SortAssumption DEF Arg
  <2> QED BY <1>3, <2>1
<1> DEFINE f == [i \in 1..n |-> rs[i][RowId]]
<1>6. DOMAIN f = 1..n /\ f = [i \in DOMAIN f |-> f[i]] /\ {f[i] : i \in DOMAIN f} = 0..(n - 1)
      /\ \A i \in 1..n : f[i] = rs[i][RowId]
  BY <1>1, <1>2
<1> HIDE DEF f
<1>7. (\A i \in 1..n : f[i] \in 0..(n - 1)) /\ \A i, j \in 1..n : f[i] = f[j] => i = j
  BY <1>2, <1>6, DenseIds
<1>8. \A i \in 1..n : rs[i][RowId] \in Nat
  <2> TAKE i \in 1..n
  <2>1. f[i] \in 0..(n - 1)
    BY <1>7
  <2> HIDE DEF n, rs
  <2> QED BY <1>2, <1>6, <2>1
<1>9. \A i, j \in 1..n : rs[i][RowId] = rs[j][RowId] => i = j
  BY <1>6, <1>7
<1> QED BY <1>1, <1>2, <1>4, <1>8, <1>9, <1>5 DEF RowsOk

\* The place in the input of the i-th row by id.
Spot(i) == Ranked(IdOrder(query.rows, Len(query.rows)), Len(query.rows), i)

LEMMA Spots ==
  ASSUME NEW n, RowsOk(n)
  PROVE  /\ \A i \in 1..n : Spot(i) \in 1..n
         /\ \A m \in 1..n : \E i \in 1..n : Spot(i) = m
         /\ \A i, j \in 1..n : Spot(i) = Spot(j) => i = j
<1> DEFINE lt == IdOrder(query.rows, n)
<1>1. n \in Nat /\ Len(query.rows) = n /\ DOMAIN query.rows = 1..n
      /\ \A i \in 1..n : query.rows[i][RowId] \in Int
  BY DEF RowsOk
<1>2. IsOrder(lt, n)
  BY <1>1, ByIdRows
<1> HIDE DEF lt
<1>3. /\ \A i \in 1..n : Ranked(lt, n, i) \in 1..n /\ Place(lt, n, Ranked(lt, n, i)) = i
      /\ \A m \in 1..n : Place(lt, n, m) \in 1..n /\ Ranked(lt, n, Place(lt, n, m)) = m
  <2>1. n \in Nat
    BY <1>1
  <2>2. /\ \A i \in 1..n : Ranked(lt, n, i) \in 1..n /\ Place(lt, n, Ranked(lt, n, i)) = i
        /\ \A m \in 1..n : Place(lt, n, m) \in 1..n /\ Ranked(lt, n, Place(lt, n, m)) = m
        /\ \A i, j \in 1..n : i < j <=> lt[Ranked(lt, n, i)][Ranked(lt, n, j)]
    BY <1>2, <2>1, RankedOrder, Zenon
  <2> QED BY <2>2, Zenon
<1>4. \A i : Spot(i) = Ranked(lt, n, i)
  BY <1>1 DEF Spot, lt
<1>5. ASSUME NEW m \in 1..n PROVE \E i \in 1..n : Spot(i) = m
  BY <1>3, <1>4
<1>6. ASSUME NEW i \in 1..n, NEW j \in 1..n, Spot(i) = Spot(j) PROVE i = j
  <2>1. Ranked(lt, n, i) = Ranked(lt, n, j)
    BY <1>4, <1>6
  <2>2. Place(lt, n, Ranked(lt, n, i)) = Place(lt, n, Ranked(lt, n, j))
    BY <2>1
  <2> QED BY <1>3, <2>2
<1>7. \A i \in 1..n : Spot(i) \in 1..n
  BY <1>3, <1>4
<1> QED BY <1>5, <1>6, <1>7

\* Tables of rows with the input's ids are committed in the order of those ids,
\* and what is added to them is not active.
LEMMA CommittedRows ==
  ASSUME NEW n, RowsOk(n), NEW rows, Len(rows) = n, DOMAIN rows = 1..n,
         \A i \in 1..n : DOMAIN rows[i] = RowNames /\ rows[i][RowId] = query.rows[i][RowId]
  PROVE  /\ DOMAIN Padded(ById(rows)) = 1..PowerOfTwo(n)
         /\ \A i \in 1..n : i \in 1..PowerOfTwo(n) /\ Padded(ById(rows))[i] = rows[Spot(i)]
         /\ \A i \in 1..PowerOfTwo(n) : i > n => Padded(ById(rows))[i][Act] = 0
<1>1. n \in Nat /\ Len(query.rows) = n /\ DOMAIN query.rows = 1..n
      /\ \A i \in 1..n : query.rows[i][RowId] \in Int /\ rows[i][RowId] \in Int
  BY DEF RowsOk
<1>2. IdOrder(rows, n) = IdOrder(query.rows, n)
  BY DEF IdOrder
<1>3. /\ DOMAIN ById(rows) = 1..n
      /\ \A i \in 1..n : ById(rows)[i] = rows[Ranked(IdOrder(rows, n), n, i)]
  BY <1>1, ByIdRows
<1>4. \A i \in 1..n : ById(rows)[i] = rows[Spot(i)] /\ Spot(i) \in 1..n
  BY <1>1, <1>2, <1>3, Spots DEF Spot
<1>5. Len(ById(rows)) = n
  <2>1. ById(rows) = [i \in 1..n |-> ById(rows)[i]]
    BY <1>3 DEF ById
  <2> QED BY <1>1, <2>1
<1>6. \A i \in 1..n : DOMAIN ById(rows)[i] = RowNames
  BY <1>4
<1> DEFINE b == ById(rows)
<1> HIDE DEF b
<1>7. Len(b) = n /\ DOMAIN b = 1..n /\ \A i \in 1..n : DOMAIN b[i] = RowNames /\ b[i] = rows[Spot(i)]
  BY <1>3, <1>4, <1>5, <1>6 DEF b
<1>8. /\ DOMAIN Padded(b) = 1..PowerOfTwo(n)
      /\ \A i \in 1..n : i \in 1..PowerOfTwo(n) /\ Padded(b)[i] = b[i]
      /\ \A i \in 1..PowerOfTwo(n) : i > n => Padded(b)[i][Act] = 0
  BY <1>1, <1>7, PaddedRows
<1> QED BY <1>7, <1>8 DEF b

-----------------------------------------------------------------------------
(* One row of a group represents it.                                       *)

\* The rows of its keys up to a row: active rows first, then by id.
Ahead(row) ==
  {r \in Range(query.rows) :
    /\ Key(r) = Key(row)
    /\ r[Act] > row[Act] \/ (r[Act] = row[Act] /\ r[RowId] <= row[RowId])}

LEMMA RowsAreFinite ==
  ASSUME NEW n, RowsOk(n)
  PROVE  IsFiniteSet(Range(query.rows))
<1> DEFINE f == [i \in 1..n |-> query.rows[i]]
           T == Range(query.rows)
<1>1. DOMAIN query.rows = 1..n /\ n \in Nat
  BY DEF RowsOk
<1>2. f \in Surjection(1..n, T)
  <2>1. f \in [1..n -> T]
    BY <1>1 DEF Range
  <2>2. \A t \in T : \E i \in 1..n : f[i] = t
    BY <1>1 DEF Range
  <2> HIDE DEF f, T
  <2> QED BY <2>1, <2>2 DEF Surjection
<1>3. IsFiniteSet(1..n)
  BY <1>1, FS_Interval
<1> HIDE DEF f
<1> QED BY <1>2, <1>3, FS_Surjection

\* Rows with the same id are the same.
LEMMA SameRow ==
  ASSUME NEW n, RowsOk(n), NEW r \in Range(query.rows), NEW s \in Range(query.rows)
  PROVE  /\ r[Act] \in {0, 1} /\ r[RowId] \in Nat
         /\ r[RowId] = s[RowId] => r = s
<1>1. PICK i \in 1..n : r = query.rows[i]
  BY DEF Range, RowsOk
<1>2. PICK j \in 1..n : s = query.rows[j]
  BY DEF Range, RowsOk
<1> QED BY <1>1, <1>2 DEF RowsOk

\* The active row of a group that has the least id represents it.
LEMMA FirstRepresents ==
  ASSUME NEW n, RowsOk(n), NEW r \in ActiveRows
  PROVE  \E i \in 1..n : Represents(query.rows[i]) /\ Key(query.rows[i]) = Key(r)
<1> DEFINE ids == {s[RowId] : s \in Group(Key(r))}
<1>1. ids \in SUBSET Nat /\ ids # {}
  BY SameRow DEF Group, ActiveRows
<1>2. PICK m \in ids : \A l \in ids : m <= l
  <2> HIDE DEF ids
  <2> QED BY <1>1, Least
<1>3. PICK s \in Group(Key(r)) : s[RowId] = m
  OBVIOUS
<1>4. s \in Range(query.rows) /\ s[Act] = 1 /\ Key(s) = Key(r) /\ s[RowId] \in Nat
  BY <1>3, SameRow DEF Group, ActiveRows
<1>5. Ahead(s) = {s}
  <2>1. s \in Ahead(s)
    BY <1>4 DEF Ahead
  <2>2. ASSUME NEW t \in Ahead(s) PROVE t = s
    <3>1. t \in Range(query.rows) /\ Key(t) = Key(s)
          /\ (t[Act] > s[Act] \/ (t[Act] = s[Act] /\ t[RowId] <= s[RowId]))
      BY <2>2 DEF Ahead
    <3>2. t[Act] \in {0, 1} /\ t[RowId] \in Nat /\ (t[RowId] = s[RowId] => t = s)
      BY <1>4, <3>1, SameRow
    <3>3. t[Act] = 1 /\ t[RowId] <= m
      BY <1>3, <1>4, <3>1, <3>2
    <3>4. t \in Group(Key(r))
      BY <1>4, <3>1, <3>3 DEF Group, ActiveRows
    <3>5. m <= t[RowId]
      BY <1>2, <3>4
    <3> QED BY <1>3, <1>4, <3>2, <3>3, <3>5
  <2> QED BY <2>1, <2>2
<1>6. Represents(s)
  <2>1. RowNumber(s) = Cardinality({s})
    BY <1>5 DEF RowNumber, Ahead
  <2> QED BY <1>4, <2>1, FS_Singleton DEF Represents
<1>7. PICK i \in 1..n : s = query.rows[i]
  BY <1>4 DEF Range, RowsOk
<1> QED BY <1>4, <1>6, <1>7

\* And no other one does.
LEMMA OneRepresents ==
  ASSUME NEW n, RowsOk(n), NEW i \in 1..n, NEW j \in 1..n,
         Represents(query.rows[i]), Represents(query.rows[j]),
         Key(query.rows[i]) = Key(query.rows[j])
  PROVE  i = j
<1>1. ASSUME NEW r \in Range(query.rows), NEW s \in Range(query.rows),
             Represents(r), Represents(s), Key(r) = Key(s), r[RowId] <= s[RowId]
      PROVE  r = s
  <2>1. r[Act] = 1 /\ s[Act] = 1 /\ RowNumber(s) = 1
    BY <1>1 DEF Represents
  <2>2. r[RowId] \in Nat /\ s[RowId] \in Nat
    BY SameRow
  <2>3. r \in Ahead(s) /\ s \in Ahead(s)
    BY <1>1, <2>1, <2>2 DEF Ahead
  <2>4. IsFiniteSet(Ahead(s))
    <3>1. Ahead(s) \in SUBSET Range(query.rows)
      BY DEF Ahead
    <3> QED BY <3>1, RowsAreFinite, FS_Subset
  <2>5. Cardinality(Ahead(s)) = 1
    BY <2>1 DEF RowNumber, Ahead
  <2>6. \E x : Ahead(s) = {x}
    BY <2>4, <2>5, FS_Singleton
  <2> QED BY <2>3, <2>6
<1>2. query.rows[i] \in Range(query.rows) /\ query.rows[j] \in Range(query.rows)
  BY DEF Range, RowsOk
<1>3. query.rows[i][RowId] \in Nat /\ query.rows[j][RowId] \in Nat
  BY DEF RowsOk
<1>4. query.rows[i] = query.rows[j]
  <2>1. CASE query.rows[i][RowId] <= query.rows[j][RowId]
    BY <1>1, <1>2, <2>1
  <2>2. CASE query.rows[j][RowId] <= query.rows[i][RowId]
    BY <1>1, <1>2, <2>2
  <2> QED BY <1>3, <2>1, <2>2
<1> QED BY <1>4 DEF RowsOk

-----------------------------------------------------------------------------
(* The table both sides end with.                                          *)

\* The planner's functions and their number, of a query with n rows with ids.
Numbered(n, a) ==
  /\ RowsOk(n) /\ query \in Queries /\ query.numbered
  /\ a \in Nat /\ Len(aggs) = a /\ DOMAIN aggs = 1..a /\ Arg + a <= MaxCols

LEMMA OutputRowIs ==
  ASSUME NEW n, NEW a, Numbered(n, a), NEW row
  PROVE  /\ DOMAIN OutputRow(row) = RowNames
         /\ OutputRow(row)[RowId] = row[RowId]
         /\ OutputRow(row)[Act] = IF Represents(row) THEN 1 ELSE 0
         /\ \A j \in 1..a : OutputRow(row)[Arg + j] = JoinedBack(aggs[j], row)
<1>1. a \in Nat /\ Len(aggs) = a /\ DOMAIN aggs = 1..a /\ Arg + a <= MaxCols
  BY DEF Numbered
<1>2. Range(AggCols) = {Arg + j : j \in 1..a}
  BY <1>1, ColumnNames
<1>3. \A m \in -1..MaxCols : OutputRow(row)[m] =
        IF m \in Range(AggCols) THEN JoinedBack(aggs[m - Arg], row)
        ELSE IF m = Act THEN (IF Represents(row) THEN 1 ELSE 0) ELSE row[m]
  BY DEF OutputRow
<1>4. MaxCols \in Nat
  BY SortAssumption
<1>5. RowId \in -1..MaxCols /\ RowId \notin Range(AggCols) /\ RowId # Act
      /\ Act \in -1..MaxCols /\ Act \notin Range(AggCols)
  BY <1>2, <1>4 DEF RowId, Act, Arg
<1>6. \A j \in 1..a : Arg + j \in -1..MaxCols /\ Arg + j \in Range(AggCols) /\ (Arg + j) - Arg = j
  BY <1>1, <1>2, <1>4 DEF Arg
<1>7. DOMAIN OutputRow(row) = RowNames
  BY DEF OutputRow, RowNames
<1>8. \A j \in 1..a : OutputRow(row)[Arg + j] = JoinedBack(aggs[j], row)
  <2> TAKE j \in 1..a
  <2> QED BY <1>3, <1>6
<1> QED BY <1>3, <1>5, <1>7, <1>8

LEMMA FieldsHaveIds ==
  ASSUME NEW n, NEW a, Numbered(n, a)
  PROVE  /\ \E i \in DOMAIN OutputFields : OutputFields[i] = RowId
         /\ \E i \in DOMAIN Append(InputFields, Act) : Append(InputFields, Act)[i] = RowId
<1>1. InputFields \in Seq(Int) /\ Len(InputFields) = 4 /\ InputFields[4] = RowId
  <2>1. InputFields = <<1, 2, Arg>> \o <<RowId>>
    BY DEF InputFields, Numbered
  <2>2. <<1, 2, Arg>> \in Seq(Int) /\ <<RowId>> \in Seq(Int)
        /\ Len(<<1, 2, Arg>>) = 3 /\ Len(<<RowId>>) = 1 /\ <<RowId>>[1] = RowId
    BY DEF Arg, RowId
  <2> DEFINE x == <<1, 2, Arg>>
             y == <<RowId>>
  <2>3. x \in Seq(Int) /\ y \in Seq(Int) /\ Len(x) = 3 /\ Len(y) = 1 /\ y[1] = RowId
        /\ InputFields = x \o y
    BY <2>1, <2>2
  <2> HIDE DEF x, y
  <2>4. x \o y \in Seq(Int) /\ ConsistsOf(x \o y, x, Len(x), y, Len(y))
    BY <2>3, Joined
  <2> QED BY <2>3, <2>4 DEF ConsistsOf
<1>2. AggCols \in Seq(Int) /\ Len(AggCols) = a /\ a \in Nat
  <2>1. AggCols = ColumnsOf(a) /\ a \in Nat
    BY ColumnNames DEF Numbered
  <2>2. ColumnsOf(a) \in [1..a -> Int]
    BY <2>1 DEF ColumnsOf, Arg
  <2> QED BY <2>1, <2>2, ListOf
<1> DEFINE u == InputFields \o AggCols
<1>3. u \in Seq(Int) /\ Len(u) = 4 + a /\ u[4] = RowId
  <2>1. u \in Seq(Int) /\ ConsistsOf(u, InputFields, Len(InputFields), AggCols, Len(AggCols))
    BY <1>1, <1>2, Joined
  <2> HIDE DEF u
  <2> QED BY <1>1, <1>2, <2>1 DEF ConsistsOf
<1> HIDE DEF u
<1>4. \E i \in DOMAIN OutputFields : OutputFields[i] = RowId
  <2> DEFINE y == <<Act>>
             w == u \o y
  <2>1. y \in Seq(Int) /\ Len(y) = 1
    BY DEF Act
  <2> HIDE DEF y
  <2>2. w \in Seq(Int) /\ ConsistsOf(w, u, Len(u), y, Len(y))
    BY <1>3, <2>1, Joined
  <2>3. OutputFields = w
    BY DEF OutputFields, u, w, y
  <2> HIDE DEF w
  <2>4. 4 \in DOMAIN w /\ w[4] = RowId
    BY <1>2, <1>3, <2>1, <2>2 DEF ConsistsOf
  <2> QED BY <2>3, <2>4
<1>5. \E i \in DOMAIN Append(InputFields, Act) : Append(InputFields, Act)[i] = RowId
  <2> DEFINE w == Append(InputFields, Act)
             y == <<Act>>
  <2>1. w = InputFields \o y /\ y \in Seq(Int) /\ Len(y) = 1
    BY <1>1 DEF Act
  <2> HIDE DEF w, y
  <2>2. w \in Seq(Int) /\ ConsistsOf(w, InputFields, Len(InputFields), y, Len(y))
    BY <1>1, <2>1, Joined
  <2>3. 4 \in DOMAIN w /\ w[4] = RowId
    BY <1>1, <2>1, <2>2 DEF ConsistsOf
  <2> QED BY <2>3 DEF w
<1> QED BY <1>4, <1>5

\* The columns of a frame of rows with the input's ids.
LEMMA FrameColumns ==
  ASSUME NEW n, RowsOk(n), NEW f, \E i \in DOMAIN f.fields : f.fields[i] = RowId,
         Len(f.rows) = n, DOMAIN f.rows = 1..n,
         \A i \in 1..n : DOMAIN f.rows[i] = RowNames /\ f.rows[i][RowId] = query.rows[i][RowId]
  PROVE  /\ DOMAIN EncodedColumns(f) = f.mat
         /\ \A m \in f.mat :
              /\ DOMAIN EncodedColumns(f)[m] = 1..PowerOfTwo(n)
              /\ \A i \in 1..n : EncodedColumns(f)[m][i] = Enc(f.rows[Spot(i)][m])
         /\ Act \in f.mat => \A i \in 1..PowerOfTwo(n) :
                               i > n => EncodedColumns(f)[Act][i] = Enc(0)
<1> DEFINE rows == Padded(ById(f.rows))
<1>1. InOrder(f) = rows
  BY DEF InOrder, Names
<1>2. /\ DOMAIN rows = 1..PowerOfTwo(n)
      /\ \A i \in 1..n : i \in 1..PowerOfTwo(n) /\ rows[i] = f.rows[Spot(i)]
      /\ \A i \in 1..PowerOfTwo(n) : i > n => rows[i][Act] = 0
  BY CommittedRows
<1>3. EncodedColumns(f) = [m \in f.mat |-> [i \in DOMAIN rows |-> Enc(rows[i][m])]]
  BY <1>1 DEF EncodedColumns
<1> HIDE DEF rows
<1>4. \A m \in f.mat : /\ DOMAIN EncodedColumns(f)[m] = 1..PowerOfTwo(n)
                       /\ \A i \in 1..PowerOfTwo(n) : EncodedColumns(f)[m][i] = Enc(rows[i][m])
  BY <1>2, <1>3
<1>5. \A m \in f.mat : \A i \in 1..n : EncodedColumns(f)[m][i] = Enc(f.rows[Spot(i)][m])
  BY <1>2, <1>4
<1>6. Act \in f.mat => \A i \in 1..PowerOfTwo(n) : i > n => EncodedColumns(f)[Act][i] = Enc(0)
  BY <1>2, <1>4
<1> QED BY <1>3, <1>4, <1>5, <1>6

\* The columns of the keys.
LEMMA KeysAre ==
  ASSUME query \in Queries
  PROVE  \A j \in DOMAIN query.keys : query.keys[j] \in {1, 2}
<1>1. query.keys \in {<<>>, <<1>>, <<1, 2>>}
  BY QueryAssumption
<1>2. CASE query.keys = <<>>
  BY <1>2
<1>3. CASE query.keys = <<1>>
  BY <1>3
<1>4. CASE query.keys = <<1, 2>>
  BY <1>4
<1> QED BY <1>1, <1>2, <1>3, <1>4

\* The output has a row for each of the input.
LEMMA OutputIs ==
  ASSUME NEW n, NEW a, Numbered(n, a), Planned
  PROVE  /\ output.fields = OutputFields /\ output.mat = Range(AggCols) \cup {Act}
         /\ \E i \in DOMAIN output.fields : output.fields[i] = RowId
         /\ Len(output.rows) = n /\ DOMAIN output.rows = 1..n
         /\ \A i \in 1..n : output.rows[i] = OutputRow(query.rows[i])
<1>1. output.fields = OutputFields /\ output.mat = Range(AggCols) \cup {Act}
      /\ output.rows = OutputRows
  BY DEF Planned, Numbered
<1>2. \E i \in DOMAIN output.fields : output.fields[i] = RowId
  BY <1>1, FieldsHaveIds
<1>3. n \in Nat /\ OutputRows = [i \in 1..n |-> OutputRow(query.rows[i])]
  BY DEF Numbered, RowsOk, OutputRows
<1> QED BY <1>1, <1>2, <1>3

\* The columns of the table, of the i-th row of the input by id.
LEMMA TableColumns ==
  ASSUME NEW n, NEW a, Numbered(n, a), Planned, NEW c, c.output = EncodedColumns(output)
  PROVE  /\ \A j \in DOMAIN query.keys : \A i \in 1..n :
              Merged(c)[query.keys[j]][i] = Enc(Key(query.rows[Spot(i)])[j])
         /\ \A j \in 1..a : \A i \in 1..n :
              Merged(c)[Arg + j][i] = Enc(JoinedBack(aggs[j], query.rows[Spot(i)]))
         /\ DOMAIN Merged(c)[Act] = 1..PowerOfTwo(n)
         /\ \A i \in 1..PowerOfTwo(n) :
              /\ Merged(c)[Act][i] \in {0, 1}
              /\ Merged(c)[Act][i] = 1 <=> i \in 1..n /\ Represents(query.rows[Spot(i)])
<1> DEFINE f == Frame(Append(InputFields, Act), query.rows, {1, 2, Arg, Act})
<1>1. RowsOk(n) /\ a \in Nat /\ Len(aggs) = a /\ DOMAIN aggs = 1..a /\ query \in Queries
      /\ n \in Nat
  BY DEF Numbered, RowsOk
<1>2. f.fields = Append(InputFields, Act) /\ f.rows = query.rows /\ f.mat = {1, 2, Arg, Act}
  BY DEF Frame
<1>3. Input = EncodedColumns(f)
  BY DEF Input
<1> HIDE DEF f
<1>4. \A m \in {1, 2} : \A i \in 1..n : Input[m][i] = Enc(query.rows[Spot(i)][m])
  <2>1. \E i \in DOMAIN f.fields : f.fields[i] = RowId
    BY <1>2, FieldsHaveIds
  <2>2. Len(f.rows) = n /\ DOMAIN f.rows = 1..n
        /\ \A i \in 1..n : DOMAIN f.rows[i] = RowNames /\ f.rows[i][RowId] = query.rows[i][RowId]
    BY <1>1, <1>2 DEF RowsOk
  <2>3. \A m \in f.mat : \A i \in 1..n : EncodedColumns(f)[m][i] = Enc(f.rows[Spot(i)][m])
    BY <1>1, <2>1, <2>2, FrameColumns
  <2> QED BY <1>2, <1>3, <2>3
<1>5. /\ output.fields = OutputFields /\ output.mat = Range(AggCols) \cup {Act}
      /\ \E i \in DOMAIN output.fields : output.fields[i] = RowId
      /\ Len(output.rows) = n /\ DOMAIN output.rows = 1..n
      /\ \A i \in 1..n : output.rows[i] = OutputRow(query.rows[i])
  BY OutputIs
<1>6. \A i \in 1..n : Spot(i) \in 1..n
  BY <1>1, Spots
<1>7. Len(output.rows) = n /\ DOMAIN output.rows = 1..n
      /\ \A i \in 1..n : output.rows[i] = OutputRow(query.rows[i])
  BY <1>5
<1>8. /\ DOMAIN EncodedColumns(output) = output.mat
      /\ \A m \in output.mat :
           /\ DOMAIN EncodedColumns(output)[m] = 1..PowerOfTwo(n)
           /\ \A i \in 1..n : EncodedColumns(output)[m][i] = Enc(output.rows[Spot(i)][m])
      /\ \A i \in 1..PowerOfTwo(n) : i > n => EncodedColumns(output)[Act][i] = Enc(0)
  <2>1. \E i \in DOMAIN output.fields : output.fields[i] = RowId
    BY <1>5
  <2>2. \A i \in 1..n : DOMAIN output.rows[i] = RowNames /\ output.rows[i][RowId] = query.rows[i][RowId]
    BY <1>7, OutputRowIs
  <2>3. Act \in output.mat
    BY <1>5
  <2> QED BY <1>1, <1>7, <2>1, <2>2, <2>3, FrameColumns
<1>9. Range(AggCols) = {Arg + j : j \in 1..a}
  BY <1>1, ColumnNames
<1>10. \A j \in DOMAIN query.keys : query.keys[j] \in {1, 2}
  BY <1>1, KeysAre
<1>11. \A m \in Range(query.keys) : Merged(c)[m] = Input[m]
  BY DEF Merged
<1>12. \A m \in output.mat : m \notin Range(query.keys) => Merged(c)[m] = EncodedColumns(output)[m]
  BY <1>8 DEF Merged
<1>13. Act \in output.mat /\ Act \notin Range(query.keys)
  BY <1>5, <1>10 DEF Range, Act
<1>14. \A j \in 1..a : Arg + j \in output.mat /\ Arg + j \notin Range(query.keys)
  <2> TAKE j \in 1..a
  <2>1. Arg + j \in Range(AggCols)
    BY <1>9
  <2>2. Arg + j \notin {1, 2}
    BY <1>1 DEF Arg
  <2> QED BY <1>5, <1>10, <2>1, <2>2 DEF Range
<1>15. ASSUME NEW j \in DOMAIN query.keys, NEW i \in 1..n
       PROVE  Merged(c)[query.keys[j]][i] = Enc(Key(query.rows[Spot(i)])[j])
  <2>1. query.keys[j] \in Range(query.keys)
    BY DEF Range
  <2>2. Merged(c)[query.keys[j]][i] = Enc(query.rows[Spot(i)][query.keys[j]])
    BY <1>4, <1>10, <1>11, <2>1
  <2> QED BY <2>2 DEF Key
<1>16. ASSUME NEW j \in 1..a, NEW i \in 1..n
       PROVE  Merged(c)[Arg + j][i] = Enc(JoinedBack(aggs[j], query.rows[Spot(i)]))
  <2>1. Merged(c)[Arg + j][i] = Enc(OutputRow(query.rows[Spot(i)])[Arg + j])
    BY <1>6, <1>7, <1>8, <1>12, <1>14
  <2> QED BY <2>1, OutputRowIs
<1>17. DOMAIN Merged(c)[Act] = 1..PowerOfTwo(n)
  BY <1>8, <1>12, <1>13
<1>18. ASSUME NEW i \in 1..PowerOfTwo(n)
       PROVE  /\ Merged(c)[Act][i] \in {0, 1}
              /\ Merged(c)[Act][i] = 1 <=> i \in 1..n /\ Represents(query.rows[Spot(i)])
  <2>1. Enc(0) = 0 /\ Enc(1) = 1
    <3>1. FieldSize \in Nat /\ FieldSize > 1 /\ Null \notin Int
      <4>1. Over({})!Long \in Nat /\ Over({})!Long > 0
        BY SortAssumption DEF Over!Long, Over!Word, Over!Chunk
      <4> QED BY <4>1, SortAssumption
    <3> QED BY <3>1 DEF Enc
  <2>2. CASE i \in 1..n
    <3>1. Merged(c)[Act][i] = Enc(OutputRow(query.rows[Spot(i)])[Act])
      BY <1>6, <1>7, <1>8, <1>12, <1>13, <2>2
    <3>2. OutputRow(query.rows[Spot(i)])[Act] = IF Represents(query.rows[Spot(i)]) THEN 1 ELSE 0
      BY OutputRowIs
    <3> QED BY <2>1, <2>2, <3>1, <3>2
  <2>3. CASE i \notin 1..n
    <3>1. i > n
      BY <1>1, <2>3
    <3>2. Merged(c)[Act][i] = Enc(0)
      BY <1>8, <1>12, <1>13, <3>1
    <3> QED BY <2>1, <2>3, <3>2
  <2> QED BY <2>2, <2>3
<1> QED BY <1>15, <1>16, <1>17, <1>18

\* What the table holds of a group: the codes of its keys and of its aggregates.
KeyCodes(k) == [j \in DOMAIN k |-> Enc(k[j])]
AggCodes(k) == [j \in DOMAIN aggs |-> Enc(Aggregate(aggs[j], Group(k)))]
\* The table through its keys and aggregates, and that of some columns of it.
Seen(c) == View(Merged(c), query.keys \o AggCols, Merged(c)[Act])

LEMMA SeenRows ==
  ASSUME NEW n, NEW a, Numbered(n, a), Planned, NoNullKeys,
         NEW c, c.output = EncodedColumns(output)
  PROVE  /\ DOMAIN Seen(c) = 1..PowerOfTwo(n)
         /\ \A i \in 1..PowerOfTwo(n) :
              Seen(c)[i].on <=> i \in 1..n /\ Represents(query.rows[Spot(i)])
         /\ \A i \in 1..n : \A j \in DOMAIN query.keys :
              Seen(c)[i].v[j] = Enc(Key(query.rows[Spot(i)])[j])
         /\ \A i \in 1..n : Represents(query.rows[Spot(i)]) =>
              Seen(c)[i].v = KeyCodes(Key(query.rows[Spot(i)]))
                               \o AggCodes(Key(query.rows[Spot(i)]))
<1> DEFINE cols == query.keys \o AggCols
           T == Merged(c)
           p == PowerOfTwo(n)
           l == Len(query.keys)
<1>1. RowsOk(n) /\ n \in Nat /\ a \in Nat /\ Len(aggs) = a /\ DOMAIN aggs = 1..a /\ query \in Queries
  BY DEF Numbered, RowsOk
<1>2. query.keys \in Seq(Int) /\ l \in Nat /\ DOMAIN query.keys = 1..l
  <2>1. query.keys \in {<<>>, <<1>>, <<1, 2>>}
    BY <1>1, QueryAssumption
  <2>2. CASE query.keys = <<>>
    BY <2>2, EmptySeq
  <2>3. CASE query.keys = <<1>>
    BY <2>3
  <2>4. CASE query.keys = <<1, 2>>
    BY <2>4
  <2> QED BY <2>1, <2>2, <2>3, <2>4
<1> HIDE DEF l
<1>3. AggCols \in Seq(Int) /\ Len(AggCols) = a /\ \A j \in 1..a : AggCols[j] = Arg + j
  <2>1. AggCols = ColumnsOf(a)
    BY <1>1, ColumnNames
  <2>2. ColumnsOf(a) \in [1..a -> Int]
    BY <1>1 DEF ColumnsOf, Arg
  <2>3. \A j \in 1..a : ColumnsOf(a)[j] = Arg + j
    BY DEF ColumnsOf
  <2> QED BY <1>1, <2>1, <2>2, <2>3, ListOf
<1>4. cols \in Seq(Int) /\ ConsistsOf(cols, query.keys, l, AggCols, a)
  <2>1. l = Len(query.keys)
    BY DEF l
  <2> QED BY <1>2, <1>3, <2>1, Joined
<1> HIDE DEF cols
<1>5. DOMAIN cols = 1..(l + a) /\ (\A j \in 1..l : cols[j] = query.keys[j])
      /\ \A j \in 1..a : cols[l + j] = Arg + j
  <2>1. /\ cols \in Seq(Int) /\ l \in Nat /\ Len(cols) = l + a
        /\ \A j \in 1..l : cols[j] = query.keys[j]
        /\ \A j \in 1..a : cols[l + j] = AggCols[j]
    BY <1>4, Zenon DEF ConsistsOf
  <2>2. \A j \in 1..a : cols[l + j] = Arg + j
    BY <1>3, <2>1, Zenon
  <2>3. DOMAIN cols = 1..(l + a)
    BY <1>1, <2>1
  <2> QED BY <2>1, <2>2, <2>3, Zenon
<1>6. /\ \A j \in DOMAIN query.keys : \A i \in 1..n :
           T[query.keys[j]][i] = Enc(Key(query.rows[Spot(i)])[j])
      /\ \A j \in 1..a : \A i \in 1..n :
           T[Arg + j][i] = Enc(JoinedBack(aggs[j], query.rows[Spot(i)]))
      /\ DOMAIN T[Act] = 1..p
      /\ \A i \in 1..p : T[Act][i] = 1 <=> i \in 1..n /\ Represents(query.rows[Spot(i)])
  BY TableColumns
<1> HIDE DEF T
<1>7. Seen(c) = [i \in DOMAIN T[Act] |->
                  [v |-> [j \in DOMAIN cols |-> T[cols[j]][i]], on |-> T[Act][i] = 1]]
  BY DEF Seen, View, T, cols
<1>8. p \in Nat /\ n <= p
  BY <1>1, PaddedSize
<1> HIDE DEF p
<1>9. \A i \in 1..p : /\ Seen(c)[i].v = [j \in DOMAIN cols |-> T[cols[j]][i]]
                      /\ Seen(c)[i].on = (T[Act][i] = 1)
  BY <1>6, <1>7
<1>10. ASSUME NEW i \in 1..n
       PROVE  /\ DOMAIN Seen(c)[i].v = 1..(l + a)
              /\ \A j \in 1..(l + a) : Seen(c)[i].v[j] = T[cols[j]][i]
              /\ Seen(c)[i].v = [j \in 1..(l + a) |-> Seen(c)[i].v[j]]
  <2>1. i \in 1..p
    BY <1>1, <1>8
  <2>2. Seen(c)[i].v = [j \in 1..(l + a) |-> T[cols[j]][i]]
    BY <1>5, <1>9, <2>1
  <2> QED BY <2>2
<1>11. ASSUME NEW i \in 1..n, NEW j \in DOMAIN query.keys
       PROVE  Seen(c)[i].v[j] = Enc(Key(query.rows[Spot(i)])[j])
  <2>1. j \in 1..(l + a) /\ j \in 1..l
    BY <1>1, <1>2
  <2>2. Seen(c)[i].v[j] = T[cols[j]][i] /\ cols[j] = query.keys[j]
    BY <1>5, <1>10, <2>1
  <2>3. T[query.keys[j]][i] = Enc(Key(query.rows[Spot(i)])[j])
    BY <1>6
  <2> QED BY <2>2, <2>3
<1>12. ASSUME NEW i \in 1..n, Represents(query.rows[Spot(i)])
       PROVE  Seen(c)[i].v = KeyCodes(Key(query.rows[Spot(i)])) \o AggCodes(Key(query.rows[Spot(i)]))
  <2> DEFINE r == query.rows[Spot(i)]
             x == KeyCodes(Key(r))
             y == AggCodes(Key(r))
             S == {x[j] : j \in 1..l} \cup {y[j] : j \in 1..a}
  <2>1. x = [j \in 1..l |-> Enc(Key(r)[j])]
    BY <1>2 DEF KeyCodes, Key
  <2>2. y = [j \in 1..a |-> Enc(Aggregate(aggs[j], Group(Key(r))))]
    BY <1>1 DEF AggCodes
  <2>3. \A j \in 1..a : JoinedBack(aggs[j], r) = Aggregate(aggs[j], Group(Key(r)))
    <3>1. Spot(i) \in 1..n
      BY <1>1, Spots
    <3>2. r \in Range(query.rows)
      BY <1>1, <3>1 DEF RowsOk, Range
    <3>3. r \in ActiveRows /\ r \in Group(Key(r))
      BY <1>12, <3>2 DEF Represents, ActiveRows, Group
    <3>4. Null \notin Range(Key(r))
      BY <3>3 DEF NoNullKeys
    <3> QED BY <3>3, <3>4 DEF JoinedBack
  <2>4. \A j \in 1..a : Seen(c)[i].v[l + j] = y[j]
    <3> TAKE j \in 1..a
    <3>1. l + j \in 1..(l + a)
      BY <1>1, <1>2
    <3>2. Seen(c)[i].v[l + j] = T[cols[l + j]][i] /\ cols[l + j] = Arg + j
      BY <1>5, <1>10, <3>1
    <3>3. T[Arg + j][i] = Enc(JoinedBack(aggs[j], r))
      BY <1>6
    <3>4. y[j] = Enc(JoinedBack(aggs[j], r))
      BY <2>2, <2>3
    <3> QED BY <3>2, <3>3, <3>4
  <2>5. \A j \in 1..l : Seen(c)[i].v[j] = x[j]
    BY <1>2, <1>11, <2>1
  <2> HIDE DEF x, y
  <2>6. x \in [1..l -> S] /\ y \in [1..a -> S]
    BY <2>1, <2>2
  <2> HIDE DEF S
  <2>7. x \in Seq(S) /\ y \in Seq(S) /\ Len(x) = l /\ Len(y) = a
    BY <1>1, <1>2, <2>6, ListOf
  <2>8. x \o y \in Seq(S) /\ ConsistsOf(x \o y, x, Len(x), y, Len(y))
    BY <2>7, Joined
  <2> DEFINE z == x \o y
             w == Seen(c)[i].v
  <2>9. z = [j \in 1..(l + a) |-> z[j]] /\ (\A j \in 1..l : z[j] = x[j])
        /\ \A j \in 1..a : z[l + j] = y[j]
    <3>1. z \in Seq(S) /\ ConsistsOf(z, x, Len(x), y, Len(y))
      BY <2>8
    <3> HIDE DEF z
    <3> QED BY <2>7, <3>1 DEF ConsistsOf
  <2>10. w = [j \in 1..(l + a) |-> w[j]]
    BY <1>10
  <2> HIDE DEF z, w
  <2>11. \A j \in 1..(l + a) : w[j] = z[j]
    <3> TAKE j \in 1..(l + a)
    <3>1. CASE j \in 1..l
      BY <2>5, <2>9, <3>1 DEF w
    <3>2. CASE j \notin 1..l
      <4>1. j - l \in 1..a /\ l + (j - l) = j
        BY <1>1, <1>2, <3>2
      <4>2. w[l + (j - l)] = z[l + (j - l)]
        BY <2>4, <2>9, <4>1 DEF w
      <4> QED BY <4>1, <4>2
    <3> QED BY <3>1, <3>2
  <2>12. w = z
    BY <2>9, <2>10, <2>11
  <2> QED BY <2>12 DEF w, z, x, y
<1>13. DOMAIN Seen(c) = 1..p
  BY <1>6, <1>7
<1>14. \A i \in 1..p : Seen(c)[i].on <=> i \in 1..n /\ Represents(query.rows[Spot(i)])
  BY <1>6, <1>9
<1> QED BY <1>11, <1>12, <1>13, <1>14 DEF p

\* No two integers of a query have the same code.
LEMMA CodesDiffer ==
  ASSUME NEW v \in Int, NEW w \in Int, Fits(v), Fits(w), Enc(v) = Enc(w)
  PROVE  v = w
<1> DEFINE long == Over({})!Long
<1>1. long \in Nat
  BY SortAssumption DEF Over!Long, Over!Word, Over!Chunk
<1>2. v # Null /\ w # Null
  BY SortAssumption
<1>3. -long <= v /\ v < long /\ -long <= w /\ w < long
  BY <1>2 DEF Fits
<1>4. v % FieldSize = w % FieldSize
  BY <1>2 DEF Enc
<1>5. FieldSize \in Nat /\ FieldSize > 4 * long
  BY SortAssumption
<1> HIDE DEF long
<1>6. \A u \in (-long)..long : u % FieldSize = IF u >= 0 THEN u ELSE u + FieldSize
  BY <1>1, <1>5
<1>7. v \in (-long)..long /\ w \in (-long)..long
  BY <1>1, <1>3
<1> QED BY <1>1, <1>3, <1>4, <1>5, <1>6, <1>7

\* The i-th row of the input by id.
RowAt(i) == query.rows[Spot(i)]

LEMMA RowsAt ==
  ASSUME NEW n, RowsOk(n)
  PROVE  /\ \A i \in 1..n : RowAt(i) \in Range(query.rows) /\ RowAt(i)[Act] \in {0, 1}
                            /\ (RowAt(i)[Act] = 1 <=> RowAt(i) \in ActiveRows)
                            /\ \A c \in 1..Arg : RowAt(i)[c] \in Int \cup {Null} /\ Fits(RowAt(i)[c])
         /\ \A i, j \in 1..n : RowAt(i) = RowAt(j) => i = j
         /\ \A r \in Range(query.rows) : \E i \in 1..n : RowAt(i) = r
<1>1. /\ \A i \in 1..n : Spot(i) \in 1..n
      /\ \A m \in 1..n : \E i \in 1..n : Spot(i) = m
      /\ \A i, j \in 1..n : Spot(i) = Spot(j) => i = j
  BY Spots
<1>2. \A i \in 1..n : RowAt(i) \in Range(query.rows) /\ RowAt(i)[Act] \in {0, 1}
                      /\ \A c \in 1..Arg : RowAt(i)[c] \in Int \cup {Null} /\ Fits(RowAt(i)[c])
  BY <1>1 DEF RowAt, RowsOk, Range
<1>3. \A i \in 1..n : RowAt(i)[Act] = 1 <=> RowAt(i) \in ActiveRows
  BY <1>2 DEF ActiveRows
<1>4. ASSUME NEW i \in 1..n, NEW j \in 1..n, RowAt(i) = RowAt(j) PROVE i = j
  <2>1. Spot(i) \in 1..n /\ Spot(j) \in 1..n /\ query.rows[Spot(i)][RowId] = query.rows[Spot(j)][RowId]
    BY <1>1, <1>4 DEF RowAt
  <2>2. Spot(i) = Spot(j)
    BY <2>1 DEF RowsOk
  <2> QED BY <1>1, <2>2
<1>5. ASSUME NEW r \in Range(query.rows) PROVE \E i \in 1..n : RowAt(i) = r
  <2>1. PICK m \in 1..n : query.rows[m] = r
    BY DEF Range, RowsOk
  <2>2. PICK i \in 1..n : Spot(i) = m
    BY <1>1
  <2> QED BY <2>1, <2>2 DEF RowAt
<1> QED BY <1>2, <1>3, <1>4, <1>5

\* The codes of keys that are not NULL tell them apart.
LEMMA KeysTell ==
  ASSUME NEW n, NEW a, Numbered(n, a), NoNullKeys, NEW i \in 1..n, NEW j \in 1..n,
         RowAt(i) \in ActiveRows, RowAt(j) \in ActiveRows,
         KeyCodes(Key(RowAt(i))) = KeyCodes(Key(RowAt(j)))
  PROVE  Key(RowAt(i)) = Key(RowAt(j))
<1>1. ASSUME NEW k \in DOMAIN query.keys PROVE RowAt(i)[query.keys[k]] = RowAt(j)[query.keys[k]]
  <2> DEFINE v == RowAt(i)[query.keys[k]]
             w == RowAt(j)[query.keys[k]]
  <2>1. Key(RowAt(i))[k] = v /\ Key(RowAt(j))[k] = w
        /\ k \in DOMAIN Key(RowAt(i)) /\ k \in DOMAIN Key(RowAt(j))
    BY DEF Key
  <2>2. Enc(v) = Enc(w)
    <3>1. KeyCodes(Key(RowAt(i)))[k] = Enc(v) /\ KeyCodes(Key(RowAt(j)))[k] = Enc(w)
      <4> HIDE DEF v, w
      <4> QED BY <2>1 DEF KeyCodes
    <3> QED BY <3>1
  <2>3. query.keys[k] \in 1..Arg
    <3>1. query.keys[k] \in {1, 2}
      BY KeysAre DEF Numbered
    <3> QED BY <3>1 DEF Arg
  <2>4. v \in Int \cup {Null} /\ Fits(v) /\ w \in Int \cup {Null} /\ Fits(w)
    BY <2>3, RowsAt DEF Numbered
  <2>5. v # Null /\ w # Null
    BY <2>1 DEF NoNullKeys, Range
  <2>6. v \in Int /\ w \in Int
    BY <2>4, <2>5
  <2> HIDE DEF v, w
  <2>7. v = w
    BY <2>2, <2>4, <2>6, CodesDiffer
  <2> QED BY <2>7 DEF v, w
<1> QED BY <1>1 DEF Key

LEMMA GroupsHold ==
  ASSUME NEW n, NEW a, Numbered(n, a), Planned, NoNullKeys,
         NEW c, c.output = EncodedColumns(output)
  PROVE  /\ {Seen(c)[i].v : i \in {j \in DOMAIN Seen(c) : Seen(c)[j].on}} = Grouped
         /\ \A i, j \in DOMAIN Seen(c) :
              Seen(c)[i].on /\ Seen(c)[j].on
              /\ (\A k \in DOMAIN query.keys : Seen(c)[i].v[k] = Seen(c)[j].v[k]) => i = j
<1> DEFINE row(i) == query.rows[Spot(i)]
           codes(k) == KeyCodes(k) \o AggCodes(k)
<1>1. RowsOk(n) /\ n \in Nat /\ DOMAIN query.rows = 1..n
  BY DEF Numbered, RowsOk
<1>2. /\ \A i \in 1..n : Spot(i) \in 1..n
      /\ \A m \in 1..n : \E i \in 1..n : Spot(i) = m
      /\ \A i, j \in 1..n : Spot(i) = Spot(j) => i = j
  BY <1>1, Spots
<1>3. /\ DOMAIN Seen(c) = 1..PowerOfTwo(n)
      /\ \A i \in 1..PowerOfTwo(n) : Seen(c)[i].on <=> i \in 1..n /\ Represents(row(i))
      /\ \A i \in 1..n : \A k \in DOMAIN query.keys : Seen(c)[i].v[k] = Enc(Key(row(i))[k])
      /\ \A i \in 1..n : Represents(row(i)) => Seen(c)[i].v = codes(Key(row(i)))
  BY SeenRows
<1>4. Grouped = {codes(Key(r)) : r \in ActiveRows}
  BY DEF Grouped, KeyCodes, AggCodes
<1> HIDE DEF codes
<1>5. \A i \in 1..n : row(i) \in Range(query.rows) /\ (Represents(row(i)) => row(i) \in ActiveRows)
  BY <1>1, <1>2 DEF Range, Represents, ActiveRows
<1>6. \A i \in 1..n : i \in 1..PowerOfTwo(n)
  <2>1. PowerOfTwo(n) \in Nat /\ n <= PowerOfTwo(n)
    BY <1>1, PaddedSize
  <2> QED BY <1>1, <2>1
<1>7. ASSUME NEW r \in ActiveRows
      PROVE  \E i \in DOMAIN Seen(c) : Seen(c)[i].on /\ Seen(c)[i].v = codes(Key(r))
  <2>1. PICK m \in 1..n : Represents(query.rows[m]) /\ Key(query.rows[m]) = Key(r)
    BY <1>1, FirstRepresents
  <2>2. PICK i \in 1..n : Spot(i) = m
    BY <1>2
  <2> QED BY <1>3, <1>6, <2>1, <2>2
<1>8. ASSUME NEW i \in DOMAIN Seen(c), Seen(c)[i].on
      PROVE  i \in 1..n /\ Represents(row(i)) /\ row(i) \in ActiveRows
             /\ Seen(c)[i].v = codes(Key(row(i)))
  BY <1>3, <1>5, <1>8
<1>9. ASSUME NEW i \in DOMAIN Seen(c), NEW j \in DOMAIN Seen(c), Seen(c)[i].on, Seen(c)[j].on,
             \A k \in DOMAIN query.keys : Seen(c)[i].v[k] = Seen(c)[j].v[k]
      PROVE  i = j
  <2>1. i \in 1..n /\ Represents(row(i)) /\ row(i) \in ActiveRows
        /\ j \in 1..n /\ Represents(row(j)) /\ row(j) \in ActiveRows
    BY <1>8, <1>9
  <2>2. KeyCodes(Key(row(i))) = KeyCodes(Key(row(j)))
    <3>1. \A k \in DOMAIN query.keys : Enc(Key(row(i))[k]) = Enc(Key(row(j))[k])
      BY <1>3, <1>9, <2>1
    <3> QED BY <3>1 DEF KeyCodes, Key
  <2>3. Key(row(i)) = Key(row(j))
    <3>1. row(i) = RowAt(i) /\ row(j) = RowAt(j)
      BY DEF RowAt
    <3> QED BY <2>1, <2>2, <3>1, KeysTell
  <2>4. Spot(i) = Spot(j)
    BY <1>1, <1>2, <2>1, <2>3, OneRepresents
  <2> QED BY <1>2, <2>1, <2>4
<1> DEFINE on == {i \in DOMAIN Seen(c) : Seen(c)[i].on}
<1>10. {Seen(c)[i].v : i \in on} = Grouped
  <2>1. ASSUME NEW i \in on PROVE Seen(c)[i].v \in Grouped
    BY <1>4, <1>8
  <2>2. ASSUME NEW g \in Grouped PROVE g \in {Seen(c)[i].v : i \in on}
    <3>1. PICK r \in ActiveRows : g = codes(Key(r))
      BY <1>4
    <3> QED BY <1>7, <3>1
  <2> HIDE DEF on
  <2> QED BY <2>1, <2>2
<1> QED BY <1>9, <1>10

\* The table the verifier ends with is the result of GROUP BY: one active row of
\* each group and none besides, with the group's aggregates, when no key is NULL;
\* for any number of rows, functions and columns of keys.
THEOREM OneRowPerGroup == Spec => []ResultIsGroupBy
<1>1. AggregateInv => ResultIsGroupBy
  <2> SUFFICES ASSUME AggregateInv, vpc = "done", query.numbered, NoNullKeys
               PROVE  ResultIsGroupBy
    BY DEF ResultIsGroupBy
  <2>1. pc = "sent" /\ vtabs = tabs
    BY DEF AggregateInv, VerifierPart
  <2>2. query \in Queries /\ aggs = AddAvgSupport(query.aggs) /\ Planned
    BY <2>1 DEF AggregateInv, PlanPart
  <2>3. vtabs.output = EncodedColumns(output)
    BY <2>1 DEF AggregateInv, TablePart
  <2> DEFINE n == Len(query.rows)
             a == Len(aggs)
  <2>4. Numbered(n, a)
    <3>1. query.aggs \in Seq(Funs) /\ MaxCols >= Arg + 3 * Len(query.aggs)
      BY <2>2, QueryAssumption
    <3>2. aggs \in Seq(Funs) /\ Len(aggs) <= 3 * Len(query.aggs)
      BY <2>2, <3>1, SupportList DEF Funs
    <3>3. a \in Nat /\ DOMAIN aggs = 1..a /\ Len(query.aggs) \in Nat
      BY <3>1, <3>2
    <3>4. Arg + a <= MaxCols
      BY <3>1, <3>2, <3>3, SortAssumption DEF Arg
    <3> QED BY <2>2, <3>3, <3>4, InputRows DEF Numbered
  <2>5. /\ {Seen(vtabs)[i].v : i \in {j \in DOMAIN Seen(vtabs) : Seen(vtabs)[j].on}} = Grouped
        /\ \A i, j \in DOMAIN Seen(vtabs) :
             Seen(vtabs)[i].on /\ Seen(vtabs)[j].on
             /\ (\A k \in DOMAIN query.keys : Seen(vtabs)[i].v[k] = Seen(vtabs)[j].v[k]) => i = j
    BY <2>2, <2>3, <2>4, GroupsHold
  <2> QED BY <2>5 DEF ResultIsGroupBy, Seen
<1> QED BY <1>1, InvHolds, PTL

-----------------------------------------------------------------------------
(* Sums in the field.                                                      *)

\* A sum's remainder is that of the remainders' sum.
LEMMA RemainderAdds ==
  ASSUME NEW a \in Int, NEW b \in Int
  PROVE  (a + b) % FieldSize = ((a % FieldSize) + (b % FieldSize)) % FieldSize
<1> DEFINE F == FieldSize
           q == a \div F
           r == a % F
           p == b \div F
           s == b % F
<1>1. F \in Nat /\ F > 0
  BY BitsStay
<1>2. q \in Int /\ r \in 0..(F - 1) /\ a = F * q + r
  BY <1>1
<1>3. p \in Int /\ s \in 0..(F - 1) /\ b = F * p + s
  BY <1>1
<1>4. (r + s) % F = IF r + s < F THEN r + s ELSE r + s - F
  <2> HIDE DEF F, r, s
  <2> QED BY <1>1, <1>2, <1>3
<1>5. \A k \in Int, c \in 0..(F - 1) : (F * k + c) % F = c
  <2> HIDE DEF F
  <2> TAKE k \in Int, c \in 0..(F - 1)
  <2> DEFINE n == F * k + c
  <2>1. n \in Int /\ n \div F \in Int /\ n % F \in 0..(F - 1) /\ n = F * (n \div F) + (n % F)
    BY <1>1
  <2> DEFINE u == n \div F
             v == n % F
  <2>2. F * u + v = F * k + c /\ u \in Int /\ v \in 0..(F - 1)
    BY <2>1
  <2> HIDE DEF u, v, n
  <2>3. ASSUME u > k PROVE FALSE
    <3>1. F * u >= F * (k + 1) /\ F * (k + 1) = F * k + F
      BY <1>1, <2>2, <2>3
    <3> QED BY <1>1, <2>2, <3>1
  <2>4. ASSUME u < k PROVE FALSE
    <3>1. F * k >= F * (u + 1) /\ F * (u + 1) = F * u + F
      BY <1>1, <2>2, <2>4
    <3> QED BY <1>1, <2>2, <3>1
  <2>5. u = k
    BY <2>2, <2>3, <2>4
  <2>6. v = c
    <3>1. F * k + v = F * k + c /\ F * k \in Int
      BY <1>1, <2>2, <2>5
    <3> QED BY <1>1, <2>2, <3>1
  <2> QED BY <2>6 DEF v, n
<1> HIDE DEF F, q, r, p, s
<1>6. CASE r + s < F
  <2>1. a + b = F * (q + p) + (r + s)
    BY <1>1, <1>2, <1>3
  <2>2. q + p \in Int /\ r + s \in 0..(F - 1)
    BY <1>1, <1>2, <1>3, <1>6
  <2>3. (F * (q + p) + (r + s)) % F = r + s
    BY <1>5, <2>2
  <2> QED BY <1>4, <1>6, <2>1, <2>3 DEF F, r, s
<1>7. CASE ~(r + s < F)
  <2>1. a + b = F * (q + p + 1) + (r + s - F)
    BY <1>1, <1>2, <1>3
  <2>2. q + p + 1 \in Int /\ r + s - F \in 0..(F - 1)
    BY <1>1, <1>2, <1>3, <1>7
  <2>3. (F * (q + p + 1) + (r + s - F)) % F = r + s - F
    BY <1>5, <2>2
  <2> QED BY <1>4, <1>7, <2>1, <2>3 DEF F, r, s
<1> QED BY <1>6, <1>7

\* What grows by a column's value with each of its rows is what it adds up to.
Grows(S, col, g) ==
  g[{}] = 0 /\ \A s \in SUBSET S : \A x \in s : g[s] = (col[x] + g[s \ {x}]) % FieldSize
LEMMA TotalGrows ==
  ASSUME NEW S, IsFiniteSet(S), NEW col, DOMAIN col = S, NEW g, Grows(S, col, g)
  PROVE  Total(col) = g[S]
<1>0. g[{}] = 0 /\ \A s \in SUBSET S : \A x \in s : g[s] = (col[x] + g[s \ {x}]) % FieldSize
  BY DEF Grows
<1> DEFINE it == CHOOSE f : SumIter(col, S, f)
           c(s) == CHOOSE x \in s : TRUE
           h == [s \in SUBSET S |-> g[s]]
<1>1. \A s : s # {} => c(s) \in s
  OBVIOUS
<1> HIDE DEF c
<1>2. SumIter(col, S, h)
  <2>1. \A s \in SUBSET S : s # {} => h[s \ {c(s)}] = g[s \ {c(s)}]
    OBVIOUS
  <2>2. \A s \in SUBSET S : h[s] = IF s = {} THEN 0 ELSE (col[c(s)] + h[s \ {c(s)}]) % FieldSize
    BY <1>0, <1>1, <2>1
  <2>3. h = [s \in SUBSET S |-> h[s]]
    OBVIOUS
  <2> HIDE DEF h
  <2>4. h = [s \in SUBSET S |-> IF s = {} THEN 0 ELSE (col[c(s)] + h[s \ {c(s)}]) % FieldSize]
    BY <2>2, <2>3
  <2> QED BY <2>4 DEF SumIter, c
<1>3. SumIter(col, S, it)
  <2> HIDE DEF h
  <2> QED BY <1>2
<1>4. Total(col) = it[S]
  BY TotalIter
<1> HIDE DEF it
<1>5. \A s \in SUBSET S : it[s] = IF s = {} THEN 0 ELSE (col[c(s)] + it[s \ {c(s)}]) % FieldSize
  BY <1>3 DEF SumIter, c
<1> DEFINE D == {n \in Nat : \E s \in SUBSET S : Cardinality(s) = n /\ it[s] # g[s]}
<1>6. D = {}
  <2> SUFFICES ASSUME D # {} PROVE FALSE
    OBVIOUS
  <2>1. D \in SUBSET Nat
    OBVIOUS
  <2>2. \A n : n \in D <=> n \in Nat /\ \E s \in SUBSET S : Cardinality(s) = n /\ it[s] # g[s]
    OBVIOUS
  <2> HIDE DEF D
  <2>3. PICK n \in D : \A m \in D : n <= m
    BY <2>1, Least
  <2>4. PICK s \in SUBSET S : Cardinality(s) = n /\ it[s] # g[s]
    BY <2>2
  <2>5. s # {}
    BY <1>0, <1>5, <2>4
  <2> DEFINE x == c(s)
             t == s \ {x}
  <2>6. x \in s /\ t \in SUBSET S
    BY <1>1, <2>5
  <2>7. Cardinality(t) = n - 1 /\ Cardinality(t) \in Nat
    <3>1. IsFiniteSet(s)
      BY FS_Subset
    <3>2. IsFiniteSet(t) /\ Cardinality(t) = Cardinality(s) - 1
      BY <2>6, <3>1, FS_RemoveElement
    <3> QED BY <2>4, <3>2, FS_CardinalityType
  <2>8. it[s] = (col[x] + it[t]) % FieldSize
    BY <1>5, <2>5
  <2>9. g[s] = (col[x] + g[t]) % FieldSize
    BY <1>0, <2>6
  <2> HIDE DEF t, x
  <2>10. it[t] = g[t]
    <3>1. Cardinality(t) \notin D
      BY <2>1, <2>3, <2>7
    <3> QED BY <2>2, <2>6, <2>7, <3>1
  <2> QED BY <2>4, <2>8, <2>9, <2>10
<1>7. Cardinality(S) \in Nat /\ S \in SUBSET S
  BY FS_CardinalityType
<1> QED BY <1>4, <1>6, <1>7

\* What a function adds up to over a set, an element at a time.
Adds(S, f, it) ==
  it = [s \in SUBSET S |->
         IF s = {} THEN 0
         ELSE f[CHOOSE x \in s : TRUE] + it[s \ {CHOOSE x \in s : TRUE}]]

LEMMA AddsExist ==
  ASSUME NEW S, IsFiniteSet(S), NEW f, \A x \in S : f[x] \in Int
  PROVE  \E it \in [SUBSET S -> Int] : Adds(S, f, it)
<1> DEFINE c(s) == CHOOSE x \in s : TRUE
           G == [SUBSET S -> Int]
           next(g) == [s \in SUBSET S |-> IF s = {} THEN 0 ELSE f[c(s)] + g[s \ {c(s)}]]
           zero == [s \in SUBSET S |-> 0]
           step == [x \in Nat \X G |-> next(x[2])]
           N == Cardinality(S)
<1>1. \A s \in SUBSET S : s # {} => c(s) \in s /\ c(s) \in S /\ s \ {c(s)} \in SUBSET S
  OBVIOUS
<1> HIDE DEF c
<1>2. \A g \in G : next(g) \in G
  <2> TAKE g \in G
  <2>1. \A s \in SUBSET S : s # {} => f[c(s)] + g[s \ {c(s)}] \in Int
    BY <1>1
  <2> QED BY <2>1
<1>3. zero \in G /\ step \in [Nat \X G -> G]
  <2>1. zero \in G
    OBVIOUS
  <2>2. \A x \in Nat \X G : next(x[2]) \in G
    BY <1>2
  <2> HIDE DEF next, G, zero
  <2>3. step \in [Nat \X G -> G]
    BY <2>2
  <2> QED BY <2>1, <2>3
<1>4. N \in Nat
  BY FS_CardinalityType
<1>5. PICK d \in [0..(N + 1) -> G] : Steps(d, N + 1, zero, step)
  <2>1. N + 1 \in Nat
    BY <1>4
  <2> HIDE DEF G, zero, step, N
  <2> QED BY <1>3, <2>1, StepsExist
<1>6. d[0] = zero /\ \A n \in 1..(N + 1) : d[n] = next(d[n - 1])
  <2>1. d = [n \in 0..(N + 1) |-> IF n = 0 THEN zero ELSE step[<<n, d[n - 1]>>]]
    BY <1>5 DEF Steps
  <2>2. \A n \in 1..(N + 1) : n \in 0..(N + 1) /\ n # 0 /\ n \in Nat /\ d[n - 1] \in G
    BY <1>4, <1>5
  <2>3. \A n \in Nat : \A g \in G : step[<<n, g>>] = next(g)
    OBVIOUS
  <2>4. 0 \in 0..(N + 1)
    BY <1>4
  <2> HIDE DEF G, next, zero, step, N
  <2> QED BY <2>1, <2>2, <2>3, <2>4
<1> DEFINE Same(n) == \A s \in SUBSET S : Cardinality(s) <= n => d[n][s] = d[n + 1][s]
           D == {n \in 0..N : ~Same(n)}
<1>7. D = {}
  <2> SUFFICES ASSUME D # {} PROVE FALSE
    OBVIOUS
  <2>1. D \in SUBSET Nat /\ \A n : n \in D <=> n \in 0..N /\ ~Same(n)
    OBVIOUS
  <2> HIDE DEF D, N
  <2>2. PICK n \in D : \A m \in D : n <= m
    BY <2>1, Least
  <2>3. n \in 0..N
    BY <2>1
  <2>4. PICK s \in SUBSET S : Cardinality(s) <= n /\ d[n][s] # d[n + 1][s]
    BY <2>1
  <2>5. IsFiniteSet(s) /\ Cardinality(s) \in Nat
    BY FS_Subset, FS_CardinalityType
  <2>6. d[n + 1] = next(d[n]) /\ (n # 0 => d[n] = next(d[n - 1])) /\ (n = 0 => d[n] = zero)
    <3>1. n + 1 \in 1..(N + 1) /\ (n + 1) - 1 = n /\ (n # 0 => n \in 1..(N + 1))
      BY <1>4, <2>3
    <3> HIDE DEF next, zero
    <3> QED BY <1>6, <3>1
  <2>7. s # {}
    BY <2>4, <2>6
  <2>8. c(s) \in s /\ s \ {c(s)} \in SUBSET S
    BY <1>1, <2>7
  <2>9. Cardinality(s \ {c(s)}) = Cardinality(s) - 1
    BY <2>5, <2>8, FS_RemoveElement
  <2>10. n # 0 /\ n - 1 \in 0..N
    <3>1. Cardinality(s) # 0
      BY <2>5, <2>7, FS_EmptySet
    <3> QED BY <1>4, <2>3, <2>4, <2>5, <3>1
  <2>11. Same(n - 1)
    <3>1. n - 1 \notin D
      BY <2>2, <2>3
    <3> HIDE DEF Same
    <3> QED BY <2>1, <2>10, <3>1
  <2>12. d[n - 1][s \ {c(s)}] = d[n][s \ {c(s)}]
    BY <2>3, <2>4, <2>5, <2>8, <2>9, <2>11
  <2>13. d[n + 1][s] = f[c(s)] + d[n][s \ {c(s)}]
    BY <2>6, <2>7
  <2>14. d[n][s] = f[c(s)] + d[n - 1][s \ {c(s)}]
    <3>1. d[n] = next(d[n - 1])
      BY <2>6, <2>10
    <3> QED BY <2>7, <3>1
  <2> QED BY <2>4, <2>12, <2>13, <2>14
<1>8. \A s \in SUBSET S : Cardinality(s) <= N
  BY FS_Subset
<1>9. d[N] = d[N + 1] /\ d[N] \in G /\ d[N + 1] = next(d[N])
  <2>1. N \in 0..N /\ N \in 0..(N + 1) /\ N + 1 \in 0..(N + 1) /\ N + 1 \in 1..(N + 1) /\ (N + 1) - 1 = N
    BY <1>4
  <2>2. Same(N)
    BY <1>7, <2>1
  <2>3. d[N] \in G /\ d[N + 1] \in G
    BY <1>5, <2>1
  <2>4. \A s \in SUBSET S : d[N][s] = d[N + 1][s]
    BY <1>8, <2>2
  <2>5. d[N] = d[N + 1]
    BY <2>3, <2>4
  <2> HIDE DEF next, G, N
  <2> QED BY <1>6, <2>1, <2>3, <2>5
<1> DEFINE it == d[N]
<1>10. it \in G /\ it = next(it)
  BY <1>9
<1> HIDE DEF it
<1> QED BY <1>10 DEF Adds, c

\* Integers add up to the same in any order.
Sums(S, f, it) ==
  /\ it \in [SUBSET S -> Int] /\ it[{}] = 0
  /\ \A s \in SUBSET S : \A x \in s : it[s] = f[x] + it[s \ {x}]
LEMMA AddsInAnyOrder ==
  ASSUME NEW S, IsFiniteSet(S), NEW f, \A x \in S : f[x] \in Int,
         NEW it, it \in [SUBSET S -> Int], Adds(S, f, it)
  PROVE  Sums(S, f, it)
<1> DEFINE c(s) == CHOOSE x \in s : TRUE
           Free(s) == \A x \in s : it[s] = f[x] + it[s \ {x}]
           D == {n \in Nat : \E s \in SUBSET S : Cardinality(s) = n /\ ~Free(s)}
<1>1. \A s : s # {} => c(s) \in s
  OBVIOUS
<1> HIDE DEF c
<1>2. \A s \in SUBSET S : it[s] = IF s = {} THEN 0 ELSE f[c(s)] + it[s \ {c(s)}]
  BY DEF Adds, c
<1>3. D = {}
  <2> SUFFICES ASSUME D # {} PROVE FALSE
    OBVIOUS
  <2>1. D \in SUBSET Nat /\ \A n : n \in D <=> n \in Nat /\ \E s \in SUBSET S : Cardinality(s) = n /\ ~Free(s)
    OBVIOUS
  <2> HIDE DEF D
  <2>2. PICK n \in D : \A m \in D : n <= m
    BY <2>1, Least
  <2>3. PICK s \in SUBSET S : Cardinality(s) = n /\ ~Free(s)
    BY <2>1, <2>2
  <2>4. ASSUME NEW z \in s PROVE Free(s \ {z})
    <3>1. IsFiniteSet(s)
      BY FS_Subset
    <3>2. Cardinality(s \ {z}) = n - 1 /\ Cardinality(s \ {z}) \in Nat
      <4>1. IsFiniteSet(s \ {z}) /\ Cardinality(s \ {z}) = Cardinality(s) - 1
        BY <3>1, FS_RemoveElement
      <4> QED BY <2>3, <4>1, FS_CardinalityType
    <3>3. n - 1 \notin D
      BY <2>1, <2>2
    <3> HIDE DEF Free
    <3> QED BY <2>1, <3>2, <3>3
  <2>5. PICK x \in s : it[s] # f[x] + it[s \ {x}]
    BY <2>3
  <2> DEFINE y == c(s)
  <2>6. y \in s /\ it[s] = f[y] + it[s \ {y}]
    BY <1>1, <1>2
  <2> HIDE DEF y
  <2>7. x # y
    BY <2>5, <2>6
  <2>8. it[s \ {y}] = f[x] + it[(s \ {y}) \ {x}]
    BY <2>4, <2>6, <2>7
  <2>9. it[s \ {x}] = f[y] + it[(s \ {x}) \ {y}]
    BY <2>4, <2>6, <2>7
  <2>10. (s \ {x}) \ {y} = (s \ {y}) \ {x}
    OBVIOUS
  <2> DEFINE u == it[(s \ {y}) \ {x}]
  <2>11. u \in Int /\ f[x] \in Int /\ f[y] \in Int
    BY <2>6
  <2> HIDE DEF u
  <2>12. it[s] = f[y] + (f[x] + u) /\ it[s \ {x}] = f[y] + u
    BY <2>6, <2>8, <2>9, <2>10 DEF u
  <2> QED BY <2>5, <2>11, <2>12
<1>4. \A s \in SUBSET S : Free(s)
  <2> TAKE s \in SUBSET S
  <2>1. Cardinality(s) \in Nat
    BY FS_Subset, FS_CardinalityType
  <2> HIDE DEF Free
  <2> QED BY <1>3, <2>1
<1> QED BY <1>2, <1>4 DEF Sums

\* The sum of a function over a set.
SumOver(S, f) == FoldFunctionOnSet(+, 0, f, S)
LEMMA SumOverIs ==
  ASSUME NEW S, IsFiniteSet(S), NEW f, \A x \in S : f[x] \in Int
  PROVE  \E it : SumOver(S, f) = it[S] /\ Sums(S, f, it)
<1> DEFINE it == CHOOSE g : Adds(S, f, g)
<1>1. SumOver(S, f) = it[S]
  BY DEF SumOver, FoldFunctionOnSet, MapThenFoldSet, Adds
<1>2. Adds(S, f, it)
  BY AddsExist
<1> HIDE DEF it
<1> DEFINE c(s) == CHOOSE x \in s : TRUE
           D == {n \in Nat : \E s \in SUBSET S : Cardinality(s) = n /\ it[s] \notin Int}
<1>3. DOMAIN it = SUBSET S
      /\ \A s \in SUBSET S : it[s] = IF s = {} THEN 0 ELSE f[c(s)] + it[s \ {c(s)}]
  <2>1. it = [s \in SUBSET S |-> IF s = {} THEN 0 ELSE f[c(s)] + it[s \ {c(s)}]]
    BY <1>2 DEF Adds
  <2> HIDE DEF c
  <2> QED BY <2>1
<1>4. \A s : s # {} => c(s) \in s
  OBVIOUS
<1> HIDE DEF c
<1>5. D = {}
  <2> SUFFICES ASSUME D # {} PROVE FALSE
    OBVIOUS
  <2>1. D \in SUBSET Nat
        /\ \A n : n \in D <=> n \in Nat /\ \E s \in SUBSET S : Cardinality(s) = n /\ it[s] \notin Int
    OBVIOUS
  <2> HIDE DEF D
  <2>2. PICK n \in D : \A m \in D : n <= m
    BY <2>1, Least
  <2>3. PICK s \in SUBSET S : Cardinality(s) = n /\ it[s] \notin Int
    BY <2>1, <2>2
  <2>4. s # {} /\ it[s] = f[c(s)] + it[s \ {c(s)}]
    BY <1>3, <2>3
  <2>5. c(s) \in s /\ f[c(s)] \in Int
    BY <1>4, <2>4
  <2>6. Cardinality(s \ {c(s)}) = n - 1 /\ Cardinality(s \ {c(s)}) \in Nat
    <3>1. IsFiniteSet(s \ {c(s)}) /\ Cardinality(s \ {c(s)}) = Cardinality(s) - 1
      BY <2>5, FS_Subset, FS_RemoveElement
    <3> QED BY <2>3, <3>1, FS_CardinalityType
  <2>7. n - 1 \notin D
    BY <2>1, <2>2
  <2>8. it[s \ {c(s)}] \in Int
    BY <2>1, <2>6, <2>7
  <2> QED BY <2>3, <2>4, <2>5, <2>8
<1>6. \A s \in SUBSET S : it[s] \in Int
  <2> TAKE s \in SUBSET S
  <2>1. Cardinality(s) \in Nat
    BY FS_Subset, FS_CardinalityType
  <2> QED BY <1>5, <2>1
<1>7. it \in [SUBSET S -> Int]
  <2>1. it = [s \in SUBSET S |-> it[s]]
    BY <1>2 DEF Adds
  <2> QED BY <1>6, <2>1
<1>8. Sums(S, f, it)
  BY <1>2, <1>7, AddsInAnyOrder
<1> QED BY <1>1, <1>8

\* A column that has, at one place each, the codes of what is added up, and
\* zero elsewhere, adds up to the code of the sum.
Spread(col, P, Q, h, G, f) ==
  /\ DOMAIN col = P /\ Q \in SUBSET P
  /\ \A x \in P : col[x] = IF x \in Q THEN f[h[x]] % FieldSize ELSE 0
  /\ \A x \in Q : h[x] \in G
  /\ \A x, y \in Q : h[x] = h[y] => x = y
  /\ \A r \in G : \E x \in Q : h[x] = r
LEMMA TotalIsSum ==
  ASSUME NEW P, IsFiniteSet(P), NEW G, IsFiniteSet(G), NEW f, \A r \in G : f[r] \in Int,
         NEW Q, NEW h, NEW col, Spread(col, P, Q, h, G, f)
  PROVE  Total(col) = SumOver(G, f) % FieldSize
<1>0. PICK it : SumOver(G, f) = it[G] /\ Sums(G, f, it)
  BY SumOverIs
<1>1. /\ SumOver(G, f) = it[G] /\ it[{}] = 0 /\ it \in [SUBSET G -> Int]
      /\ \A s \in SUBSET G : \A r \in s : it[s] = f[r] + it[s \ {r}]
  BY <1>0 DEF Sums
<1>2. FieldSize \in Nat /\ FieldSize > 1
  BY BitsStay
<1> DEFINE seen(s) == {h[x] : x \in s \cap Q}
           g == [s \in SUBSET P |-> it[seen(s)] % FieldSize]
<1>3. /\ DOMAIN col = P /\ Q \in SUBSET P
      /\ \A x \in P : col[x] = IF x \in Q THEN f[h[x]] % FieldSize ELSE 0
      /\ \A x \in Q : h[x] \in G
      /\ \A x, y \in Q : h[x] = h[y] => x = y
      /\ \A r \in G : \E x \in Q : h[x] = r
  BY DEF Spread
<1>4. \A s : seen(s) \in SUBSET G
  BY <1>3
<1>5. g[{}] = 0
  <2>1. seen({}) = {} /\ {} \in SUBSET P
    OBVIOUS
  <2>2. 0 % FieldSize = 0
    BY <1>2
  <2> HIDE DEF seen
  <2> QED BY <1>1, <2>1, <2>2
<1>6. ASSUME NEW s \in SUBSET P, NEW x \in s
      PROVE  g[s] = (col[x] + g[s \ {x}]) % FieldSize
  <2>1. s \ {x} \in SUBSET P /\ x \in P
    OBVIOUS
  <2> DEFINE a == it[seen(s)]
             b == it[seen(s \ {x})]
  <2>2. a \in Int /\ b \in Int
    <3> HIDE DEF seen
    <3> QED BY <1>1, <1>4
  <2>3. g[s] = a % FieldSize /\ g[s \ {x}] = b % FieldSize
    BY <2>1
  <2>4. CASE x \in Q
    <3>1. seen(s \ {x}) = seen(s) \ {h[x]}
      <4>1. ASSUME NEW r \in seen(s \ {x}) PROVE r \in seen(s) \ {h[x]}
        <5>1. PICK y \in (s \ {x}) \cap Q : r = h[y]
          OBVIOUS
        <5>2. h[y] # h[x]
          BY <1>3, <2>4, <5>1
        <5> QED BY <5>1, <5>2
      <4>2. ASSUME NEW r \in seen(s) \ {h[x]} PROVE r \in seen(s \ {x})
        OBVIOUS
      <4> HIDE DEF seen
      <4> QED BY <4>1, <4>2
    <3>2. h[x] \in seen(s)
      BY <2>4
    <3>3. a = f[h[x]] + b
      <4> DEFINE t == seen(s)
      <4>1. t \in SUBSET G /\ h[x] \in t /\ seen(s \ {x}) = t \ {h[x]}
        BY <1>4, <3>1, <3>2
      <4> HIDE DEF t, seen
      <4>2. it[t] = f[h[x]] + it[t \ {h[x]}]
        BY <1>1, <4>1
      <4> QED BY <4>1, <4>2 DEF t
    <3>4. col[x] = f[h[x]] % FieldSize /\ f[h[x]] \in Int
      BY <1>3, <2>1, <2>4
    <3> HIDE DEF a, b, g
    <3>5. (f[h[x]] + b) % FieldSize = ((f[h[x]] % FieldSize) + (b % FieldSize)) % FieldSize
      BY <2>2, <3>4, RemainderAdds
    <3> QED BY <2>3, <3>3, <3>4, <3>5
  <2>5. CASE x \notin Q
    <3>1. seen(s \ {x}) = seen(s)
      BY <2>5
    <3>2. col[x] = 0
      BY <1>3, <2>1, <2>5
    <3>3. a = b
      BY <3>1
    <3> HIDE DEF a, b, g
    <3> DEFINE m == b % FieldSize
    <3>4. m \in 0..(FieldSize - 1)
      BY <1>2, <2>2
    <3>5. (0 + m) % FieldSize = m
      <4> HIDE DEF m
      <4> QED BY <1>2, <3>4
    <3> QED BY <2>3, <3>2, <3>3, <3>5
  <2> QED BY <2>4, <2>5
<1>7. Total(col) = g[P]
  <2> HIDE DEF g
  <2>1. Grows(P, col, g)
    BY <1>5, <1>6 DEF Grows
  <2> QED BY <1>3, <2>1, TotalGrows
<1>8. seen(P) = G
  BY <1>3
<1> QED BY <1>1, <1>7, <1>8

\* One that has a code at one place and zeros elsewhere adds up to that code.
LEMMA TotalOfOne ==
  ASSUME NEW P, IsFiniteSet(P), NEW col, DOMAIN col = P, NEW x \in P,
         col[x] \in 0..(FieldSize - 1), \A y \in P : y # x => col[y] = 0
  PROVE  Total(col) = col[x]
<1> DEFINE g == [s \in SUBSET P |-> IF x \in s THEN col[x] ELSE 0]
<1>1. FieldSize \in Nat /\ FieldSize > 1
  BY BitsStay
<1>2. g[{}] = 0 /\ g[P] = col[x]
  OBVIOUS
<1>3. ASSUME NEW s \in SUBSET P, NEW y \in s
      PROVE  g[s] = (col[y] + g[s \ {y}]) % FieldSize
  <2>1. CASE y = x
    <3>1. g[s] = col[x] /\ g[s \ {y}] = 0
      BY <2>1
    <3> HIDE DEF g
    <3> QED BY <1>1, <2>1, <3>1
  <2>2. CASE y # x
    <3>1. g[s \ {y}] = g[s] /\ col[y] = 0 /\ g[s] \in 0..(FieldSize - 1)
      BY <1>1, <2>2
    <3> HIDE DEF g
    <3> QED BY <1>1, <3>1
  <2> QED BY <2>1, <2>2
<1>4. Total(col) = g[P]
  <2> HIDE DEF g
  <2>1. Grows(P, col, g)
    BY <1>2, <1>3 DEF Grows
  <2> QED BY <2>1, TotalGrows
<1> QED BY <1>2, <1>4

LEMMA TotalOfNone ==
  ASSUME NEW P, IsFiniteSet(P), NEW col, DOMAIN col = P, \A y \in P : col[y] = 0
  PROVE  Total(col) = 0
<1> DEFINE g == [s \in SUBSET P |-> 0]
<1>1. \A s \in SUBSET P : \A y \in s : g[s] = (col[y] + g[s \ {y}]) % FieldSize
  BY BitsStay
<1>2. g[{}] = 0 /\ g[P] = 0
  OBVIOUS
<1> HIDE DEF g
<1>3. Grows(P, col, g)
  BY <1>1, <1>2 DEF Grows
<1> QED BY <1>2, <1>3, TotalGrows

-----------------------------------------------------------------------------
(* The columns of the input.                                               *)

LEMMA PaddedValues ==
  ASSUME NEW rows, NEW n \in Nat, Len(rows) = n, DOMAIN rows = 1..n,
         \A i \in 1..n : DOMAIN rows[i] = RowNames,
         NEW c \in 1..MaxCols, NEW V, Null \in V, \A i \in 1..n : rows[i][c] \in V
  PROVE  \A i \in 1..PowerOfTwo(n) : Padded(rows)[i][c] \in V
<1> TAKE i \in 1..PowerOfTwo(n)
<1>0. MaxCols \in Nat
  BY SortAssumption
<1>1. c \in RowNames /\ c # Act /\ c # RowId
  BY <1>0 DEF RowNames, Act, RowId
<1>2. Padded(rows)[i] =
        IF i <= n THEN rows[i]
        ELSE IF rows = <<>> THEN NullRow(i)
        ELSE [rows[n] EXCEPT ![Act] = 0, ![RowId] = @ + i - n]
  BY DEF Padded
<1>3. CASE i <= n
  <2>1. i \in 1..n
    BY <1>3, PaddedSize
  <2> QED BY <1>2, <1>3, <2>1
<1>4. CASE ~(i <= n) /\ rows = <<>>
  <2>1. NullRow(i)[c] = Null
    BY <1>1 DEF NullRow, RowNames
  <2> QED BY <1>2, <1>4, <2>1
<1>5. CASE ~(i <= n) /\ rows # <<>>
  <2>1. n \in 1..n
    BY <1>5
  <2>2. DOMAIN rows[n] = RowNames
    BY <2>1
  <2>3. [rows[n] EXCEPT ![Act] = 0, ![RowId] = @ + i - n][c] = rows[n][c]
    BY <1>1, <2>2
  <2> QED BY <1>2, <1>5, <2>1, <2>3
<1> QED BY <1>3, <1>4, <1>5

Code == 0..(FieldSize - 1)
LEMMA CodesAre == \A v \in Int \cup {Null} : Enc(v) \in Code
<1>1. FieldSize \in Nat /\ FieldSize > 1 /\ Null \notin Int
  BY BitsStay, SortAssumption
<1> QED BY <1>1 DEF Enc, Code

\* The codes of a frame's column, those of the rows added to it too.
LEMMA FrameCodes ==
  ASSUME NEW n, RowsOk(n), NEW f, \E i \in DOMAIN f.fields : f.fields[i] = RowId,
         Len(f.rows) = n, DOMAIN f.rows = 1..n,
         \A i \in 1..n : DOMAIN f.rows[i] = RowNames /\ f.rows[i][RowId] = query.rows[i][RowId],
         NEW c \in f.mat, c \in 1..MaxCols,
         \A i \in 1..n : f.rows[i][c] \in Int \cup {Null}
  PROVE  EncodedColumns(f)[c] \in [1..PowerOfTwo(n) -> Code]
<1> DEFINE by == ById(f.rows)
           rows == Padded(by)
           lt == IdOrder(query.rows, n)
<1>0. n \in Nat /\ Len(query.rows) = n
  BY DEF RowsOk
<1>1. InOrder(f) = rows
  BY DEF InOrder, Names
<1>2. DOMAIN rows = 1..PowerOfTwo(n)
  BY CommittedRows
<1>3. /\ DOMAIN by = 1..n
      /\ \A i \in 1..n : by[i] = f.rows[Ranked(IdOrder(f.rows, n), n, i)]
                         /\ Ranked(IdOrder(f.rows, n), n, i) \in 1..n
  <2>1. \A i \in 1..n : f.rows[i][RowId] \in Int
    BY DEF RowsOk
  <2> QED BY <1>0, <2>1, ByIdRows
<1>4. Len(by) = n
  <2>1. by = [i \in 1..n |-> by[i]]
    BY <1>3 DEF ById
  <2> HIDE DEF by
  <2> QED BY <1>0, <2>1
<1>5. \A i \in 1..n : DOMAIN by[i] = RowNames /\ by[i][c] \in Int \cup {Null}
  BY <1>3
<1> HIDE DEF by
<1>6. \A i \in 1..PowerOfTwo(n) : rows[i][c] \in Int \cup {Null}
  BY <1>0, <1>3, <1>4, <1>5, PaddedValues
<1> HIDE DEF rows
<1>7. EncodedColumns(f)[c] = [i \in 1..PowerOfTwo(n) |-> Enc(rows[i][c])]
  BY <1>1, <1>2 DEF EncodedColumns
<1>8. \A i \in 1..PowerOfTwo(n) : Enc(rows[i][c]) \in Code
  BY <1>6, CodesAre
<1> QED BY <1>7, <1>8

\* The columns of the input, of the i-th row of it by id.
LEMMA InputColumns ==
  ASSUME NEW n, NEW a, Numbered(n, a)
  PROVE  /\ \A m \in {1, 2, Arg, Act} :
              /\ DOMAIN Input[m] = 1..PowerOfTwo(n)
              /\ \A i \in 1..n : Input[m][i] = Enc(query.rows[Spot(i)][m])
         /\ Input[Arg] \in [1..PowerOfTwo(n) -> Code]
         /\ Input[Act] \in [1..PowerOfTwo(n) -> {0, 1}]
         /\ \A i \in 1..PowerOfTwo(n) :
              Input[Act][i] = 1 <=> i \in 1..n /\ query.rows[Spot(i)][Act] = 1
<1> DEFINE f == Frame(Append(InputFields, Act), query.rows, {1, 2, Arg, Act})
           p == PowerOfTwo(n)
<1>1. RowsOk(n) /\ n \in Nat
  BY DEF Numbered, RowsOk
<1>2. f.fields = Append(InputFields, Act) /\ f.rows = query.rows /\ f.mat = {1, 2, Arg, Act}
  BY DEF Frame
<1>3. Input = EncodedColumns(f)
  BY DEF Input
<1> HIDE DEF f
<1>4. \E i \in DOMAIN f.fields : f.fields[i] = RowId
  BY <1>2, FieldsHaveIds
<1>5. Len(f.rows) = n /\ DOMAIN f.rows = 1..n
      /\ \A i \in 1..n : DOMAIN f.rows[i] = RowNames /\ f.rows[i][RowId] = query.rows[i][RowId]
  BY <1>1, <1>2 DEF RowsOk
<1>6. /\ \A m \in f.mat :
           /\ DOMAIN EncodedColumns(f)[m] = 1..p
           /\ \A i \in 1..n : EncodedColumns(f)[m][i] = Enc(f.rows[Spot(i)][m])
      /\ \A i \in 1..p : i > n => EncodedColumns(f)[Act][i] = Enc(0)
  <2>1. Act \in f.mat
    BY <1>2
  <2> QED BY <1>1, <1>4, <1>5, <2>1, FrameColumns
<1>7. Input[Arg] \in [1..p -> Code]
  <2>1. Arg \in f.mat /\ Arg \in 1..MaxCols /\ Arg \in 1..Arg
    BY <1>2, SortAssumption DEF Numbered, Arg
  <2>2. \A i \in 1..n : f.rows[i][Arg] \in Int \cup {Null}
    BY <1>1, <1>2, <2>1 DEF RowsOk
  <2> QED BY <1>1, <1>3, <1>4, <1>5, <2>1, <2>2, FrameCodes
<1>8. \A i \in 1..n : Spot(i) \in 1..n
  BY <1>1, Spots
<1>9. ASSUME NEW i \in 1..p
      PROVE  /\ Input[Act][i] \in {0, 1}
             /\ Input[Act][i] = 1 <=> i \in 1..n /\ query.rows[Spot(i)][Act] = 1
  <2>1. CASE i \in 1..n
    <3>1. Input[Act][i] = Enc(query.rows[Spot(i)][Act])
      BY <1>2, <1>3, <1>6, <2>1
    <3>2. query.rows[Spot(i)][Act] \in {0, 1}
      BY <1>1, <1>8, <2>1 DEF RowsOk
    <3> QED BY <2>1, <3>1, <3>2, BitsStay
  <2>2. CASE i \notin 1..n
    <3>1. i > n
      BY <1>1, <2>2, PaddedSize
    <3>2. Input[Act][i] = Enc(0)
      BY <1>3, <1>6, <3>1
    <3> QED BY <2>2, <3>2, BitsStay
  <2> QED BY <2>1, <2>2
<1>10. Input[Act] = [i \in 1..p |-> Input[Act][i]]
  <2>1. Act \in f.mat
    BY <1>2
  <2>2. \E S, T : \E u : EncodedColumns(f)[Act] = [i \in S |-> u[i]]
    <3> DEFINE rows == InOrder(f)
               u == [i \in DOMAIN rows |-> Enc(rows[i][Act])]
    <3>1. EncodedColumns(f)[Act] = u
      BY <2>1 DEF EncodedColumns
    <3>2. u = [i \in DOMAIN rows |-> u[i]]
      OBVIOUS
    <3> QED BY <3>1, <3>2
  <2>3. DOMAIN EncodedColumns(f)[Act] = 1..p
    BY <1>6, <2>1
  <2> QED BY <1>3, <2>2, <2>3
<1>11. Input[Act] \in [1..p -> {0, 1}]
  BY <1>9, <1>10
<1> QED BY <1>2, <1>3, <1>6, <1>7, <1>9, <1>11

\* A set of integers no one of which is beyond a bound has a least and a greatest.
LEMMA Extremes ==
  ASSUME NEW S, S # {}, NEW b \in Nat, \A v \in S : v \in Int /\ -b <= v /\ v <= b
  PROVE  (\E v \in S : \A w \in S : v <= w) /\ \E v \in S : \A w \in S : v >= w
<1> DEFINE up == {v + b : v \in S}
           down == {b - v : v \in S}
<1>1. up \in SUBSET Nat /\ up # {} /\ down \in SUBSET Nat /\ down # {}
  OBVIOUS
<1>2. PICK v \in S : \A w \in S : v + b <= w + b
  <2>1. PICK m \in up : \A k \in up : m <= k
    <3> HIDE DEF up
    <3> QED BY <1>1, Least
  <2> QED BY <2>1
<1>3. PICK u \in S : \A w \in S : b - u <= b - w
  <2>1. PICK m \in down : \A k \in down : m <= k
    <3> HIDE DEF down
    <3> QED BY <1>1, Least
  <2> QED BY <2>1
<1>4. \A w \in S : v <= w
  BY <1>2
<1>5. \A w \in S : u >= w
  BY <1>3
<1> QED BY <1>4, <1>5

-----------------------------------------------------------------------------
(* Each group is there once.                                               *)

LEMMA ViewsAre ==
  ASSUME NEW n, NEW a, Numbered(n, a), Planned, NEW c, c.output = EncodedColumns(output)
  PROVE  /\ DOMAIN InputKeys = 1..PowerOfTwo(n) /\ DOMAIN OutputKeys(c) = 1..PowerOfTwo(n)
         /\ \A i \in 1..PowerOfTwo(n) :
              /\ InputKeys[i].on <=> i \in 1..n /\ RowAt(i)[Act] = 1
              /\ OutputKeys(c)[i].on <=> i \in 1..n /\ Represents(RowAt(i))
         /\ \A i \in 1..n : /\ InputKeys[i].v = KeyCodes(Key(RowAt(i)))
                            /\ OutputKeys(c)[i].v = KeyCodes(Key(RowAt(i)))
<1> DEFINE p == PowerOfTwo(n)
           T == Merged(c)
           In(i) == [j \in DOMAIN query.keys |-> Input[query.keys[j]][i]]
           Out(i) == [j \in DOMAIN query.keys |-> T[query.keys[j]][i]]
<1>0. n \in Nat /\ query \in Queries
  BY DEF Numbered, RowsOk
<1>1. /\ \A m \in {1, 2, Arg, Act} : /\ DOMAIN Input[m] = 1..p
                                     /\ \A i \in 1..n : Input[m][i] = Enc(query.rows[Spot(i)][m])
      /\ \A i \in 1..p : Input[Act][i] = 1 <=> i \in 1..n /\ query.rows[Spot(i)][Act] = 1
  BY InputColumns
<1>2. /\ \A j \in DOMAIN query.keys : \A i \in 1..n :
           T[query.keys[j]][i] = Enc(Key(query.rows[Spot(i)])[j])
      /\ DOMAIN T[Act] = 1..p
      /\ \A i \in 1..p : T[Act][i] = 1 <=> i \in 1..n /\ Represents(query.rows[Spot(i)])
  BY TableColumns
<1>3. InputKeys = [i \in DOMAIN Input[Act] |-> [v |-> In(i), on |-> Input[Act][i] = 1]]
  BY DEF InputKeys, Groups, View
<1>4. OutputKeys(c) = [i \in DOMAIN T[Act] |-> [v |-> Out(i), on |-> T[Act][i] = 1]]
  BY DEF OutputKeys, Groups, View
<1>5. \A i \in 1..n : i \in 1..p
  <2>1. p \in Nat /\ n <= p
    BY <1>0, PaddedSize
  <2> QED BY <1>0, <2>1
<1>6. ASSUME NEW i \in 1..n
      PROVE  In(i) = KeyCodes(Key(RowAt(i))) /\ Out(i) = KeyCodes(Key(RowAt(i)))
  <2>1. KeyCodes(Key(RowAt(i))) = [j \in DOMAIN query.keys |-> Enc(RowAt(i)[query.keys[j]])]
    BY DEF KeyCodes, Key
  <2>2. \A j \in DOMAIN query.keys : Input[query.keys[j]][i] = Enc(RowAt(i)[query.keys[j]])
    <3> TAKE j \in DOMAIN query.keys
    <3>1. query.keys[j] \in {1, 2, Arg, Act}
      BY <1>0, KeysAre
    <3> QED BY <1>1, <3>1 DEF RowAt
  <2>3. \A j \in DOMAIN query.keys : T[query.keys[j]][i] = Enc(RowAt(i)[query.keys[j]])
    <3> TAKE j \in DOMAIN query.keys
    <3>1. Key(query.rows[Spot(i)])[j] = RowAt(i)[query.keys[j]]
      BY DEF Key, RowAt
    <3> QED BY <1>2, <3>1
  <2> HIDE DEF T
  <2> QED BY <2>1, <2>2, <2>3
<1> HIDE DEF p, T, In, Out
<1>7. DOMAIN Input[Act] = 1..p
  BY <1>1
<1>8. \A i \in 1..p : /\ InputKeys[i].v = In(i) /\ InputKeys[i].on = (Input[Act][i] = 1)
                      /\ OutputKeys(c)[i].v = Out(i) /\ OutputKeys(c)[i].on = (T[Act][i] = 1)
  <2> TAKE i \in 1..p
  <2>1. InputKeys[i].v = In(i) /\ InputKeys[i].on = (Input[Act][i] = 1)
    BY <1>3, <1>7
  <2>2. OutputKeys(c)[i].v = Out(i) /\ OutputKeys(c)[i].on = (T[Act][i] = 1)
    BY <1>2, <1>4
  <2> QED BY <2>1, <2>2
<1>9. DOMAIN InputKeys = 1..p /\ DOMAIN OutputKeys(c) = 1..p
  BY <1>2, <1>3, <1>4, <1>7
<1>10. \A i \in 1..p : /\ InputKeys[i].on <=> i \in 1..n /\ RowAt(i)[Act] = 1
                       /\ OutputKeys(c)[i].on <=> i \in 1..n /\ Represents(RowAt(i))
  BY <1>1, <1>2, <1>8 DEF RowAt
<1>11. \A i \in 1..n : /\ InputKeys[i].v = KeyCodes(Key(RowAt(i)))
                       /\ OutputKeys(c)[i].v = KeyCodes(Key(RowAt(i)))
  BY <1>5, <1>6, <1>8
<1> QED BY <1>9, <1>10, <1>11 DEF p

\* That each group is there once.
LEMMA GroupsClaimed ==
  ASSUME NEW n, NEW a, Numbered(n, a), Planned, NoNullKeys,
         NEW c, c.output = EncodedColumns(output)
  PROVE  /\ Among(InputKeys, OutputKeys(c)) /\ NoRepeats(OutputKeys(c))
         /\ LookupHolds(LookupClaim(InputKeys, OutputKeys(c), Multiplicities(InputKeys, OutputKeys(c))))
         /\ Range(Merged(c)[Act]) \subseteq {0, 1}
<1> DEFINE p == PowerOfTwo(n)
           in == InputKeys
           out == OutputKeys(c)
<1>0. RowsOk(n) /\ n \in Nat /\ query \in Queries /\ Len(query.rows) = n
  BY DEF Numbered, RowsOk
<1>1. p \in Nat /\ n <= p
  BY <1>0, PaddedSize
<1>2. /\ DOMAIN in = 1..p /\ DOMAIN out = 1..p
      /\ \A i \in 1..p : /\ in[i].on <=> i \in 1..n /\ RowAt(i)[Act] = 1
                         /\ out[i].on <=> i \in 1..n /\ Represents(RowAt(i))
      /\ \A i \in 1..n : in[i].v = KeyCodes(Key(RowAt(i))) /\ out[i].v = KeyCodes(Key(RowAt(i)))
  BY ViewsAre
<1> HIDE DEF p, in, out
<1>3. \A i \in 1..n : i \in 1..p
  BY <1>0, <1>1
<1>4. \A i \in 1..n : Represents(RowAt(i)) => RowAt(i) \in ActiveRows
  BY <1>0, RowsAt DEF Represents
<1>5. Among(in, out)
  <2> SUFFICES ASSUME NEW i \in 1..p, in[i].on
               PROVE  \E j \in 1..p : out[j].on /\ out[j].v = in[i].v
    BY <1>2 DEF Among
  <2>1. i \in 1..n /\ RowAt(i) \in ActiveRows
    BY <1>0, <1>2, RowsAt
  <2>2. PICK m \in 1..n : Represents(query.rows[m]) /\ Key(query.rows[m]) = Key(RowAt(i))
    BY <1>0, <2>1, FirstRepresents
  <2>3. PICK j \in 1..n : Spot(j) = m
    BY <1>0, Spots
  <2>4. Represents(RowAt(j)) /\ Key(RowAt(j)) = Key(RowAt(i))
    BY <2>2, <2>3 DEF RowAt
  <2> QED BY <1>2, <1>3, <2>1, <2>4
<1>6. NoRepeats(out)
  <2> SUFFICES ASSUME NEW i \in 1..p, NEW j \in 1..p, out[i].on, out[j].on, out[i].v = out[j].v
               PROVE  i = j
    BY <1>2 DEF NoRepeats
  <2>1. i \in 1..n /\ j \in 1..n /\ Represents(RowAt(i)) /\ Represents(RowAt(j))
    BY <1>2
  <2>2. RowAt(i) \in ActiveRows /\ RowAt(j) \in ActiveRows
    BY <1>4, <2>1
  <2>3. Key(RowAt(i)) = Key(RowAt(j))
    <3>1. KeyCodes(Key(RowAt(i))) = KeyCodes(Key(RowAt(j)))
      BY <1>2, <2>1
    <3> QED BY <2>1, <2>2, <3>1, KeysTell
  <2>4. Spot(i) \in 1..n /\ Spot(j) \in 1..n
    BY <1>0, <2>1, Spots
  <2>5. Spot(i) = Spot(j)
    BY <1>0, <2>1, <2>3, <2>4, OneRepresents DEF RowAt
  <2> QED BY <1>0, <2>1, <2>5, Spots
<1>7. LookupHolds(LookupClaim(in, out, Multiplicities(in, out)))
  <2>1. n < FieldSize
    BY <1>0, QueryAssumption
  <2>2. \A i \in 1..p : in[i].on => i <= n
    BY <1>0, <1>2
  <2>3. \A v : TimesIn(in, v) < FieldSize
    BY <1>0, <1>1, <1>2, <2>1, <2>2, FewTimes
  <2> QED BY <1>1, <1>2, <1>5, <2>3, LookupCounts
<1>8. Range(Merged(c)[Act]) \subseteq {0, 1}
  <2>1. DOMAIN Merged(c)[Act] = 1..PowerOfTwo(n)
        /\ \A i \in 1..PowerOfTwo(n) : Merged(c)[Act][i] \in {0, 1}
    BY TableColumns
  <2> QED BY <2>1 DEF Range
<1> QED BY <1>5, <1>6, <1>7, <1>8 DEF in, out

-----------------------------------------------------------------------------
(* The sums of groups.                                                     *)

\* The rows of a group that have an argument.
Given(k) == {r \in Group(k) : r[Arg] # Null}
ArgOf(k) == [r \in Given(k) |-> r[Arg]]

LEMMA AggregateSum ==
  ASSUME NEW k
  PROVE  Aggregate("sum", Group(k)) = IF Given(k) = {} THEN Null ELSE SumOver(Given(k), ArgOf(k))
<1>1. CASE Given(k) = {}
  BY <1>1 DEF Aggregate, Given
<1>2. CASE Given(k) # {}
  BY <1>2 DEF Aggregate, Given, ArgOf, SumOver
<1> QED BY <1>1, <1>2

LEMMA JoinedBackIs ==
  ASSUME NoNullKeys, NEW row \in ActiveRows, NEW f
  PROVE  JoinedBack(f, row) = Aggregate(f, Group(Key(row)))
<1>1. row \in Group(Key(row))
  BY DEF Group
<1>2. Null \notin Range(Key(row))
  BY DEF NoNullKeys
<1> QED BY <1>1, <1>2 DEF JoinedBack

\* The code of a group's sum.
LEMMA CodeOfSum ==
  ASSUME NEW n, RowsOk(n), NEW k
  PROVE  /\ IsFiniteSet(Given(k)) /\ \A r \in Given(k) : ArgOf(k)[r] \in Int
         /\ Enc(Aggregate("sum", Group(k))) = SumOver(Given(k), ArgOf(k)) % FieldSize
         /\ SumOver(Given(k), ArgOf(k)) \in Int
<1>1. IsFiniteSet(Given(k))
  <2>1. Given(k) \in SUBSET Range(query.rows)
    BY DEF Given, Group, ActiveRows
  <2> QED BY <2>1, RowsAreFinite, FS_Subset
<1>2. \A r \in Given(k) : ArgOf(k)[r] \in Int
  <2> TAKE r \in Given(k)
  <2>1. r \in Range(query.rows) /\ r[Arg] # Null
    BY DEF Given, Group, ActiveRows
  <2>2. PICK i \in 1..n : r = query.rows[i]
    BY <2>1 DEF RowsOk, Range
  <2>3. r[Arg] \in Int \cup {Null}
    BY <2>2 DEF RowsOk, Arg
  <2> QED BY <2>1, <2>3 DEF ArgOf
<1>3. PICK it : SumOver(Given(k), ArgOf(k)) = it[Given(k)] /\ Sums(Given(k), ArgOf(k), it)
  BY <1>1, <1>2, SumOverIs
<1>4. SumOver(Given(k), ArgOf(k)) \in Int /\ (Given(k) = {} => SumOver(Given(k), ArgOf(k)) = 0)
  <2>1. it[Given(k)] \in Int /\ it[{}] = 0
    BY <1>3 DEF Sums
  <2> QED BY <1>3, <2>1
<1>5. Null \notin Int /\ FieldSize \in Nat /\ FieldSize > 1
  BY SortAssumption, BitsStay
<1>6. CASE Given(k) = {}
  <2>1. Aggregate("sum", Group(k)) = Null /\ SumOver(Given(k), ArgOf(k)) = 0
    BY <1>4, <1>6, AggregateSum
  <2>2. 0 % FieldSize = 0
    BY <1>5
  <2> QED BY <1>1, <1>2, <2>1, <2>2, BitsStay
<1>7. CASE Given(k) # {}
  <2> DEFINE s == SumOver(Given(k), ArgOf(k))
  <2>1. Aggregate("sum", Group(k)) = s
    BY <1>7, AggregateSum
  <2>2. s \in Int
    BY <1>4
  <2> HIDE DEF s
  <2>3. Enc(s) = s % FieldSize
    BY <1>5, <2>2 DEF Enc
  <2> QED BY <1>1, <1>2, <1>4, <2>1, <2>3 DEF s
<1> QED BY <1>6, <1>7

\* That the totals of each group agree.
LEMMA SumsClaimed ==
  ASSUME NEW n, NEW a, Numbered(n, a), Planned, NoNullKeys,
         NEW c, c.output = EncodedColumns(output), NEW j \in 1..a, aggs[j] = "sum"
  PROVE  SumHolds(SumClaim(c, Arg + j))
<1> DEFINE p == PowerOfTwo(n)
           in == InputKeys
           out == OutputKeys(c)
           of == Input[Arg]
           sums == Merged(c)[Arg + j]
<1>0. RowsOk(n) /\ n \in Nat /\ query \in Queries /\ Len(query.rows) = n
  BY DEF Numbered, RowsOk
<1>1. p \in Nat /\ n <= p /\ IsFiniteSet(1..p)
  BY <1>0, PaddedSize, FS_Interval
<1>2. /\ DOMAIN in = 1..p /\ DOMAIN out = 1..p
      /\ \A i \in 1..p : /\ in[i].on <=> i \in 1..n /\ RowAt(i)[Act] = 1
                         /\ out[i].on <=> i \in 1..n /\ Represents(RowAt(i))
      /\ \A i \in 1..n : in[i].v = KeyCodes(Key(RowAt(i))) /\ out[i].v = KeyCodes(Key(RowAt(i)))
  BY ViewsAre
<1>3. \A i \in 1..n : of[i] = Enc(RowAt(i)[Arg])
  BY InputColumns DEF RowAt
<1>4. \A i \in 1..n : sums[i] = Enc(JoinedBack("sum", RowAt(i)))
  BY TableColumns DEF RowAt
<1>5. NoRepeats(out) /\ Among(in, out)
  BY GroupsClaimed
<1> HIDE DEF p, in, out, of, sums
<1>6. \A i \in 1..n : i \in 1..p
  BY <1>0, <1>1
<1>7. \A i \in 1..n : Represents(RowAt(i)) => RowAt(i)[Act] = 1
  BY DEF Represents
<1>8. ASSUME NEW v PROVE TotalOf(in, of, v) = TotalOf(out, sums, v)
  <2> DEFINE L == [i \in 1..p |-> IF in[i].on /\ in[i].v = v THEN of[i] ELSE 0]
             R == [i \in 1..p |-> IF out[i].on /\ out[i].v = v THEN sums[i] ELSE 0]
  <2>1. TotalOf(in, of, v) = Total(L) /\ TotalOf(out, sums, v) = Total(R)
    BY <1>2 DEF TotalOf
  <2>2. CASE \A i \in 1..p : ~(in[i].on /\ in[i].v = v)
    <3>1. \A i \in 1..p : L[i] = 0
      BY <2>2
    <3>2. \A i \in 1..p : R[i] = 0
      <4> SUFFICES ASSUME NEW i \in 1..p, out[i].on, out[i].v = v PROVE FALSE
        OBVIOUS
      <4>1. i \in 1..n /\ in[i].on /\ in[i].v = out[i].v
        BY <1>2, <1>7
      <4> QED BY <2>2, <4>1
    <3>3. DOMAIN L = 1..p /\ DOMAIN R = 1..p
      OBVIOUS
    <3> HIDE DEF L, R
    <3>4. Total(L) = 0 /\ Total(R) = 0
      BY <1>1, <3>1, <3>2, <3>3, TotalOfNone
    <3> QED BY <2>1, <3>4
  <2>3. CASE \E i \in 1..p : in[i].on /\ in[i].v = v
    <3>1. PICK e \in 1..p : in[e].on /\ in[e].v = v
      BY <2>3
    <3> DEFINE k == Key(RowAt(e))
               Q == {x \in 1..n : RowAt(x) \in Given(k)}
               h == [x \in Q |-> RowAt(x)]
               f == ArgOf(k)
               G == Given(k)
    <3>2. e \in 1..n /\ RowAt(e) \in ActiveRows /\ v = KeyCodes(k)
      BY <1>0, <1>2, <3>1, RowsAt
    <3>3. IsFiniteSet(G) /\ (\A r \in G : f[r] \in Int)
          /\ Enc(Aggregate("sum", Group(k))) = SumOver(G, f) % FieldSize
          /\ SumOver(G, f) \in Int
      BY <1>0, CodeOfSum
    <3>4. ASSUME NEW i \in 1..n, RowAt(i) \in ActiveRows, KeyCodes(Key(RowAt(i))) = v
          PROVE  RowAt(i) \in Group(k)
      <4>1. Key(RowAt(i)) = k
        BY <3>2, <3>4, KeysTell
      <4> QED BY <3>4, <4>1 DEF Group
    <3>5. Total(L) = SumOver(G, f) % FieldSize
      <4>1. Q \in SUBSET (1..p) /\ DOMAIN L = 1..p
        BY <1>6
      <4>2. \A x \in Q : h[x] = RowAt(x) /\ h[x] \in G
        OBVIOUS
      <4>3. \A x, y \in Q : h[x] = h[y] => x = y
        BY <1>0, <4>2, RowsAt
      <4>4. ASSUME NEW r \in G PROVE \E x \in Q : h[x] = r
        <5>1. r \in Range(query.rows)
          BY DEF Given, Group, ActiveRows
        <5>2. PICK x \in 1..n : RowAt(x) = r
          BY <1>0, <5>1, RowsAt
        <5> QED BY <5>2
      <4>5. ASSUME NEW x \in 1..p
            PROVE  L[x] = IF x \in Q THEN f[h[x]] % FieldSize ELSE 0
        <5>1. CASE x \in Q
          <6>1. x \in 1..n /\ RowAt(x) \in Group(k) /\ RowAt(x)[Arg] # Null
            BY <5>1 DEF Given
          <6>2. RowAt(x) \in ActiveRows /\ Key(RowAt(x)) = k
            BY <6>1 DEF Group
          <6>3. in[x].on /\ in[x].v = v
            BY <1>0, <1>2, <3>2, <6>1, <6>2, RowsAt
          <6>4. L[x] = Enc(RowAt(x)[Arg])
            BY <1>3, <6>1, <6>3
          <6>5. f[h[x]] = RowAt(x)[Arg]
            BY <4>2, <5>1 DEF ArgOf
          <6> QED BY <5>1, <6>1, <6>4, <6>5 DEF Enc
        <5>2. CASE x \notin Q
          <6>1. CASE in[x].on /\ in[x].v = v
            <7>1. x \in 1..n /\ RowAt(x) \in ActiveRows /\ KeyCodes(Key(RowAt(x))) = v
              BY <1>0, <1>2, <6>1, RowsAt
            <7>2. RowAt(x) \in Group(k)
              BY <3>4, <7>1
            <7>3. RowAt(x)[Arg] = Null
              BY <5>2, <7>1, <7>2 DEF Given
            <7>4. L[x] = Enc(Null)
              BY <1>3, <6>1, <7>1, <7>3
            <7> QED BY <5>2, <7>4, BitsStay
          <6>2. CASE ~(in[x].on /\ in[x].v = v)
            BY <5>2, <6>2
          <6> QED BY <6>1, <6>2
        <5> QED BY <5>1, <5>2
      <4> HIDE DEF L, Q, h, f, G
      <4>6. Spread(L, 1..p, Q, h, G, f)
        BY <4>1, <4>2, <4>3, <4>4, <4>5 DEF Spread
      <4> QED BY <1>1, <3>3, <4>6, TotalIsSum
    <3>6. PICK x \in 1..p : out[x].on /\ out[x].v = v
      BY <1>2, <1>5, <3>1 DEF Among
    <3>7. x \in 1..n /\ RowAt(x) \in ActiveRows /\ KeyCodes(Key(RowAt(x))) = v
      BY <1>0, <1>2, <1>7, <3>6, RowsAt
    <3>8. Key(RowAt(x)) = k
      BY <3>4, <3>7 DEF Group
    <3>9. R[x] = Enc(Aggregate("sum", Group(k)))
      <4>1. R[x] = Enc(JoinedBack("sum", RowAt(x)))
        BY <1>4, <3>6, <3>7
      <4>2. JoinedBack("sum", RowAt(x)) = Aggregate("sum", Group(k))
        BY <3>7, <3>8, JoinedBackIs
      <4> QED BY <4>1, <4>2
    <3>10. Total(R) = R[x]
      <4>1. DOMAIN R = 1..p /\ \A y \in 1..p : y # x => R[y] = 0
        BY <1>2, <1>5, <3>6 DEF NoRepeats
      <4>2. R[x] \in 0..(FieldSize - 1)
        <5> DEFINE s == SumOver(G, f)
        <5>1. R[x] = s % FieldSize /\ s \in Int
          BY <3>3, <3>9
        <5> HIDE DEF s, R
        <5> QED BY <5>1, BitsStay
      <4> HIDE DEF R
      <4> QED BY <1>1, <4>1, <4>2, TotalOfOne
    <3> QED BY <2>1, <3>3, <3>5, <3>9, <3>10
  <2> QED BY <2>2, <2>3
<1>9. SumClaim(c, Arg + j) = [left |-> in, of |-> of, right |-> out, sums |-> sums]
  BY DEF SumClaim, in, out, of, sums
<1> QED BY <1>8, <1>9 DEF SumHolds

-----------------------------------------------------------------------------
(* The extrema of groups.                                                  *)

\* The codes of integers that are less than the field apart are as far apart.
LEMMA CodesApart ==
  ASSUME NEW x \in Int, NEW y \in Int, x - y \in 0..(FieldSize - 1)
  PROVE  /\ ((x % FieldSize) - (y % FieldSize)) % FieldSize = x - y
         /\ (0 - (((y % FieldSize) - (x % FieldSize)) % FieldSize)) % FieldSize = x - y
<1> DEFINE F == FieldSize
           d == x - y
           r == x % F
           s == y % F
<1>1. F \in Nat /\ F > 1
  BY BitsStay
<1>2. d \in 0..(F - 1) /\ r \in 0..(F - 1) /\ s \in 0..(F - 1)
  BY <1>1
<1>3. d % F = d
  <2> HIDE DEF d, F
  <2> QED BY <1>1, <1>2
<1>4. r = (d + s) % F
  <2>1. x = d + y /\ d \in Int
    OBVIOUS
  <2> HIDE DEF d
  <2>2. (d + y) % FieldSize = ((d % FieldSize) + (y % FieldSize)) % FieldSize
    BY <2>1, RemainderAdds
  <2> QED BY <1>3, <2>1, <2>2
<1> HIDE DEF F, d, r, s
<1>5. r = IF d + s < F THEN d + s ELSE d + s - F
  BY <1>1, <1>2, <1>4
<1>6. r - s = d \/ (r - s = d - F /\ d # 0)
  BY <1>1, <1>2, <1>5
<1>7. (r - s) % F = d
  BY <1>1, <1>2, <1>6
<1>8. (s - r) % F = IF d = 0 THEN 0 ELSE F - d
  <2>1. s - r = -d \/ s - r = F - d
    BY <1>1, <1>2, <1>6
  <2> QED BY <1>1, <1>2, <1>6, <2>1
<1>9. (0 - ((s - r) % F)) % F = d
  BY <1>1, <1>2, <1>8
<1> QED BY <1>7, <1>9 DEF F, d, r, s

\* The values of a group's arguments have a least and a greatest.
ExtremeOf(f, k, v) ==
  /\ v \in Int /\ \E r \in Given(k) : r[Arg] = v
  /\ \A r \in Given(k) : r[Arg] \in Int /\ IF f = "max" THEN v >= r[Arg] ELSE v <= r[Arg]
LEMMA AggregateExtreme ==
  ASSUME NEW n, RowsOk(n), NEW f \in {"min", "max"}, NEW k, Given(k) # {}
  PROVE  ExtremeOf(f, k, Aggregate(f, Group(k)))
<1> DEFINE values == {r[Arg] : r \in Given(k)}
<1>1. \A r \in Given(k) : r[Arg] \in Int /\ Fits(r[Arg])
  <2> TAKE r \in Given(k)
  <2>1. r \in Range(query.rows) /\ r[Arg] # Null
    BY DEF Given, Group, ActiveRows
  <2>2. PICK i \in 1..n : r = query.rows[i]
    BY <2>1 DEF RowsOk, Range
  <2>3. r[Arg] \in Int \cup {Null} /\ Fits(r[Arg])
    BY <2>2 DEF RowsOk, Arg
  <2> QED BY <2>1, <2>3
<1>2. Over({})!Long \in Nat
  BY SignSizes
<1>3. (\E v \in values : \A w \in values : v <= w) /\ \E v \in values : \A w \in values : v >= w
  <2>1. values # {}
    OBVIOUS
  <2>2. \A v \in values : v \in Int /\ -Over({})!Long <= v /\ v <= Over({})!Long
    BY <1>1, <1>2, SortAssumption DEF Fits
  <2> HIDE DEF values
  <2> QED BY <1>2, <2>1, <2>2, Extremes
<1>4. Aggregate("min", Group(k)) = CHOOSE v \in values : \A w \in values : v <= w
  BY DEF Aggregate, Given
<1>5. Aggregate("max", Group(k)) = CHOOSE v \in values : \A w \in values : v >= w
  BY DEF Aggregate, Given
<1>6. CASE f = "min"
  <2> DEFINE v == Aggregate("min", Group(k))
  <2>1. v \in values /\ \A w \in values : v <= w
    BY <1>3, <1>4
  <2> HIDE DEF v
  <2>2. ExtremeOf("min", k, v)
    BY <1>1, <2>1 DEF ExtremeOf
  <2> QED BY <1>6, <2>2 DEF v
<1>7. CASE f = "max"
  <2> DEFINE v == Aggregate("max", Group(k))
  <2>1. v \in values /\ \A w \in values : v >= w
    BY <1>3, <1>5
  <2> HIDE DEF v
  <2>2. ExtremeOf("max", k, v)
    BY <1>1, <2>1 DEF ExtremeOf
  <2> QED BY <1>7, <2>2 DEF v
<1> QED BY <1>6, <1>7

\* The column of an extremum holds codes, in the rows added to it too.
LEMMA ExtremeColumn ==
  ASSUME NEW n, NEW a, Numbered(n, a), Planned, NEW c, c.output = EncodedColumns(output),
         NEW j \in 1..a, aggs[j] \in {"min", "max"}
  PROVE  Merged(c)[Arg + j] \in [1..PowerOfTwo(n) -> Code]
<1>0. RowsOk(n) /\ n \in Nat /\ query \in Queries /\ a \in Nat /\ Len(aggs) = a
      /\ DOMAIN aggs = 1..a /\ Arg + a <= MaxCols
  BY DEF Numbered, RowsOk
<1>1. /\ output.mat = Range(AggCols) \cup {Act}
      /\ \E i \in DOMAIN output.fields : output.fields[i] = RowId
      /\ Len(output.rows) = n /\ DOMAIN output.rows = 1..n
      /\ \A i \in 1..n : output.rows[i] = OutputRow(query.rows[i])
  BY OutputIs
<1>2. Arg + j \in output.mat /\ Arg + j \in 1..MaxCols
  BY <1>0, <1>1, ColumnNames, SortAssumption DEF Arg
<1>3. \A i \in 1..n : DOMAIN output.rows[i] = RowNames
                      /\ output.rows[i][RowId] = query.rows[i][RowId]
                      /\ output.rows[i][Arg + j] = JoinedBack(aggs[j], query.rows[i])
  BY <1>1, OutputRowIs
<1>4. ASSUME NEW row PROVE JoinedBack(aggs[j], row) \in Int \cup {Null}
  <2> DEFINE k == Key(row)
  <2>1. JoinedBack(aggs[j], row) \in {Null, Aggregate(aggs[j], Group(k))}
    BY DEF JoinedBack
  <2>2. Aggregate(aggs[j], Group(k)) \in Int \cup {Null}
    <3>1. CASE Given(k) = {}
      BY <3>1 DEF Aggregate, Given
    <3>2. CASE Given(k) # {}
      BY <1>0, <3>2, AggregateExtreme DEF ExtremeOf
    <3> QED BY <3>1, <3>2
  <2> QED BY <2>1, <2>2
<1>5. EncodedColumns(output)[Arg + j] \in [1..PowerOfTwo(n) -> Code]
  <2>1. \A i \in 1..n : output.rows[i][Arg + j] \in Int \cup {Null}
    BY <1>3, <1>4
  <2> QED BY <1>0, <1>1, <1>2, <1>3, <2>1, FrameCodes
<1>6. Merged(c)[Arg + j] = EncodedColumns(output)[Arg + j]
  <2>1. Arg + j \notin Range(query.keys)
    <3>1. \A i \in DOMAIN query.keys : query.keys[i] \in {1, 2}
      BY <1>0, KeysAre
    <3> QED BY <3>1 DEF Range, Arg
  <2>2. Arg + j \in DOMAIN c.output
    BY <1>2 DEF EncodedColumns
  <2> QED BY <2>1, <2>2 DEF Merged
<1> QED BY <1>5, <1>6

\* The assumptions on the argument: what a byte holds is even, as 2^8 is, a type
\* other than a decimal, and a table without an activator can be told from one with.
ArgNarrow ==
  /\ EvenByte /\ ArgType # "Decimal128"
  /\ \A m \in Nat : None \notin [1..m -> Code]

\* That no value lies beyond the extremum of its group.
SignOf(f) == IF f = "max" THEN "NonNegative" ELSE "NonPositive"
LEMMA ExtremesClaimed ==
  ASSUME ArgNarrow, NEW n, NEW a, Numbered(n, a), Planned, NoNullKeys,
         DifferencesFit, \A r \in ActiveRows : r[Arg] # Null,
         NEW c, c.output = EncodedColumns(output),
         NEW j \in 1..a, NEW f, f = aggs[j], f \in {"min", "max"}
  PROVE  /\ ListHolds(DOMAIN Input[Act], SignClaims(c, SignOf(f), Arg + j))
         /\ Over(DOMAIN Input[Act])!HonestSign(ArgType, SignOf(f), Margin(c, Arg + j), Input[Act])
<1> DEFINE p == PowerOfTwo(n)
           R == 1..p
           m == Merged(c)[Arg + j]
           x == Input[Arg]
           act == Input[Act]
           margin == Margin(c, Arg + j)
           data == Over(R)!Oriented(SignOf(f), margin)
<1>0. RowsOk(n) /\ n \in Nat
  BY DEF Numbered, RowsOk
<1>1. p \in Nat /\ n <= p
  BY <1>0, PaddedSize
<1>2. /\ x \in [R -> Code] /\ act \in [R -> {0, 1}] /\ DOMAIN act = R
      /\ \A i \in R : act[i] = 1 <=> i \in 1..n /\ RowAt(i)[Act] = 1
      /\ \A i \in 1..n : x[i] = Enc(RowAt(i)[Arg])
  BY InputColumns DEF RowAt
<1>3. m \in [R -> Code] /\ \A i \in 1..n : m[i] = Enc(JoinedBack(f, RowAt(i)))
  <2>1. m \in [R -> Code]
    BY ExtremeColumn
  <2>2. \A i \in 1..n : m[i] = Enc(JoinedBack(f, RowAt(i)))
    BY TableColumns DEF RowAt
  <2> QED BY <2>1, <2>2
<1>4. margin = [i \in R |-> (m[i] - x[i]) % FieldSize]
  BY <1>2 DEF Margin, Over!ColSub, Over!Sub
<1>5. FieldSize \in Nat /\ FieldSize > 1 /\ Null \notin Int
  BY BitsStay, SortAssumption
<1> HIDE DEF p, x, act, m, margin
<1>6. \A i \in R : m[i] - x[i] \in Int
  BY <1>2, <1>3, <1>5 DEF Code
<1>7. margin \in [R -> Code]
  BY <1>4, <1>5, <1>6 DEF Code
<1>8. data = IF f = "max" THEN margin ELSE [i \in R |-> (0 - margin[i]) % FieldSize]
  <2>1. CASE f = "max"
    BY <2>1 DEF SignOf, Over!Oriented
  <2>2. CASE f = "min"
    BY <2>2 DEF SignOf, Over!Oriented, Over!ColSub, Over!All, Over!Sub
  <2> QED BY <2>1, <2>2
<1> HIDE DEF data
<1>9. data \in [R -> Code]
  <2>1. CASE f = "max"
    BY <1>7, <1>8, <2>1
  <2>2. CASE f = "min"
    <3>1. \A i \in R : (0 - margin[i]) % FieldSize \in Code
      BY <1>5, <1>7 DEF Code
    <3> QED BY <1>8, <2>2, <3>1
  <2> QED BY <2>1, <2>2
<1>10. ASSUME NEW i \in R, act[i] = 1 PROVE data[i] \in 0..Most(R, ArgType)
  <2> DEFINE row == RowAt(i)
             k == Key(row)
             v == Aggregate(f, Group(k))
             w == row[Arg]
             d == IF f = "max" THEN v - w ELSE w - v
  <2>1. i \in 1..n /\ row \in ActiveRows
    BY <1>0, <1>2, <1>10, RowsAt
  <2>2. row \in Given(k)
    BY <2>1 DEF Given, Group
  <2>3. ExtremeOf(f, k, v)
    BY <1>0, <2>2, AggregateExtreme
  <2>4. v \in Int /\ w \in Int /\ d \in Int /\ d >= 0
    BY <2>2, <2>3 DEF ExtremeOf
  <2>5. PICK r \in Given(k) : r[Arg] = v
    BY <2>3 DEF ExtremeOf
  <2>6. m[i] = Enc(v) /\ x[i] = Enc(w)
    BY <1>2, <1>3, <2>1, JoinedBackIs
  <2>7. r \in ActiveRows
    BY <2>5 DEF Given, Group
  <2>8. v # Null /\ w # Null
    BY <1>5, <2>4
  <2> HIDE DEF v, w, k
  <2>9. m[i] = v % FieldSize /\ x[i] = w % FieldSize
    BY <2>6, <2>8 DEF Enc
  <2>10. Diff(ArgType, IF f = "max" THEN v ELSE w, IF f = "max" THEN w ELSE v) = d
    <3> DEFINE coded == {IF q[Arg] = Null THEN 0 ELSE q[Arg] : q \in ActiveRows}
    <3>1. v \in coded /\ w \in coded
      <4>1. v = IF r[Arg] = Null THEN 0 ELSE r[Arg]
        BY <2>5, <2>8
      <4>2. w = IF row[Arg] = Null THEN 0 ELSE row[Arg]
        BY <2>8 DEF w
      <4> QED BY <2>1, <2>7, <4>1, <4>2
    <3>2. \A s, t \in coded : s >= t => Diff(ArgType, s, t) = s - t
      BY DEF DifferencesFit
    <3> HIDE DEF coded
    <3>3. CASE f = "max"
      BY <2>4, <3>1, <3>2, <3>3
    <3>4. CASE f = "min"
      BY <2>4, <3>1, <3>2, <3>4
    <3> QED BY <3>3, <3>4
  <2>11. d \in 0..Most({}, ArgType)
    <3> DEFINE u == IF f = "max" THEN v ELSE w
               z == IF f = "max" THEN w ELSE v
    <3>1. u \in Int /\ z \in Int /\ u - z = d /\ u - z >= 0 /\ Diff(ArgType, u, z) = u - z
      BY <2>4, <2>10
    <3> HIDE DEF u, z, d
    <3>2. u - z \in 0..Most({}, ArgType)
      BY <3>1, DiffValue, QueryAssumption DEF ArgNarrow
    <3> QED BY <3>1, <3>2
  <2>12. d \in 0..(FieldSize - 1) /\ d \in 0..Most(R, ArgType)
    <3>1. Most({}, ArgType) \in Nat /\ Most({}, ArgType) < Over({})!Long
      BY TypeSizes, QueryAssumption DEF ArgNarrow
    <3>2. Over({})!Long \in Nat /\ FieldSize > 4 * Over({})!Long
      BY SignSizes
    <3>3. Most(R, ArgType) = Most({}, ArgType)
      BY SameTypes
    <3> HIDE DEF d, R
    <3> QED BY <1>5, <2>11, <3>1, <3>2, <3>3
  <2>13. data[i] = d
    <3>1. margin[i] = ((v % FieldSize) - (w % FieldSize)) % FieldSize
      BY <1>4, <2>9
    <3>2. CASE f = "max"
      <4>1. v - w \in 0..(FieldSize - 1)
        BY <2>12, <3>2
      <4>2. data[i] = ((v % FieldSize) - (w % FieldSize)) % FieldSize
        BY <1>8, <3>1, <3>2
      <4> QED BY <2>4, <3>2, <4>1, <4>2, CodesApart
    <3>3. CASE f = "min"
      <4>1. w - v \in 0..(FieldSize - 1)
        BY <2>12, <3>3
      <4>2. data[i] = (0 - (((v % FieldSize) - (w % FieldSize)) % FieldSize)) % FieldSize
        BY <1>8, <3>1, <3>3
      <4> QED BY <2>4, <3>3, <4>1, <4>2, CodesApart
    <3> QED BY <3>2, <3>3
  <2> QED BY <2>12, <2>13
<1>11. act # None /\ data \in Over(R)!Column /\ ArgType \in Over(R)!Type /\ ArgType # "Decimal128"
  <2>1. act \in [1..p -> Code]
    BY <1>2, <1>5 DEF Code
  <2>2. Over(R)!Column = [R -> Code] /\ ArgType \in Over(R)!Type
    BY SameTypes, QueryAssumption DEF Over!Field, Code
  <2> QED BY <1>1, <1>9, <2>1, <2>2 DEF ArgNarrow
<1>12. ListHolds(R, Over(R)!RangeClaims(ArgType, data, act, Over(R)!ChunkColumns(ArgType, data, act)))
  <2> HIDE DEF R
  <2> QED BY <1>2, <1>10, <1>11, RangeHolds DEF ArgNarrow
<1>13. Over(R)!HonestSign(ArgType, SignOf(f), margin, act)
  <2>1. ~Over(R)!Strict(SignOf(f))
    BY DEF SignOf, Over!Strict
  <2>2. ASSUME NEW i \in R, act[i] # 0
        PROVE  Over(R)!SignedFromEncoding(data[i], Over(R)!Bytes[ArgType]) >= 0
    <3>1. act[i] = 1
      BY <1>2, <2>2
    <3>2. data[i] \in 0..Most(R, ArgType)
      BY <1>10, <3>1
    <3>3. Over(R)!SignedFromEncoding(data[i], Over(R)!Bytes[ArgType]) = data[i]
      BY <1>11, <3>2, ReadAgain
    <3> QED BY <3>2, <3>3
  <2> QED BY <1>11, <2>1, <2>2 DEF Over!HonestSign, data
<1>14. DOMAIN Input[Act] = R
  BY <1>2 DEF act
<1> QED BY <1>12, <1>13, <1>14 DEF SignClaims, act, data, margin

-----------------------------------------------------------------------------
(* Every claim.                                                            *)

\* A list of n claims that hold.
AllHeld(R, list, n) ==
  n \in Nat /\ list = [q \in 1..n |-> list[q]] /\ \A q \in 1..n : Over(R)!Holds(list[q])

\* Claims of a sign are a list of them.
LEMMA RangeList ==
  ASSUME NEW R, NEW t \in Over(R)!Type, t # "Decimal128", NEW col, NEW act, NEW ch,
         ListHolds(R, Over(R)!RangeClaims(t, col, act, ch))
  PROVE  \E n : AllHeld(R, Over(R)!RangeClaims(t, col, act, ch), n)
<1> DEFINE list == Over(R)!RangeClaims(t, col, act, ch)
<1>1. Over(R)!ChunkCount(t) \in {0, 4}
  BY DEF Over!ChunkCount, Over!Bytes, Over!Type
<1>2. ASSUME NEW S, list \in Seq(S) PROVE \E n : AllHeld(R, list, n)
  <2> HIDE DEF list
  <2>1. Len(list) \in Nat /\ list = [q \in 1..Len(list) |-> list[q]] /\ DOMAIN list = 1..Len(list)
    BY <1>2
  <2>2. \A q \in DOMAIN list : Over(R)!Holds(list[q])
    BY DEF ListHolds, list
  <2> QED BY <2>1, <2>2 DEF AllHeld
<1>3. CASE Over(R)!ChunkCount(t) = 0
  <2> DEFINE x == Over(R)!Lookup(Over(R)!WholeSize(t), Over(R)!Masked(col, act))
  <2>1. list = <<x>>
    BY <1>3 DEF Over!RangeClaims
  <2> HIDE DEF x, list
  <2>2. list \in Seq({x})
    BY <2>1
  <2> QED BY <1>2, <2>2 DEF list
<1>4. CASE Over(R)!ChunkCount(t) = 4
  <2> DEFINE sum == [i \in R |-> Over(R)!RecomposeAt(ch, i)]
             size(k) == IF k = 1 THEN Over(R)!TopSize(t) ELSE Over(R)!Chunk
             z == Over(R)!Zero(Over(R)!ColSub(Over(R)!Masked(col, act), sum))
             looks == [k \in 1..4 |-> Over(R)!Lookup(size(k), Over(R)!Masked(ch[k], act))]
             S == {looks[k] : k \in 1..4} \cup {z}
  <2>1. list = <<z>> \o looks
    BY <1>4 DEF Over!RangeClaims
  <2>2. z \in S /\ looks \in [1..4 -> S]
    OBVIOUS
  <2> HIDE DEF z, looks, S, list
  <2>3. looks \in Seq(S) /\ <<z>> \in Seq(S)
    <3>1. <<z>> \in Seq(S)
      BY <2>2
    <3> QED BY <2>2, <3>1, ListOf
  <2> DEFINE u == <<z>>
  <2>4. u \in Seq(S) /\ list = u \o looks
    BY <2>1, <2>3
  <2> HIDE DEF u
  <2>5. list \in Seq(S)
    BY <2>3, <2>4, ConcatProperties
  <2> QED BY <1>2, <2>5 DEF list
<1> QED BY <1>1, <1>3, <1>4

\* Lists of claims that hold, one after the other.
LEMMA FlatHolds ==
  ASSUME NEW R, NEW m \in Nat, NEW n \in Nat, NEW a, NEW b,
         a = [k \in 1..m |-> a[k]], b = [k \in 1..n |-> b[k]],
         \A k \in 1..m : \E q : AllHeld(R, a[k], q), \A k \in 1..n : \E q : AllHeld(R, b[k], q)
  PROVE  ListHolds(R, FlattenSeq(a \o b))
<1> DEFINE M(l) == {l[q] : q \in DOMAIN l}
           all == (UNION {M(a[k]) : k \in 1..m}) \cup (UNION {M(b[k]) : k \in 1..n})
           S == {x \in all : Over(R)!Holds(x)}
<1>1. ASSUME NEW list, NEW q, AllHeld(R, list, q), \A i \in DOMAIN list : list[i] \in all
      PROVE  list \in Seq(S)
  <2>1. q \in Nat /\ list \in [1..q -> S]
    <3>1. q \in Nat /\ list = [i \in 1..q |-> list[i]] /\ \A i \in 1..q : Over(R)!Holds(list[i])
      BY <1>1 DEF AllHeld
    <3>2. DOMAIN list = 1..q
      BY <3>1
    <3> HIDE DEF all
    <3>3. \A i \in 1..q : list[i] \in S
      BY <1>1, <3>1, <3>2
    <3> HIDE DEF S
    <3> QED BY <3>1, <3>3
  <2> HIDE DEF S
  <2> QED BY <2>1, ListOf
<1>2. \A k \in 1..m : a[k] \in Seq(S)
  <2> TAKE k \in 1..m
  <2>1. \A i \in DOMAIN a[k] : a[k][i] \in all
    <3>1. M(a[k]) \subseteq all
      <4> HIDE DEF M
      <4> QED OBVIOUS
    <3>2. \A i \in DOMAIN a[k] : a[k][i] \in M(a[k])
      OBVIOUS
    <3> HIDE DEF M, all
    <3> QED BY <3>1, <3>2
  <2> HIDE DEF all, S
  <2> QED BY <1>1, <2>1
<1>3. \A k \in 1..n : b[k] \in Seq(S)
  <2> TAKE k \in 1..n
  <2>1. \A i \in DOMAIN b[k] : b[k][i] \in all
    <3>1. M(b[k]) \subseteq all
      <4> HIDE DEF M
      <4> QED OBVIOUS
    <3>2. \A i \in DOMAIN b[k] : b[k][i] \in M(b[k])
      OBVIOUS
    <3> HIDE DEF M, all
    <3> QED BY <3>1, <3>2
  <2> HIDE DEF all, S
  <2> QED BY <1>1, <2>1
<1>4. \A x \in S : Over(R)!Holds(x)
  <2> HIDE DEF all
  <2> QED OBVIOUS
<1> HIDE DEF all, S
<1>5. a \in Seq(Seq(S)) /\ b \in Seq(Seq(S))
  <2>1. a \in [1..m -> Seq(S)] /\ b \in [1..n -> Seq(S)]
    BY <1>2, <1>3
  <2> QED BY <2>1, ListOf
<1> DEFINE lists == a \o b
<1>6. lists \in Seq(Seq(S))
  BY <1>5, ConcatProperties
<1> HIDE DEF lists
<1>7. FlattenSeq(lists) \in Seq(S)
  <2>1. Len(lists) \in Nat
    BY <1>6
  <2>2. \E at : Flat(FlattenSeq(lists), S, lists, Len(lists), at)
    BY <1>6, <2>1, Flattened
  <2> QED BY <2>2 DEF Flat
<1> DEFINE f == FlattenSeq(lists)
<1> HIDE DEF f
<1>8. f \in Seq(S)
  BY <1>7 DEF f
<1>9. \A k \in DOMAIN f : f[k] \in S
  BY <1>8
<1> QED BY <1>4, <1>9 DEF ListHolds, f, lists

\* The columns of a function's aggregates.
IsWhere(f, a, m) ==
  /\ m \in Nat /\ DOMAIN Where(f) = 1..m
  /\ \A i \in 1..m : \E j \in 1..a : aggs[j] = f /\ Where(f)[i] = Arg + j
LEMMA WhereIs ==
  ASSUME NEW a \in Nat, Len(aggs) = a, DOMAIN aggs = 1..a, NEW f
  PROVE  \E m : IsWhere(f, a, m)
<1> DEFINE keep == {AggCol(j) : j \in {i \in DOMAIN aggs : aggs[i] = f}}
<1>1. AggCols = [j \in 1..a |-> Arg + j]
  BY ColumnNames DEF ColumnsOf
<1>2. keep = {Arg + j : j \in {i \in 1..a : aggs[i] = f}}
  BY DEF AggCol
<1>3. Where(f) = Kept(AggCols, keep)
  BY DEF Where
<1> HIDE DEF keep
<1>4. DOMAIN AggCols = 1..a
  BY <1>1
<1>5. PICK e, m : Keeps(AggCols, a, keep, e, m)
  BY <1>4, KeptMembers
<1>6. /\ m \in Nat /\ e \in [1..m -> 1..a]
      /\ \A i \in 1..a : AggCols[i] \in keep <=> \E k \in 1..m : e[k] = i
      /\ DOMAIN Where(f) = 1..m
      /\ \A k \in 1..m : Where(f)[k] = AggCols[e[k]]
  BY <1>3, <1>5 DEF Keeps
<1>7. \A i \in 1..m : \E j \in 1..a : aggs[j] = f /\ Where(f)[i] = Arg + j
  <2> TAKE i \in 1..m
  <2>1. e[i] \in 1..a /\ AggCols[e[i]] \in keep
    BY <1>6
  <2>2. PICK j \in 1..a : aggs[j] = f /\ AggCols[e[i]] = Arg + j
    BY <1>2, <2>1
  <2> QED BY <1>6, <2>2
<1>8. IsWhere(f, a, m)
  BY <1>6, <1>7 DEF IsWhere
<1> QED BY <1>8

\* What is asked of an aggregate of extrema.
Narrow(a) ==
  (\E j \in 1..a : aggs[j] \in {"min", "max"}) =>
    DifferencesFit /\ \A r \in ActiveRows : r[Arg] # Null
SignsOf(f, c) ==
  \A i \in Range(Where(f)) :
    Over(DOMAIN Input[Act])!HonestSign(ArgType, SignOf(f), Margin(c, i), Input[Act])

\* The claims of all of a function's extrema.
LEMMA ExtremaClaimed ==
  ASSUME ArgNarrow, NEW n, NEW a, Numbered(n, a), Planned, NoNullKeys, Narrow(a),
         NEW c, c.output = EncodedColumns(output), NEW f \in {"min", "max"},
         NEW m, IsWhere(f, a, m)
  PROVE  /\ \A i \in 1..m :
              \E q : AllHeld(DOMAIN Input[Act], SignClaims(c, SignOf(f), Where(f)[i]), q)
         /\ SignsOf(f, c)
<1> DEFINE R == DOMAIN Input[Act]
<1>1. ASSUME NEW i \in 1..m
      PROVE  /\ \E q : AllHeld(R, SignClaims(c, SignOf(f), Where(f)[i]), q)
             /\ Over(R)!HonestSign(ArgType, SignOf(f), Margin(c, Where(f)[i]), Input[Act])
  <2>1. PICK j \in 1..a : aggs[j] = f /\ Where(f)[i] = Arg + j
    BY DEF IsWhere
  <2>2. DifferencesFit /\ \A r \in ActiveRows : r[Arg] # Null
    BY <2>1 DEF Narrow
  <2>3. /\ ListHolds(R, SignClaims(c, SignOf(f), Arg + j))
        /\ Over(R)!HonestSign(ArgType, SignOf(f), Margin(c, Arg + j), Input[Act])
    BY <2>1, <2>2, ExtremesClaimed
  <2>4. ArgType \in Over(R)!Type /\ ArgType # "Decimal128"
    BY SameTypes, QueryAssumption DEF ArgNarrow
  <2>5. \E q : AllHeld(R, SignClaims(c, SignOf(f), Arg + j), q)
    BY <2>3, <2>4, RangeList DEF SignClaims
  <2> QED BY <2>1, <2>3, <2>5
<1> HIDE DEF R
<1>2. ASSUME NEW k \in Range(Where(f))
      PROVE  Over(R)!HonestSign(ArgType, SignOf(f), Margin(c, k), Input[Act])
  <2>1. PICK i \in 1..m : k = Where(f)[i]
    BY DEF IsWhere, Range
  <2> QED BY <1>1, <2>1
<1> QED BY <1>1, <1>2 DEF SignsOf, R

\* Whatever is claimed of an aggregate holds, and the prover's checks find so.
LEMMA AggregateHolds ==
  ASSUME ArgNarrow, NEW n, NEW a, Numbered(n, a), Planned, NoNullKeys, Narrow(a),
         NEW c, c.output = EncodedColumns(output),
         HasGroups => c.mult = <<Multiplicities(InputKeys, OutputKeys(c))>>
  PROVE  HonestCheck(c) /\ AllHold(AggregateClaims(c))
<1> DEFINE R == DOMAIN Input[Act]
           out == OutputKeys(c)
           mult == Multiplicities(InputKeys, out)
           lookup == LookupClaim(InputKeys, out, mult)
           bool == Merged(c)[Act]
           sums == Where("sum")
           maxima == Where("max")
           minima == Where("min")
           max == [i \in DOMAIN maxima |-> MaxClaims(c, maxima[i])]
           min == [i \in DOMAIN minima |-> MinClaims(c, minima[i])]
           sum == [i \in DOMAIN sums |-> SumClaim(c, sums[i])]
           sign == FlattenSeq(max \o min)
           claim == AggregateClaims(c)
<1>0. a \in Nat /\ Len(aggs) = a /\ DOMAIN aggs = 1..a
  BY DEF Numbered
<1>1. Among(InputKeys, out) /\ NoRepeats(out) /\ LookupHolds(lookup) /\ Range(bool) \subseteq {0, 1}
  BY GroupsClaimed
<1>2. /\ claim.nodup = IF HasGroups THEN <<out>> ELSE <<>>
      /\ claim.lookup = IF HasGroups THEN <<LookupClaim(InputKeys, out, c.mult[1])>> ELSE <<>>
      /\ claim.bool = IF HasGroups THEN <<bool>> ELSE <<>>
      /\ claim.sum = sum /\ claim.sign = sign
  BY DEF AggregateClaims
<1>3. HasGroups => c.mult[1] = mult
  BY DEF mult, out
<1>4. PICK m : IsWhere("max", a, m)
  BY <1>0, WhereIs
<1>5. PICK k : IsWhere("min", a, k)
  BY <1>0, WhereIs
<1>6. SignOf("max") = "NonNegative" /\ SignOf("min") = "NonPositive"
  BY DEF SignOf
<1>7. /\ SignsOf("max", c)
      /\ m \in Nat /\ max = [i \in 1..m |-> max[i]] /\ \A i \in 1..m : \E q : AllHeld(R, max[i], q)
  <2>1. /\ \A i \in 1..m : \E q : AllHeld(R, SignClaims(c, SignOf("max"), maxima[i]), q)
        /\ SignsOf("max", c)
    BY <1>4, ExtremaClaimed
  <2>2. m \in Nat /\ DOMAIN maxima = 1..m
    BY <1>4 DEF IsWhere
  <2>3. \A i \in 1..m : max[i] = SignClaims(c, SignOf("max"), maxima[i])
    BY <1>6, <2>2 DEF MaxClaims
  <2>4. max = [i \in 1..m |-> max[i]]
    BY <2>2
  <2> HIDE DEF max
  <2> QED BY <2>1, <2>2, <2>3, <2>4
<1>8. /\ SignsOf("min", c)
      /\ k \in Nat /\ min = [i \in 1..k |-> min[i]] /\ \A i \in 1..k : \E q : AllHeld(R, min[i], q)
  <2>1. /\ \A i \in 1..k : \E q : AllHeld(R, SignClaims(c, SignOf("min"), minima[i]), q)
        /\ SignsOf("min", c)
    BY <1>5, ExtremaClaimed
  <2>2. k \in Nat /\ DOMAIN minima = 1..k
    BY <1>5 DEF IsWhere
  <2>3. \A i \in 1..k : min[i] = SignClaims(c, SignOf("min"), minima[i])
    BY <1>6, <2>2 DEF MinClaims
  <2>4. min = [i \in 1..k |-> min[i]]
    BY <2>2
  <2> HIDE DEF min
  <2> QED BY <2>1, <2>2, <2>3, <2>4
<1>9. ListHolds(R, sign)
  <2> HIDE DEF max, min, R
  <2> QED BY <1>7, <1>8, FlatHolds
<1>10. ASSUME NEW i \in DOMAIN sum PROVE SumHolds(sum[i])
  <2>1. PICK l : IsWhere("sum", a, l)
    BY <1>0, WhereIs
  <2>2. i \in DOMAIN sums /\ i \in 1..l /\ sum[i] = SumClaim(c, sums[i])
    BY <2>1 DEF IsWhere
  <2>3. PICK j \in 1..a : aggs[j] = "sum" /\ sums[i] = Arg + j
    BY <2>1, <2>2 DEF IsWhere
  <2>4. SumHolds(SumClaim(c, Arg + j))
    BY <2>3, SumsClaimed
  <2> QED BY <2>2, <2>3, <2>4
<1>11. \A x : DOMAIN <<x>> = {1} /\ <<x>>[1] = x
  OBVIOUS
<1> HIDE DEF out, mult, lookup, bool, sums, maxima, minima, max, min, sum, sign, claim
<1>12. AllHold(claim)
  <2>1. \A i \in DOMAIN claim.nodup : NoRepeats(claim.nodup[i])
    BY <1>1, <1>2, <1>11
  <2>2. \A i \in DOMAIN claim.lookup : LookupHolds(claim.lookup[i])
    BY <1>1, <1>2, <1>3, <1>11 DEF lookup
  <2>3. \A i \in DOMAIN claim.bool : Range(claim.bool[i]) \subseteq {0, 1}
    BY <1>1, <1>2, <1>11
  <2>4. \A i \in DOMAIN claim.sum : SumHolds(claim.sum[i])
    BY <1>2, <1>10
  <2>5. \A i \in DOMAIN claim.sign : Over(DOMAIN Input[Act])!Holds(claim.sign[i])
    BY <1>2, <1>9 DEF ListHolds
  <2> QED BY <2>1, <2>2, <2>3, <2>4, <2>5 DEF AllHold
<1>13. HonestCheck(c)
  BY <1>1, <1>6, <1>7, <1>8 DEF HonestCheck, SignsOf, out, bool
<1> QED BY <1>12, <1>13 DEF claim

\* What the aggregates are that the theorem is about.
Asked == query.shape = "columns" /\ query.numbered /\ NoNullKeys /\ ExtremaExpressible

LEMMA SameAsked ==
  ASSUME query' = query, aggs' = aggs
  PROVE  /\ Asked' <=> Asked
         /\ HasGroups' <=> HasGroups
         /\ Input' = Input /\ InputKeys' = InputKeys
         /\ \A c : OutputKeys(c)' = OutputKeys(c)
<1>1. \A row : Key(row)' = Key(row)
  BY DEF Key
<1>2. ActiveRows' = ActiveRows
  BY DEF ActiveRows
<1>3. NoNullKeys' <=> NoNullKeys
  BY <1>1, <1>2 DEF NoNullKeys
<1>4. DifferencesFit' <=> DifferencesFit
  BY <1>2 DEF DifferencesFit
<1>5. ExtremaExpressible' <=> ExtremaExpressible
  BY <1>2, <1>4 DEF ExtremaExpressible
<1>6. Asked' <=> Asked
  BY <1>3, <1>5 DEF Asked
<1>7. HasGroups' <=> HasGroups
  BY DEF HasGroups
<1>8. Input' = Input
  BY DEF Input, InputFields
<1>9. \A c : Merged(c)' = Merged(c)
  BY <1>8 DEF Merged
<1>10. InputKeys' = InputKeys /\ \A c : OutputKeys(c)' = OutputKeys(c)
  BY <1>8, <1>9 DEF InputKeys, OutputKeys, Groups
<1> QED BY <1>6, <1>7, <1>8, <1>10

\* The aggregate that is asked is asked of its functions.
LEMMA AskedIsNarrow ==
  ASSUME query \in Queries, aggs = AddAvgSupport(query.aggs), Asked
  PROVE  \E n, a : Numbered(n, a) /\ Narrow(a)
<1> DEFINE n == Len(query.rows)
           a == Len(aggs)
           S == Range(query.aggs) \cup {"sum", "count"}
<1>1. query.aggs \in Seq(Funs) /\ MaxCols >= Arg + 3 * Len(query.aggs)
  BY QueryAssumption
<1>2. aggs \in Seq(Funs) /\ Len(aggs) <= 3 * Len(query.aggs)
  BY <1>1, SupportList DEF Funs
<1>3. a \in Nat /\ DOMAIN aggs = 1..a /\ Len(query.aggs) \in Nat
  BY <1>1, <1>2
<1>4. Arg + a <= MaxCols
  BY <1>1, <1>2, <1>3, SortAssumption DEF Arg
<1>5. Numbered(n, a)
  BY <1>3, <1>4, InputRows DEF Asked, Numbered
<1>6. aggs \in Seq(S)
  <2>1. query.aggs \in Seq(S)
    <3>1. query.aggs \in [1..Len(query.aggs) -> S]
      BY <1>1 DEF Range
    <3> HIDE DEF S
    <3> QED BY <1>3, <3>1, ListOf
  <2>2. "sum" \in S /\ "count" \in S
    OBVIOUS
  <2> HIDE DEF S
  <2> QED BY <2>1, <2>2, SupportList
<1>7. Narrow(a)
  <2> SUFFICES ASSUME NEW j \in 1..a, aggs[j] \in {"min", "max"}
               PROVE  DifferencesFit /\ \A r \in ActiveRows : r[Arg] # Null
    BY DEF Narrow
  <2>1. aggs[j] \in S
    <3> HIDE DEF S
    <3> QED BY <1>3, <1>6
  <2>2. aggs[j] \in Range(query.aggs) \cap {"min", "max"}
    BY <2>1
  <2> QED BY <2>2 DEF Asked, ExtremaExpressible
<1> QED BY <1>5, <1>7

\* What the lookup's columns count.
CountPart ==
  pc \in {"check", "prove", "sent"} /\ HasGroups =>
    tabs.mult = <<Multiplicities(InputKeys, OutputKeys(tabs))>>

LEMMA CountsHold == Spec => []CountPart
<1>1. Init => CountPart
  BY DEF Init, CountPart
<1>2. AggregateInv /\ CountPart /\ [Next]_vars => CountPart'
  <2> SUFFICES ASSUME AggregateInv, CountPart, [Next]_vars, pc' \in {"check", "prove", "sent"}, HasGroups'
               PROVE  tabs'.mult = <<Multiplicities(InputKeys, OutputKeys(tabs))>>'
    BY DEF CountPart
  <2>1. CASE InitGadgets
    <3> DEFINE counts == Multiplicities(InputKeys, OutputKeys(tabs))
    <3>1. query' = query /\ aggs' = aggs
          /\ tabs' = [tabs EXCEPT !.mult = IF HasGroups THEN <<counts>> ELSE <<>>]
      BY <2>1 DEF InitGadgets
    <3>2. HasGroups /\ InputKeys' = InputKeys /\ \A c : OutputKeys(c)' = OutputKeys(c)
      BY <3>1, SameAsked
    <3>3. tabs'.output = tabs.output /\ tabs'.mult = IF HasGroups THEN <<counts>> ELSE <<>>
      BY <2>1, <3>1 DEF AggregateInv, TablePart, InitGadgets
    <3>4. OutputKeys(tabs)' = OutputKeys(tabs)
      <4>1. Input' = Input
        BY <3>1, SameAsked
      <4>2. Merged(tabs)' = Merged(tabs)
        BY <3>1, <3>3, <4>1 DEF Merged
      <4> QED BY <3>1, <4>2 DEF OutputKeys, Groups
    <3> QED BY <3>2, <3>3, <3>4
  <2>2. CASE ~InitGadgets
    <3>1. pc \in {"check", "prove", "sent"} /\ query' = query /\ aggs' = aggs /\ tabs' = tabs
      BY <2>2 DEF Next, Rewrite, Plan, Commit, Check, Prove, VTrack, VClaim, Stop, vars, pvars, vvars
    <3>2. HasGroups /\ InputKeys' = InputKeys /\ \A c : OutputKeys(c)' = OutputKeys(c)
      BY <3>1, SameAsked
    <3> QED BY <3>1, <3>2 DEF CountPart
  <2> QED BY <2>1, <2>2
<1> QED BY <1>1, <1>2, InvHolds, PTL DEF Spec

\* An aggregate that is asked is proved.
LEMMA AskedIsProved ==
  ASSUME ArgNarrow, AggregateInv, CountPart, Asked, pc \in {"check", "prove", "sent"}
  PROVE  HonestCheck(tabs) /\ AllHold(AggregateClaims(tabs))
<1>1. query \in Queries /\ aggs = AddAvgSupport(query.aggs) /\ Planned
  BY DEF AggregateInv, PlanPart
<1>2. tabs.output = EncodedColumns(output)
  BY DEF AggregateInv, TablePart
<1>3. HasGroups => tabs.mult = <<Multiplicities(InputKeys, OutputKeys(tabs))>>
  BY DEF CountPart
<1>4. PICK n, a : Numbered(n, a) /\ Narrow(a)
  BY <1>1, AskedIsNarrow
<1> QED BY <1>1, <1>2, <1>3, <1>4, AggregateHolds DEF Asked

\* Every aggregate the gadgets can express is proved, of tables of any length:
\* the planner and the prover's own checks do not stop it, and what the verifier
\* checks is true: that each group is there once, that each of its sums is the
\* sum of its rows, and that no value lies beyond its extrema.
THEOREM AggregateProvable ==
  ASSUME ArgNarrow PROVE Spec => []AggregateIsProvable
<1> DEFINE Goes == Asked => pc \notin {"panic", "error"}
<1>1. Init => Goes
  BY DEF Init, Goes
<1>2. AggregateInv /\ CountPart /\ Goes /\ [Next]_vars => Goes'
  <2> SUFFICES ASSUME AggregateInv, CountPart, Goes, [Next]_vars PROVE Goes'
    OBVIOUS
  <2>1. CASE Rewrite
    BY <2>1 DEF Rewrite
  <2>2. CASE ~Rewrite
    <3>1. query' = query /\ aggs' = aggs
      BY <2>2 DEF Next, Plan, Commit, InitGadgets, Check, Prove, VTrack, VClaim, Stop,
                  vars, pvars, vvars
    <3>2. Asked' <=> Asked
      BY <3>1, SameAsked
    <3>3. ASSUME Asked, Check PROVE pc' \notin {"panic", "error"}
      <4>1. HonestCheck(tabs)
        BY <3>3, AskedIsProved DEF Check
      <4> QED BY <3>3, <4>1 DEF Check
    <3>4. ASSUME Asked, Plan PROVE pc' \notin {"panic", "error"}
      BY <3>4 DEF Plan, Asked
    <3>5. ASSUME Asked, ~Check, ~Plan PROVE pc' \notin {"panic", "error"}
      BY <2>2, <3>5 DEF Next, Commit, InitGadgets, Prove, VTrack, VClaim, Stop,
                        vars, pvars, vvars, Goes
    <3> QED BY <3>2, <3>3, <3>4, <3>5
  <2> QED BY <2>1, <2>2
<1>3. AggregateInv /\ CountPart /\ Goes => AggregateIsProvable
  <2> SUFFICES ASSUME AggregateInv, CountPart, Goes, Asked
               PROVE  pc \notin {"panic", "error"} /\ (vpc = "done" => AllHold(vclaims))
    BY DEF AggregateIsProvable, Asked
  <2>1. ASSUME vpc = "done" PROVE AllHold(vclaims)
    <3>1. pc = "sent" /\ vclaims = AggregateClaims(tabs)
      BY <2>1 DEF AggregateInv, VerifierPart
    <3> QED BY <3>1, AskedIsProved
  <2> QED BY <2>1 DEF Goes
<1> HIDE DEF Goes
<1> QED BY <1>1, <1>2, <1>3, InvHolds, CountsHold, PTL DEF Spec
=============================================================================
