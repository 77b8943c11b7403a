-------------------------- MODULE Comparison_proofs --------------------------
(***************************************************************************)
(* Why the claims of a comparison are enough: for every field without zero *)
(* divisors that is wider than four 64-bit words, every column length, and *)
(* every type but the decimals.                                            *)
(***************************************************************************)
EXTENDS Comparison, SequenceTheorems, TLAPS

\* The field is an integral domain, as every prime field is.
NoZeroDivisors == \A a, b \in Field : Mul(a, b) = 0 => a = 0 \/ b = 0

-----------------------------------------------------------------------------
(***************************************************************************)
(* Field arithmetic.                                                       *)
(***************************************************************************)
\* The sizes grow, and the field is larger than all of them.
LEMMA Sizes ==
  /\ Byte \in Nat /\ Chunk \in Nat /\ Word \in Nat /\ Long \in Nat
  /\ 1 < Byte /\ Byte <= Chunk /\ Chunk <= Word /\ Word <= Long
  /\ Chunk * Chunk = Word /\ (Chunk * Chunk) * Chunk <= Long
  /\ ((Chunk * Chunk) * Chunk) * Chunk = Long
  /\ FieldSize \in Nat /\ FieldSize > 4 * Long
<1> DEFINE B == Byte
<1>1. B \in Nat /\ B > 1 /\ FieldSize \in Nat /\ FieldSize > 4 * Long
  BY FieldAssumption
<1>2. Chunk \in Nat /\ B <= Chunk /\ Chunk > 1
  BY <1>1 DEF Chunk
<1> DEFINE C == Chunk
<1>3. C \in Nat /\ C > 1
  BY <1>2
<1>4. Word = C * C /\ Long = (C * C) * (C * C)
  BY DEF Word, Long
<1> HIDE DEF C
<1>5. C * C \in Nat /\ C <= C * C
  BY <1>3
<1>6. (C * C) * C \in Nat /\ C * C <= (C * C) * C
  BY <1>3, <1>5
<1>7. ((C * C) * C) * C = (C * C) * (C * C)
  BY <1>3
<1>8. (C * C) * C <= ((C * C) * C) * C /\ ((C * C) * C) * C \in Nat
  BY <1>3, <1>6
<1>9. C * C <= Long /\ Long \in Nat
  BY <1>4, <1>6, <1>7, <1>8
<1> QED
  BY <1>1, <1>2, <1>4, <1>5, <1>6, <1>7, <1>8, <1>9 DEF C

\* Sums, differences and products are field elements.
LEMMA FieldClosed ==
  /\ \A a, b \in Int : Add(a, b) \in Field /\ Sub(a, b) \in Field
  /\ \A a, b \in Field : Near(a) \in Int /\ Mul(a, b) \in Field
<1>1. \A a, b \in Int : Add(a, b) \in Field /\ Sub(a, b) \in Field
  BY Sizes DEF Add, Sub, Field
<1>2. \A a \in Field : Near(a) \in Int
  BY Sizes, <1>1 DEF Near, Field
<1>3. \A a, b \in Int : (a * b) % FieldSize \in Field
  BY Sizes DEF Field
<1> QED
  BY <1>1, <1>2, <1>3 DEF Mul

\* So are those of whole columns.
LEMMA ColumnsClosed ==
  /\ 0 \in Field /\ 1 \in Field /\ All(0) \in Column /\ All(1) \in Column
  /\ \A a, b \in Field : Sub(a, b) \in Field
  /\ \A a, b \in Column : ColSub(a, b) \in Column /\ ColMul(a, b) \in Column
<1>1. 0 \in Field /\ 1 \in Field
  BY Sizes DEF Field
<1>2. \A a, b \in Field : Sub(a, b) \in Field /\ Mul(a, b) \in Field
  BY FieldClosed DEF Field
<1> QED
  BY <1>1, <1>2 DEF All, ColSub, ColMul, Column

\* Small elements are their own nearest representatives, and so are the
\* differences of small integers.
LEMMA NearGap == \A x \in 0..(2 * Long) : Near(x) = x
<1> SUFFICES ASSUME NEW x \in 0..(2 * Long) PROVE Near(x) = x
  OBVIOUS
<1>1. CASE x = 0
  BY <1>1, Sizes DEF Near, Sub
<1>2. CASE x # 0
  <2>1. Sub(0, x) = FieldSize - x
    BY <1>2, Sizes DEF Sub
  <2> QED
    BY <2>1, Sizes DEF Near
<1> QED
  BY <1>1, <1>2

LEMMA NearSmall == \A x \in 0..Long : Near(x) = x
BY NearGap, Sizes

\* An activator of one leaves a value as it is.
LEMMA MulOne == \A x \in Field : Mul(x, 1) = x
<1> SUFFICES ASSUME NEW x \in Field PROVE Mul(x, 1) = x
  OBVIOUS
<1>1. Near(1) = 1
  BY NearSmall, Sizes
<1>2. Near(x) = x \/ Near(x) = x - FieldSize
  BY DEF Near
<1>3. x % FieldSize = x /\ (x - FieldSize) % FieldSize = x
  BY Sizes DEF Field
<1> QED
  BY <1>1, <1>2, <1>3, Sizes DEF Mul, Field

\* The differences the gadgets take of zero and one.
LEMMA SubValues ==
  /\ Sub(1, 0) = 1 /\ Sub(1, 1) = 0 /\ Sub(0, 1) # 0
  /\ \A x \in Field : Sub(0, x) = IF x = 0 THEN 0 ELSE FieldSize - x
  /\ \A x, y \in Field : Sub(x, y) = 0 => x = y
  /\ \A x \in Field : Sub(1, x) = 0 => x = 1
BY Sizes DEF Sub, Field

\* The difference of two encoded integers is their difference, or that and the
\* order of the field.
LEMMA Difference ==
  ASSUME NEW L \in (-Long)..Long, NEW R \in (-Long)..Long
  PROVE  /\ L % FieldSize \in Field /\ R % FieldSize \in Field
         /\ Sub(L % FieldSize, R % FieldSize)
              = IF L >= R THEN L - R ELSE FieldSize + L - R
<1>1. \A v \in (-Long)..Long : v % FieldSize = IF v >= 0 THEN v ELSE v + FieldSize
  BY Sizes
<1>2. L % FieldSize \in Field /\ R % FieldSize \in Field
  BY Sizes DEF Field
<1>3. CASE (L >= 0) = (R >= 0)
  <2>1. (L % FieldSize) - (R % FieldSize) = L - R
    BY <1>1, <1>3, Sizes
  <2> QED
    BY <1>2, <2>1, Sizes DEF Sub
<1>4. CASE L >= 0 /\ R < 0
  <2>1. (L % FieldSize) - (R % FieldSize) = (L - R) - FieldSize
    BY <1>1, <1>4, Sizes
  <2>2. L - R \in 1..(2 * Long)
    BY <1>4, Sizes
  <2> QED
    BY <1>2, <2>1, <2>2, Sizes DEF Sub
<1>5. CASE L < 0 /\ R >= 0
  <2>1. (L % FieldSize) - (R % FieldSize) = (L - R) + FieldSize
    BY <1>1, <1>5, Sizes
  <2>2. R - L \in 1..(2 * Long)
    BY <1>5, Sizes
  <2> QED
    BY <1>2, <2>1, <2>2, Sizes DEF Sub
<1> QED
  BY <1>2, <1>3, <1>4, <1>5, Sizes

-----------------------------------------------------------------------------
(***************************************************************************)
(* The chunks.                                                             *)
(***************************************************************************)
\* Appending a chunk to a number below A makes one below E = A * Chunk: the
\* field does not wrap around.
LEMMA ShiftBound ==
  ASSUME NEW A \in Nat, NEW E \in Nat, A * Chunk = E, E <= Long
  PROVE  \A acc \in 0..(A - 1), c \in 0..(Chunk - 1) :
           Shift(acc, c) = acc * Chunk + c /\ Shift(acc, c) \in 0..(E - 1)
<1> SUFFICES ASSUME NEW acc \in 0..(A - 1), NEW c \in 0..(Chunk - 1)
             PROVE  Shift(acc, c) = acc * Chunk + c /\ Shift(acc, c) \in 0..(E - 1)
  OBVIOUS
<1>1. acc * Chunk \in Nat /\ acc * Chunk + c <= E - 1
  <2>1. acc + 1 <= A /\ Chunk \in Nat /\ Chunk > 0
    BY Sizes
  <2>2. (acc + 1) * Chunk <= A * Chunk
    BY <2>1
  <2>3. (acc + 1) * Chunk = acc * Chunk + Chunk /\ acc * Chunk \in Nat
    BY <2>1
  <2> QED
    BY <2>1, <2>2, <2>3
<1>2. acc \in 0..Long /\ Chunk \in 0..Long
  <2>1. A <= A * Chunk
    BY Sizes
  <2> QED
    BY <2>1, Sizes
<1>3. Near(acc) = acc /\ Near(Chunk) = Chunk
  BY <1>2, NearSmall
<1>4. Mul(acc, Chunk) = acc * Chunk
  BY <1>1, <1>3, Sizes DEF Mul
<1>5. (acc * Chunk + c) % FieldSize = acc * Chunk + c
  BY <1>1, Sizes
<1> QED
  BY <1>1, <1>4, <1>5 DEF Shift, Add

\* Four chunks make a number of 64 bits, and no larger field element.
Composed(a, b, c, d) == ((a * Chunk + b) * Chunk + c) * Chunk + d

LEMMA RecomposeBound ==
  ASSUME NEW ch, NEW i,
         \A k \in 1..4 : ch[k][i] \in 0..(Chunk - 1), Len(ch) = 4
  PROVE  /\ RecomposeAt(ch, i) = Composed(ch[1][i], ch[2][i], ch[3][i], ch[4][i])
         /\ RecomposeAt(ch, i) \in 0..(Long - 1)
<1> DEFINE Cube == Word * Chunk
           Shifted(A, E) ==
             \A acc \in 0..(A - 1), c \in 0..(Chunk - 1) :
               Shift(acc, c) = acc * Chunk + c /\ Shift(acc, c) \in 0..(E - 1)
<1>1. /\ Chunk \in Nat /\ Word \in Nat /\ Cube \in Nat /\ Long \in Nat
      /\ 1 * Chunk = Chunk /\ Chunk * Chunk = Word /\ Word * Chunk = Cube
      /\ Cube * Chunk = Long
      /\ Chunk <= Long /\ Word <= Long /\ Cube <= Long
  <2>1. Word = Chunk * Chunk
    BY Sizes
  <2>2. Cube = (Chunk * Chunk) * Chunk
    BY <2>1
  <2> HIDE DEF Cube
  <2>3. Cube * Chunk = Long /\ Cube <= Long
    BY <2>2, Sizes
  <2>4. Cube \in Nat
    <3>1. \A x, y \in Nat : x * y \in Nat
      OBVIOUS
    <3> QED
      BY <3>1, Sizes DEF Cube
  <2> QED
    BY <2>1, <2>3, <2>4, Sizes DEF Cube
<1> HIDE DEF Cube
<1>2. Shifted(1, Chunk)
  BY <1>1, ShiftBound
<1>3. Shifted(Chunk, Word)
  BY <1>1, ShiftBound
<1>4. Shifted(Word, Cube)
  BY <1>1, ShiftBound
<1>5. Shifted(Cube, Long)
  <2>1. Long <= Long
    BY <1>1
  <2> QED
    BY <1>1, <2>1, ShiftBound
<1> DEFINE a == Shift(0, ch[1][i])
           b == Shift(a, ch[2][i])
           c == Shift(b, ch[3][i])
           d == Shift(c, ch[4][i])
<1>6. RecomposeAt(ch, i) = d
  BY DEF RecomposeAt, Four
<1> HIDE DEF a, b, c, d
<1>7. a = ch[1][i] /\ a \in 0..(Chunk - 1)
  <2>1. a = 0 * Chunk + ch[1][i] /\ a \in 0..(Chunk - 1)
    BY <1>2 DEF a
  <2>2. 0 * Chunk + ch[1][i] = ch[1][i]
    BY <1>1
  <2> QED
    BY <2>1, <2>2
<1>8. b = a * Chunk + ch[2][i] /\ b \in 0..(Word - 1)
  BY <1>3, <1>7 DEF b
<1>9. c = b * Chunk + ch[3][i] /\ c \in 0..(Cube - 1)
  BY <1>4, <1>8 DEF c
<1>10. d = c * Chunk + ch[4][i] /\ d \in 0..(Long - 1)
  BY <1>5, <1>9 DEF d
<1> QED
  BY <1>6, <1>7, <1>8, <1>9, <1>10 DEF Composed

-----------------------------------------------------------------------------
(***************************************************************************)
(* What the claims of a gadget say of one active row.                      *)
(***************************************************************************)
AllHold(list) == \A k \in DOMAIN list : Holds(list[k])

\* Masking leaves an active row as it is.
LEMMA MaskedActive ==
  ASSUME NEW col \in Column, NEW act \in Column, NEW i \in Rows, act[i] = 1
  PROVE  Masked(col, act)[i] = col[i]
<1>1. act # None
  BY NoneAssumption DEF Column, Field
<1>2. col[i] \in Field
  BY DEF Column
<1> QED
  BY <1>1, <1>2, MulOne DEF Masked, ColMul

\* What a single claim of each kind says of a row.
LEMMA ClaimRow ==
  ASSUME NEW i \in Rows, NEW values
  PROVE  /\ Holds(Zero(values)) => values[i] = 0
         /\ Holds(NonZero(values)) => values[i] # <<0, 0>>
         /\ \A size : Holds(Lookup(size, values)) => values[i] < size
BY DEF Holds, Zero, NonZero, Lookup, Claim

\* The tables of the lookups are no larger than a chunk.
LEMMA TableSizes ==
  ASSUME NEW t \in Type
  PROVE  /\ WholeSize(t) \in Nat /\ WholeSize(t) <= Chunk
         /\ TopSize(t) \in Nat /\ TopSize(t) <= Chunk
<1>1. \A s \in Nat : s <= Chunk => Half(s) \in Nat /\ Half(s) <= Chunk
  BY Sizes DEF Half
<1> QED
  BY <1>1, Sizes DEF WholeSize, TopSize

\* A list of five: its first element, and the four behind it.
LEMMA PrependFour ==
  ASSUME NEW S, NEW z \in S, NEW f \in [1..4 -> S]
  PROVE  /\ DOMAIN (<<z>> \o f) = 1..5 /\ (<<z>> \o f)[1] = z
         /\ \A k \in 1..4 : (<<z>> \o f)[k + 1] = f[k]
<1>1. f \in Seq(S) /\ Len(f) = 4
  <2>1. f \in Seq(S)
    BY SeqDef
  <2>2. DOMAIN f = 1..Len(f) /\ DOMAIN f = 1..4 /\ Len(f) \in Nat
    BY <2>1, LenProperties
  <2> QED
    BY <2>1, <2>2
<1>2. <<z>> \in Seq(S) /\ Len(<<z>>) = 1 /\ <<z>>[1] = z
  OBVIOUS
<1> DEFINE g == <<z>> \o f
<1>3. /\ g \in Seq(S) /\ Len(g) = 5
      /\ \A i \in 1..5 : g[i] = IF i <= 1 THEN <<z>>[i] ELSE f[i - 1]
  <2>1. /\ g \in Seq(S) /\ Len(g) = Len(<<z>>) + Len(f)
        /\ \A i \in 1..(Len(<<z>>) + Len(f)) :
             g[i] = IF i <= Len(<<z>>) THEN <<z>>[i] ELSE f[i - Len(<<z>>)]
    <3> DEFINE u == <<z>>
    <3>1. u \in Seq(S)
      BY <1>2
    <3> HIDE DEF u
    <3>2. /\ u \o f \in Seq(S) /\ Len(u \o f) = Len(u) + Len(f)
          /\ \A i \in 1..(Len(u) + Len(f)) :
               (u \o f)[i] = IF i <= Len(u) THEN u[i] ELSE f[i - Len(u)]
      BY <1>1, <3>1, ConcatProperties
    <3> QED
      BY <3>2 DEF u
  <2> QED
    BY <1>1, <1>2, <2>1
<1> HIDE DEF g
<1>4. DOMAIN g = 1..5
  BY <1>3
<1>5. g[1] = z
  BY <1>3, <1>2
<1>6. \A k \in 1..4 : g[k + 1] = f[k]
  BY <1>3
<1> QED BY <1>4, <1>5, <1>6 DEF g

\* A column of at most 64 bits whose range claims hold is below 2^64 on every
\* active row.
LEMMA RangeRow ==
  ASSUME NEW t \in Type, t # "Decimal128",
         NEW col \in Column, NEW act \in Column, NEW ch \in Seq(Column),
         Len(ch) = ChunkCount(t), AllHold(RangeClaims(t, col, act, ch)),
         NEW i \in Rows, act[i] = 1
  PROVE  col[i] \in 0..(Long - 1)
<1> DEFINE list == RangeClaims(t, col, act, ch)
<1>0. col[i] \in Field /\ Masked(col, act)[i] = col[i]
  BY MaskedActive DEF Column
<1>1. ChunkCount(t) \in {0, 4}
  BY DEF ChunkCount, Bytes, Type
<1>2. CASE ChunkCount(t) = 0
  <2>1. list = <<Lookup(WholeSize(t), Masked(col, act))>>
    BY <1>2 DEF RangeClaims
  <2>2. Holds(Lookup(WholeSize(t), Masked(col, act)))
    BY <2>1 DEF AllHold
  <2>3. Masked(col, act)[i] < WholeSize(t)
    BY <2>2, ClaimRow
  <2> QED
    BY <1>0, <2>3, TableSizes, Sizes DEF Field
<1>3. CASE ChunkCount(t) = 4
  <2> DEFINE sum == [j \in Rows |-> RecomposeAt(ch, j)]
             size(k) == IF k = 1 THEN TopSize(t) ELSE Chunk
             gap == ColSub(Masked(col, act), sum)
             looks == [k \in 1..4 |-> Lookup(size(k), Masked(ch[k], act))]
  <2>1. list = <<Zero(gap)>> \o looks
    BY <1>3 DEF RangeClaims
  <2>2. Holds(Zero(gap)) /\ \A k \in 1..4 : Holds(looks[k])
    <3> HIDE DEF list, size, gap
    <3> DEFINE z == Zero(gap)
               S == {looks[k] : k \in 1..4} \cup {z}
    <3>1. z \in S /\ looks \in [1..4 -> S]
      OBVIOUS
    <3> HIDE DEF looks, S, z
    <3>2. list = <<z>> \o looks
      BY <2>1 DEF z
    <3>3. /\ DOMAIN list = 1..5 /\ list[1] = z
          /\ \A k \in 1..4 : list[k + 1] = looks[k]
      BY <3>1, <3>2, PrependFour
    <3>4. AllHold(list)
      BY DEF list
    <3> QED
      BY <3>3, <3>4 DEF AllHold, z
  <2>3. \A k \in 1..4 : ch[k] \in Column
    <3>1. \A k \in 1..Len(ch) : ch[k] \in Column
      OBVIOUS
    <3> QED
      BY <1>3, <3>1
  <2>4. \A k \in 1..4 : ch[k][i] \in 0..(Chunk - 1)
    <3> SUFFICES ASSUME NEW k \in 1..4 PROVE ch[k][i] \in 0..(Chunk - 1)
      OBVIOUS
    <3>1. Masked(ch[k], act)[i] = ch[k][i]
      BY <2>3, MaskedActive
    <3>2. Holds(Lookup(size(k), Masked(ch[k], act)))
      BY <2>2
    <3>3. ch[k][i] < size(k)
      BY <3>1, <3>2, ClaimRow
    <3>4. size(k) \in Nat /\ size(k) <= Chunk
      BY TableSizes, Sizes
    <3>5. ch[k][i] \in Nat /\ Chunk \in Nat
      <4>1. ch[k][i] \in Field
        BY <2>3 DEF Column
      <4> QED
        BY <4>1, Sizes DEF Field
    <3> DEFINE v == ch[k][i]
               s == size(k)
    <3>6. v < s /\ v \in Nat /\ s \in Nat /\ s <= Chunk
      BY <3>3, <3>4, <3>5
    <3> HIDE DEF v, s
    <3>7. v \in 0..(Chunk - 1)
      BY <3>5, <3>6
    <3> QED
      BY <3>7 DEF v
  <2>5. RecomposeAt(ch, i) \in 0..(Long - 1)
    BY <1>3, <2>4, RecomposeBound
  <2>6. Sub(col[i], RecomposeAt(ch, i)) = 0
    <3>1. gap[i] = 0
      BY <2>2, ClaimRow
    <3> QED
      BY <1>0, <3>1 DEF ColSub
  <2>7. RecomposeAt(ch, i) \in Field
    BY <2>5, Sizes DEF Field
  <2> QED
    BY <1>0, <2>5, <2>6, <2>7, SubValues
<1> QED
  BY <1>1, <1>2, <1>3

-----------------------------------------------------------------------------
(***************************************************************************)
(* The rows of a comparison.                                               *)
(***************************************************************************)
NoDecimals == "Decimal128" \notin Types

ExprOK ==
  /\ expr.op \in Ops /\ expr.type \in Types
  /\ expr.left \in [Rows -> Samples(expr.type)] /\ expr.right \in [Rows -> Samples(expr.type)]
  /\ expr.act \in [Rows -> {0, 1}] \cup {None}
  /\ expr.out \in Column

DiffColumn == ColSub(Encoded(expr.left), Encoded(expr.right))

\* The columns a comparison is proved over consist of field elements.
LEMMA Columns ==
  ASSUME ExprOK
  PROVE  /\ Encoded(expr.left) \in Column /\ Encoded(expr.right) \in Column
         /\ DiffColumn \in Column /\ OtherRows \in Column
         /\ All(0) \in Column /\ All(1) \in Column
<1>1. \A v \in Int : Encode(expr.type, v) \in Field
  <2>1. \A v \in Int : v % FieldSize \in Field
    BY Sizes DEF Field
  <2>2. \A v \in Int : v % Wide \in Int
    <3>1. Wide \in Nat /\ Wide > 0
      BY Sizes DEF Wide
    <3> QED
      BY <3>1
  <2> QED
    BY <2>1, <2>2 DEF Encode
<1>2. \A i \in Rows : expr.left[i] \in Int /\ expr.right[i] \in Int
  BY InputAssumption DEF ExprOK
<1>3. Encoded(expr.left) \in Column /\ Encoded(expr.right) \in Column
  BY <1>1, <1>2 DEF Encoded, Column
<1>4. \A a, b \in Column : ColSub(a, b) \in Column
  BY ColumnsClosed
<1>5. All(0) \in Column /\ All(1) \in Column
  BY ColumnsClosed
<1>6. CASE expr.act = None
  <2>1. OtherRows = ColSub(All(1), expr.out)
    BY <1>6 DEF OtherRows
  <2> QED
    BY <1>3, <1>4, <1>5, <2>1 DEF DiffColumn, ExprOK
<1>7. CASE expr.act # None
  <2>1. expr.act \in Column
    BY <1>7, Sizes DEF ExprOK, Column, Field
  <2>2. OtherRows = ColSub(expr.act, expr.out)
    BY <1>7 DEF OtherRows
  <2> QED
    BY <1>3, <1>4, <1>5, <2>1, <2>2 DEF DiffColumn, ExprOK
<1> QED
  BY <1>6, <1>7

\* What the encoded columns and their difference say of the values of a row.
LEMMA RowValues ==
  ASSUME ExprOK, NoDecimals, NEW i \in Rows
  PROVE  /\ expr.left[i] \in Int /\ expr.right[i] \in Int
         /\ DiffColumn[i] \in 0..(Long - 1) => expr.left[i] >= expr.right[i]
         /\ Sub(0, DiffColumn[i]) \in 0..(Long - 1) => expr.left[i] <= expr.right[i]
         /\ DiffColumn[i] # 0 => expr.left[i] # expr.right[i]
         /\ Encoded(expr.left)[i] = Encoded(expr.right)[i] <=> expr.left[i] = expr.right[i]
<1> DEFINE L == expr.left[i]
           R == expr.right[i]
           d == DiffColumn[i]
<1>1. expr.type # "Decimal128"
  BY DEF ExprOK, NoDecimals
<1>2. L \in (-Long)..Long /\ R \in (-Long)..Long
  BY <1>1, InputAssumption DEF ExprOK
<1>3. Encoded(expr.left)[i] = L % FieldSize /\ Encoded(expr.right)[i] = R % FieldSize
  BY <1>1 DEF Encoded, Encode
<1>4. d = Sub(L % FieldSize, R % FieldSize)
  BY <1>3 DEF DiffColumn, ColSub
<1> HIDE DEF L, R, d
<1>5. d = IF L >= R THEN L - R ELSE FieldSize + L - R
  BY <1>2, <1>4, Difference
<1>6. L % FieldSize \in Field /\ R % FieldSize \in Field
  BY <1>2, Difference
<1>7. d \in 0..(Long - 1) => L >= R
  BY <1>2, <1>5, Sizes
<1>8. d # 0 => L # R
  BY <1>2, <1>5, Sizes
<1>9. d = 0 => L = R
  BY <1>2, <1>5, Sizes
<1>10. Sub(0, d) \in 0..(Long - 1) => L <= R
  <2>1. d \in Field
    BY <1>4, <1>6, FieldClosed DEF Field
  <2>2. Sub(0, d) = IF d = 0 THEN 0 ELSE FieldSize - d
    BY <2>1, SubValues
  <2>3. L > R => d \in 1..(2 * Long)
    BY <1>2, <1>5, Sizes
  <2> QED
    BY <1>2, <2>2, <2>3, Sizes
<1>11. L % FieldSize = R % FieldSize <=> L = R
  <2>1. \A x \in Field : Sub(x, x) = 0
    BY Sizes DEF Sub, Field
  <2> QED
    BY <1>4, <1>6, <1>9, <2>1
<1>12. L \in Int /\ R \in Int
  BY <1>2, Sizes
<1> QED
  BY <1>3, <1>7, <1>8, <1>10, <1>11, <1>12 DEF L, R, d

-----------------------------------------------------------------------------
(***************************************************************************)
(* The gadgets of a comparison, all of whose claims hold.                  *)
(***************************************************************************)
Final == WithStrict(RootTables)

\* The claims of gadget n hold, for some chunk columns.
Claimed(n) ==
  \E ch \in Seq(Column) : Len(ch) = Commits(n) /\ AllHold(GadgetClaims(n, Final[n], ch))

\* The tables with which the gadgets end up.
LEMMA FinalTables ==
  ASSUME ExprOK
  PROVE  /\ Final["bool"] = Table(expr.out, All(0), expr.act)
         /\ expr.op \in Orderings =>
              /\ Final["true"] = Table(DiffColumn, All(0), expr.out)
              /\ Final["false"] = Table(DiffColumn, All(0), OtherRows)
              /\ Final["strict"] = Final[StrictSide(expr.op)]
         /\ LET l == Encoded(expr.left)
                r == Encoded(expr.right)
            IN  /\ expr.op = "Eq" =>
                     /\ Final["eq"] = Table(l, r, expr.out)
                     /\ Final["neq"] = Table(l, r, OtherRows)
                /\ expr.op = "NotEq" =>
                     /\ Final["neq"] = Table(l, r, expr.out)
                     /\ Final["eq"] = Table(l, r, OtherRows)
<1>1. RootTables["bool"] = Table(expr.out, All(0), expr.act)
  BY DEF RootTables, OrderingTables, EqTables, NotEqTables, PairTables, Gadget
<1>2. expr.op \in Orderings =>
        /\ RootTables["true"] = Table(DiffColumn, All(0), expr.out)
        /\ RootTables["false"] = Table(DiffColumn, All(0), OtherRows)
  BY DEF RootTables, OrderingTables, PairTables, Gadget, Orderings, DiffColumn
<1>3. expr.op = "Eq" =>
        /\ RootTables["eq"] = Table(Encoded(expr.left), Encoded(expr.right), expr.out)
        /\ RootTables["neq"] = Table(Encoded(expr.left), Encoded(expr.right), OtherRows)
  BY DEF RootTables, EqTables, PairTables, Gadget, Orderings
<1>4. expr.op = "NotEq" =>
        /\ RootTables["neq"] = Table(Encoded(expr.left), Encoded(expr.right), expr.out)
        /\ RootTables["eq"] = Table(Encoded(expr.left), Encoded(expr.right), OtherRows)
  BY DEF RootTables, NotEqTables, PairTables, Gadget, Orderings
<1>5. DOMAIN RootTables = Gadget
  BY DEF RootTables, OrderingTables, EqTables, NotEqTables, PairTables
<1>6. \A n \in Gadget \ {"strict"} : Final[n] = RootTables[n]
  BY <1>5 DEF Final, WithStrict
<1>7. StrictSide(expr.op) \in Gadget \ {"strict"}
  BY DEF StrictSide, Gadget
<1>8. expr.op \in Orderings => Final["strict"] = Final[StrictSide(expr.op)]
  BY <1>5, <1>6, <1>7 DEF Final, WithStrict, Gadget
<1> QED
  BY <1>1, <1>2, <1>3, <1>4, <1>6, <1>8 DEF Gadget, Orderings

\* A gadget with one claim.
LEMMA OneClaim ==
  ASSUME NEW claim, AllHold(<<claim>>)
  PROVE  Holds(claim)
BY DEF AllHold

\* The sign gadget of a side: on its rows the difference has the side's sign,
\* zero apart.
LEMMA SignRow ==
  ASSUME ExprOK, NoDecimals, expr.op \in Orderings, NEW n \in {"true", "false"}, Claimed(n),
         NEW i \in Rows, Final[n].act[i] = 1
  PROVE  IF Side(expr.op, n) \in {"NonPositive", "Negative"}
         THEN expr.left[i] <= expr.right[i] ELSE expr.left[i] >= expr.right[i]
<1> DEFINE act == IF n = "true" THEN expr.out ELSE OtherRows
           col == Oriented(Side(expr.op, n), DiffColumn)
<1>1. Final[n] = Table(DiffColumn, All(0), act)
  BY FinalTables
<1>2. act \in Column /\ DiffColumn \in Column /\ act[i] = 1
  BY <1>1, Columns DEF ExprOK, Table
<1>3. col \in Column
  BY <1>2, ColumnsClosed DEF Oriented
<1>4. PICK ch \in Seq(Column) :
        Len(ch) = ChunkCount(expr.type) /\ AllHold(RangeClaims(expr.type, col, act, ch))
  BY <1>1 DEF Claimed, Commits, GadgetClaims, SignClaims, Table
<1>5. expr.type \in Type /\ expr.type # "Decimal128"
  BY InputAssumption DEF ExprOK, NoDecimals
<1> HIDE DEF act, col
<1>6. col[i] \in 0..(Long - 1)
  BY <1>2, <1>3, <1>4, <1>5, RangeRow
<1>7. CASE Side(expr.op, n) \in {"NonPositive", "Negative"}
  <2>1. col[i] = Sub(0, DiffColumn[i])
    BY <1>7 DEF col, Oriented, ColSub, All
  <2> QED
    BY <1>6, <1>7, <2>1, RowValues
<1>8. CASE Side(expr.op, n) \notin {"NonPositive", "Negative"}
  <2>1. col[i] = DiffColumn[i]
    BY <1>8 DEF col, Oriented
  <2> QED
    BY <1>6, <1>8, <2>1, RowValues
<1> QED
  BY <1>7, <1>8

\* The neq gadget: on its rows the two columns differ.
LEMMA NeqRow ==
  ASSUME NEW n \in {"neq", "strict"}, NEW l \in Column, NEW r \in Column, NEW act \in Column,
         Final[n] = Table(l, r, act), Claimed(n),
         NEW i \in Rows, act[i] = 1
  PROVE  Sub(l[i], r[i]) # 0
<1> DEFINE pairs == [j \in Rows |-> <<Sub(l[j], r[j]), Sub(1, act[j])>>]
<1>1. Holds(NonZero(pairs))
  BY OneClaim DEF Claimed, GadgetClaims, NeqClaims, Table
<1>2. pairs[i] # <<0, 0>>
  BY <1>1, ClaimRow
<1> QED
  BY <1>2, SubValues

\* The rows of a true ordering satisfy it, those of its complement do not.
LEMMA OrderingRow ==
  ASSUME ExprOK, NoDecimals, expr.op \in Orderings,
         Claimed("true"), Claimed("false"), Claimed("strict"), NEW i \in Rows
  PROVE  /\ expr.out[i] = 1 => Compare(expr.op, expr.left[i], expr.right[i])
         /\ OtherRows[i] = 1 => ~Compare(expr.op, expr.left[i], expr.right[i])
<1> DEFINE L == expr.left[i]
           R == expr.right[i]
           side == StrictSide(expr.op)
           act(n) == IF n = "true" THEN expr.out ELSE OtherRows
<1>1. L \in Int /\ R \in Int
  BY RowValues
<1>2. \A n \in {"true", "false"} : Final[n] = Table(DiffColumn, All(0), act(n))
  BY FinalTables
<1>3. \A n \in {"true", "false"} : act(n)[i] = 1 =>
        IF Side(expr.op, n) \in {"NonPositive", "Negative"} THEN L <= R ELSE L >= R
  BY <1>2, SignRow DEF Table
<1>4. side \in {"true", "false"} /\ Final["strict"] = Table(DiffColumn, All(0), act(side))
  BY <1>2, FinalTables DEF StrictSide
<1>5. act(side) \in Column /\ DiffColumn \in Column /\ All(0) \in Column
  BY Columns DEF ExprOK
<1>6. act(side)[i] = 1 => L # R
  <2> SUFFICES ASSUME act(side)[i] = 1 PROVE L # R
    OBVIOUS
  <2> HIDE DEF act, side
  <2>1. Sub(DiffColumn[i], All(0)[i]) # 0
    BY <1>4, <1>5, NeqRow
  <2>2. DiffColumn[i] # 0
    BY <2>1, Sizes DEF All, Sub
  <2> QED
    BY <2>2, RowValues
<1> HIDE DEF L, R
<1>7. expr.op \in {"Geq", "Leq", "Gt", "Lt"}
  BY DEF Orderings
<1>8. /\ expr.out[i] = 1 => Compare(expr.op, L, R)
      /\ OtherRows[i] = 1 => ~Compare(expr.op, L, R)
  <2>1. CASE expr.op = "Geq"
    BY <1>1, <1>3, <1>6, <2>1 DEF Compare, Side, SignPair, StrictSide, Strict
  <2>2. CASE expr.op = "Leq"
    BY <1>1, <1>3, <1>6, <2>2 DEF Compare, Side, SignPair, StrictSide, Strict
  <2>3. CASE expr.op = "Gt"
    BY <1>1, <1>3, <1>6, <2>3 DEF Compare, Side, SignPair, StrictSide, Strict
  <2>4. CASE expr.op = "Lt"
    BY <1>1, <1>3, <1>6, <2>4 DEF Compare, Side, SignPair, StrictSide, Strict
  <2> QED
    BY <1>7, <2>1, <2>2, <2>3, <2>4
<1> QED
  BY <1>8 DEF L, R

\* The same for equality and inequality.
LEMMA EqualityRow ==
  ASSUME ExprOK, NoDecimals, expr.op \in {"Eq", "NotEq"},
         Claimed("eq"), Claimed("neq"), NEW i \in Rows
  PROVE  /\ expr.out[i] = 1 => Compare(expr.op, expr.left[i], expr.right[i])
         /\ OtherRows[i] = 1 => ~Compare(expr.op, expr.left[i], expr.right[i])
<1> DEFINE l == Encoded(expr.left)
           r == Encoded(expr.right)
           same == IF expr.op = "Eq" THEN expr.out ELSE OtherRows
           other == IF expr.op = "Eq" THEN OtherRows ELSE expr.out
<1>1. Final["eq"] = Table(l, r, same) /\ Final["neq"] = Table(l, r, other)
  BY FinalTables
<1>2. l \in Column /\ r \in Column /\ same \in Column /\ other \in Column
  BY Columns DEF ExprOK
<1> HIDE DEF l, r
<1>3. same[i] = 1 => l[i] = r[i]
  <2> SUFFICES ASSUME same[i] = 1 PROVE l[i] = r[i]
    OBVIOUS
  <2> HIDE DEF same
  <2>1. Holds(Zero(Masked(ColSub(l, r), same)))
    BY <1>1, OneClaim DEF Claimed, GadgetClaims, EqClaims, Table
  <2>2. ColSub(l, r) \in Column
    BY <1>2, ColumnsClosed
  <2>3. ColSub(l, r)[i] = 0
    BY <1>2, <2>1, <2>2, ClaimRow, MaskedActive
  <2>4. Sub(l[i], r[i]) = 0 /\ l[i] \in Field /\ r[i] \in Field
    BY <1>2, <2>3 DEF ColSub, Column
  <2> QED
    BY <2>4, SubValues
<1>4. other[i] = 1 => l[i] # r[i]
  <2> SUFFICES ASSUME other[i] = 1 PROVE l[i] # r[i]
    OBVIOUS
  <2> HIDE DEF other
  <2>1. Sub(l[i], r[i]) # 0
    BY <1>1, <1>2, NeqRow
  <2>2. \A x \in Field : Sub(x, x) = 0
    BY Sizes DEF Sub, Field
  <2> QED
    BY <1>2, <2>1, <2>2 DEF Column
<1>5. l[i] = r[i] <=> expr.left[i] = expr.right[i]
  BY RowValues DEF l, r
<1> QED
  BY <1>3, <1>4, <1>5 DEF Compare

\* The output of a comparison whose claims all hold.
LEMMA OutputRight ==
  ASSUME NoZeroDivisors, NoDecimals, ExprOK,
         \A k \in DOMAIN Walk(expr.op) : Claimed(Walk(expr.op)[k])
  PROVE  expr.out = Computed
<1> DEFINE gadgets == {Walk(expr.op)[k] : k \in DOMAIN Walk(expr.op)}
<1>1. /\ {"bool", "root"} \subseteq gadgets
      /\ expr.op \in Orderings => {"true", "false", "strict"} \subseteq gadgets
      /\ expr.op \notin Orderings => {"eq", "neq"} \subseteq gadgets
  BY DEF Walk
<1>2. \A n \in gadgets : Claimed(n)
  OBVIOUS
<1> HIDE DEF gadgets
<1>3. \A i \in Rows :
        /\ expr.out[i] = 1 => Compare(expr.op, expr.left[i], expr.right[i])
        /\ OtherRows[i] = 1 => ~Compare(expr.op, expr.left[i], expr.right[i])
  BY <1>1, <1>2, OrderingRow, EqualityRow DEF ExprOK, Ops
<1>4. \A i \in Rows : expr.out[i] \in Field
  BY DEF ExprOK, Column
<1>5. \A i \in Rows : (expr.act # None => expr.act[i] = 1) => expr.out[i] \in {0, 1}
  <2> SUFFICES ASSUME NEW i \in Rows, expr.act # None => expr.act[i] = 1
               PROVE  expr.out[i] \in {0, 1}
    OBVIOUS
  <2> DEFINE x == expr.out[i]
             square == ColMul(expr.out, ColSub(All(1), expr.out))
  <2>1. Holds(Zero(Masked(square, expr.act)))
    <3>1. AllHold(BoolClaims(Final["bool"]))
      BY <1>1, <1>2 DEF Claimed, GadgetClaims
    <3>2. BoolClaims(Final["bool"]) = <<Zero(Masked(square, expr.act))>>
      BY FinalTables DEF BoolClaims, Table
    <3> QED
      BY <3>1, <3>2, OneClaim
  <2>2. Masked(square, expr.act)[i] = 0
    BY <2>1, ClaimRow
  <2>3. square \in Column
    BY ColumnsClosed DEF ExprOK
  <2>4. square[i] = 0
    <3>1. CASE expr.act = None
      BY <2>2, <3>1 DEF Masked
    <3>2. CASE expr.act # None
      <4>1. expr.act \in Column
        BY <3>2, Sizes DEF ExprOK, Column, Field
      <4> QED
        BY <2>2, <2>3, <3>2, <4>1, MaskedActive
    <3> QED
      BY <3>1, <3>2
  <2>5. Mul(x, Sub(1, x)) = 0
    BY <2>4 DEF ColMul, ColSub, All
  <2>6. x \in Field /\ Sub(1, x) \in Field
    BY <1>4, ColumnsClosed
  <2>7. x = 0 \/ Sub(1, x) = 0
    BY <2>5, <2>6 DEF NoZeroDivisors
  <2> QED
    BY <2>6, <2>7, SubValues
<1>6. \A i \in Rows : expr.act # None /\ expr.act[i] = 0 => expr.out[i] = 0
  <2> SUFFICES ASSUME NEW i \in Rows, expr.act # None, expr.act[i] = 0
               PROVE  expr.out[i] = 0
    OBVIOUS
  <2> DEFINE marked == ColMul(ColSub(expr.act, All(1)), expr.out)
  <2>1. Holds(Zero(marked))
    BY <1>1, <1>2, OneClaim DEF Claimed, GadgetClaims, RootClaims
  <2>2. marked[i] = 0
    BY <2>1, ClaimRow
  <2>3. Mul(Sub(0, 1), expr.out[i]) = 0
    BY <2>2 DEF ColMul, ColSub, All
  <2>4. Sub(0, 1) \in Field /\ Sub(0, 1) # 0
    BY FieldClosed, SubValues
  <2> QED
    BY <1>4, <2>3, <2>4 DEF NoZeroDivisors
<1>7. \A i \in Rows : (expr.act # None => expr.act[i] = 1) =>
        OtherRows[i] = Sub(1, expr.out[i])
  BY DEF OtherRows, ColSub, All
<1>8. \A i \in Rows : expr.out[i] =
        IF (expr.act # None => expr.act[i] = 1) /\ Compare(expr.op, expr.left[i], expr.right[i])
        THEN 1 ELSE 0
  <2> SUFFICES ASSUME NEW i \in Rows
               PROVE  expr.out[i] =
                 IF (expr.act # None => expr.act[i] = 1)
                      /\ Compare(expr.op, expr.left[i], expr.right[i]) THEN 1 ELSE 0
    OBVIOUS
  <2>1. CASE expr.act # None => expr.act[i] = 1
    <3>1. expr.out[i] = 0 => OtherRows[i] = 1
      BY <1>7, <2>1, SubValues
    <3> QED
      BY <1>3, <1>5, <2>1, <3>1
  <2>2. CASE ~(expr.act # None => expr.act[i] = 1)
    <3>1. expr.act[i] = 0
      BY <2>2 DEF ExprOK
    <3> QED
      BY <1>6, <2>2, <3>1
  <2> QED
    BY <2>1, <2>2
<1> QED
  BY <1>8 DEF ExprOK, Column, Computed, ComputedOutput

-----------------------------------------------------------------------------
(***************************************************************************)
(* The two machines.                                                       *)
(***************************************************************************)
\* Chunk columns are columns of field elements.
LEMMA ChunksTyped ==
  ASSUME NEW t \in Type, NEW col \in Column, NEW act
  PROVE  ChunkColumns(t, col, act) \in Seq(Column)
<1>1. Bytes[t] \in {1, 2, 4, 8, 16} /\ ChunkCount(t) \in {0, 4, 8}
  BY DEF ChunkCount, Bytes, Type
<1>2. \A b \in {1, 2, 4, 8, 16} : Size(b) \in Nat /\ Size(b) > 0
  BY Sizes DEF Size, Wide
<1>3. \A m, n \in Int : n > 0 => m % n \in Int /\ m \div n \in Int
  OBVIOUS
<1>4. \A n \in Int, b \in {1, 2, 4, 8, 16} : Wrap(n, b) \in Int /\ LowBits(n, b) \in Int
  <2>1. \A b \in {1, 2, 4, 8, 16} : Half(Size(b)) \in Int
    BY <1>2, <1>3 DEF Half
  <2> QED
    BY <1>2, <1>3, <2>1 DEF Wrap, LowBits
<1>5. \A x \in Field : Reading(t, x) \in Int
  <2>1. \A x \in Field : x \in Int /\ Near(x) \in Int
    BY FieldClosed DEF Field
  <2>2. \A x \in Field : SignedFromEncoding(x, Bytes[t]) \in Int
    <3> SUFFICES ASSUME NEW x \in Field PROVE SignedFromEncoding(x, Bytes[t]) \in Int
      OBVIOUS
    <3> DEFINE b == Bytes[t]
               n == IF Near(x) >= 0 THEN LowBits(Near(x), b) ELSE -LowBits(-Near(x), b)
    <3>1. b \in {1, 2, 4, 8, 16} /\ Near(x) \in Int /\ -Near(x) \in Int
      BY <1>1, <2>1
    <3>2. SignedFromEncoding(x, b) = IF b = 16 THEN Wrap(n, 16) ELSE n
      BY DEF SignedFromEncoding
    <3> HIDE DEF b
    <3>3. LowBits(Near(x), b) \in Int /\ LowBits(-Near(x), b) \in Int
      BY <1>4, <3>1
    <3>4. n \in Int
      BY <3>3
    <3> HIDE DEF n
    <3>5. Wrap(n, 16) \in Int
      BY <1>4, <3>4
    <3> QED
      BY <3>2, <3>4, <3>5 DEF b
  <2> QED
    BY <1>1, <1>4, <2>1, <2>2 DEF Reading
<1>6. \A n \in Int, k \in 0..7 : Limb(n, k) \in Field
  <2>1. \A a, b, c \in Nat : a > 0 /\ b > 0 /\ c > 0 => a * b * c \in Nat /\ a * b * c > 0
    OBVIOUS
  <2>2. \A k \in 0..7 : Unit(k) \in Nat /\ Unit(k) > 0
    <3> SUFFICES ASSUME NEW k \in 0..7 PROVE Unit(k) \in Nat /\ Unit(k) > 0
      OBVIOUS
    <3> DEFINE a == IF k % 2 = 1 THEN Chunk ELSE 1
               b == IF (k \div 2) % 2 = 1 THEN Word ELSE 1
               c == IF k >= 4 THEN Long ELSE 1
    <3>1. a \in Nat /\ a > 0 /\ b \in Nat /\ b > 0 /\ c \in Nat /\ c > 0
      BY Sizes
    <3>2. Unit(k) = a * b * c
      BY DEF Unit
    <3> HIDE DEF a, b, c
    <3> QED
      BY <2>1, <3>1, <3>2
  <2>3. \A m \in Int : m % Chunk \in Field
    BY Sizes DEF Field
  <2> QED
    BY <1>3, <2>2, <2>3 DEF Limb
<1>7. \A x \in Field, k \in 1..ChunkCount(t) : Split(t, x)[k] \in Field
  <2> SUFFICES ASSUME NEW x \in Field, NEW k \in 1..ChunkCount(t)
               PROVE  Split(t, x)[k] \in Field
    OBVIOUS
  <2> DEFINE limb == Limb(Reading(t, x), ChunkCount(t) - k)
  <2>1. limb \in Field
    <3>1. ChunkCount(t) - k \in 0..7
      BY <1>1
    <3> QED
      BY <1>5, <1>6, <3>1
  <2>2. limb \in Int
    BY <2>1 DEF Field
  <2> HIDE DEF limb
  <2>3. Wrap(limb, 2) % FieldSize \in Field
    <3>1. Wrap(limb, 2) \in Int
      BY <1>4, <2>2
    <3>2. \A n \in Int : n % FieldSize \in Field
      BY Sizes DEF Field
    <3> QED
      BY <3>1, <3>2
  <2>4. Split(t, x)[k] = IF k = 1 /\ Signed(t) /\ ChunkCount(t) = 4
                         THEN Wrap(limb, 2) % FieldSize ELSE limb
    BY DEF Split, limb
  <2> QED
    BY <2>1, <2>3, <2>4
<1>8. ChunkColumns(t, col, act) \in [1..ChunkCount(t) -> Column]
  <2>1. \A i \in Rows : col[i] \in Field
    BY DEF Column
  <2>2. \A k \in 1..ChunkCount(t), i \in Rows :
          (IF act # None /\ act[i] = 0 THEN 0 ELSE Split(t, col[i])[k]) \in Field
    BY <1>7, <2>1, ColumnsClosed
  <2> QED
    BY <2>2 DEF ChunkColumns, Column
<1>9. ChunkCount(t) \in Nat
  BY <1>1
<1> QED
  BY <1>8, <1>9, SeqDef

\* The comparison does not change, and with it neither do the tables and the
\* claims that are computed from it.
LEMMA Frame ==
  ASSUME expr' = expr
  PROVE  /\ RootTables' = RootTables /\ Final' = Final
         /\ \A n \in Gadget : Commits(n)' = Commits(n)
         /\ \A n \in Gadget : \A tab, ch :
              GadgetClaims(n, tab, ch)' = GadgetClaims(n, tab, ch)
         /\ Walk(expr.op)' = Walk(expr.op)
         /\ ExprOK' = ExprOK
<1>1. RootTables' = RootTables
  BY DEF RootTables, OrderingTables, EqTables, NotEqTables, PairTables, Encoded, OtherRows
<1>2. Final' = Final
  BY <1>1 DEF Final, WithStrict
<1>3. \A n \in Gadget : Commits(n)' = Commits(n)
  BY DEF Commits
<1>4. \A n \in Gadget : \A tab, ch : SignClaims(n, tab, ch)' = SignClaims(n, tab, ch)
  BY DEF SignClaims
<1>5. RootClaims' = RootClaims
  BY DEF RootClaims
<1>6. \A n \in Gadget : \A tab, ch :
        GadgetClaims(n, tab, ch)' = GadgetClaims(n, tab, ch)
  BY <1>4, <1>5 DEF GadgetClaims
<1>7. Walk(expr.op)' = Walk(expr.op) /\ ExprOK' = ExprOK
  BY DEF ExprOK
<1> QED
  BY <1>1, <1>2, <1>3, <1>6, <1>7

\* The prover: its tables are those of the comparison, and what it has
\* committed are columns.
ProverInv ==
  /\ ppc \in {"root", "strict", "check", "prove", "rejected", "sent"}
  /\ ppc = "strict" => tables = RootTables
  /\ ppc \in {"check", "prove"} => tables = Final
  /\ pos \in Nat /\ coms \in Seq(Column)

\* The verifier: its tables are the same, and the gadgets behind it have made
\* their claims over columns of the proof.
VerifierInv ==
  /\ vpc \in {"root", "strict", "verify", "done"}
  /\ vpc = "strict" => vtables = RootTables
  /\ vpc = "verify" => vtables = Final
  /\ vpos \in Nat /\ vread \in Nat
  /\ vpc = "done" => vpos = Len(Walk(expr.op))
  /\ DOMAIN vclaims = Gadget
  /\ \A k \in DOMAIN Walk(expr.op) : k <= vpos =>
       \E ch \in Seq(Column) :
         /\ Len(ch) = Commits(Walk(expr.op)[k])
         /\ vclaims[Walk(expr.op)[k]] =
              GadgetClaims(Walk(expr.op)[k], Final[Walk(expr.op)[k]], ch)

Inv == ExprOK /\ ProverInv /\ VerifierInv

\* No gadget is met twice on the walk.
LEMMA WalkInjective ==
  /\ Len(Walk(expr.op)) \in Nat /\ DOMAIN Walk(expr.op) = 1..Len(Walk(expr.op))
  /\ \A k \in DOMAIN Walk(expr.op) : Walk(expr.op)[k] \in Gadget
  /\ \A j, k \in DOMAIN Walk(expr.op) : Walk(expr.op)[j] = Walk(expr.op)[k] => j = k
<1> DEFINE Fine(w) ==
             /\ Len(w) \in Nat /\ DOMAIN w = 1..Len(w)
             /\ \A k \in DOMAIN w : w[k] \in Gadget
             /\ \A j, k \in DOMAIN w : w[j] = w[k] => j = k
<1>1. Fine(<<"bool", "eq", "neq", "root">>)
  BY DEF Gadget
<1>2. Fine(<<"bool", "strict", "true", "false", "root">>)
  BY DEF Gadget
<1>3. Fine(<<"bool", "true", "strict", "false", "root">>)
  BY DEF Gadget
<1>4. Walk(expr.op) \in {<<"bool", "eq", "neq", "root">>,
                         <<"bool", "strict", "true", "false", "root">>,
                         <<"bool", "true", "strict", "false", "root">>}
  BY DEF Walk
<1> HIDE DEF Fine
<1>5. Fine(Walk(expr.op))
  BY <1>1, <1>2, <1>3, <1>4
<1> QED
  BY <1>5 DEF Fine

\* The invariant holds at the start.
LEMMA InitInv == Init => Inv
<1> SUFFICES ASSUME Init PROVE Inv
  OBVIOUS
<1>1. ExprOK
  <2>1. PICK op \in Ops, t \in Types :
          \E l, r \in [Rows -> Samples(t)], act \in [Rows -> {0, 1}] \cup {None} :
            \E out \in {ComputedOutput(op, l, r, act)} \cup [Rows -> Outputs] :
              expr = [op |-> op, type |-> t, left |-> l, right |-> r, act |-> act, out |-> out]
    BY DEF Init
  <2>2. PICK l \in [Rows -> Samples(t)], r \in [Rows -> Samples(t)],
             act \in [Rows -> {0, 1}] \cup {None} :
          \E out \in {ComputedOutput(op, l, r, act)} \cup [Rows -> Outputs] :
            expr = [op |-> op, type |-> t, left |-> l, right |-> r, act |-> act, out |-> out]
    BY <2>1
  <2>3. PICK out \in {ComputedOutput(op, l, r, act)} \cup [Rows -> Outputs] :
          expr = [op |-> op, type |-> t, left |-> l, right |-> r, act |-> act, out |-> out]
    BY <2>2
  <2>4. out \in Column
    BY ColumnsClosed, InputAssumption DEF ComputedOutput, Column
  <2> QED
    BY <2>3, <2>4 DEF ExprOK
<1>2. ProverInv
  BY DEF Init, ProverInv
<1>3. VerifierInv
  BY WalkInjective DEF Init, VerifierInv, NoClaims
<1> QED
  BY <1>1, <1>2, <1>3 DEF Inv

\* The prover's commitments stay columns when a gadget is proved.
LEMMA ProveInv ==
  ASSUME Inv, Prove
  PROVE  coms' \in Seq(Column)
<1> DEFINE n == Walk(expr.op)[pos + 1]
           col == Oriented(Side(expr.op, n), Final[n].left)
           ch == IF Commits(n) = 0 THEN <<>> ELSE ChunkColumns(expr.type, col, Final[n].act)
<1>1. tables = Final /\ pos \in Nat /\ pos < Len(Walk(expr.op))
  BY DEF Inv, ProverInv, Prove
<1>2. coms' = coms \o ch
  BY <1>1 DEF Prove
<1>3. pos + 1 \in DOMAIN Walk(expr.op)
  BY <1>1, WalkInjective
<1>4. expr.type \in Type /\ ExprOK
  BY InputAssumption DEF Inv, ExprOK
<1>5. CASE n \in {"true", "false"}
  <2>1. expr.op \in Orderings
    BY <1>3, <1>5 DEF Walk
  <2>2. Final[n].left = DiffColumn
    BY <1>4, <1>5, <2>1, FinalTables DEF Table
  <2>3. col \in Column
    BY <1>4, <2>2, Columns, ColumnsClosed DEF Oriented
  <2> HIDE DEF col
  <2>4. ch \in Seq(Column)
    BY <1>4, <2>3, ChunksTyped
  <2> HIDE DEF ch
  <2> QED
    BY <1>2, <2>4, ConcatProperties DEF Inv, ProverInv
<1>6. CASE n \notin {"true", "false"}
  <2>1. ch = <<>>
    BY <1>6 DEF Commits
  <2> HIDE DEF ch
  <2> QED
    BY <1>2, <2>1 DEF Inv, ProverInv
<1> QED
  BY <1>5, <1>6

\* A gadget that is verified makes its claims over columns of the proof.
LEMMA VerifyInv ==
  ASSUME Inv, Verify
  PROVE  VerifierInv'
<1> DEFINE W == Walk(expr.op)
           n == W[vpos + 1]
           ch == NextComs(n)
<1>1. /\ vpc = "verify" /\ vtables = Final /\ vpos \in Nat /\ vread \in Nat
      /\ vpos < Len(W) /\ coms \in Seq(Column)
  BY DEF Inv, ProverInv, VerifierInv, Verify
<1>2. /\ vread + Commits(n) <= Len(coms)
      /\ vclaims' = [vclaims EXCEPT ![n] = GadgetClaims(n, Final[n], ch)]
      /\ vread' = vread + Commits(n) /\ vpos' = vpos + 1
      /\ expr' = expr /\ vtables' = vtables /\ vpc' = vpc
  BY <1>1 DEF Verify
<1>3. vpos + 1 \in DOMAIN W /\ n \in Gadget
  <2>1. vpos + 1 \in DOMAIN W
    BY <1>1, WalkInjective
  <2> QED
    BY <2>1, WalkInjective
<1>4. Commits(n) \in Nat
  BY DEF Commits, ChunkCount
<1>5. ch \in Seq(Column) /\ Len(ch) = Commits(n)
  <2> DEFINE m == vread + 1
             e == vread + Commits(n)
  <2>1. ch = SubSeq(coms, m, e)
    BY DEF NextComs
  <2>3. Len(coms) \in Nat
    BY <1>1
  <2>2. m \in Nat /\ m >= 1 /\ e \in Nat /\ e <= Len(coms) /\ m <= e + 1 /\ e - m + 1 = Commits(n)
    <3> DEFINE x == Commits(n)
               l == Len(coms)
    <3>1. x \in Nat /\ l \in Nat /\ vread \in Nat /\ vread + x <= l
      BY <1>1, <1>2, <1>4, <2>3
    <3>2. m = vread + 1 /\ e = vread + x
      OBVIOUS
    <3> HIDE DEF x, l, m, e
    <3>3. m \in Nat /\ m >= 1 /\ e \in Nat /\ e <= l /\ m <= e + 1 /\ e - m + 1 = x
      BY <3>1, <3>2
    <3> QED
      BY <3>3 DEF x, l
  <2> HIDE DEF m, e, ch
  <2>4. \A j \in m..e : coms[j] \in Column
    <3>1. \A j \in 1..Len(coms) : coms[j] \in Column
      BY <1>1
    <3> QED
      BY <2>2, <2>3, <3>1
  <2>5. /\ SubSeq(coms, m, e) \in Seq(Column)
        /\ Len(SubSeq(coms, m, e)) = IF m <= e THEN e - m + 1 ELSE 0
    BY <2>2, <2>4, SubSeqProperties
  <2> QED
    BY <1>4, <2>1, <2>2, <2>5
<1>6. /\ DOMAIN vclaims' = Gadget
      /\ vclaims'[n] = GadgetClaims(n, Final[n], ch)
      /\ \A g \in Gadget : g # n => vclaims'[g] = vclaims[g]
  BY <1>2, <1>3 DEF Inv, VerifierInv
<1>7. \A k \in DOMAIN W : k <= vpos + 1 =>
        \E c \in Seq(Column) :
          Len(c) = Commits(W[k]) /\ vclaims'[W[k]] = GadgetClaims(W[k], Final[W[k]], c)
  <2> SUFFICES ASSUME NEW k \in DOMAIN W, k <= vpos + 1
               PROVE  \E c \in Seq(Column) :
                        /\ Len(c) = Commits(W[k])
                        /\ vclaims'[W[k]] = GadgetClaims(W[k], Final[W[k]], c)
    OBVIOUS
  <2>1. CASE k = vpos + 1
    BY <1>5, <1>6, <2>1
  <2>2. CASE k # vpos + 1
    <3>1. k <= vpos /\ W[k] # n /\ W[k] \in Gadget
      BY <1>1, <1>3, <2>2, WalkInjective
    <3>2. \E c \in Seq(Column) :
            Len(c) = Commits(W[k]) /\ vclaims[W[k]] = GadgetClaims(W[k], Final[W[k]], c)
      BY <3>1 DEF Inv, VerifierInv
    <3> QED
      BY <1>6, <3>1, <3>2
  <2> QED
    BY <2>1, <2>2
<1>8. /\ Walk(expr.op)' = W /\ Final' = Final
      /\ \A g \in Gadget : Commits(g)' = Commits(g)
      /\ \A g \in Gadget : \A tab, c : GadgetClaims(g, tab, c)' = GadgetClaims(g, tab, c)
  BY <1>2, Frame
<1>9. \A k \in DOMAIN W : W[k] \in Gadget
  BY WalkInjective
<1>10. \A k \in DOMAIN Walk(expr.op)' : k <= vpos' =>
         \E c \in Seq(Column) :
           /\ Len(c) = Commits(Walk(expr.op)[k])'
           /\ vclaims'[Walk(expr.op)'[k]] =
                GadgetClaims(Walk(expr.op)[k], Final[Walk(expr.op)[k]], c)'
  <2> HIDE DEF W
  <2> QED
    BY <1>2, <1>7, <1>8, <1>9
<1>11. vpos' \in Nat /\ vread' \in Nat /\ vpc' = "verify" /\ vtables' = Final'
  BY <1>1, <1>2, <1>4, <1>8
<1> QED
  BY <1>6, <1>10, <1>11 DEF VerifierInv

\* Every step keeps the invariant.
LEMMA StepInv == Inv /\ [Next]_vars => Inv'
<1> SUFFICES ASSUME Inv, [Next]_vars PROVE Inv'
  OBVIOUS
<1>1. expr' = expr
  BY DEF Next, vars, pvars, vvars, InitRoot, InitStrict, HonestPass, Prove, SendProof,
         VInitRoot, VInitStrict, Verify, Finish, Stopped
<1>2. /\ ExprOK' /\ RootTables' = RootTables /\ Final' = Final
      /\ Walk(expr.op)' = Walk(expr.op)
  BY <1>1, Frame DEF Inv
<1>3. ASSUME UNCHANGED pvars PROVE ProverInv'
  BY <1>2, <1>3 DEF Inv, ProverInv, pvars
<1>4. ASSUME UNCHANGED <<vpos, vclaims>>
      PROVE  \A k \in DOMAIN Walk(expr.op)' : k <= vpos' =>
               \E ch \in Seq(Column) :
                 /\ Len(ch) = Commits(Walk(expr.op)[k])'
                 /\ vclaims'[Walk(expr.op)'[k]] =
                      GadgetClaims(Walk(expr.op)[k], Final[Walk(expr.op)[k]], ch)'
  <2>1. \A k \in DOMAIN Walk(expr.op) : Walk(expr.op)[k] \in Gadget
    BY WalkInjective
  <2> QED
    BY <1>1, <1>2, <1>4, <2>1, Frame DEF Inv, VerifierInv
<1>5. ASSUME UNCHANGED vvars PROVE VerifierInv'
  BY <1>2, <1>4, <1>5 DEF Inv, VerifierInv, vvars
<1>6. CASE InitRoot
  <2>1. ProverInv'
    BY <1>2, <1>6 DEF InitRoot, Inv, ProverInv
  <2> QED
    BY <1>2, <1>5, <1>6, <2>1 DEF InitRoot, Inv
<1>7. CASE InitStrict
  <2>1. ProverInv'
    BY <1>2, <1>7 DEF InitStrict, Inv, ProverInv, Final
  <2> QED
    BY <1>2, <1>5, <1>7, <2>1 DEF InitStrict, Inv
<1>8. CASE HonestPass
  <2>1. ProverInv'
    BY <1>2, <1>8 DEF HonestPass, Inv, ProverInv
  <2> QED
    BY <1>2, <1>5, <1>8, <2>1 DEF HonestPass, Inv
<1>9. CASE Prove
  <2>1. ProverInv'
    BY <1>2, <1>9, ProveInv DEF Prove, Inv, ProverInv
  <2> QED
    BY <1>2, <1>5, <1>9, <2>1 DEF Prove, Inv
<1>10. CASE SendProof
  <2>1. ProverInv'
    BY <1>2, <1>10 DEF SendProof, Inv, ProverInv
  <2> QED
    BY <1>2, <1>5, <1>10, <2>1 DEF SendProof, Inv
<1>11. CASE VInitRoot
  <2>1. VerifierInv'
    BY <1>2, <1>4, <1>11 DEF VInitRoot, Inv, VerifierInv
  <2> QED
    BY <1>2, <1>3, <1>11, <2>1 DEF VInitRoot, Inv
<1>12. CASE VInitStrict
  <2>1. VerifierInv'
    BY <1>2, <1>4, <1>12 DEF VInitStrict, Inv, VerifierInv, Final
  <2> QED
    BY <1>2, <1>3, <1>12, <2>1 DEF VInitStrict, Inv
<1>13. CASE Verify
  BY <1>2, <1>3, <1>13, VerifyInv DEF Verify, Inv
<1>14. CASE Finish
  <2>1. VerifierInv'
    BY <1>2, <1>4, <1>14 DEF Finish, Inv, VerifierInv
  <2> QED
    BY <1>2, <1>3, <1>14, <2>1 DEF Finish, Inv
<1>15. CASE UNCHANGED vars
  BY <1>2, <1>3, <1>5, <1>15 DEF vars, Inv
<1> QED
  BY <1>6, <1>7, <1>8, <1>9, <1>10, <1>11, <1>12, <1>13, <1>14, <1>15 DEF Next, Stopped

\* A verifier whose claims all hold has seen every gadget's claims hold.
LEMMA InvSound == NoZeroDivisors /\ NoDecimals /\ Inv => AcceptedIsCorrect
<1> SUFFICES ASSUME NoZeroDivisors, NoDecimals, Inv, Accepted PROVE expr.out = Computed
  BY DEF AcceptedIsCorrect
<1> DEFINE W == Walk(expr.op)
<1>1. vpos = Len(W)
  BY DEF Inv, VerifierInv, Accepted
<1>2. \A k \in DOMAIN W : k <= vpos /\ W[k] \in Gadget
  BY <1>1, WalkInjective
<1>3. \A k \in DOMAIN W :
        \E ch \in Seq(Column) :
          Len(ch) = Commits(W[k]) /\ vclaims[W[k]] = GadgetClaims(W[k], Final[W[k]], ch)
  BY <1>2 DEF Inv, VerifierInv
<1>4. \A n \in Gadget : AllHold(vclaims[n])
  BY DEF Accepted, AllHold
<1>5. \A k \in DOMAIN W : Claimed(W[k])
  BY <1>2, <1>3, <1>4 DEF Claimed
<1> QED
  BY <1>5, OutputRight DEF Inv

\* For every field without zero divisors, every number of rows, every activator
\* and all types but the decimals, whatever column the prover committed as the
\* output of a comparison (binary_expr's output node and the gadgets of bin_cmp,
\* bin_eq and bin_neq under it): if all claims hold, it is the comparison.
THEOREM Sound ==
  ASSUME NoZeroDivisors, NoDecimals
  PROVE  Spec => []AcceptedIsCorrect
<1>1. Init => Inv
  BY InitInv
<1>2. Inv /\ [Next]_vars => Inv'
  BY StepInv
<1>3. Inv => AcceptedIsCorrect
  BY InvSound
<1> QED
  BY <1>1, <1>2, <1>3, PTL DEF Spec

-----------------------------------------------------------------------------
(***************************************************************************)
(* That the two sides of a comparison agree and that an honest prover is   *)
(* not turned away: the verifier makes the prover's claims, the honest-    *)
(* prover pass stops no computed output, and every claim about a computed  *)
(* output is true.  For every field and byte of the assumptions, every     *)
(* column length, and every type but the decimals.                         *)
(***************************************************************************)

(***************************************************************************)
(* Where the commitments of a gadget lie in the proof.                     *)
(***************************************************************************)
W == Walk(expr.op)
\* Gadget n comes before place k of the walk.
Behind(n, k) == \E j \in DOMAIN W : j < k /\ W[j] = n

\* How many chunk columns are committed before place k: those of the sign
\* gadgets behind it.
Share(n, k) == IF Behind(n, k) THEN ChunkCount(expr.type) ELSE 0
Offset(k) == Share("true", k) + Share("false", k)

\* The commitments that lie at the place of gadget W[k].
Slice(k) == SubSeq(coms, Offset(k) + 1, Offset(k) + Commits(W[k]))

\* The columns gadget n commits, and what it claims over them.
Chunks(n) ==
  IF Commits(n) = 0 THEN <<>>
  ELSE ChunkColumns(expr.type, Oriented(Side(expr.op, n), Final[n].left), Final[n].act)
HonestClaims(n) == GadgetClaims(n, Final[n], Chunks(n))
ClaimsBehind(k) == [n \in Gadget |-> IF Behind(n, k) THEN HonestClaims(n) ELSE <<>>]

\* The prover has claimed at the gadgets behind it, over its own columns, and
\* these lie at the gadgets' places.
CommittedInv ==
  /\ pos <= Len(W) /\ (ppc = "sent" => pos = Len(W))
  /\ Len(coms) = Offset(pos + 1)
  /\ \A k \in DOMAIN W : k <= pos => Slice(k) = Chunks(W[k])
  /\ claims = ClaimsBehind(pos + 1)

\* The verifier, who starts when the proof is complete, has read up to its own
\* place, and has made the claims of the gadgets behind it.
ReadInv ==
  /\ vpos <= Len(W) /\ (vpc = "root" => vpos = 0) /\ (vpc # "root" => ppc = "sent")
  /\ vread = Offset(vpos + 1)
  /\ vclaims = ClaimsBehind(vpos + 1)

MirrorInv == Inv /\ CommittedInv /\ ReadInv

\* Only the sign gadgets commit, as many columns as a value has chunks.
LEMMA CommitsOf ==
  /\ ChunkCount(expr.type) \in Nat
  /\ \A n \in Gadget :
       Commits(n) = IF n \in {"true", "false"} THEN ChunkCount(expr.type) ELSE 0
BY DEF Commits, ChunkCount

\* Nothing is behind the first place, and one place further on the gadget in
\* between is behind as well, which was not before.
LEMMA BehindNext ==
  /\ \A n : ~Behind(n, 1)
  /\ \A k \in DOMAIN W : ~Behind(W[k], k)
  /\ \A k \in DOMAIN W : \A n : Behind(n, k + 1) <=> Behind(n, k) \/ n = W[k]
  /\ \A k \in DOMAIN W : Behind(W[k], Len(W) + 1)
<1>1. DOMAIN W \subseteq Nat /\ \A k \in DOMAIN W : k >= 1 /\ k <= Len(W)
  BY WalkInjective DEF W
<1>2. Len(W) \in Nat
  BY WalkInjective DEF W
<1>3. \A n : ~Behind(n, 1)
  BY <1>1 DEF Behind
<1>4. \A k \in DOMAIN W : ~Behind(W[k], k)
  BY <1>1, WalkInjective DEF Behind, W
<1>5. \A k \in DOMAIN W : \A n : Behind(n, k + 1) <=> Behind(n, k) \/ n = W[k]
  <2> SUFFICES ASSUME NEW k \in DOMAIN W, NEW n
               PROVE  Behind(n, k + 1) <=> Behind(n, k) \/ n = W[k]
    OBVIOUS
  <2>1. \A j \in DOMAIN W : j < k + 1 <=> j < k \/ j = k
    BY <1>1
  <2> QED
    BY <2>1 DEF Behind
<1>6. \A k \in DOMAIN W : Behind(W[k], Len(W) + 1)
  BY <1>1, <1>2 DEF Behind
<1> QED
  BY <1>3, <1>4, <1>5, <1>6

\* The offset starts at zero and grows by what the gadget of a place commits.
LEMMA OffsetNext ==
  /\ Offset(1) = 0
  /\ \A k : Offset(k) \in Nat
  /\ \A k \in DOMAIN W : Offset(k + 1) = Offset(k) + Commits(W[k])
<1>1. Offset(1) = 0
  BY BehindNext DEF Offset, Share
<1>2. \A k : Offset(k) \in Nat
  <2>1. \A n, k : Share(n, k) \in Nat
    BY CommitsOf DEF Share
  <2> QED
    BY <2>1 DEF Offset
<1>3. \A k \in DOMAIN W : Offset(k + 1) = Offset(k) + Commits(W[k])
  <2> SUFFICES ASSUME NEW k \in DOMAIN W
               PROVE  Offset(k + 1) = Offset(k) + Commits(W[k])
    OBVIOUS
  <2> DEFINE c == ChunkCount(expr.type)
  <2>1. c \in Nat /\ Commits(W[k]) = IF W[k] \in {"true", "false"} THEN c ELSE 0
    BY CommitsOf, WalkInjective DEF W
  <2>2. \A n : Share(n, k + 1) = Share(n, k) + (IF n = W[k] THEN c ELSE 0)
    <3> SUFFICES ASSUME NEW n
                 PROVE  Share(n, k + 1) = Share(n, k) + (IF n = W[k] THEN c ELSE 0)
      OBVIOUS
    <3>1. CASE n = W[k]
      <4>1. Share(n, k) = 0 /\ Share(n, k + 1) = c
        BY <3>1, BehindNext DEF Share
      <4> QED
        BY <2>1, <3>1, <4>1
    <3>2. CASE n # W[k]
      <4>1. Share(n, k + 1) = Share(n, k) /\ Share(n, k) \in Nat
        BY <2>1, <3>2, BehindNext DEF Share
      <4> QED
        BY <3>2, <4>1
    <3> QED
      BY <3>1, <3>2
  <2>3. Share("true", k) \in Nat /\ Share("false", k) \in Nat
    BY <2>1 DEF Share
  <2> HIDE DEF c
  <2> QED
    BY <2>1, <2>2, <2>3 DEF Offset
<1> QED
  BY <1>1, <1>2, <1>3

\* The commitments of a gadget end before those of a later one begin.
LEMMA OffsetMonotone ==
  ASSUME NEW k \in DOMAIN W, NEW m \in Nat, k < m
  PROVE  Offset(k) + Commits(W[k]) <= Offset(m)
<1>1. Offset(k) + Commits(W[k]) = Offset(k + 1)
  BY OffsetNext
<1>2. \A n : Behind(n, k + 1) => Behind(n, m)
  <2>1. \A j \in DOMAIN W : j < k + 1 => j < m
    BY WalkInjective DEF W
  <2> QED
    BY <2>1 DEF Behind
<1>3. \A n : Share(n, k + 1) <= Share(n, m) /\ Share(n, k + 1) \in Nat /\ Share(n, m) \in Nat
  BY <1>2, CommitsOf DEF Share
<1>4. \A a, b, c, d \in Nat : a <= c /\ b <= d => a + b <= c + d
  OBVIOUS
<1> QED
  BY <1>1, <1>3, <1>4 DEF Offset

\* What was read of a list is read of the list with more at its end.
LEMMA SliceKept ==
  ASSUME NEW S, NEW s \in Seq(S), NEW t \in Seq(S), NEW o \in Nat, NEW c \in Nat,
         o + c <= Len(s)
  PROVE  SubSeq(s \o t, o + 1, o + c) = SubSeq(s, o + 1, o + c)
<1>1. Len(s) \in Nat
  BY LenProperties
<1>2. CASE c = 0
  <2>1. o + c < o + 1 /\ o + 1 \in Int /\ o + c \in Int
    BY <1>2
  <2>2. \A l : SubSeq(l, o + 1, o + c) = <<>>
    BY <2>1, SubSeqEmpty
  <2> QED
    BY <2>2
<1>3. CASE c > 0
  <2>1. o + 1 \in 1..Len(s) /\ o + c \in 1..Len(s)
    BY <1>1, <1>3
  <2> QED
    BY <2>1, SubSeqOfConcat1
<1> QED
  BY <1>2, <1>3

\* Reading on where a list ended gives what was added to it.
LEMMA SliceAdded ==
  ASSUME NEW S, NEW s \in Seq(S), NEW t \in Seq(S)
  PROVE  SubSeq(s \o t, Len(s) + 1, Len(s) + Len(t)) = t
<1>1. Len(s) \in Nat /\ Len(t) \in Nat
  BY LenProperties
<1> DEFINE a == Len(s)
           b == Len(t)
<1>2. CASE b = 0
  <2>1. a + b < a + 1 /\ a + 1 \in Int /\ a + b \in Int
    BY <1>1, <1>2
  <2>2. SubSeq(s \o t, a + 1, a + b) = <<>>
    BY <2>1, SubSeqEmpty
  <2>3. t = <<>>
    BY <1>2, EmptySeq
  <2> QED
    BY <2>2, <2>3
<1>3. CASE b > 0
  <2>1. a + 1 \in a + 1..a + b /\ a + b \in a + 1..a + b
    BY <1>1, <1>3
  <2>2. SubSeq(s \o t, a + 1, a + b) = SubSeq(t, (a + 1) - a, (a + b) - a)
    BY <2>1, SubSeqOfConcat2
  <2>3. (a + 1) - a = 1 /\ (a + b) - a = b
    BY <1>1
  <2> QED
    BY <2>2, <2>3, SubSeqFull
<1> QED
  BY <1>1, <1>2, <1>3

\* A gadget that commits is a sign gadget of an ordering, and its columns are
\* columns of field elements, as many as it commits.
LEMMA ChunksOf ==
  ASSUME ExprOK, NEW k \in DOMAIN W
  PROVE  Chunks(W[k]) \in Seq(Column) /\ Len(Chunks(W[k])) = Commits(W[k])
<1> DEFINE n == W[k]
           col == Oriented(Side(expr.op, n), Final[n].left)
<1>1. expr.type \in Type
  BY InputAssumption DEF ExprOK
<1>2. n \in Gadget /\ Commits(n) \in Nat
  BY CommitsOf, WalkInjective DEF W
<1>3. CASE Commits(n) = 0
  <2>1. Chunks(n) = <<>>
    BY <1>3 DEF Chunks
  <2> QED
    BY <1>3, <2>1, EmptySeq
<1>4. CASE Commits(n) # 0
  <2>1. n \in {"true", "false"} /\ Commits(n) = ChunkCount(expr.type)
    BY <1>2, <1>4, CommitsOf
  <2>2. expr.op \in Orderings
    BY <2>1 DEF W, Walk
  <2>3. Final[n].left = DiffColumn
    BY <2>1, <2>2, FinalTables DEF Table
  <2>4. col \in Column
    BY <2>3, Columns, ColumnsClosed DEF Oriented
  <2>5. Chunks(n) = ChunkColumns(expr.type, col, Final[n].act)
    BY <1>4 DEF Chunks
  <2> HIDE DEF n, col
  <2>6. Chunks(n) \in Seq(Column)
    BY <1>1, <2>4, <2>5, ChunksTyped
  <2>7. DOMAIN Chunks(n) = 1..Commits(n)
    BY <2>1, <2>5 DEF ChunkColumns
  <2>8. Len(Chunks(n)) = Commits(n)
    BY <1>2, <2>6, <2>7, LenProperties
  <2> QED
    BY <2>6, <2>8 DEF n
<1> QED
  BY <1>3, <1>4

\* At the first place nothing has been claimed; a place further on the gadget in
\* between has.
LEMMA ClaimsNext ==
  /\ ClaimsBehind(1) = NoClaims
  /\ \A k \in DOMAIN W :
       ClaimsBehind(k + 1) = [ClaimsBehind(k) EXCEPT ![W[k]] = HonestClaims(W[k])]
<1>1. ClaimsBehind(1) = NoClaims
  BY BehindNext DEF ClaimsBehind, NoClaims
<1>2. ASSUME NEW k \in DOMAIN W
      PROVE  ClaimsBehind(k + 1) = [ClaimsBehind(k) EXCEPT ![W[k]] = HonestClaims(W[k])]
  BY BehindNext DEF ClaimsBehind
<1> QED
  BY <1>1, <1>2

\* None of this changes while the comparison stays the same.
LEMMA MirrorFrame ==
  ASSUME expr' = expr
  PROVE  /\ W' = W
         /\ \A n \in Gadget : Chunks(n)' = Chunks(n)
         /\ \A k : ClaimsBehind(k)' = ClaimsBehind(k)
         /\ \A k : Offset(k)' = Offset(k)
<1>1. W' = W
  BY DEF W
<1>2. \A n \in Gadget : Chunks(n)' = Chunks(n)
  BY Frame DEF Chunks
<1>3. \A n \in Gadget : HonestClaims(n)' = HonestClaims(n)
  BY <1>2, Frame DEF HonestClaims
<1>4. \A n, k : Behind(n, k)' = Behind(n, k)
  BY <1>1 DEF Behind
<1>5. \A k : Offset(k)' = Offset(k)
  BY <1>4 DEF Offset, Share
<1>6. \A k : ClaimsBehind(k)' = ClaimsBehind(k)
  BY <1>3, <1>4 DEF ClaimsBehind
<1> QED
  BY <1>1, <1>2, <1>5, <1>6

\* Nothing is claimed at the start.
LEMMA InitMirror == Init => CommittedInv /\ ReadInv
<1> SUFFICES ASSUME Init PROVE CommittedInv /\ ReadInv
  OBVIOUS
<1>1. Len(W) \in Nat /\ \A k \in DOMAIN W : k >= 1 /\ k \in Nat
  BY WalkInjective DEF W
<1>2. Offset(0 + 1) = 0 /\ ClaimsBehind(0 + 1) = NoClaims
  BY OffsetNext, ClaimsNext
<1>3. /\ pos = 0 /\ vpos = 0 /\ vread = 0 /\ coms = <<>> /\ Len(coms) = 0
      /\ claims = NoClaims /\ vclaims = NoClaims /\ ppc = "root" /\ vpc = "root"
  BY DEF Init
<1>5. \A k \in DOMAIN W : ~(k <= pos)
  BY <1>1, <1>3
<1>6. CommittedInv
  BY <1>1, <1>2, <1>3, <1>5 DEF CommittedInv
<1>7. ReadInv
  BY <1>1, <1>2, <1>3 DEF ReadInv
<1> QED
  BY <1>6, <1>7

\* Proving a gadget commits its columns behind those of the earlier ones.
LEMMA ProveMirror ==
  ASSUME MirrorInv, Prove
  PROVE  CommittedInv' /\ ReadInv'
<1> DEFINE k == pos + 1
           n == W[k]
<1>1. /\ ppc = "prove" /\ tables = Final /\ pos \in Nat /\ pos < Len(W) /\ ExprOK
      /\ coms \in Seq(Column) /\ Len(W) \in Nat
  BY WalkInjective DEF MirrorInv, Inv, ProverInv, Prove, W
<1>2. k \in DOMAIN W /\ n \in Gadget
  BY <1>1, WalkInjective DEF W
<1>3. /\ coms' = coms \o Chunks(n)
      /\ claims' = [claims EXCEPT ![n] = HonestClaims(n)]
      /\ pos' = k /\ ppc' = ppc /\ expr' = expr /\ UNCHANGED vvars
  BY <1>1 DEF Prove, Chunks, HonestClaims, W
<1>4. Chunks(n) \in Seq(Column) /\ Len(Chunks(n)) = Commits(n)
  BY <1>1, <1>2, ChunksOf
<1>5. Len(coms) = Offset(k) /\ Offset(k + 1) = Offset(k) + Commits(n)
  BY <1>2, OffsetNext DEF MirrorInv, CommittedInv
<1>6. Len(coms') = Offset(k + 1)
  <2> DEFINE ch == Chunks(n)
  <2>1. ch \in Seq(Column) /\ coms' = coms \o ch
    BY <1>3, <1>4
  <2> HIDE DEF ch
  <2>2. Len(coms \o ch) = Len(coms) + Len(ch)
    BY <1>1, <2>1, ConcatProperties
  <2> QED
    BY <1>4, <1>5, <2>1, <2>2 DEF ch
<1>7. \A j \in DOMAIN W : j <= k =>
        SubSeq(coms', Offset(j) + 1, Offset(j) + Commits(W[j])) = Chunks(W[j])
  <2> SUFFICES ASSUME NEW j \in DOMAIN W, j <= k
               PROVE  SubSeq(coms', Offset(j) + 1, Offset(j) + Commits(W[j])) = Chunks(W[j])
    OBVIOUS
  <2>1. CASE j = k
    BY <1>1, <1>3, <1>4, <1>5, <2>1, SliceAdded
  <2>2. CASE j # k
    <3>1. j \in Nat /\ j < k /\ j <= pos /\ k \in Nat
      BY <1>1, <2>2, WalkInjective DEF W
    <3>2. Offset(j) + Commits(W[j]) <= Len(coms)
      BY <1>5, <3>1, OffsetMonotone
    <3>3. Offset(j) \in Nat /\ Commits(W[j]) \in Nat
      BY OffsetNext, CommitsOf, WalkInjective DEF W
    <3>4. SubSeq(coms', Offset(j) + 1, Offset(j) + Commits(W[j])) = Slice(j)
      BY <1>1, <1>3, <1>4, <3>2, <3>3, SliceKept DEF Slice
    <3> QED
      BY <3>1, <3>4 DEF MirrorInv, CommittedInv
  <2> QED
    BY <2>1, <2>2
<1>8. claims' = ClaimsBehind(k + 1)
  BY <1>2, <1>3, ClaimsNext DEF MirrorInv, CommittedInv
<1>9. /\ W' = W
      /\ \A g \in Gadget : Chunks(g)' = Chunks(g) /\ Commits(g)' = Commits(g)
      /\ \A m : ClaimsBehind(m)' = ClaimsBehind(m)
      /\ \A m : Offset(m)' = Offset(m)
  BY <1>3, MirrorFrame, Frame
<1>10. \A j \in DOMAIN W : W[j] \in Gadget
  BY WalkInjective DEF W
<1>11. \A j \in DOMAIN W' : j <= pos' => Slice(j)' = Chunks(W[j])'
  BY <1>3, <1>7, <1>9, <1>10 DEF Slice
<1>12. CommittedInv'
  <2>1. pos' <= Len(W') /\ (ppc' = "sent" => pos' = Len(W'))
    BY <1>1, <1>3, <1>9
  <2>2. Len(coms') = Offset(pos + 1)'
    BY <1>3, <1>6, <1>9
  <2>3. claims' = ClaimsBehind(pos + 1)'
    BY <1>3, <1>8, <1>9
  <2> QED
    BY <2>1, <2>2, <2>3, <1>11 DEF CommittedInv
<1>13. ReadInv'
  <2>1. ReadInv
    BY DEF MirrorInv
  <2> QED
    BY <1>3, <1>9, <2>1 DEF ReadInv, vvars
<1> QED
  BY <1>12, <1>13

\* A step that proves or verifies no gadget leaves what was claimed as it is.
LEMMA CommittedKept ==
  ASSUME MirrorInv, UNCHANGED <<expr, pos, coms, claims>>,
         ppc' = "sent" => ppc = "sent" \/ pos = Len(W)
  PROVE  CommittedInv'
<1>1. /\ W' = W
      /\ \A g \in Gadget : Chunks(g)' = Chunks(g) /\ Commits(g)' = Commits(g)
      /\ \A m : ClaimsBehind(m)' = ClaimsBehind(m)
      /\ \A m : Offset(m)' = Offset(m)
  BY MirrorFrame, Frame
<1>2. \A j \in DOMAIN W : W[j] \in Gadget
  BY WalkInjective DEF W
<1>3. \A j \in DOMAIN W : Slice(j)' = Slice(j)
  BY <1>1, <1>2 DEF Slice
<1>4. CommittedInv
  BY DEF MirrorInv
<1>5. pos' <= Len(W') /\ (ppc' = "sent" => pos' = Len(W'))
  BY <1>1, <1>4 DEF CommittedInv
<1>6. Len(coms') = Offset(pos + 1)'
  BY <1>1, <1>4 DEF CommittedInv
<1>7. \A j \in DOMAIN W' : j <= pos' => Slice(j)' = Chunks(W[j])'
  BY <1>1, <1>2, <1>3, <1>4 DEF CommittedInv
<1>8. claims' = ClaimsBehind(pos + 1)'
  BY <1>1, <1>4 DEF CommittedInv
<1> QED
  BY <1>5, <1>6, <1>7, <1>8 DEF CommittedInv

\* The same for what the verifier has read.
LEMMA ReadKept ==
  ASSUME MirrorInv, UNCHANGED <<expr, vpos, vread, vclaims>>,
         vpc' = "root" => vpc = "root", vpc' # "root" => ppc' = "sent"
  PROVE  ReadInv'
<1>1. /\ W' = W
      /\ \A m : ClaimsBehind(m)' = ClaimsBehind(m)
      /\ \A m : Offset(m)' = Offset(m)
  BY MirrorFrame
<1>2. ReadInv
  BY DEF MirrorInv
<1>3. vread' = Offset(vpos + 1)'
  BY <1>1, <1>2 DEF ReadInv
<1>4. vclaims' = ClaimsBehind(vpos + 1)'
  BY <1>1, <1>2 DEF ReadInv
<1> QED
  BY <1>1, <1>2, <1>3, <1>4 DEF ReadInv

\* Verifying a gadget reads the columns it committed.
LEMMA VerifyMirror ==
  ASSUME MirrorInv, Verify
  PROVE  CommittedInv' /\ ReadInv'
<1> DEFINE k == vpos + 1
           n == W[k]
<1>1. /\ vpc = "verify" /\ vtables = Final /\ vpos \in Nat /\ vpos < Len(W)
      /\ Len(W) \in Nat /\ DOMAIN vclaims = Gadget
  BY WalkInjective DEF MirrorInv, Inv, VerifierInv, Verify, W
<1>2. k \in DOMAIN W /\ n \in Gadget
  BY <1>1, WalkInjective DEF W
<1>3. vread = Offset(k) /\ Offset(k + 1) = Offset(k) + Commits(n)
  BY <1>2, OffsetNext DEF MirrorInv, ReadInv
<1>4. NextComs(n) = Chunks(n)
  <2>1. ppc = "sent" /\ pos = Len(W)
    BY <1>1 DEF MirrorInv, ReadInv, CommittedInv
  <2>2. k <= pos
    BY <1>1, <2>1
  <2> QED
    BY <1>2, <1>3, <2>2 DEF MirrorInv, CommittedInv, Slice, NextComs
<1>5. /\ vclaims' = [vclaims EXCEPT ![n] = HonestClaims(n)]
      /\ vread' = Offset(k + 1) /\ vpos' = k
      /\ expr' = expr /\ vpc' = vpc /\ UNCHANGED pvars
  BY <1>1, <1>3, <1>4 DEF Verify, HonestClaims, W
<1>6. vclaims' = ClaimsBehind(k + 1)
  BY <1>2, <1>5, ClaimsNext DEF MirrorInv, ReadInv
<1>7. /\ W' = W
      /\ \A m : ClaimsBehind(m)' = ClaimsBehind(m)
      /\ \A m : Offset(m)' = Offset(m)
  BY <1>5, MirrorFrame
<1>8. ReadInv'
  <2>1. /\ vpos' <= Len(W') /\ (vpc' = "root" => vpos' = 0)
        /\ (vpc' # "root" => ppc' = "sent")
    BY <1>1, <1>5, <1>7 DEF MirrorInv, ReadInv, pvars
  <2>2. vread' = Offset(vpos + 1)'
    BY <1>5, <1>7
  <2>3. vclaims' = ClaimsBehind(vpos + 1)'
    BY <1>5, <1>6, <1>7
  <2> QED
    BY <2>1, <2>2, <2>3 DEF ReadInv
<1>9. CommittedInv'
  BY <1>5, CommittedKept DEF pvars
<1> QED
  BY <1>8, <1>9

\* Every step keeps the invariant.
LEMMA StepMirror == MirrorInv /\ [Next]_vars => MirrorInv'
<1> SUFFICES ASSUME MirrorInv, [Next]_vars PROVE MirrorInv'
  OBVIOUS
<1>1. Inv'
  BY StepInv DEF MirrorInv
<1>2. CASE InitRoot \/ InitStrict \/ HonestPass
  <2>1. /\ UNCHANGED <<expr, pos, coms, claims, vpc, vpos, vread, vclaims>>
        /\ ppc # "sent" /\ ppc' # "sent"
    BY <1>2 DEF InitRoot, InitStrict, HonestPass, vvars
  <2>2. vpc = "root"
    BY <2>1 DEF MirrorInv, ReadInv
  <2> QED
    BY <1>1, <2>1, <2>2, CommittedKept, ReadKept DEF MirrorInv
<1>3. CASE Prove
  BY <1>1, <1>3, ProveMirror DEF MirrorInv
<1>4. CASE SendProof
  <2>1. /\ UNCHANGED <<expr, pos, coms, claims, vpc, vpos, vread, vclaims>>
        /\ pos = Len(W) /\ ppc' = "sent"
    BY <1>4 DEF SendProof, W, vvars
  <2> QED
    BY <1>1, <2>1, CommittedKept, ReadKept DEF MirrorInv
<1>5. CASE VInitRoot \/ VInitStrict \/ Finish
  BY <1>1, <1>5, CommittedKept, ReadKept
     DEF VInitRoot, VInitStrict, Finish, pvars, MirrorInv, ReadInv
<1>6. CASE Verify
  BY <1>1, <1>6, VerifyMirror DEF MirrorInv
<1>7. CASE UNCHANGED vars
  BY <1>1, <1>7, CommittedKept, ReadKept DEF vars, pvars, vvars, MirrorInv, ReadInv
<1> QED
  BY <1>2, <1>3, <1>4, <1>5, <1>6, <1>7 DEF Next, Stopped

\* The invariant always holds.
LEMMA AlwaysMirror == Spec => []MirrorInv
<1>1. Init => MirrorInv
  BY InitInv, InitMirror DEF MirrorInv
<1>2. MirrorInv /\ [Next]_vars => MirrorInv'
  BY StepMirror
<1> QED
  BY <1>1, <1>2, PTL DEF Spec

\* When the verifier is done every gadget of the walk is behind it, as it is
\* behind the prover.
LEMMA MirrorAgrees == MirrorInv => VerifierMirrors
<1> SUFFICES ASSUME MirrorInv PROVE VerifierMirrors
  OBVIOUS
<1>1. \A n \in Gadget : vclaims[n] # <<>> => vclaims[n] = claims[n]
  <2> SUFFICES ASSUME NEW n \in Gadget, vclaims[n] # <<>>
               PROVE  vclaims[n] = claims[n]
    OBVIOUS
  <2>1. Behind(n, vpos + 1) /\ vclaims[n] = HonestClaims(n)
    BY DEF MirrorInv, ReadInv, ClaimsBehind
  <2>2. vpos # 0
    BY <2>1, BehindNext
  <2>3. vpos <= pos /\ pos \in Nat /\ vpos \in Nat
    <3>1. pos = Len(W)
      BY <2>2 DEF MirrorInv, ReadInv, CommittedInv
    <3> QED
      BY <3>1 DEF MirrorInv, Inv, ProverInv, VerifierInv, ReadInv
  <2>4. Behind(n, pos + 1)
    <3>1. \A j \in DOMAIN W : j \in Nat
      BY WalkInjective DEF W
    <3> QED
      BY <2>1, <2>3, <3>1 DEF Behind
  <2> QED
    BY <2>1, <2>4 DEF MirrorInv, CommittedInv, ClaimsBehind
<1>2. ASSUME vpc = "done"
      PROVE  vclaims = claims /\ vread = Len(coms)
  <2>1. vpos = Len(W) /\ pos = Len(W)
    BY <1>2 DEF MirrorInv, Inv, VerifierInv, ReadInv, CommittedInv, W
  <2> QED
    BY <2>1 DEF MirrorInv, ReadInv, CommittedInv
<1> QED
  BY <1>1, <1>2 DEF VerifierMirrors

\* Whatever the operator, the type, the values and the number of rows: the
\* chunk columns of a comparison are read where they were committed, so the
\* verifier of bin_cmp, bin_eq, bin_neq and the sign gadget makes the claims
\* the prover made, and reads the proof to its end.
THEOREM Mirrored == Spec => []VerifierMirrors
BY AlwaysMirror, MirrorAgrees, PTL
-----------------------------------------------------------------------------
(***************************************************************************)
(* A number and its chunks.                                                *)
(***************************************************************************)
\* A byte has an even number of values: half of them are negative.
EvenByte == Byte % 2 = 0

\* Sums and products of numbers, and of positive ones.
LEMMA NatClosed ==
  /\ \A a, b \in Nat : a * b \in Nat /\ a + b \in Nat
  /\ \A a, b \in Nat : a > 0 /\ b > 0 => a * b > 0
OBVIOUS

\* A digit below B behind a number below A.
LEMMA DigitBound ==
  ASSUME NEW A \in Nat, NEW B \in Nat, NEW a \in 0..(A - 1), NEW b \in 0..(B - 1)
  PROVE  a * B + b \in 0..(A * B - 1)
<1>1. a \in Nat /\ b \in Nat /\ a + 1 <= A
  OBVIOUS
<1>2. (a + 1) * B <= A * B
  BY <1>1
<1>3. (a + 1) * B = a * B + B /\ a * B \in Nat /\ A * B \in Nat
  BY <1>1
<1> QED
  BY <1>1, <1>2, <1>3

\* Division with remainder.
LEMMA DivMod ==
  ASSUME NEW n \in Nat, NEW d \in Nat, d > 0
  PROVE  n \div d \in Nat /\ n % d \in 0..(d - 1) /\ n = (n \div d) * d + (n % d)
<1>1. n \div d \in Int /\ n % d \in 0..(d - 1) /\ n = d * (n \div d) + (n % d)
  OBVIOUS
<1> DEFINE q == n \div d
           r == n % d
<1> HIDE DEF q, r
<1>2. q \in Int /\ r \in 0..(d - 1) /\ n = d * q + r
  BY <1>1 DEF q, r
<1>3. q >= 0
  <2> SUFFICES ASSUME q <= -1 PROVE FALSE
    BY <1>2
  <2>1. d * q <= d * (-1)
    BY <1>2
  <2> QED
    BY <1>2, <2>1
<1>4. d * q = q * d
  BY <1>2
<1> QED
  BY <1>2, <1>3, <1>4 DEF q, r

\* A quotient and a remainder are the only ones.
LEMMA DivUnique ==
  ASSUME NEW q \in Nat, NEW d \in Nat, NEW r \in 0..(d - 1), d > 0
  PROVE  (q * d + r) \div d = q /\ (q * d + r) % d = r
<1> DEFINE n == q * d + r
           p == n \div d
           s == n % d
<1>1. n \in Nat
  BY NatClosed
<1>2. p \in Nat /\ s \in 0..(d - 1) /\ n = p * d + s
  BY <1>1, DivMod
<1> HIDE DEF p, s
<1>3. p * d + s = q * d + r
  BY <1>2
<1>4. p = q
  <2>1. ASSUME p >= q + 1 PROVE FALSE
    <3>1. p * d >= (q + 1) * d /\ (q + 1) * d = q * d + d
      BY <1>2, <2>1
    <3> QED
      BY <1>2, <1>3, <3>1
  <2>2. ASSUME q >= p + 1 PROVE FALSE
    <3>1. q * d >= (p + 1) * d /\ (p + 1) * d = p * d + d
      BY <1>2, <2>2
    <3> QED
      BY <1>2, <1>3, <3>1
  <2> QED
    BY <1>2, <2>1, <2>2
<1>5. s = r
  BY <1>2, <1>3, <1>4
<1> QED
  BY <1>4, <1>5 DEF p, s

\* The four limbs of a number of 64 bits compose it; the top one is small if the
\* number is.
LEMMA Limbs ==
  ASSUME NEW n \in 0..(Long - 1)
  PROVE  /\ \A k \in 0..3 : Limb(n, k) \in 0..(Chunk - 1)
         /\ Composed(Limb(n, 3), Limb(n, 2), Limb(n, 1), Limb(n, 0)) = n
         /\ EvenByte /\ n < Half(Long) => Limb(n, 3) < Half(Chunk)
<1> DEFINE C == Chunk
           q1 == n \div C
           l0 == n % C
           q2 == q1 \div C
           l1 == q1 % C
           q3 == q2 \div C
           l2 == q2 % C
           S == C * C
           T == S * C
<1>1. /\ n \in Nat /\ C \in Nat /\ C > 1 /\ S = Word /\ T * C = Long
      /\ S \in Nat /\ T \in Nat /\ Long \in Nat /\ n < Long
  <2>1. \A a, b \in Nat : a * b \in Nat
    OBVIOUS
  <2>2. C \in Nat /\ C > 1 /\ S = Word /\ T * C = Long /\ n \in Nat /\ n < Long /\ Long \in Nat
    BY Sizes
  <2>3. S \in Nat /\ T \in Nat
    BY <2>1, <2>2
  <2> QED
    BY <2>2, <2>3
<1>2. q1 \in Nat /\ l0 \in 0..(C - 1) /\ n = q1 * C + l0
  BY <1>1, DivMod
<1>3. q2 \in Nat /\ l1 \in 0..(C - 1) /\ q1 = q2 * C + l1
  BY <1>1, <1>2, DivMod
<1>4. q3 \in Nat /\ l2 \in 0..(C - 1) /\ q2 = q3 * C + l2
  BY <1>1, <1>3, DivMod
<1>5. /\ Unit(0) = 1 /\ Unit(1) = C /\ Unit(2) = S /\ Unit(3) = T
  <2>1. /\ Unit(0) = 1 * 1 * 1 /\ Unit(1) = C * 1 * 1 /\ Unit(2) = 1 * Word * 1
        /\ Unit(3) = C * Word * 1
    BY DEF Unit
  <2>2. C * S * 1 = T /\ 1 * S * 1 = S /\ C * 1 * 1 = C
    BY <1>1
  <2> QED
    BY <1>1, <2>1, <2>2
<1> HIDE DEF C, q1, l0, q2, l1, q3, l2, S, T
<1>6. n \div 1 = n
  BY <1>1
<1>7. n \div S = q2
  <2> DEFINE r == l1 * C + l0
  <2>1. n = q2 * S + r
    <3>1. (q2 * C + l1) * C + l0 = q2 * (C * C) + (l1 * C + l0)
      BY <1>1, <1>2, <1>3
    <3> QED
      BY <1>2, <1>3, <3>1 DEF S
  <2>2. r \in 0..(S - 1)
    BY <1>1, <1>2, <1>3, DigitBound DEF S
  <2>3. S > 0
    BY <1>1, NatClosed DEF S
  <2> HIDE DEF r
  <2> QED
    BY <1>1, <1>3, <2>1, <2>2, <2>3, DivUnique
<1>8. n \div T = q3
  <2> DEFINE m == l1 * C + l0
             r == l2 * S + m
  <2>1. m \in 0..(S - 1)
    BY <1>1, <1>2, <1>3, DigitBound DEF S
  <2>2. n = q3 * T + r
    <3>1. (q2 * C + l1) * C + l0 = q2 * (C * C) + m
      BY <1>1, <1>2, <1>3
    <3> HIDE DEF m
    <3>2. (q3 * C + l2) * S + m = q3 * (S * C) + (l2 * S + m)
      BY <1>1, <1>4, <2>1
    <3> QED
      BY <1>2, <1>3, <1>4, <3>1, <3>2 DEF S, T
  <2> HIDE DEF m
  <2>3. r \in 0..(C * S - 1)
    BY <1>1, <1>4, <2>1, DigitBound
  <2>4. C * S = T /\ T > 0
    <3>1. C * S = S * C
      BY <1>1
    <3>2. S > 0
      BY <1>1, NatClosed DEF S
    <3> QED
      BY <1>1, <3>1, <3>2, NatClosed DEF T
  <2> HIDE DEF r
  <2> QED
    BY <1>1, <1>4, <2>2, <2>3, <2>4, DivUnique
<1>9. q3 * T <= n /\ n < T * C
  <2>1. T > 0
    BY <1>1, NatClosed DEF S, T
  <2> QED
    BY <1>1, <1>8, <2>1, DivMod
<1>10. \A h \in Nat : n < T * h => q3 < h
  <2> SUFFICES ASSUME NEW h \in Nat, n < T * h, q3 >= h PROVE FALSE
    BY <1>4
  <2>1. q3 * T >= h * T /\ h * T = T * h /\ h * T \in Nat /\ q3 * T \in Nat
    BY <1>1, <1>4
  <2> QED
    BY <1>1, <1>9, <2>1
<1>11. q3 \in 0..(C - 1)
  BY <1>1, <1>4, <1>9, <1>10
<1>12. \A x \in 0..(C - 1) : x % C = x
  BY <1>1
<1>13. Limb(n, 0) = l0 /\ Limb(n, 1) = l1 /\ Limb(n, 2) = l2 /\ Limb(n, 3) = q3
  <2>1. /\ Limb(n, 0) = n % C /\ Limb(n, 1) = (n \div C) % C
        /\ Limb(n, 2) = (n \div S) % C /\ Limb(n, 3) = (n \div T) % C
    BY <1>5, <1>6 DEF Limb, C
  <2> QED
    BY <1>7, <1>8, <1>11, <1>12, <2>1 DEF l0, l1, l2, q1
<1>14. Composed(q3, l2, l1, l0) = n
  BY <1>2, <1>3, <1>4 DEF Composed, C
<1>15. EvenByte /\ n < Half(Long) => q3 < Half(Chunk)
  <2> SUFFICES ASSUME EvenByte, n < Half(Long) PROVE q3 < Half(Chunk)
    OBVIOUS
  <2> DEFINE g == Byte \div 2
             h == g * Byte
  <2>1. Byte = g * 2 /\ g \in Nat /\ Byte \in Nat
    <3>1. Byte \in Nat
      BY Sizes
    <3> QED
      BY <3>1 DEF EvenByte
  <2> HIDE DEF g
  <2>2. h \in Nat
    BY <2>1, NatClosed
  <2>3. C = h * 2
    <3>1. (g * 2) * Byte = (g * Byte) * 2
      BY <2>1
    <3> QED
      BY <2>1, <3>1 DEF C, Chunk
  <2> HIDE DEF h
  <2>4. T * C = (T * h) * 2 /\ T * h \in Nat
    BY <1>1, <2>2, <2>3
  <2> DEFINE m == T * h
  <2> HIDE DEF m
  <2>5. Half(Long) = m /\ Half(Chunk) = h
    <3>1. Long = m * 2 /\ m \in Nat
      BY <1>1, <2>4 DEF m
    <3> QED
      BY <2>2, <2>3, <3>1 DEF Half, C
  <2> QED
    BY <1>10, <2>2, <2>5 DEF m
<1>16. \A k \in 0..3 : Limb(n, k) \in 0..(C - 1)
  <2>1. \A k \in 0..3 : k = 0 \/ k = 1 \/ k = 2 \/ k = 3
    OBVIOUS
  <2> QED
    BY <1>2, <1>3, <1>4, <1>11, <1>13, <2>1
<1> QED
  BY <1>13, <1>14, <1>15, <1>16 DEF C

\* The greatest value the gadget can show to be non-negative.
Most(t) ==
  IF Signed(t) THEN Half(Size(Bytes[t])) - 1 ELSE Size(Bytes[t]) - 1

\* The types but the decimals, and what they hold.
LEMMA TypeSizes ==
  ASSUME NEW t \in Type, t # "Decimal128"
  PROVE  /\ Bytes[t] \in {1, 2, 4, 8}
         /\ Size(Bytes[t]) \in Nat /\ Size(Bytes[t]) > 1 /\ Size(Bytes[t]) <= Long
         /\ Half(Size(Bytes[t])) \in Nat /\ Half(Size(Bytes[t])) > 0
         /\ 2 * Half(Size(Bytes[t])) <= Size(Bytes[t])
         /\ Half(Size(Bytes[t])) <= Half(Long)
         /\ Most(t) \in Nat /\ Most(t) < Long
         /\ Signed(t) => Most(t) < Half(Long)
<1>1. Bytes[t] \in {1, 2, 4, 8}
  BY DEF Type, Bytes
<1>2. /\ Size(1) = Byte /\ Size(2) = Chunk /\ Size(4) = Word /\ Size(8) = Long
  BY DEF Size
<1> DEFINE s == Size(Bytes[t])
<1>3. s \in Nat /\ s > 1 /\ s <= Long /\ Long \in Nat
  BY <1>1, <1>2, Sizes
<1> HIDE DEF s
<1>4. \A a, b \in Nat : a <= b => a \div 2 \in Nat /\ b \div 2 \in Nat /\ a \div 2 <= b \div 2
  OBVIOUS
<1>5. Half(s) \in Nat /\ Half(s) > 0 /\ 2 * Half(s) <= s /\ Half(s) <= Half(Long)
      /\ Half(Long) \in Nat /\ Half(s) <= s
  BY <1>3, <1>4 DEF Half
<1>6. Most(t) = IF Signed(t) THEN Half(s) - 1 ELSE s - 1
  BY DEF Most, s
<1> DEFINE h == Half(s)
           g == Half(Long)
<1> HIDE DEF h, g
<1>7. h \in Nat /\ h > 0 /\ h <= s /\ h <= g /\ g \in Nat
  BY <1>5 DEF h, g
<1>8. Most(t) \in Nat /\ Most(t) < Long /\ (Signed(t) => Most(t) < g)
  BY <1>3, <1>6, <1>7 DEF h
<1> QED
  BY <1>1, <1>3, <1>5, <1>8 DEF s, g

\* A value up to the greatest is read as itself.
LEMMA ReadingValue ==
  ASSUME NEW t \in Type, t # "Decimal128", NEW x \in 0..Most(t)
  PROVE  Reading(t, x) = x
<1> DEFINE s == Size(Bytes[t])
           h == Half(s)
<1>1. /\ Bytes[t] # 16 /\ s \in Nat /\ s > 1 /\ s <= Long /\ h \in Nat /\ h > 0 /\ 2 * h <= s
      /\ Most(t) \in Nat /\ Most(t) < Long
  BY TypeSizes
<1>2. Most(t) = IF Signed(t) THEN h - 1 ELSE s - 1
  BY DEF Most
<1>3. Near(x) = x /\ x \in Nat
  <2>1. x \in 0..Long
    BY <1>1, Sizes
  <2> QED
    BY <2>1, NearSmall
<1> HIDE DEF h
<1>4. \A y \in 0..(s - 1) : y % s = y
  BY <1>1
<1>5. LowBits(x, Bytes[t]) = x
  <2>1. x \in 0..(s - 1)
    BY <1>1, <1>2
  <2> QED
    BY <1>4, <2>1 DEF LowBits
<1>6. CASE ~Signed(t)
  BY <1>5, <1>6 DEF Reading
<1>7. CASE Signed(t)
  <2>1. SignedFromEncoding(x, Bytes[t]) = x
    BY <1>1, <1>3, <1>5 DEF SignedFromEncoding
  <2>2. x + h \in 0..(s - 1)
    BY <1>1, <1>2, <1>7
  <2>3. Wrap(x, Bytes[t]) = ((x + h) % s) - h
    BY DEF Wrap, h
  <2>4. Wrap(x, Bytes[t]) = x
    <3>1. (x + h) % s = x + h
      BY <1>4, <2>2
    <3> QED
      BY <1>1, <1>3, <2>3, <3>1
  <2> QED
    BY <1>7, <2>1, <2>4 DEF Reading
<1> QED
  BY <1>6, <1>7

\* Its chunks are below the sizes of their tables, and compose it.
LEMMA SplitValue ==
  ASSUME EvenByte, NEW t \in Type, t # "Decimal128", ChunkCount(t) = 4,
         NEW x \in 0..Most(t)
  PROVE  /\ \A k \in 1..4 : Split(t, x)[k] \in 0..(Chunk - 1)
         /\ Split(t, x)[1] < TopSize(t)
         /\ Composed(Split(t, x)[1], Split(t, x)[2], Split(t, x)[3], Split(t, x)[4]) = x
<1>1. Most(t) \in Nat /\ Most(t) < Long /\ (Signed(t) => Most(t) < Half(Long))
  BY TypeSizes
<1>2. x \in 0..(Long - 1) /\ (Signed(t) => x < Half(Long))
  <2>1. Half(Long) \in Nat
    BY Sizes DEF Half
  <2> QED
    BY <1>1, <2>1, Sizes
<1>3. /\ \A k \in 0..3 : Limb(x, k) \in 0..(Chunk - 1)
      /\ Composed(Limb(x, 3), Limb(x, 2), Limb(x, 1), Limb(x, 0)) = x
      /\ Signed(t) => Limb(x, 3) < Half(Chunk)
  BY <1>2, Limbs
<1>4. Chunk \in Nat /\ Half(Chunk) \in Nat /\ 2 * Half(Chunk) <= Chunk
  BY Sizes DEF Half
<1> DEFINE top == Limb(x, 3)
           h == Half(Chunk)
<1> HIDE DEF h
<1>5. Signed(t) => Wrap(top, 2) % FieldSize = top
  <2> SUFFICES ASSUME Signed(t) PROVE Wrap(top, 2) % FieldSize = top
    OBVIOUS
  <2>1. top \in Nat /\ top < h /\ h \in Nat /\ 2 * h <= Chunk
    BY <1>3, <1>4 DEF h
  <2> HIDE DEF top
  <2>2. Wrap(top, 2) = ((top + h) % Chunk) - h
    BY DEF Wrap, Size, h
  <2>3. (top + h) % Chunk = top + h
    BY <1>4, <2>1
  <2>4. Wrap(top, 2) = top
    BY <2>1, <2>2, <2>3
  <2>5. top % FieldSize = top
    BY <1>4, <2>1, Sizes
  <2> QED
    BY <2>4, <2>5
<1>6. \A k \in 1..4 : Split(t, x)[k] = Limb(x, 4 - k)
  <2> SUFFICES ASSUME NEW k \in 1..4 PROVE Split(t, x)[k] = Limb(x, 4 - k)
    OBVIOUS
  <2>1. Reading(t, x) = x
    BY ReadingValue
  <2>2. Split(t, x)[k] = LET limb == Limb(x, 4 - k)
                         IN  IF k = 1 /\ Signed(t) THEN Wrap(limb, 2) % FieldSize ELSE limb
    BY <2>1 DEF Split
  <2>3. CASE k = 1
    <3>1. 4 - k = 3
      BY <2>3
    <3> QED
      BY <1>5, <2>2, <2>3, <3>1
  <2>4. CASE k # 1
    BY <2>2, <2>4
  <2> QED
    BY <2>3, <2>4
<1>7. /\ Split(t, x)[1] = top /\ Split(t, x)[2] = Limb(x, 2)
      /\ Split(t, x)[3] = Limb(x, 1) /\ Split(t, x)[4] = Limb(x, 0)
  <2>1. 4 - 1 = 3 /\ 4 - 2 = 2 /\ 4 - 3 = 1 /\ 4 - 4 = 0
    OBVIOUS
  <2> QED
    BY <1>6, <2>1
<1>8. top < TopSize(t)
  BY <1>3, <1>4 DEF TopSize
<1>9. \A k \in 1..4 : 4 - k \in 0..3
  OBVIOUS
<1> QED
  BY <1>3, <1>6, <1>7, <1>8, <1>9

\* An activator of zero hides a value.
LEMMA MaskedInactive ==
  ASSUME NEW col \in Column, NEW act \in Column, NEW i \in Rows, act[i] = 0
  PROVE  Masked(col, act)[i] = 0
<1>1. act # None
  BY NoneAssumption DEF Column, Field
<1>2. Near(0) = 0 /\ Near(col[i]) \in Int
  BY NearSmall, Sizes, FieldClosed DEF Column
<1>3. Mul(col[i], 0) = 0
  BY <1>2, Sizes DEF Mul
<1> QED
  BY <1>1, <1>3 DEF Masked, ColMul

\* A chunk has at least four values.
LEMMA ChunkHalf == Half(Chunk) \in Nat /\ Half(Chunk) > 0
BY Sizes DEF Half

\* Zeros compose to zero.
LEMMA ZeroComposed == Composed(0, 0, 0, 0) = 0
BY Sizes DEF Composed

\* The range claims about a column hold if its active values are in range: the
\* committed chunks are those of the values, and zero on the other rows.
LEMMA RangeHolds ==
  ASSUME EvenByte, NEW t \in Type, t # "Decimal128",
         NEW col \in Column, NEW act \in [Rows -> {0, 1}],
         \A i \in Rows : act[i] = 1 => col[i] \in 0..Most(t)
  PROVE  AllHold(RangeClaims(t, col, act, ChunkColumns(t, col, act)))
<1> DEFINE ch == ChunkColumns(t, col, act)
           list == RangeClaims(t, col, act, ch)
<1>0. act \in Column /\ act # None
  <2>1. act \in Column
    BY ColumnsClosed DEF Column
  <2> QED
    BY <2>1, NoneAssumption DEF Column, Field
<1>1. ChunkCount(t) \in {0, 4}
  BY DEF ChunkCount, Bytes, Type
<1>2. \A i \in Rows : Masked(col, act)[i] = IF act[i] = 1 THEN col[i] ELSE 0
  BY <1>0, MaskedActive, MaskedInactive
<1>3. CASE ChunkCount(t) = 0
  <2>1. list = <<Lookup(WholeSize(t), Masked(col, act))>>
    BY <1>3 DEF RangeClaims
  <2>2. Most(t) + 1 = WholeSize(t) /\ Most(t) \in Nat
    <3>1. Bytes[t] \in {1, 2}
      BY <1>3 DEF ChunkCount, Bytes, Type
    <3>2. WholeSize(t) = IF Signed(t) THEN Half(Size(Bytes[t])) ELSE Size(Bytes[t])
      BY <3>1 DEF WholeSize, Size
    <3> QED
      BY <3>2, TypeSizes DEF Most
  <2>3. \A i \in Rows : Masked(col, act)[i] < WholeSize(t)
    BY <1>2, <2>2
  <2>4. Holds(Lookup(WholeSize(t), Masked(col, act)))
    BY <2>3 DEF Holds, Lookup, Claim
  <2> QED
    BY <2>1, <2>4 DEF AllHold
<1>4. CASE ChunkCount(t) = 4
  <2> DEFINE sum == [i \in Rows |-> RecomposeAt(ch, i)]
             size(k) == IF k = 1 THEN TopSize(t) ELSE Chunk
             gap == ColSub(Masked(col, act), sum)
             looks == [k \in 1..4 |-> Lookup(size(k), Masked(ch[k], act))]
  <2>1. list = <<Zero(gap)>> \o looks
    BY <1>4 DEF RangeClaims
  <2>2. \A i \in Rows, k \in 1..4 :
          ch[k][i] = IF act[i] = 1 THEN Split(t, col[i])[k] ELSE 0
    BY <1>0, <1>4 DEF ChunkColumns
  <2>3. ch \in Seq(Column) /\ Len(ch) = 4
    <3>1. ch \in Seq(Column)
      BY ChunksTyped
    <3>2. DOMAIN ch = 1..4
      BY <1>4 DEF ChunkColumns
    <3> HIDE DEF ch
    <3>3. DOMAIN ch = 1..Len(ch) /\ Len(ch) \in Nat
      BY <3>1, LenProperties
    <3> QED
      BY <3>1, <3>2, <3>3
  <2> HIDE DEF ch, list
  <2>4. \A k \in 1..4 : ch[k] \in Column
    BY <2>3, ElementOfSeq
  <2>5. Chunk \in Nat /\ Chunk > 0 /\ TopSize(t) \in Nat /\ TopSize(t) > 0
    BY Sizes, ChunkHalf DEF TopSize
  <2>6. \A i \in Rows, k \in 1..4 : ch[k][i] \in 0..(Chunk - 1) /\ ch[k][i] < size(k)
    <3> SUFFICES ASSUME NEW i \in Rows, NEW k \in 1..4
                 PROVE  ch[k][i] \in 0..(Chunk - 1) /\ ch[k][i] < size(k)
      OBVIOUS
    <3>1. CASE act[i] = 1
      <4>1. col[i] \in 0..Most(t)
        BY <3>1
      <4>2. Split(t, col[i])[k] \in 0..(Chunk - 1) /\ Split(t, col[i])[1] < TopSize(t)
        BY <1>4, <4>1, SplitValue
      <4> QED
        BY <2>2, <2>5, <3>1, <4>2
    <3>2. CASE act[i] # 1
      BY <2>2, <2>5, <3>2
    <3> QED
      BY <3>1, <3>2
  <2>7. \A i \in Rows : sum[i] = Masked(col, act)[i]
    <3> SUFFICES ASSUME NEW i \in Rows PROVE RecomposeAt(ch, i) = Masked(col, act)[i]
      OBVIOUS
    <3>1. RecomposeAt(ch, i) = Composed(ch[1][i], ch[2][i], ch[3][i], ch[4][i])
      BY <2>3, <2>6, RecomposeBound
    <3>2. CASE act[i] = 1
      <4>1. col[i] \in 0..Most(t)
        BY <3>2
      <4> DEFINE x == col[i]
      <4>2. Composed(Split(t, x)[1], Split(t, x)[2], Split(t, x)[3], Split(t, x)[4]) = x
        BY <1>4, <4>1, SplitValue
      <4> QED
        BY <1>2, <2>2, <3>1, <3>2, <4>2
    <3>3. CASE act[i] # 1
      BY <1>2, <2>2, <3>1, <3>3, ZeroComposed
    <3> QED
      BY <3>2, <3>3
  <2>8. Holds(Zero(gap))
    <3>1. \A i \in Rows : Masked(col, act)[i] \in Field
      BY <1>2, ColumnsClosed DEF Column
    <3>2. \A y \in Field : Sub(y, y) = 0
      BY Sizes DEF Sub, Field
    <3>3. \A i \in Rows : gap[i] = 0
      BY <2>7, <3>1, <3>2 DEF ColSub
    <3> QED
      BY <3>3 DEF Holds, Zero, Claim
  <2>9. \A k \in 1..4 : Holds(looks[k])
    <3> SUFFICES ASSUME NEW k \in 1..4 PROVE Holds(Lookup(size(k), Masked(ch[k], act)))
      OBVIOUS
    <3>1. \A i \in Rows : Masked(ch[k], act)[i] = IF act[i] = 1 THEN ch[k][i] ELSE 0
      BY <1>0, <2>4, MaskedActive, MaskedInactive
    <3>2. \A i \in Rows : Masked(ch[k], act)[i] < size(k)
      BY <2>5, <2>6, <3>1
    <3> HIDE DEF size
    <3> QED
      BY <3>2 DEF Holds, Lookup, Claim
  <2> HIDE DEF size, gap
  <2> DEFINE z == Zero(gap)
             S == {looks[k] : k \in 1..4} \cup {z}
  <2>10. z \in S /\ looks \in [1..4 -> S]
    OBVIOUS
  <2> HIDE DEF looks, S, z
  <2>11. /\ DOMAIN list = 1..5 /\ list[1] = z
         /\ \A k \in 1..4 : list[k + 1] = looks[k]
    BY <2>1, <2>10, PrependFour DEF z
  <2>12. \A k \in 1..5 : Holds(list[k])
    <3> SUFFICES ASSUME NEW k \in 1..5 PROVE Holds(list[k])
      OBVIOUS
    <3>1. CASE k = 1
      BY <2>8, <2>11, <3>1 DEF z
    <3>2. CASE k # 1
      <4>1. k - 1 \in 1..4 /\ (k - 1) + 1 = k
        BY <3>2
      <4> QED
        BY <2>9, <2>11, <4>1
    <3> QED
      BY <3>1, <3>2
  <2> QED
    BY <2>11, <2>12 DEF AllHold, list, ch
<1> QED
  BY <1>1, <1>3, <1>4
-----------------------------------------------------------------------------
(***************************************************************************)
(* The gadgets of a comparison whose output was computed.                  *)
(***************************************************************************)
\* A column of an unsigned type holds values of that type.
UnsignedInRange ==
  \A t \in Types : ~Signed(t) => Samples(t) \subseteq 0..(Size(Bytes[t]) - 1)

\* The computed output marks the active rows that satisfy the comparison, and
\* the other rows are the active ones that do not.
LEMMA ComputedRows ==
  ASSUME ExprOK, expr.out = Computed
  PROVE  /\ expr.out \in [Rows -> {0, 1}] /\ OtherRows \in [Rows -> {0, 1}]
         /\ \A i \in Rows :
              /\ expr.out[i] = 1 => Compare(expr.op, expr.left[i], expr.right[i])
              /\ OtherRows[i] = 1 => ~Compare(expr.op, expr.left[i], expr.right[i])
              /\ expr.act # None /\ expr.act[i] = 0 => expr.out[i] = 0
<1>1. \A i \in Rows : expr.out[i] =
        IF (expr.act # None => expr.act[i] = 1) /\ Compare(expr.op, expr.left[i], expr.right[i])
        THEN 1 ELSE 0
  BY DEF Computed, ComputedOutput
<1>2. expr.out \in [Rows -> {0, 1}]
  BY DEF Computed, ComputedOutput
<1>3. Sub(0, 0) = 0 /\ Sub(1, 0) = 1 /\ Sub(1, 1) = 0
  BY Sizes DEF Sub
<1>4. \A i \in Rows : OtherRows[i] =
        Sub(IF expr.act # None /\ expr.act[i] = 0 THEN 0 ELSE 1, expr.out[i])
  <2>1. \A i \in Rows : expr.act # None => expr.act[i] \in {0, 1}
    BY DEF ExprOK
  <2> QED
    BY <2>1 DEF OtherRows, ColSub, All
<1>5. DOMAIN OtherRows = Rows
  BY DEF OtherRows, ColSub
<1>6. \A i \in Rows : OtherRows[i] = 
        IF (expr.act # None => expr.act[i] = 1) /\ ~Compare(expr.op, expr.left[i], expr.right[i])
        THEN 1 ELSE 0
  <2> SUFFICES ASSUME NEW i \in Rows
               PROVE  OtherRows[i] =
                        IF (expr.act # None => expr.act[i] = 1)
                             /\ ~Compare(expr.op, expr.left[i], expr.right[i])
                        THEN 1 ELSE 0
    OBVIOUS
  <2> DEFINE marked == Compare(expr.op, expr.left[i], expr.right[i])
  <2>1. expr.act # None => expr.act[i] \in {0, 1}
    BY DEF ExprOK
  <2>2. expr.out[i] = IF (expr.act # None => expr.act[i] = 1) /\ marked THEN 1 ELSE 0
    BY <1>1
  <2> HIDE DEF marked
  <2> QED
    BY <1>3, <1>4, <2>1, <2>2 DEF marked
<1>7. OtherRows \in [Rows -> {0, 1}]
  <2>1. OtherRows = [i \in Rows |-> OtherRows[i]]
    BY DEF OtherRows, ColSub
  <2> QED
    BY <1>6, <2>1
<1> QED
  BY <1>1, <1>2, <1>6, <1>7

\* How far the values of a row are apart, in the direction of a side.
Gap(n, i) ==
  IF Side(expr.op, n) \in {"NonPositive", "Negative"}
  THEN expr.right[i] - expr.left[i] ELSE expr.left[i] - expr.right[i]
SideColumn(n) == Oriented(Side(expr.op, n), DiffColumn)

\* On the rows of a side the oriented difference is that distance, and not zero
\* where the side is strict.
LEMMA SideGap ==
  ASSUME ExprOK, NoDecimals, expr.out = Computed, expr.op \in Orderings,
         NEW n \in {"true", "false"}, NEW i \in Rows, Final[n].act[i] = 1
  PROVE  /\ expr.left[i] \in (-Long)..Long /\ expr.right[i] \in (-Long)..Long
         /\ Gap(n, i) \in 0..(2 * Long) /\ SideColumn(n)[i] = Gap(n, i)
         /\ Strict(Side(expr.op, n)) => DiffColumn[i] # 0
<1> DEFINE L == expr.left[i]
           R == expr.right[i]
           d == DiffColumn[i]
<1>1. expr.type # "Decimal128"
  BY DEF ExprOK, NoDecimals
<1>2. L \in (-Long)..Long /\ R \in (-Long)..Long
  BY <1>1, InputAssumption DEF ExprOK
<1>3. d = Sub(L % FieldSize, R % FieldSize)
  BY <1>1 DEF DiffColumn, ColSub, Encoded, Encode
<1>4. d = IF L >= R THEN L - R ELSE FieldSize + L - R
  BY <1>2, <1>3, Difference
<1>5. d \in Field
  BY Columns DEF Column
<1>6. IF n = "true" THEN Compare(expr.op, L, R) ELSE ~Compare(expr.op, L, R)
  BY FinalTables, ComputedRows DEF Table
<1> HIDE DEF L, R, d
<1>7. L \in Int /\ R \in Int
  BY <1>2, Sizes
<1> DEFINE sign == Side(expr.op, n)
<1>8. /\ sign = "NonNegative" => L >= R
      /\ sign = "NonPositive" => L <= R
      /\ sign = "Positive" => L > R
      /\ sign = "Negative" => L < R
      /\ sign \in {"NonNegative", "NonPositive", "Positive", "Negative"}
  <2>1. expr.op \in {"Geq", "Leq", "Gt", "Lt"}
    BY DEF Orderings
  <2>2. CASE expr.op = "Geq"
    BY <1>6, <1>7, <2>2 DEF Compare, Side, SignPair
  <2>3. CASE expr.op = "Leq"
    BY <1>6, <1>7, <2>3 DEF Compare, Side, SignPair
  <2>4. CASE expr.op = "Gt"
    BY <1>6, <1>7, <2>4 DEF Compare, Side, SignPair
  <2>5. CASE expr.op = "Lt"
    BY <1>6, <1>7, <2>5 DEF Compare, Side, SignPair
  <2> QED
    BY <2>1, <2>2, <2>3, <2>4, <2>5
<1>9. SideColumn(n)[i] = IF sign \in {"NonPositive", "Negative"} THEN Sub(0, d) ELSE d
  BY DEF SideColumn, Oriented, ColSub, All, d
<1>10. Gap(n, i) = IF sign \in {"NonPositive", "Negative"} THEN R - L ELSE L - R
  BY DEF Gap, L, R
<1>11. Sub(0, d) = IF d = 0 THEN 0 ELSE FieldSize - d
  BY <1>5, SubValues
<1> HIDE DEF sign
<1>12. CASE sign \in {"NonPositive", "Negative"}
  <2>1. L <= R /\ (sign = "Negative" => L # R)
    BY <1>7, <1>8, <1>12
  <2>2. Sub(0, d) = R - L
    BY <1>2, <1>4, <1>7, <1>11, <2>1, Sizes
  <2> QED
    BY <1>2, <1>4, <1>7, <1>9, <1>10, <1>12, <2>1, <2>2, Sizes DEF L, R, d, sign, Strict
<1>13. CASE sign \in {"NonNegative", "Positive"}
  <2>1. L >= R /\ (sign = "Positive" => L # R)
    BY <1>7, <1>8, <1>13
  <2> QED
    BY <1>2, <1>4, <1>7, <1>9, <1>10, <1>13, <2>1, Sizes DEF L, R, d, sign, Strict
<1> QED
  BY <1>8, <1>12, <1>13 DEF sign

\* The honest prover's check of every gadget passes.
LEMMA HonestPasses ==
  ASSUME ExprOK, NoDecimals, expr.out = Computed, tables = Final, NEW k \in DOMAIN W
  PROVE  HonestGadget(W[k])
<1> DEFINE n == W[k]
<1>1. /\ n \in Gadget
      /\ n \in {"true", "false", "strict"} => expr.op \in Orderings
      /\ n \in {"eq", "neq"} => expr.op \in {"Eq", "NotEq"}
  BY DEF W, Walk, Gadget, ExprOK, Ops
<1>2. \A i \in Rows : expr.out[i] \in {0, 1}
  BY ComputedRows
<1> HIDE DEF n
<1>3. CASE n = "bool"
  BY <1>2, <1>3, FinalTables DEF HonestGadget, HonestBool, Table, n
<1>4. CASE n \in {"true", "false"}
  <2> DEFINE b == Bytes[expr.type]
             sign == Side(expr.op, n)
  <2>1. Final[n].left = DiffColumn
    BY <1>1, <1>4, FinalTables DEF Table
  <2>2. Final[n].act \in [Rows -> {0, 1}]
    BY <1>1, <1>4, FinalTables, ComputedRows DEF Table
  <2>3. expr.type \in Type /\ expr.type # "Decimal128"
    BY InputAssumption DEF ExprOK, NoDecimals
  <2>4. b # 16 /\ Size(b) \in Nat /\ Size(b) > 0
    BY <2>3, TypeSizes
  <2>5. ASSUME NEW i \in Rows, Final[n].act[i] # 0
        PROVE  /\ Strict(sign) => DiffColumn[i] # 0
               /\ SignedFromEncoding(SideColumn(n)[i], b) >= 0
    <3>1. Final[n].act[i] = 1
      BY <2>2, <2>5
    <3>2. SideColumn(n)[i] \in 0..(2 * Long) /\ (Strict(sign) => DiffColumn[i] # 0)
      BY <1>1, <1>4, <3>1, SideGap
    <3> DEFINE x == SideColumn(n)[i]
    <3>3. Near(x) = x /\ x \in Nat
      BY <3>2, NearGap, Sizes
    <3> HIDE DEF x
    <3>4. LowBits(x, b) \in Nat
      BY <2>4, <3>3 DEF LowBits
    <3>5. SignedFromEncoding(x, b) = LowBits(x, b)
      BY <2>4, <3>3 DEF SignedFromEncoding
    <3>6. SignedFromEncoding(x, b) >= 0
      BY <3>4, <3>5
    <3> QED
      BY <3>2, <3>6 DEF x
  <2>6. Final[n].act # None
    <3>1. Final[n].act \in Column
      BY <2>2, ColumnsClosed DEF Column
    <3> QED
      BY <3>1, NoneAssumption DEF Column, Field
  <2>7. HonestSign(expr.type, sign, DiffColumn, Final[n].act)
    BY <2>5, <2>6 DEF HonestSign, SideColumn
  <2> QED
    BY <1>4, <2>1, <2>7 DEF HonestGadget, n
<1>5. CASE n = "strict"
  <2> DEFINE side == StrictSide(expr.op)
  <2>1. side \in {"true", "false"} /\ expr.op \in Orderings
    BY <1>1, <1>5 DEF StrictSide
  <2>2. Strict(Side(expr.op, side))
    BY <2>1 DEF StrictSide, Side, SignPair, Strict, Orderings
  <2> HIDE DEF side
  <2>3. Final["strict"] = Final[side] /\ Final[side].left = DiffColumn
        /\ Final[side].right = All(0)
    BY <2>1, FinalTables DEF side, Table
  <2>4. ASSUME NEW i \in Rows, Final[side].act[i] = 1
        PROVE  DiffColumn[i] # All(0)[i]
    BY <2>1, <2>2, <2>4, SideGap DEF All
  <2> QED
    BY <1>5, <2>3, <2>4 DEF HonestGadget, HonestNeq, n
<1>6. CASE n = "neq"
  <2> DEFINE l == Encoded(expr.left)
             r == Encoded(expr.right)
             other == IF expr.op = "Eq" THEN OtherRows ELSE expr.out
  <2>1. expr.op \in {"Eq", "NotEq"} /\ Final["neq"] = Table(l, r, other)
    BY <1>1, <1>6, FinalTables
  <2>2. ASSUME NEW i \in Rows, other[i] = 1
        PROVE  l[i] # r[i]
    <3>1. expr.left[i] # expr.right[i]
      BY <2>1, <2>2, ComputedRows DEF Compare
    <3> QED
      BY <3>1, RowValues
  <2> HIDE DEF l, r, other
  <2> QED
    BY <1>6, <2>1, <2>2 DEF HonestGadget, HonestNeq, Table, n
<1>7. CASE n \in {"eq", "root"}
  BY <1>7 DEF HonestGadget, n
<1> QED
  BY <1>1, <1>3, <1>4, <1>5, <1>6, <1>7 DEF Gadget

\* The honest-prover pass (honest_prover.rs and the gadgets' checks) stops no
\* comparison whose output is what DataFusion computed, for every type but the
\* decimals and whether or not its differences fit their type.
THEOREM NoFalseRejection ==
  ASSUME NoDecimals
  PROVE  Spec => []RejectedIsWrong
<1>1. Init => RejectedIsWrong
  BY DEF Init, RejectedIsWrong
<1>2. Inv /\ RejectedIsWrong /\ [Next]_vars => RejectedIsWrong'
  <2> SUFFICES ASSUME Inv, RejectedIsWrong, [Next]_vars, ppc' = "rejected"
               PROVE  (expr.out # Computed)'
    BY DEF RejectedIsWrong
  <2>1. expr' = expr /\ Computed' = Computed
    BY DEF Next, vars, pvars, vvars, InitRoot, InitStrict, HonestPass, Prove, SendProof,
           VInitRoot, VInitStrict, Verify, Finish, Stopped, Computed
  <2>2. CASE HonestPass
    <3>1. ~\A k \in DOMAIN W : HonestGadget(W[k])
      BY <2>2 DEF HonestPass, W
    <3>2. ExprOK /\ tables = Final
      BY <2>2 DEF HonestPass, Inv, ProverInv
    <3>3. expr.out # Computed
      BY <3>1, <3>2, HonestPasses
    <3> QED
      BY <2>1, <3>3
  <2>3. CASE ~HonestPass
    <3>1. ppc = "rejected"
      BY <2>3 DEF Next, vars, pvars, vvars, InitRoot, InitStrict, Prove, SendProof,
                  VInitRoot, VInitStrict, Verify, Finish, Stopped
    <3> QED
      BY <2>1, <3>1 DEF RejectedIsWrong
  <2> QED
    BY <2>2, <2>3
<1>3. Init => Inv
  BY InitInv
<1>4. Inv /\ [Next]_vars => Inv'
  BY StepInv
<1> QED
  BY <1>1, <1>2, <1>3, <1>4, PTL DEF Spec

\* Zero times anything.
LEMMA MulZero == \A x \in Field : Mul(x, 0) = 0 /\ Mul(0, x) = 0
<1> SUFFICES ASSUME NEW x \in Field PROVE Mul(x, 0) = 0 /\ Mul(0, x) = 0
  OBVIOUS
<1>1. Near(0) = 0 /\ Near(x) \in Int
  BY NearSmall, Sizes, FieldClosed
<1> QED
  BY <1>1, Sizes DEF Mul

\* One claim that is right on every row holds.
LEMMA HoldsAlone ==
  ASSUME NEW values
  PROVE  /\ (\A i \in Rows : values[i] = 0) => AllHold(<<Zero(values)>>)
         /\ (\A i \in Rows : values[i] # <<0, 0>>) => AllHold(<<NonZero(values)>>)
<1>1. \A claim : Holds(claim) => AllHold(<<claim>>)
  BY DEF AllHold
<1>2. (\A i \in Rows : values[i] = 0) => Holds(Zero(values))
  BY DEF Holds, Zero, Claim
<1>3. (\A i \in Rows : values[i] # <<0, 0>>) => Holds(NonZero(values))
  BY DEF Holds, NonZero, Claim
<1> QED
  BY <1>1, <1>2, <1>3

\* The neq gadget can show two columns to differ on its rows if they do.
LEMMA NeqHolds ==
  ASSUME NEW l \in Column, NEW r \in Column, NEW act \in [Rows -> {0, 1}],
         \A i \in Rows : act[i] = 1 => l[i] # r[i]
  PROVE  AllHold(NeqClaims(Table(l, r, act)))
<1> DEFINE pairs == [i \in Rows |-> <<Sub(l[i], r[i]), Sub(1, act[i])>>]
<1>1. NeqClaims(Table(l, r, act)) = <<NonZero(pairs)>>
  BY DEF NeqClaims, Table
<1>2. ASSUME NEW i \in Rows PROVE pairs[i] # <<0, 0>>
  <2>1. l[i] \in Field /\ r[i] \in Field /\ act[i] \in {0, 1}
    BY DEF Column
  <2>2. CASE act[i] = 1
    BY <2>1, <2>2, SubValues
  <2>3. CASE act[i] = 0
    BY <2>3, SubValues
  <2> QED
    BY <2>1, <2>2, <2>3
<1> HIDE DEF pairs
<1> QED
  BY <1>1, <1>2, HoldsAlone

\* Every gadget of a computed comparison whose differences fit makes claims that
\* hold.
LEMMA GadgetsProvable ==
  ASSUME ExprOK, NoDecimals, EvenByte, UnsignedInRange, expr.out = Computed, Fits,
         NEW k \in DOMAIN W
  PROVE  AllHold(HonestClaims(W[k]))
<1> DEFINE n == W[k]
           l == Encoded(expr.left)
           r == Encoded(expr.right)
<1>1. /\ n \in Gadget
      /\ n \in {"true", "false", "strict"} => expr.op \in Orderings
      /\ n \in {"eq", "neq"} => expr.op \in {"Eq", "NotEq"}
  BY DEF W, Walk, Gadget, ExprOK, Ops
<1>2. /\ expr.out \in [Rows -> {0, 1}] /\ expr.out \in Column
      /\ OtherRows \in [Rows -> {0, 1}] /\ OtherRows \in Column
  BY ComputedRows, Columns DEF ExprOK
<1>3. l \in Column /\ r \in Column /\ DiffColumn \in Column
      /\ All(0) \in Column /\ All(1) \in Column
  BY Columns
<1>4. expr.act # None => expr.act \in [Rows -> {0, 1}] /\ expr.act \in Column
  <2>1. expr.act # None => expr.act \in [Rows -> {0, 1}]
    BY DEF ExprOK
  <2> QED
    BY <2>1, ColumnsClosed DEF Column
<1> HIDE DEF n, l, r
<1>5. CASE n = "bool"
  <2> DEFINE square == ColMul(expr.out, ColSub(All(1), expr.out))
  <2>1. HonestClaims(n) = <<Zero(Masked(square, expr.act))>>
    BY <1>5, FinalTables DEF HonestClaims, GadgetClaims, BoolClaims, Table
  <2>2. square \in Column
    BY <1>2, ColumnsClosed
  <2>3. \A i \in Rows : square[i] = 0
    <3> SUFFICES ASSUME NEW i \in Rows PROVE Mul(expr.out[i], Sub(1, expr.out[i])) = 0
      BY DEF ColMul, ColSub, All
    <3>1. expr.out[i] = 0 \/ expr.out[i] = 1
      BY <1>2
    <3> QED
      BY <3>1, SubValues, MulZero, ColumnsClosed
  <2>4. \A i \in Rows : Masked(square, expr.act)[i] = 0
    <3> HIDE DEF square
    <3>1. CASE expr.act = None
      BY <2>3, <3>1 DEF Masked
    <3>2. CASE expr.act # None
      BY <1>4, <2>2, <2>3, <3>2, MaskedActive, MaskedInactive
    <3> QED
      BY <3>1, <3>2
  <2> HIDE DEF square
  <2> QED
    BY <2>1, <2>4, HoldsAlone DEF n
<1>6. CASE n \in {"true", "false"}
  <2> DEFINE t == expr.type
             act == IF n = "true" THEN expr.out ELSE OtherRows
             col == SideColumn(n)
  <2>1. Final[n] = Table(DiffColumn, All(0), act)
    BY <1>1, <1>6, FinalTables
  <2>2. act \in [Rows -> {0, 1}]
    BY <1>2
  <2>3. col \in Column
    BY <1>3, ColumnsClosed DEF SideColumn, Oriented
  <2>4. t \in Type /\ t # "Decimal128"
    BY InputAssumption DEF ExprOK, NoDecimals
  <2>5. HonestClaims(n) = RangeClaims(t, col, act, Chunks(n))
    BY <1>6, <2>1 DEF HonestClaims, GadgetClaims, SignClaims, SideColumn, Table
  <2>6. Chunks(n) = IF ChunkCount(t) = 0 THEN <<>> ELSE ChunkColumns(t, col, act)
    BY <1>6, <2>1 DEF Chunks, Commits, SideColumn, Table
  <2>7. HonestClaims(n) = RangeClaims(t, col, act, ChunkColumns(t, col, act))
    BY <2>5, <2>6 DEF RangeClaims
  <2>8. ASSUME NEW i \in Rows, act[i] = 1
        PROVE  col[i] \in 0..Most(t)
    <3> DEFINE L == expr.left[i]
               R == expr.right[i]
    <3>1. Final[n].act[i] = 1
      BY <2>1, <2>8 DEF Table
    <3>2. /\ L \in (-Long)..Long /\ R \in (-Long)..Long
          /\ Gap(n, i) \in 0..(2 * Long) /\ col[i] = Gap(n, i)
      BY <1>1, <1>6, <3>1, SideGap
    <3>3. Gap(n, i) = L - R \/ Gap(n, i) = R - L
      BY DEF Gap
    <3>4. L \in Int /\ R \in Int /\ Gap(n, i) \in Nat
      BY <3>2, Sizes
    <3> DEFINE h == Half(Size(Bytes[t]))
               s == Size(Bytes[t])
    <3>5. CASE Signed(t)
      <4>1. L - R \in (-(h - 1))..(h - 1)
        BY <1>1, <1>6, <3>5 DEF Fits, DifferenceFits
      <4>2. h \in Nat /\ Most(t) = h - 1
        BY <2>4, <3>5, TypeSizes DEF Most
      <4> HIDE DEF L, R, h
      <4>3. Gap(n, i) \in 0..(h - 1)
        BY <3>3, <3>4, <4>1, <4>2
      <4> QED
        BY <3>2, <4>2, <4>3
    <3>6. CASE ~Signed(t)
      <4>1. L \in 0..(s - 1) /\ R \in 0..(s - 1)
        BY <3>6 DEF UnsignedInRange, ExprOK
      <4>2. s \in Nat /\ Most(t) = s - 1
        BY <2>4, <3>6, TypeSizes DEF Most
      <4> HIDE DEF L, R, s
      <4>3. Gap(n, i) \in 0..(s - 1)
        BY <3>3, <3>4, <4>1, <4>2
      <4> QED
        BY <3>2, <4>2, <4>3
    <3> QED
      BY <3>5, <3>6
  <2> HIDE DEF act, col, t
  <2> QED
    BY <2>2, <2>3, <2>4, <2>7, <2>8, RangeHolds DEF n
<1>7. CASE n = "strict"
  <2> DEFINE side == StrictSide(expr.op)
             act == IF side = "true" THEN expr.out ELSE OtherRows
  <2>1. side \in {"true", "false"} /\ expr.op \in Orderings
    BY <1>1, <1>7 DEF StrictSide
  <2>2. Strict(Side(expr.op, side))
    BY <2>1 DEF StrictSide, Side, SignPair, Strict, Orderings
  <2> HIDE DEF side
  <2>3. Final["strict"] = Table(DiffColumn, All(0), act) /\ Final[side].act = act
    BY <2>1, FinalTables DEF side, Table
  <2>4. ASSUME NEW i \in Rows, act[i] = 1
        PROVE  DiffColumn[i] # All(0)[i]
    <3>1. Final[side].act[i] = 1
      BY <2>3, <2>4
    <3> QED
      BY <2>1, <2>2, <3>1, SideGap DEF All
  <2>5. act \in [Rows -> {0, 1}]
    BY <1>2
  <2> HIDE DEF act
  <2>6. HonestClaims(n) = NeqClaims(Table(DiffColumn, All(0), act))
    BY <1>7, <2>3 DEF HonestClaims, GadgetClaims
  <2> QED
    BY <1>3, <2>4, <2>5, <2>6, NeqHolds DEF n
<1>8. CASE n = "neq"
  <2> DEFINE other == IF expr.op = "Eq" THEN OtherRows ELSE expr.out
  <2>1. expr.op \in {"Eq", "NotEq"} /\ Final["neq"] = Table(l, r, other)
    BY <1>1, <1>8, FinalTables DEF l, r
  <2>2. ASSUME NEW i \in Rows, other[i] = 1
        PROVE  l[i] # r[i]
    <3>1. expr.left[i] # expr.right[i]
      BY <2>1, <2>2, ComputedRows DEF Compare
    <3> QED
      BY <3>1, RowValues DEF l, r
  <2>3. other \in [Rows -> {0, 1}]
    BY <1>2
  <2> HIDE DEF other
  <2>4. HonestClaims(n) = NeqClaims(Table(l, r, other))
    BY <1>8, <2>1 DEF HonestClaims, GadgetClaims
  <2> QED
    BY <1>3, <2>2, <2>3, <2>4, NeqHolds DEF n
<1>9. CASE n = "eq"
  <2> DEFINE same == IF expr.op = "Eq" THEN expr.out ELSE OtherRows
             masked == Masked(ColSub(l, r), same)
  <2>1. expr.op \in {"Eq", "NotEq"} /\ Final["eq"] = Table(l, r, same)
    BY <1>1, <1>9, FinalTables DEF l, r
  <2>2. HonestClaims(n) = <<Zero(masked)>>
    BY <1>9, <2>1 DEF HonestClaims, GadgetClaims, EqClaims, Table
  <2>3. same \in [Rows -> {0, 1}] /\ same \in Column /\ ColSub(l, r) \in Column
    BY <1>2, <1>3, ColumnsClosed
  <2>4. ASSUME NEW i \in Rows PROVE masked[i] = 0
    <3>1. CASE same[i] = 1
      <4>1. expr.left[i] = expr.right[i]
        BY <2>1, <3>1, ComputedRows DEF Compare
      <4>2. l[i] = r[i] /\ l[i] \in Field
        BY <1>3, <4>1, RowValues DEF l, r, Column
      <4>3. ColSub(l, r)[i] = 0
        BY <4>2, Sizes DEF ColSub, Sub, Field
      <4> QED
        BY <2>3, <3>1, <4>3, MaskedActive
    <3>2. CASE same[i] = 0
      BY <2>3, <3>2, MaskedInactive
    <3> QED
      BY <2>3, <3>1, <3>2
  <2> HIDE DEF masked
  <2> QED
    BY <2>2, <2>4, HoldsAlone DEF n
<1>10. CASE n = "root"
  <2>1. HonestClaims(n) = RootClaims
    BY <1>10 DEF HonestClaims, GadgetClaims
  <2>2. CASE expr.act = None
    BY <2>1, <2>2 DEF RootClaims, AllHold, n
  <2>3. CASE expr.act # None
    <3> DEFINE values == ColMul(ColSub(expr.act, All(1)), expr.out)
    <3>1. HonestClaims(n) = <<Zero(values)>>
      BY <2>1, <2>3 DEF RootClaims
    <3>2. ASSUME NEW i \in Rows PROVE values[i] = 0
      <4>1. values[i] = Mul(Sub(expr.act[i], 1), expr.out[i])
        BY DEF ColMul, ColSub, All
      <4>2. expr.act[i] \in {0, 1} /\ expr.out[i] \in Field
        BY <1>2, <1>4, <2>3 DEF Column
      <4>3. CASE expr.act[i] = 1
        BY <4>1, <4>2, <4>3, SubValues, MulZero
      <4>4. CASE expr.act[i] = 0
        <5>1. expr.out[i] = 0
          BY <2>3, <4>4, ComputedRows
        <5>2. Sub(0, 1) \in Field
          BY ColumnsClosed
        <5> QED
          BY <4>1, <4>4, <5>1, <5>2, MulZero
      <4> QED
        BY <4>2, <4>3, <4>4
    <3> HIDE DEF values
    <3> QED
      BY <3>1, <3>2, HoldsAlone DEF n
  <2> QED
    BY <2>2, <2>3
<1> QED
  BY <1>1, <1>5, <1>6, <1>7, <1>8, <1>9, <1>10 DEF Gadget, n

\* What DataFusion computed can be proved: for every type but the decimals,
\* every number of rows and every activator, if the differences of an ordering
\* fit their type then all the claims about the computed output hold, those
\* about the chunks that the sign gadget commits and reads back included.
THEOREM Complete ==
  ASSUME NoDecimals, EvenByte, UnsignedInRange
  PROVE  Spec => []ComputedIsProvable
<1>1. MirrorInv => ComputedIsProvable
  <2> SUFFICES ASSUME MirrorInv, expr.out = Computed, Fits, vpc = "done"
               PROVE  Accepted
    BY DEF ComputedIsProvable
  <2>1. ASSUME NEW n \in Gadget
        PROVE  AllHold(vclaims[n])
    <3>1. vclaims[n] = IF Behind(n, vpos + 1) THEN HonestClaims(n) ELSE <<>>
      BY DEF MirrorInv, ReadInv, ClaimsBehind
    <3>2. CASE Behind(n, vpos + 1)
      <4>1. PICK k \in DOMAIN W : W[k] = n
        BY <3>2 DEF Behind
      <4> QED
        BY <3>1, <3>2, <4>1, GadgetsProvable DEF MirrorInv, Inv
    <3>3. CASE ~Behind(n, vpos + 1)
      BY <3>1, <3>3 DEF AllHold
    <3> QED
      BY <3>2, <3>3
  <2> QED
    BY <2>1 DEF Accepted, AllHold
<1> QED
  BY <1>1, AlwaysMirror, PTL

=============================================================================
