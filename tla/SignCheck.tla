------------------------------ MODULE SignCheck ------------------------------
(***************************************************************************)
(* The sign gadget: that every active value of a column of field elements  *)
(* is non-negative, non-positive, positive or negative, as look-ups of the *)
(* value, or of its chunks, in tables 0..size-1.  Byte stands for 2^8, so  *)
(* that an instance can be scaled down: a chunk is two bytes wide, an      *)
(* Int32 four, a Decimal128 sixteen.                                       *)
(***************************************************************************)
EXTENDS Integers, Sequences

CONSTANTS
  FieldSize,   \* the order of the prime field
  Byte,        \* how many values a byte has
  Rows,        \* the rows of a column
  None         \* the activator of a table that has none

\* What two, four, eight and sixteen bytes hold.
Chunk == Byte * Byte
Word == Chunk * Chunk
Long == Word * Word
Wide == Long * Long
\* The scalar field is wider than the 128 bits of a decimal.
ASSUME FieldAssumption ==
  /\ Byte \in Nat /\ Byte > 1
  /\ FieldSize \in Nat /\ FieldSize > 4 * Long
\* A table without an activator can be told from one with.
ASSUME NoneAssumption == None \notin [Rows -> 0..(FieldSize - 1)]

Field == 0..(FieldSize - 1)
Column == [Rows -> Field]
Activator == Column \cup {None}

Add(a, b) == (a + b) % FieldSize
Sub(a, b) == (a - b) % FieldSize
\* The representative of least magnitude: x or x - FieldSize.
Near(x) == IF x <= Sub(0, x) THEN x ELSE x - FieldSize
Mul(a, b) == (Near(a) * Near(b)) % FieldSize
ColSub(a, b) == [i \in Rows |-> Sub(a[i], b[i])]
ColMul(a, b) == [i \in Rows |-> Mul(a[i], b[i])]
All(c) == [i \in Rows |-> c]

(***************************************************************************)
(* Types and the encoding of their values.                                 *)
(***************************************************************************)
Bytes == [UInt8 |-> 1, UInt16 |-> 2, UInt32 |-> 4, UInt64 |-> 8,
          Int8 |-> 1, Int16 |-> 2, Int32 |-> 4, Date32 |-> 4, Int64 |-> 8,
          Decimal128 |-> 16]
Type == DOMAIN Bytes
Signed(t) == t \in {"Int8", "Int16", "Int32", "Date32", "Int64", "Decimal128"}

\* Integers become v or, when negative, -|v| in the field; decimals the
\* unsigned number their two's-complement bytes spell.
Encode(t, v) ==
  IF t = "Decimal128" THEN (v % Wide) % FieldSize ELSE v % FieldSize

Size(bytes) ==
  CASE bytes = 1 -> Byte [] bytes = 2 -> Chunk [] bytes = 4 -> Word
    [] bytes = 8 -> Long [] bytes = 16 -> Wide
Half(size) == size \div 2

LowBits(x, bytes) == x % Size(bytes)
\* n as i32, as i64 and as i128.
Wrap(n, bytes) == ((n + Half(Size(bytes))) % Size(bytes)) - Half(Size(bytes))

\* The nearer of x and -x gives the magnitude, cut to the type's width; a
\* magnitude of 128 bits wraps as i128.
SignedFromEncoding(x, bytes) ==
  LET n == IF Near(x) >= 0 THEN LowBits(Near(x), bytes) ELSE -LowBits(-Near(x), bytes)
  IN  IF bytes = 16 THEN Wrap(n, 16) ELSE n

(***************************************************************************)
(* Chunks, the most significant first.                                     *)
(***************************************************************************)
ChunkCount(t) == CASE Bytes[t] \in {4, 8} -> 4 [] Bytes[t] = 16 -> 8 [] OTHER -> 0

\* The integer the prover reads the field element as.
Reading(t, x) ==
  IF Signed(t) THEN Wrap(SignedFromEncoding(x, Bytes[t]), Bytes[t])
  ELSE LowBits(x, Bytes[t])
\* Chunk^k, for k in 0..7.
Unit(k) ==
  (IF k % 2 = 1 THEN Chunk ELSE 1) * (IF (k \div 2) % 2 = 1 THEN Word ELSE 1)
    * (IF k >= 4 THEN Long ELSE 1)
\* Chunk k of a two's-complement integer, sign-extended past its width.
Limb(n, k) == (n \div Unit(k)) % Chunk
\* The top chunk of a signed integer of four chunks is lifted as an i16.
Split(t, x) ==
  [k \in 1..ChunkCount(t) |->
    LET limb == Limb(Reading(t, x), ChunkCount(t) - k)
    IN  IF k = 1 /\ Signed(t) /\ ChunkCount(t) = 4
        THEN Wrap(limb, 2) % FieldSize ELSE limb]

\* Bug: the chunks of inactive rows are committed as well.
ChunkColumnsEveryRow(t, col, act) ==
  [k \in 1..ChunkCount(t) |-> [i \in Rows |-> Split(t, col[i])[k]]]
\* Inactive rows are committed as zeros.
ChunkColumns(t, col, act) ==
  [k \in 1..ChunkCount(t) |->
    [i \in Rows |-> IF act # None /\ act[i] = 0 THEN 0 ELSE Split(t, col[i])[k]]]

Shift(acc, chunk) == Add(Mul(acc, Chunk), chunk)
Four(acc, a, b, c, d) == Shift(Shift(Shift(Shift(acc, a), b), c), d)
\* Row i of the chunk columns, put together again.
RecomposeAt(ch, i) ==
  LET high == Four(0, ch[1][i], ch[2][i], ch[3][i], ch[4][i])
  IN  IF Len(ch) = 4 THEN high ELSE Four(high, ch[5][i], ch[6][i], ch[7][i], ch[8][i])

(***************************************************************************)
(* Claims.  The values of a "nonzero" claim are pairs: their combination   *)
(* with random challenges is zero only where both components are.          *)
(***************************************************************************)
Claim(kind, size, values) == [kind |-> kind, size |-> size, values |-> values]
Zero(values) == Claim("zero", 0, values)
NonZero(pairs) == Claim("nonzero", 0, pairs)
Lookup(size, values) == Claim("lookup", size, values)
Holds(claim) ==
  \A i \in Rows :
    CASE claim.kind = "zero"    -> claim.values[i] = 0
      [] claim.kind = "nonzero" -> claim.values[i] # <<0, 0>>
      [] claim.kind = "lookup"  -> claim.values[i] < claim.size

\* activated_data_tracked_poly: the inactive rows of a column as zeros.
Masked(col, act) == IF act = None THEN col ELSE ColMul(col, act)

WholeSize(t) ==
  LET size == IF Bytes[t] = 1 THEN Byte ELSE Chunk
  IN  IF Signed(t) THEN Half(size) ELSE size
TopSize(t) == IF Signed(t) THEN Half(Chunk) ELSE Chunk

\* That the active values of col are non-negative: the value itself is looked
\* up, or its chunks once they are shown to make it up.
RangeClaims(t, col, act, ch) ==
  IF ChunkCount(t) = 0 THEN <<Lookup(WholeSize(t), Masked(col, act))>>
  ELSE LET sum == [i \in Rows |-> RecomposeAt(ch, i)]
           gap == IF ChunkCount(t) = 4 THEN ColSub(Masked(col, act), sum)
                  ELSE Masked(ColSub(col, sum), act)
       IN  <<Zero(gap)>> \o
             [k \in 1..ChunkCount(t) |->
               Lookup(IF k = 1 THEN TopSize(t) ELSE Chunk, Masked(ch[k], act))]

\* A claim of being non-positive or negative is one about -data; that a
\* positive or negative value is not zero is left to the neq gadget below.
Strict(sign) == sign \in {"Positive", "Negative"}
Oriented(sign, data) ==
  IF sign \in {"NonPositive", "Negative"} THEN ColSub(All(0), data) ELSE data

\* Bug: the check looks at inactive rows too.
HonestSignEveryRow(t, sign, data, act) ==
  \A i \in Rows :
    /\ Strict(sign) => data[i] # 0
    /\ Signed(t) => SignedFromEncoding(Oriented(sign, data)[i], Bytes[t]) >= 0
\* What honest_prover_check accepts: an unsigned value is never negative, a
\* signed one is read back from its low bits.
HonestSign(t, sign, data, act) ==
  \A i \in Rows : (act # None => act[i] # 0) =>
    /\ Strict(sign) => data[i] # 0
    /\ Signed(t) => SignedFromEncoding(Oriented(sign, data)[i], Bytes[t]) >= 0
=============================================================================
