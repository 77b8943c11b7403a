---------------------------- MODULE MCComparison ----------------------------
(* Bytes of one bit: Int8 is -1..0, Int32 -8..7, Decimal128 16 bits wide.  *)
EXTENDS Comparison

\* The extremes of each type, zero, and the values beside them; the largest
\* decimal is 10^38 - 1, 0.58 of 2^127.
Bounds(t) ==
  LET size == Size(Bytes[t])
      all == IF ~Signed(t) THEN 0..(size - 1)
             ELSE IF t = "Decimal128" THEN 0..19260 ELSE (-Half(size))..(Half(size) - 1)
  IN  all \cap {0, 1, 2, size - 1, -1, -Half(size), -Half(size) + 1, Half(size) - 1, 19260}
MCTypes == Type
=============================================================================
