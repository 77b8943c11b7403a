---------------------------- MODULE MCSortCheck ----------------------------
(* Bytes of one bit: an Int16 is -2..1 and a UInt16 0..3.                  *)
EXTENDS SortCheck

CONSTANT MaxRows   \* how many rows an input may have, 2 if it has three keys

\* An Int16 key beside one whose type sends both through the windows.
Mixed(types) == types \in {<<"Int16", "UInt16">>, <<"Timestamp", "Int16">>}
\* The values of key j: neighbours whose difference overflows, or would if it
\* were more than a sign; zero and NULL, which are encoded alike; in three keys
\* two values, for the order of the ties.
Samples(types, j) ==
  LET k == Len(types)
      t == types[j]
  IN  CASE Mixed(types) -> IF t = "Int16" THEN {-1, 0, Null} ELSE {3, Null}
        [] ~Mixed(types) /\ t # "Int16" ->
             IF k > 1 THEN {} ELSE IF t = "UInt16" THEN {0, 3, Null} ELSE {-100, 100, Null}
        [] OTHER ->
             IF k = 3 THEN {0, 1} ELSE IF j = 1 THEN {-2, -1, 0, Null} ELSE {0, Null}
Rank(v) == CASE v = Null -> 9 [] v > 3 -> 8 [] v < -2 -> 0 [] OTHER -> v + 3

\* Rows that rise by rank, the inactive first; keys of two types have no inactive ones.
Score(r, k) == LET f[j \in 0..k] == IF j = 0 THEN r[0] ELSE f[j - 1] * 10 + Rank(r[j]) IN f[k]
MCInputs(types) ==
  LET k == Len(types)
      all == {r \in [0..k -> {0, 1} \cup UNION {Samples(types, j) : j \in 1..k}] :
                /\ r[0] \in (IF Mixed(types) THEN {1} ELSE {0, 1})
                /\ \A j \in 1..k : r[j] \in Samples(types, j)}
  IN  {rows \in UNION {[1..n -> all] : n \in 0..(IF k = 3 THEN 2 ELSE MaxRows)} :
        \A i \in 1..(Len(rows) - 1) : Score(rows[i], k) <= Score(rows[i + 1], k)}
=============================================================================
