----------------------------- MODULE MCJoinCheck -----------------------------
(* Two columns a side; keys 0, 1 and NULL, which are encoded 0, 1 and 0.   *)
EXTENDS JoinCheck

CONSTANT MaxRows   \* how many rows a side may have

Rank(v) == IF v = Null THEN 2 ELSE v
Score(r) == r[1] * 100 + Rank(r[2]) * 10 + Rank(r[3])
\* Rows <<activator, first column, second column>> that rise by rank.
Tables(all) ==
  {t \in UNION {[1..n -> all] : n \in 0..MaxRows} :
     \A i \in 1..(Len(t) - 1) : Score(t[i]) <= Score(t[i + 1])}
\* Active rows of all values, inactive ones of few.
RowsOver(first, second, inactive) ==
  ({1} \X first \X second) \cup {<<0, k, 0>> : k \in inactive}
\* A row of side s, with its id.
Row(s, r, id) ==
  [n \in -1..MaxCols |->
    CASE n = RowId -> id [] n = Act -> r[1] [] n = Cols(s)[1] -> r[2]
      [] n = Cols(s)[2] -> r[3] [] OTHER -> Null]
\* The rows arrive in the order of their ids or in the other.
MCRows(s, t, reversed) ==
  [i \in DOMAIN t |->
    LET id == IF reversed THEN Len(t) - i ELSE i - 1 IN Row(s, t[id + 1], id)]
Query(l, r, source, on, type, filter, pk, fk, specialize, reversed) ==
  [rows |-> [s \in Sides |-> MCRows(s, IF s = "left" THEN l ELSE r, reversed)],
   source |-> source, on |-> on, type |-> type, filter |-> filter, pk |-> pk, fk |-> fk,
   specialize |-> specialize, reversed |-> reversed]

OneKey == <<<<1, 3>>>>
TwoKeys == <<<<1, 3>>, <<2, 4>>>>
NoFk == [c \in 1..4 |-> {}]
Plain == [s \in Sides |-> "filter"]
Keys == {0, 1, Null}
Undeclared ==
  {Query(l, r, Plain, OneKey, k[1], k[2], {}, NoFk, TRUE, rev) :
     l \in Tables(RowsOver(Keys, {0}, {1})), r \in Tables(RowsOver(Keys, {0, 1}, {0, 1})),
     k \in {<<"Inner", FALSE>>, <<"Inner", TRUE>>, <<"Left", FALSE>>}, rev \in BOOLEAN}
  \cup {Query(l, r, Plain, on, "Inner", FALSE, {}, NoFk, TRUE, FALSE) :
     l \in Tables(RowsOver({0, Null}, {0, 1}, {})), r \in Tables(RowsOver({0, Null}, {0, 1}, {})),
     on \in {<<>>, TwoKeys}}

\* Primary and foreign keys: one to many, many to one, one to one, a composite
\* key joined whole and in part.
Declarations ==
  {[on |-> OneKey, pk |-> {1}, fk |-> [NoFk EXCEPT ![3] = {1}]],
   [on |-> OneKey, pk |-> {3}, fk |-> [NoFk EXCEPT ![1] = {3}]],
   [on |-> OneKey, pk |-> {1, 3}, fk |-> NoFk],
   [on |-> OneKey, pk |-> {1, 2, 3}, fk |-> NoFk],
   [on |-> TwoKeys, pk |-> {1, 2}, fk |-> [NoFk EXCEPT ![3] = {1, 2}, ![4] = {1, 2}]]}
\* A table holds what is declared of it, whole or filtered; a join may repeat it.
Declarable(s, t, source, pk) ==
  /\ source = "table" => \A i \in DOMAIN t : t[i][1] = 1
  /\ LET key == {j \in {2, 3} : Cols(s)[j - 1] \in pk}
     IN  /\ \A i \in DOMAIN t : \A j \in key : t[i][j] # Null
         /\ source # "join" /\ key # {} =>
              \A i, j \in DOMAIN t : (\A k \in key : t[i][k] = t[j][k]) => i = j
Second(s, pk, on) == IF on = TwoKeys \/ Cols(s)[2] \in pk THEN {0, 1} ELSE {0}
WithKeys ==
  UNION {
    {Query(x[1], x[2], source, d.on, "Inner", FALSE, d.pk, d.fk, TRUE, TRUE) :
       x \in {l \in Tables(RowsOver({0, 1}, Second("left", d.pk, d.on), {0})) :
                Declarable("left", l, source["left"], d.pk)}
             \X {r \in Tables(RowsOver(Keys, Second("right", d.pk, d.on), {0})) :
                Declarable("right", r, source["right"], d.pk)}} :
    d \in Declarations, source \in [Sides -> {"table", "filter", "join"}]}
MCQueries == Undeclared \cup WithKeys
=============================================================================
