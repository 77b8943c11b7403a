------------------------------ MODULE MCLpRules ------------------------------
(* Table 1 has an inactive first row, table 2 an inactive last one.           *)
EXTENDS LpRules

MCBase == <<<<1, 2, 3, 4>>, <<1, 2, 3>>>>
MCActive == <<{2, 3, 4}, {1, 2}>>
\* Row 2 matches two rows, row 3 one, row 4 none.
MCMatches == {<<1, 1>>, <<2, 1>>, <<2, 2>>, <<3, 2>>}

Rows == {<<l, r>> : l \in 0..4, r \in 0..3}
LeftAtom == Atom({1}, {x \in Rows : x[1] \in {1, 2, 4}})
OtherAtom == Atom({1}, {x \in Rows : x[1] \in {1, 3, 4}})
\* Of the right table: true where there is no partner, and not true there.
NullAtom == Atom({2}, {x \in Rows : x[2] \in {0, 2}})
RightAtom == Atom({2}, {x \in Rows : x[2] \in {1, 3}})
BothAtom == Atom({1, 2}, {x \in Rows : x[1] # x[2] /\ x[2] # 0})

Limits == {Limit(0, 1), Limit(0, 2), Limit(1, 2), Limit(1, NoFetch)}
Sorts == {Sort(TRUE, NoFetch)}
ChainOps == {Filter(<<LeftAtom>>), Filter(<<OtherAtom, LeftAtom>>)} \cup Limits \cup Sorts
JoinOps ==
  {Filter(<<a>>) : a \in {LeftAtom, NullAtom, BothAtom}} \cup {Filter(<<RightAtom, LeftAtom>>)}
    \cup {Limit(0, 2), Limit(1, 2)} \cup Sorts
Chains(ops, n) == UNION {[1..k -> ops] : k \in 0..n}
\* A limit that can return no row is EliminateLimit's, which runs before.
NoEmptyLimit(p) ==
  \A i \in 2..Len(p) :
    p[i].op = "Limit" /\ p[i - 1].op = "Limit" =>
      p[i - 1].fetch = NoFetch \/ p[i].skip < p[i - 1].fetch

Scanned(t) == <<Scan(t, <<>>, NoFetch)>>
Over1 == {Scanned(1) \o c : c \in Chains(ChainOps, 4)}
Joins ==
  {Join(type, on, Scanned(1) \o l, Scanned(2)) :
     type \in {"Inner", "Left"},
     on \in {<<>>, <<LeftAtom>>, <<RightAtom>>, <<BothAtom>>, <<BothAtom, NullAtom, LeftAtom>>},
     l \in Chains({Filter(<<OtherAtom>>), Limit(0, 2)}, 1)}
MCQueries ==
  {p \in Over1 \cup {<<j>> \o c : j \in Joins, c \in Chains(JoinOps, 2)} : NoEmptyLimit(p)}
=============================================================================
