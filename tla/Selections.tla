----------------------------- MODULE Selections -----------------------------
(***************************************************************************)
(* Members of a list, in the order they have.                              *)
(***************************************************************************)
EXTENDS Naturals, FiniteSets

\* The n-th number of a set.
Nth(S, n) == CHOOSE k \in S : Cardinality({ j \in S : j <= k }) = n
\* The members of a list that are in keep.
Kept(list, keep) ==
  LET at == { k \in DOMAIN list : list[k] \in keep }
  IN  [n \in 1..Cardinality(at) |-> list[Nth(at, n)]]
=============================================================================
