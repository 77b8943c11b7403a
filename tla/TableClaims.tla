----------------------------- MODULE TableClaims -----------------------------
(***************************************************************************)
(* What the gadgets of joins and aggregates claim of tracked tables: that  *)
(* rows are found in another table, so many times each, and that none is   *)
(* repeated.  A view is the rows of a table seen through some columns; its *)
(* values stand for their combination with random challenges.              *)
(***************************************************************************)
EXTENDS SortHints, SequencesExt

View(table, cols, act) ==
  [i \in DOMAIN act |-> [v |-> [j \in DOMAIN cols |-> table[cols[j]][i]], on |-> act[i] = 1]]
With(view, col) == [i \in DOMAIN view |-> [view[i] EXCEPT !.v = Append(@, col[i])]]
Index(view) == [i \in DOMAIN view |-> i - 1]
Values(view) == {view[i].v : i \in DOMAIN view}

Among(included, super) ==
  \A i \in DOMAIN included : included[i].on =>
    \E j \in DOMAIN super : super[j].on /\ super[j].v = included[i].v
TimesIn(view, v) == Cardinality({i \in DOMAIN view : view[i].on /\ view[i].v = v})
\* The first row of a value counts all of them.
Multiplicities(included, super) ==
  [j \in DOMAIN super |->
    IF super[j].on /\ \A m \in 1..(j - 1) : ~(super[m].on /\ super[m].v = super[j].v)
    THEN TimesIn(included, super[j].v) ELSE 0]
NoRepeats(view) ==
  \A i, j \in DOMAIN view : view[i].on /\ view[j].on /\ view[i].v = view[j].v => i = j

Total(col) == FoldFunction(LAMBDA x, y : (x + y) % FieldSize, 0, col)
\* What the active rows of value v have in a column, summed up.
TotalOf(view, col, v) ==
  Total([i \in DOMAIN view |-> IF view[i].on /\ view[i].v = v THEN col[i] ELSE 0])

LookupClaim(included, super, mult) == [included |-> included, super |-> super, mult |-> mult]
LookupHolds(k) ==
  \A v \in Values(k.included) \cup Values(k.super) :
    TimesIn(k.included, v) = TotalOf(k.super, k.mult, v)
=============================================================================
