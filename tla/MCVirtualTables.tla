--------------------------- MODULE MCVirtualTables ---------------------------
(* Plans of up to four operators over tables of up to four rows.           *)
EXTENDS VirtualTables

MCRows == 1..4
MCSizes == {1, 2, 4}

\* n rows of which the first k are active; the rest is the file's padding.
ScanOf(n, k) ==
  [n |-> n, row |-> [i \in 1..n |-> i], act |-> [i \in 1..n |-> i <= k]]
MCScans == { ScanOf(0, 0), ScanOf(3, 3), ScanOf(4, 3), ScanOf(4, 4) }
FullScan == { ScanOf(4, 4) }

Keys == { [r \in MCRows |-> 5 - r], (1 :> 2 @@ 2 :> 4 @@ 3 :> 1 @@ 4 :> 3) }
Filters == { Filter(keep, m) : keep \in { {}, {2, 4}, {1, 3, 4} }, m \in BOOLEAN }
Limits == { Limit(0, f) : f \in {0, 1, 2, NoFetch} } \cup { Limit(1, 2) }
Sorts == { Sort(key, NoFetch) : key \in Keys }
Ops == Filters \cup Limits \cup Sorts \cup { Rematerialize }

\* What the optimizers leave: neighbouring filters are merged, and a filter's
\* output is rematerialized at most once and never at the root.
Optimized(p) ==
  /\ \A i \in 1..(Len(p) - 1) : p[i].op = "Filter" => p[i + 1].op # "Filter"
  /\ \A i \in DOMAIN p : p[i].op = "Rematerialize" =>
       /\ i > 1 /\ p[i - 1].op = "Filter" /\ i < Len(p)
       /\ \A j \in DOMAIN p : p[j] = p[i] => j = i
Chains == UNION { [1..n -> Ops] : n \in 0..3 }
MCPlans ==
  { p \in Chains : Optimized(p) }
    \cup { p \in { <<f, Rematerialize, o, q>> : f \in Filters, o, q \in Ops }
              \cup { <<o, f, Rematerialize, q>> : f \in Filters, o, q \in Ops } : Optimized(p) }
LimitPlans == { p \in MCPlans : \A i \in DOMAIN p : p[i].op \in {"Limit", "Filter"} }
=============================================================================
