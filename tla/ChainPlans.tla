----------------------------- MODULE ChainPlans -----------------------------
(***************************************************************************)
(* Query plans that read one table, and what they return.  A plan is the   *)
(* sequence of its operators, the one next to the scan first.  This is the *)
(* reference the proof's tables and the planner's rewrites are compared    *)
(* with: what DataFusion returns for the plan, run on the active rows.     *)
(***************************************************************************)
EXTENDS Naturals, Sequences, SequencesExt, FiniteSets, Selections

CONSTANTS
  Rows,     \* identities of the base rows; a row's number is its __row_id__
  NoFetch   \* the fetch of a LIMIT or Sort that has none

ASSUME RowsAssumption == Rows \subseteq Nat \ {0} /\ NoFetch \notin Nat

Filter(keep, masked) == [op |-> "Filter", keep |-> keep, masked |-> masked]
Limit(skip, fetch) == [op |-> "Limit", skip |-> skip, fetch |-> fetch]
Sort(key, fetch) == [op |-> "Sort", key |-> key, fetch |-> fetch]
Rematerialize == [op |-> "Rematerialize"]

IsFetch(f) == f \in Nat \cup {NoFetch}
IsOperator(o) ==
  \/ o.op = "Filter" /\ o = Filter(o.keep, o.masked) /\ o.masked \in BOOLEAN
  \/ o.op = "Limit" /\ o = Limit(o.skip, o.fetch) /\ o.skip \in Nat /\ IsFetch(o.fetch)
  \/ o.op = "Sort" /\ o = Sort(o.key, o.fetch) /\ IsFetch(o.fetch)
  \/ o = Rematerialize
IsPlan(p) ==
  Len(p) \in Nat /\ DOMAIN p = 1..Len(p) /\ \A i \in 1..Len(p) : IsOperator(p[i])

Fetched(rows, skip, fetch) ==
  SubSeq(rows, skip + 1, IF fetch = NoFetch \/ Len(rows) < skip + fetch
                         THEN Len(rows) ELSE skip + fetch)

\* Sort keys differ from row to row: ties are broken by the engine, not here.
InOrder(rows, key) ==
  LET all == { rows[k] : k \in DOMAIN rows }
  IN  [n \in 1..Cardinality(all) |->
        CHOOSE r \in all : Cardinality({ s \in all : key[s] <= key[r] }) = n]

Returns(rows, o) ==
  CASE o.op = "Filter" -> Kept(rows, o.keep)
    [] o.op = "Limit"  -> Fetched(rows, o.skip, o.fetch)
    [] o.op = "Sort"   -> Fetched(InOrder(rows, o.key), 0, o.fetch)
    [] OTHER           -> rows

\* The rows plan returns, in order, when its scan delivers rows.
Result(plan, rows) ==
  LET after[i \in 0..Len(plan)] ==
        IF i = 0 THEN rows ELSE Returns(after[i - 1], plan[i])
  IN  after[Len(plan)]
=============================================================================
