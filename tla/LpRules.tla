------------------------------- MODULE LpRules -------------------------------
(***************************************************************************)
(* The structural optimizer.  Prover and verifier each run the same list   *)
(* of rules over the query's plan, DataFusion's among them, until a pass   *)
(* brings back a plan it has seen.  The prover's tables are files, which   *)
(* take filters into the scan; the verifier's are schemas without rows,    *)
(* which do not; both have to end with one plan, whose rows, restricted to *)
(* the active ones scan by scan, are the query's.                          *)
(*                                                                         *)
(* A plan is a sequence, what reads data first: a scan, or a join of two   *)
(* chains over scans; then the operators above it.  A predicate is the     *)
(* sequence of its conjuncts.  A row is a pair of row numbers, one for     *)
(* each table; 0 stands for a table not read, or not matched.              *)
(***************************************************************************)
EXTENDS Naturals, Sequences, SequencesExt, FiniteSets

CONSTANTS
  NoFetch,    \* the fetch of what has none
  Base,       \* Base[t]: the rows of table t, in order, inactive ones too
  Active,     \* Active[t]: its active rows
  Matches,    \* the pairs of rows with equal join keys
  MaxPasses,  \* OptimizerContext's max_passes
  Queries     \* the analyzed plans

Table == {1, 2}
Side == {"prover", "verifier"}

Scan(t, filters, fetch) == [op |-> "Scan", table |-> t, filters |-> filters, fetch |-> fetch]
Filter(pred) == [op |-> "Filter", pred |-> pred]
Limit(skip, fetch) == [op |-> "Limit", skip |-> skip, fetch |-> fetch]
Sort(desc, fetch) == [op |-> "Sort", desc |-> desc, fetch |-> fetch]
Join(type, on, left, right) ==
  [op |-> "Join", type |-> type, on |-> on, left |-> left, right |-> right]
ResultCheck == [op |-> "ResultCheck"]
\* A conjunct reads the tables refs and holds for the rows in holds.
Atom(refs, holds) == [refs |-> refs, holds |-> holds]

Where(pred) == IF pred = <<>> THEN <<>> ELSE <<Filter(pred)>>
\* p AND q without the conjuncts p has already.
Both(p, q) == p \o SelectSeq(q, LAMBDA a : a \notin ToSet(p))
Smaller(f, g) == IF f = NoFetch \/ (g # NoFetch /\ g < f) THEN g ELSE f

ASSUME QueriesAssumption ==
  /\ NoFetch \notin Nat /\ MaxPasses \in Nat \ {0}
  /\ \A q \in Queries : Len(q) > 0 /\ q[1].op \in {"Scan", "Join"}

-----------------------------------------------------------------------------
(* What a plan returns.                                                    *)

Holds(pred, row) == \A i \in DOMAIN pred : row \in pred[i].holds
Fetched(rows, skip, fetch) ==
  SubSeq(rows, skip + 1, IF fetch = NoFetch \/ Len(rows) < skip + fetch
                         THEN Len(rows) ELSE skip + fetch)
Before(r, s) == r[1] < s[1] \/ (r[1] = s[1] /\ r[2] < s[2])
InOrder(rows, desc) ==
  SetToSortSeq(ToSet(rows), LAMBDA r, s : IF desc THEN Before(s, r) ELSE Before(r, s))

\* A scan filters and fetches in the file; the query runs with a filter of the
\* active rows on top of each scan.
ScanRows(s) ==
  LET Row(i) == [t \in Table |-> IF t = s.table THEN i ELSE 0]
      stored == [i \in DOMAIN Base[s.table] |-> Row(Base[s.table][i])]
  IN  Fetched(SelectSeq(stored, LAMBDA r : Holds(s.filters, r)), 0, s.fetch)
filter_inactive_rows_for_execution(s) ==
  SelectSeq(ScanRows(s), LAMBDA r : r[s.table] \in Active[s.table])
\* The pairs of matching rows, the left row's order first; a left join keeps
\* the rows without a partner.
Joined(j, ls, rs) ==
  LET Pair(l, r) == [t \in Table |-> IF t = 1 THEN l[1] ELSE r[2]]
      Partners(l) == SelectSeq(rs, LAMBDA r : <<l[1], r[2]>> \in Matches /\ Holds(j.on, Pair(l, r)))
      Kept(l) == IF Partners(l) = <<>> /\ j.type = "Left"
                 THEN <<l>> ELSE [i \in DOMAIN Partners(l) |-> Pair(l, Partners(l)[i])]
  IN  FlattenSeq([i \in DOMAIN ls |-> Kept(ls[i])])
Returns(rows, o) ==
  CASE o.op = "Scan"   -> filter_inactive_rows_for_execution(o)
    [] o.op = "Filter" -> SelectSeq(rows, LAMBDA r : Holds(o.pred, r))
    [] o.op = "Limit"  -> Fetched(rows, o.skip, o.fetch)
    [] o.op = "Sort"   -> Fetched(InOrder(rows, o.desc), 0, o.fetch)
    [] OTHER           -> rows
ChainRows(chain) == FoldLeft(Returns, <<>>, chain)
\* The rows of the executed plan p.
Executed(p) ==
  LET j == p[1]
  IN  IF j.op = "Join"
      THEN FoldLeft(Returns, Joined(j, ChainRows(j.left), ChainRows(j.right)), Tail(p))
      ELSE ChainRows(p)

-----------------------------------------------------------------------------
(* The repository's rules rewrite one operator o over its rewritten input. *)

\* Bottom up through the inputs of a join and then the chain above it.
TransformUp(Rule(_, _), p) ==
  LET Up(chain) == FoldLeft(Rule, <<>>, chain)
  IN  IF p[1].op = "Join"
      THEN Up(<<[p[1] EXCEPT !.left = Up(@), !.right = Up(@)]>> \o Tail(p))
      ELSE Up(p)
Over(in, op) == in # <<>> /\ Last(in).op = op

normalize_scan(in, o) ==
  IF o.op = "Scan"
  THEN <<Scan(o.table, <<>>, NoFetch)>> \o Where(o.filters)
         \o (IF o.fetch = NoFetch THEN <<>> ELSE <<Limit(0, o.fetch)>>)
  ELSE Append(in, o)
merge_limits(in, o) ==
  IF o.op = "Limit" /\ Over(in, "Limit") /\ Last(in).skip = o.skip /\ Last(in).fetch = o.fetch
  THEN Append(Front(in), o) ELSE Append(in, o)
normalize_sort(in, o) ==
  IF o.op = "Sort" /\ o.fetch # NoFetch
  THEN in \o <<Sort(o.desc, NoFetch), Limit(0, o.fetch)>> ELSE Append(in, o)
\* Conjoins equal predicates too.
MergeFiltersAnd(in, o) ==
  IF o.op = "Filter" /\ Over(in, "Filter")
  THEN Append(Front(in), Filter(o.pred \o Last(in).pred)) ELSE Append(in, o)
merge_filters(in, o) ==
  IF o.op = "Filter" /\ Over(in, "Filter")
  THEN Append(Front(in), Filter(IF o.pred = Last(in).pred THEN o.pred
                                ELSE o.pred \o Last(in).pred))
  ELSE Append(in, o)
lift_join_filter(in, o) ==
  IF o.op = "Join" /\ o.type = "Inner"
  THEN <<[o EXCEPT !.on = <<>>]>> \o Where(o.on) ELSE Append(in, o)
add_result_check(p) == IF Last(p) = ResultCheck THEN p ELSE Append(p, ResultCheck)

-----------------------------------------------------------------------------
(* DataFusion's push-downs walk a chain from its top, carrying a limit or  *)
(* a predicate; a walk is what it carries and the operators it has left.   *)

None == <<>>
Walk(carried, above) == [carried |-> carried, above |-> above]
\* Two adjacent limits as one.
Combined(outer, inner) ==
  Limit(outer.skip + inner.skip,
        Smaller(outer.fetch, IF inner.fetch = NoFetch THEN NoFetch
                             ELSE IF inner.fetch > outer.skip THEN inner.fetch - outer.skip ELSE 0))
Carry(o, w) == Walk(<<IF w.carried = None THEN o ELSE Combined(w.carried[1], o)>>, w.above)
\* Sorts and scans below a limit learn how many rows are needed; a limit that a
\* Sort has learnt before is dropped.
LimitStep(o, w) ==
  LET l == w.carried[1]
      needed == l.skip + l.fetch
      fetched == [o EXCEPT !.fetch = Smaller(@, needed)]
  IN  CASE o.op = "Limit" -> Carry(o, w)
        [] w.carried = None /\ o.op # "Limit" -> Walk(None, <<o>> \o w.above)
        [] w.carried # None /\ o.op = "Scan" /\ l.fetch # NoFetch ->
             Walk(None, <<fetched, l>> \o w.above)
        [] w.carried # None /\ o.op = "Sort" /\ l.fetch # NoFetch ->
             Walk(None, (IF fetched = o /\ l.skip = 0 THEN <<o>> ELSE <<fetched, l>>) \o w.above)
        [] w.carried # None /\ o.op = "Join" /\ o.type = "Left" /\ l.fetch # NoFetch ->
             Walk(None, <<[o EXCEPT !.left = Append(@, Limit(0, needed))], l>> \o w.above)
        [] OTHER -> Walk(None, <<o, l>> \o w.above)
PushDownLimit(p) ==
  LET Down(chain) == FoldRight(LimitStep, chain, Walk(None, <<>>)).above
      q == Down(p)
  IN  IF q[1].op = "Join" THEN [q EXCEPT ![1].left = Down(@), ![1].right = Down(@)] ELSE q

\* Files answer Inexact, so the filter stays above the scan that has it; the
\* schema-only tables of the verifier answer Unsupported.
TakesFilters(side) == side = "prover"
\* Predicates of one input go there unless that input keeps rows without a partner.
Sided(pred, t) == SelectSeq(pred, LAMBDA a : a.refs = {t})
JoinStep(o, pred) ==
  LET inner == o.type = "Inner"
      left == IF inner THEN Both(Sided(pred, 1), Sided(o.on, 1)) ELSE Sided(pred, 1)
      right == IF inner THEN Both(Sided(pred, 2), Sided(o.on, 2)) ELSE Sided(o.on, 2)
      Rest(p, pushed) == SelectSeq(p, LAMBDA a : a \notin ToSet(pushed))
      above == Rest(pred, left \o (IF inner THEN right ELSE <<>>))
      on == Rest(o.on, right \o (IF inner THEN left ELSE <<>>))
  IN  <<Join(o.type, IF inner THEN Both(above, on) ELSE on,
             o.left \o Where(left), o.right \o Where(right))>>
        \o (IF inner THEN <<>> ELSE Where(above))
FilterStep(side, o, w) ==
  CASE o.op = "Filter" -> Walk(Both(w.carried, o.pred), w.above)
    [] o.op = "Sort"   -> Walk(w.carried, <<o>> \o w.above)
    [] o.op = "Scan" /\ TakesFilters(side) ->
         Walk(<<>>, <<[o EXCEPT !.filters = Both(@, w.carried)]>> \o Where(w.carried) \o w.above)
    [] o.op = "Join"   -> Walk(<<>>, JoinStep(o, w.carried) \o w.above)
    [] OTHER -> Walk(<<>>, <<o>> \o Where(w.carried) \o w.above)
PushDownFilter(side, p) ==
  LET Down(chain) ==
        FoldRight(LAMBDA o, w : FilterStep(side, o, w), chain, Walk(<<>>, <<>>)).above
      q == Down(p)
  IN  IF q[1].op = "Join" THEN [q EXCEPT ![1].left = Down(@), ![1].right = Down(@)] ELSE q

-----------------------------------------------------------------------------
(* The optimizer's loop on each side, the prover's first.                  *)

VARIABLES
  query,   \* the analyzed plan
  side,    \* whose optimizer runs
  plan,    \* its plan
  rule,    \* the rule that is next in rules()
  pass,    \* the passes made
  seen,    \* the plans passes have ended with
  final    \* final[s]: the plan s ended with
vars == <<query, side, plan, rule, pass, seen, final>>

\* Merges limits before they are combined, or before scans are bare.
MergeLimitsFirst ==
  <<"MergeLimits", "PushDownLimit", "PushDownFilter", "NormalizeTableScan",
    "NormalizeSortFetch", "MergeFilters", "LiftJoinFilter", "AddResultCheck">>
MergeLimitsEarly ==
  <<"PushDownLimit", "PushDownFilter", "MergeLimits", "NormalizeTableScan",
    "NormalizeSortFetch", "MergeFilters", "LiftJoinFilter", "AddResultCheck">>
rules == <<"PushDownLimit", "PushDownFilter", "NormalizeTableScan", "MergeLimits",
           "NormalizeSortFetch", "MergeFilters", "LiftJoinFilter", "AddResultCheck">>
Finished == DOMAIN final = Side

Init ==
  /\ query \in Queries
  /\ side = "prover" /\ plan = query /\ seen = {query}
  /\ rule = 1 /\ pass = 0 /\ final = <<>>

Rewrite(name, p) ==
  /\ ~Finished /\ rule \in DOMAIN rules /\ rules[rule] = name
  /\ plan' = p /\ rule' = rule + 1
  /\ UNCHANGED <<query, side, pass, seen, final>>

LimitsDown == Rewrite("PushDownLimit", PushDownLimit(plan))
FiltersDown == Rewrite("PushDownFilter", PushDownFilter(side, plan))
NormalizeTableScan == Rewrite("NormalizeTableScan", TransformUp(normalize_scan, plan))
MergeLimits == Rewrite("MergeLimits", TransformUp(merge_limits, plan))
NormalizeSortFetch == Rewrite("NormalizeSortFetch", TransformUp(normalize_sort, plan))
MergeFilters == Rewrite("MergeFilters", TransformUp(merge_filters, plan))
LiftJoinFilter == Rewrite("LiftJoinFilter", TransformUp(lift_join_filter, plan))
AddResultCheck == Rewrite("AddResultCheck", add_result_check(plan))

\* A pass that ends with a new plan is followed by another, MaxPasses of them.
NextPass ==
  /\ rule = Len(rules) + 1 /\ plan \notin seen /\ pass + 1 < MaxPasses
  /\ pass' = pass + 1 /\ rule' = 1 /\ seen' = seen \cup {plan}
  /\ UNCHANGED <<query, side, plan, final>>
\* The optimizer ends; the verifier starts from the query.
Optimized ==
  /\ ~Finished /\ rule = Len(rules) + 1 /\ (plan \in seen \/ pass + 1 = MaxPasses)
  /\ final' = [s \in DOMAIN final \cup {side} |-> IF s = side THEN plan ELSE final[s]]
  /\ side' = "verifier" /\ plan' = query /\ seen' = {query} /\ pass' = 0
  /\ rule' = 1 /\ UNCHANGED query
Stopped == Finished /\ UNCHANGED vars

Next ==
  \/ LimitsDown \/ FiltersDown \/ NormalizeTableScan \/ MergeLimits \/ NormalizeSortFetch
  \/ MergeFilters \/ LiftJoinFilter \/ AddResultCheck \/ NextPass \/ Optimized \/ Stopped
Spec == Init /\ [][Next]_vars

-----------------------------------------------------------------------------
(* Properties.                                                             *)

\* Both sides end with one plan, although the prover's scans take filters and
\* the verifier's do not: every id of the proof counts the operators of this plan.
SidesAgree == Finished => final["prover"] = final["verifier"]

\* Executed over the active rows, the optimized plan returns the rows of the
\* query, in its order: no fetch is left where it counts inactive rows, no limit
\* is lost or made one with another, and no filter changes sides of a limit or
\* of an outer join.
RowsKept == \A s \in DOMAIN final : Executed(final[s]) = Executed(query)

\* What the proof has nodes for is all that is left: bare scans, whole sorts,
\* inner joins on keys alone, filters with no filter right below them, a
\* ResultCheck at the root and nowhere else.  Two limits with the same bounds are
\* adjacent only above a Sort, whose fetch becomes a limit after limits are merged.
Bare(o) ==
  /\ o.op = "Scan" => o.filters = <<>> /\ o.fetch = NoFetch
  /\ o.op = "Sort" => o.fetch = NoFetch
  /\ o.op = "Join" /\ o.type = "Inner" => o.on = <<>>
NormalChain(chain) ==
  /\ \A i \in DOMAIN chain : Bare(chain[i])
  /\ \A i \in 2..Len(chain) :
       /\ ~(chain[i].op = "Filter" /\ chain[i - 1].op = "Filter")
       /\ chain[i].op = "Limit" /\ chain[i] = chain[i - 1] => chain[i - 2].op = "Sort"
NormalForm ==
  \A s \in DOMAIN final :
    LET p == final[s]
    IN  /\ Last(p) = ResultCheck /\ ResultCheck \notin ToSet(Front(p))
        /\ NormalChain(p)
        /\ p[1].op = "Join" => NormalChain(p[1].left) /\ NormalChain(p[1].right)
=============================================================================
