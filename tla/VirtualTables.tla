---------------------------- MODULE VirtualTables ----------------------------
(***************************************************************************)
(* The tables behind the nodes of a plan.  A proof never drops a row: it   *)
(* keeps an activator column and switches rows off.  Every node has three  *)
(* tables that must say the same:                                          *)
(*   hint[i]     what the prover's planning computes with DataFusion,      *)
(*   tracked[i]  the prover's polynomials, padded to a power of two, whose *)
(*               activator is computed from other polynomials,             *)
(*   oracle[i]   the verifier's, computed from commitments and from the    *)
(*               numbers the proof carries in its miscellaneous fields.    *)
(* Table 1 is the scan, table i + 1 the output of operator i.  The passes  *)
(* run one after the other over all nodes, inputs first.                   *)
(***************************************************************************)
EXTENDS ChainPlans

\* Rows 1 .. n; padding rows have no identity.
IsTable(t) ==
  /\ t = [n |-> t.n, row |-> t.row, act |-> t.act] /\ t.n \in Nat
  /\ t.row \in [1..t.n -> Rows \cup {0}] /\ t.act \in [1..t.n -> BOOLEAN]

CONSTANTS
  Scans,    \* the base tables a plan may read
  Plans,    \* the optimized plans
  Sizes     \* the sizes a padded table may have: powers of two

ASSUME ScansAssumption == \A scan \in Scans : IsTable(scan)
ASSUME PlansAssumption == \A p \in Plans : IsPlan(p)
ASSUME SizesAssumption ==
  /\ Sizes \subseteq Nat
  /\ \A scan \in Scans : \A n \in 1..scan.n : \E s \in Sizes : s >= n /\ s < 2 * n

VARIABLES
  plan,     \* operators above the scan
  hint, tracked, oracle,
  misc      \* the proof's miscellaneous fields: key -> number
vars == <<plan, hint, tracked, oracle, misc>>

Active(t) == { i \in 1..t.n : t.act[i] }
\* How many active rows there are up to row i.
Rank(t, i) == Cardinality({ j \in Active(t) : j <= i })
ActiveRows(t) == { t.row[i] : i \in Active(t) }
\* The active rows as they follow each other.
RowsOf(t) ==
  [k \in 1..Cardinality(Active(t)) |-> t.row[CHOOSE i \in Active(t) : Rank(t, i) = k]]

\* Materialized tables are padded with inactive rows; no rows give a table of two.
PadSize(n) == IF n = 0 THEN 2 ELSE CHOOSE s \in Sizes : s >= n /\ s < 2 * n
Pad(t) ==
  [n |-> PadSize(t.n),
   row |-> [i \in 1..PadSize(t.n) |-> IF i <= t.n THEN t.row[i] ELSE 0],
   act |-> [i \in 1..PadSize(t.n) |-> i <= t.n /\ t.act[i]]]

WithAct(t, act) == [t EXCEPT !.act = act]
Planned == Len(hint) = Len(plan) + 1
Proved == Len(tracked) = Len(plan) + 1
Verified == Len(oracle) = Len(plan) + 1

-----------------------------------------------------------------------------
(* Planning: the hint table of each operator.                              *)

FilterHint(t, f) ==
  WithAct(t, [i \in 1..t.n |-> t.act[i] /\ t.row[i] \in f.keep])

\* row_number() over the rows of the same activator, in __row_id__ order.
RowNumberFromZero(t, i) == Rank(t, i) - 1
RowNumber(t, i) == Rank(t, i)
InRange(t, i, l) ==
  /\ RowNumber(t, i) >= l.skip + 1
  /\ l.fetch = NoFetch \/ RowNumber(t, i) <= l.skip + l.fetch
LimitHint(t, l) ==
  WithAct(t, [i \in 1..t.n |-> t.act[i] /\ InRange(t, i, l)])

\* Active rows first, each part in the order of the sort key; fetch truncates.
Precedes(t, key, j, i) ==
  \/ t.act[j] /\ ~t.act[i]
  \/ t.act[j] = t.act[i] /\ key[t.row[j]] < key[t.row[i]]
SortPosition(t, key, i) ==
  Cardinality({ j \in 1..t.n : Precedes(t, key, j, i) }) + 1
SortHint(t, s) ==
  LET n == IF s.fetch = NoFetch \/ t.n < s.fetch THEN t.n ELSE s.fetch
      At(k) == CHOOSE i \in 1..t.n : SortPosition(t, s.key, i) = k
  IN [n |-> n, row |-> [k \in 1..n |-> t.row[At(k)]],
      act |-> [k \in 1..n |-> t.act[At(k)]]]

\* Only the active rows, renumbered.
RematHint(t) ==
  LET n == Cardinality(Active(t))
      At(k) == CHOOSE i \in Active(t) : Rank(t, i) = k
  IN [n |-> n, row |-> [k \in 1..n |-> t.row[At(k)]],
      act |-> [k \in 1..n |-> TRUE]]

PlanOp(name) == ~Planned /\ plan[Len(hint)].op = name
PlanAs(t) == hint' = Append(hint, t) /\ UNCHANGED <<plan, tracked, oracle, misc>>
PlanFilter == PlanOp("Filter") /\ PlanAs(FilterHint(Last(hint), plan[Len(hint)]))
PlanLimit == PlanOp("Limit") /\ PlanAs(LimitHint(Last(hint), plan[Len(hint)]))
PlanSort == PlanOp("Sort") /\ PlanAs(SortHint(Last(hint), plan[Len(hint)]))
PlanRemat == PlanOp("Rematerialize") /\ PlanAs(RematHint(Last(hint)))

-----------------------------------------------------------------------------
(* The prover's virtual tables.                                            *)

Contig(n, s) == [i \in 1..n |-> i <= s]
Put(fields, key, v) ==
  [k \in DOMAIN fields \cup {key} |-> IF k = key THEN v ELSE fields[k]]

\* The committed column of a predicate, computed on the hint table.  Comparisons
\* are false on inactive rows; IN lists, BETWEEN, CASE and plain columns are not.
PredColumnUnmasked(t, f) ==
  Pad(WithAct(t, [i \in 1..t.n |-> t.row[i] \in f.keep])).act
PredColumn(t, f) ==
  Pad(WithAct(t, [i \in 1..t.n |-> /\ f.masked => t.act[i]
                                   /\ t.row[i] \in f.keep])).act

\* The length of the mask: up to the fetch-th active row, or all of the table.
ContigSOffByOne(t, fetch) ==
  LET hits == { i \in Active(t) : Rank(t, i) = fetch }
  IN IF hits = {} THEN t.n ELSE (CHOOSE i \in hits : TRUE) - 1
ContigS(t, fetch) ==
  LET hits == { i \in Active(t) : Rank(t, i) = fetch }
  IN IF fetch = 0 THEN 0
     ELSE IF hits = {} THEN t.n ELSE CHOOSE i \in hits : TRUE

LimitKeyByName(i) == "limit"
LimitKey(i) == <<plan[i].skip, plan[i].fetch>>
LimitSKey(i) == <<"limit_contig_s", LimitKey(i)>>
LimitSumKey(i) == <<"limit_contig_sum", LimitKey(i)>>
RematKey(i) == <<"remat_contig_s", i>>

ProveOp(name) == Planned /\ ~Proved /\ plan[Len(tracked)].op = name
ProveAs(t) == tracked' = Append(tracked, t) /\ UNCHANGED <<plan, hint, oracle>>

ProveFilter ==
  LET i == Len(tracked) IN
  /\ ProveOp("Filter")
  /\ ProveAs(WithAct(tracked[i], PredColumn(hint[i], plan[i])))
  /\ UNCHANGED misc

NoSkip(l) == l.skip = 0     \* assert_no_skip panics
LimitMask(t, s) ==
  WithAct(t, [j \in 1..t.n |-> t.act[j] /\ Contig(t.n, s)[j]])
ProveLimit ==
  LET i == Len(tracked)
      s == ContigS(tracked[i], plan[i].fetch)
      out == LimitMask(tracked[i], s)
  IN /\ ProveOp("Limit") /\ NoSkip(plan[i])
     /\ ProveAs(out)
     /\ misc' = Put(Put(misc, LimitSKey(i), s),
                    LimitSumKey(i), Cardinality(Active(out)))

\* Every column of a sort's output is materialized.
ProveSort ==
  ProveOp("Sort") /\ ProveAs(Pad(hint[Len(tracked) + 1])) /\ UNCHANGED misc

RematMask(t, s) == WithAct(t, Contig(t.n, s))
ProveRemat ==
  LET i == Len(tracked)
      s == Cardinality(Active(tracked[i]))
  IN /\ ProveOp("Rematerialize")
     /\ ProveAs(RematMask(Pad(hint[i + 1]), s))
     /\ misc' = Put(misc, RematKey(i), s)

-----------------------------------------------------------------------------
(* The verifier's virtual tables, after the proof has arrived.             *)

VerifyOp(name) == Proved /\ ~Verified /\ plan[Len(oracle)].op = name
VerifyAs(t) == oracle' = Append(oracle, t) /\ UNCHANGED <<plan, hint, tracked, misc>>
FieldOf(key) == misc[key]

VerifyFilter ==
  LET i == Len(oracle) IN
  /\ VerifyOp("Filter")
  /\ VerifyAs(WithAct(oracle[i], PredColumn(hint[i], plan[i])))

VerifyLimit ==
  LET i == Len(oracle) IN
  VerifyOp("Limit") /\ VerifyAs(LimitMask(oracle[i], FieldOf(LimitSKey(i))))

VerifySort == VerifyOp("Sort") /\ VerifyAs(Pad(hint[Len(oracle) + 1]))

VerifyRemat ==
  LET i == Len(oracle) IN
  /\ VerifyOp("Rematerialize")
  /\ VerifyAs(RematMask(Pad(hint[i + 1]), FieldOf(RematKey(i))))

-----------------------------------------------------------------------------
Init ==
  /\ plan \in Plans
  /\ \E scan \in Scans :
       hint = <<scan>> /\ tracked = <<Pad(scan)>> /\ oracle = <<Pad(scan)>>
  /\ misc = [k \in {} |-> 0]

Next ==
  \/ PlanFilter \/ PlanLimit \/ PlanSort \/ PlanRemat
  \/ ProveFilter \/ ProveLimit \/ ProveSort \/ ProveRemat
  \/ VerifyFilter \/ VerifyLimit \/ VerifySort \/ VerifyRemat

Spec == Init /\ [][Next]_vars

-----------------------------------------------------------------------------
(* Properties.                                                             *)

\* Plans in which a filter's predicate is false on inactive rows.
Masked == \A i \in DOMAIN plan : plan[i].op = "Filter" => plan[i].masked
\* Limits with the same bounds are next to each other, if there are any.
LimitsApart ==
  \A i, j \in DOMAIN plan :
    plan[i].op = "Limit" /\ plan[j] = plan[i]
      => \A k \in DOMAIN plan : i <= k /\ k <= j => plan[k] = plan[i]

\* The polynomials of every node are the table planning computed for it: a
\* limit's contiguous mask keeps the rows row_number() keeps, a filter that
\* replaces the activator by the predicate (filter/mod.rs) loses nothing, and
\* a rematerialized prefix is as long as the rows that were kept.
HintsAgree ==
  Masked => \A i \in DOMAIN tracked : tracked[i] = Pad(hint[i])

\* The verifier, who has no rows, switches the same rows on as the prover.
Mirrors ==
  LimitsApart => \A i \in DOMAIN oracle : oracle[i] = tracked[i]

\* What the gadgets below operator i state about the prover's polynomials.
Comparison(i) ==
  plan[i].masked =>
    tracked[i + 1].act =
      [j \in 1..tracked[i].n |-> /\ tracked[i].act[j]
                                 /\ tracked[i].row[j] \in plan[i].keep]
LimitSum(i) == Cardinality(Active(tracked[i + 1])) = misc[LimitSumKey(i)]
Permutes(i) ==
  /\ ActiveRows(tracked[i]) = ActiveRows(tracked[i + 1])
  /\ Cardinality(Active(tracked[i])) = Cardinality(Active(tracked[i + 1]))
SortedPrefix(t, key) ==
  /\ Active(t) = 1..Cardinality(Active(t))
  /\ \A j, k \in Active(t) : j < k => key[t.row[j]] < key[t.row[k]]
Claim(i) ==
  CASE plan[i].op = "Filter" -> Comparison(i)
    [] plan[i].op = "Limit"  -> LimitSum(i)
    [] plan[i].op = "Sort"   -> Permutes(i) /\ SortedPrefix(tracked[i + 1], plan[i].key)
    [] OTHER                 -> TRUE

\* An honest prover claims nothing false at any gadget.
ClaimsHold ==
  Masked /\ LimitsApart /\ Proved => \A i \in DOMAIN plan : Claim(i)

\* ResultCheck finds the rows of the query's result among the active rows of
\* the root's table, in the order of the result, and no others.
ResultProved ==
  Masked /\ Proved =>
    LET top == Last(tracked)
        rows == Result(plan, RowsOf(hint[1]))
    IN /\ Cardinality(Active(top)) = Len(rows)
       /\ \A i \in Active(top) : top.row[i] = rows[Rank(top, i)]

\* limit/mod.rs, at the verifier's mask: "Mirror the prover: read `s` and apply
\* contiguous mask to activator."
MirrorTheProver == \A i \in DOMAIN oracle : oracle[i] = tracked[i]
=============================================================================
