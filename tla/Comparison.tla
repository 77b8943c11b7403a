----------------------------- MODULE Comparison -----------------------------
(***************************************************************************)
(* One comparison of a query, from its columns to the verifier's claims.   *)
(* The output column is materialized: the prover commits what DataFusion   *)
(* computed, and the gadgets under the comparison show that the rows it    *)
(* marks satisfy the comparison and the other active rows do not.  The     *)
(* prover initializes the gadgets, checks itself if it is built to,        *)
(* commits and claims; the verifier does the same over the commitments in  *)
(* the proof, in the same order.                                           *)
(***************************************************************************)
EXTENDS SignCheck

CONSTANTS
  Types,        \* the types of the compared columns
  Samples(_),   \* the values a column of a type may hold
  Outputs,      \* the values of an output column that was not computed
  CheckHonest   \* the honest-prover feature

ASSUME InputAssumption ==
  /\ Types \subseteq Type
  /\ \A t \in Types : Samples(t) \subseteq Int
  /\ \A t \in Types \ {"Decimal128"} : Samples(t) \subseteq (-Long)..Long
  /\ Outputs \subseteq Field
  /\ CheckHonest \in BOOLEAN

VARIABLES
  expr,     \* the comparison: operator, type, columns, activator, output
  tables,   \* tables[n]: the prover's payload of gadget n
  ppc, pos, \* the prover's pass, and how many gadgets it has proved
  coms,     \* the chunk columns committed, in order
  claims,   \* claims[n]: what the prover claimed at gadget n
  vtables, vpc, vpos, vread, vclaims   \* the same for the verifier
pvars == <<tables, ppc, pos, coms, claims>>
vvars == <<vtables, vpc, vpos, vread, vclaims>>
vars == <<expr, pvars, vvars>>

Orderings == {"Geq", "Leq", "Gt", "Lt"}
Ops == Orderings \cup {"Eq", "NotEq"}

\* The signs of left - right on the rows marked true and on the others.
SignPair(op) ==
  CASE op = "Geq" -> <<"NonNegative", "Negative">>
    [] op = "Leq" -> <<"NonPositive", "Positive">>
    [] op = "Gt"  -> <<"Positive", "NonPositive">>
    [] op = "Lt"  -> <<"Negative", "NonNegative">>

Compare(op, l, r) ==
  CASE op = "Geq" -> l >= r [] op = "Leq" -> l <= r [] op = "Gt" -> l > r
    [] op = "Lt" -> l < r [] op = "Eq" -> l = r [] op = "NotEq" -> l # r

\* The hint's output: CASE WHEN activator THEN left op right ELSE false.
ComputedOutput(op, l, r, act) ==
  [i \in Rows |-> IF (act # None => act[i] = 1) /\ Compare(op, l[i], r[i]) THEN 1 ELSE 0]

(***************************************************************************)
(* The gadgets of a comparison.  "strict" is the neq gadget of whichever   *)
(* sign is strict: there is one in every pair.                             *)
(***************************************************************************)
Gadget == {"root", "bool", "true", "false", "strict", "eq", "neq"}
StrictSide(op) == IF Strict(SignPair(op)[1]) THEN "true" ELSE "false"
Side(op, n) == IF n = "true" THEN SignPair(op)[1] ELSE SignPair(op)[2]

\* The arena's order: children first, in the order children() lists them.
Walk(op) ==
  IF op \notin Orderings THEN <<"bool", "eq", "neq", "root">>
  ELSE IF StrictSide(op) = "true" THEN <<"bool", "strict", "true", "false", "root">>
  ELSE <<"bool", "true", "strict", "false", "root">>

Table(left, right, act) == [left |-> left, right |-> right, act |-> act]
Encoded(col) == [i \in Rows |-> Encode(expr.type, col[i])]

\* The rows the output marks are the true side; the false side is the rest of
\* the active rows.
OtherRows == ColSub(IF expr.act = None THEN All(1) ELSE expr.act, expr.out)

\* initialize_gadgets of the comparison, on both sides of the proof: the two
\* gadgets of the marked rows and of the others have the same columns.
PairTables(marked, others, l, r) ==
  [n \in Gadget |->
    CASE n = marked -> Table(l, r, expr.out)
      [] n = others -> Table(l, r, OtherRows)
      [] n = "bool" -> Table(expr.out, All(0), expr.act)
      [] OTHER -> None]
OrderingTables(l, r) == PairTables("true", "false", ColSub(l, r), All(0))
EqTables(l, r) == PairTables("eq", "neq", l, r)
NotEqTables(l, r) == PairTables("neq", "eq", l, r)
RootTables ==
  LET l == Encoded(expr.left)
      r == Encoded(expr.right)
  IN  CASE expr.op = "Eq" -> EqTables(l, r)
        [] expr.op = "NotEq" -> NotEqTables(l, r)
        [] OTHER -> OrderingTables(l, r)

\* initialize_gadgets of the strict sign: its column against zero.
WithStrict(tabs) ==
  IF expr.op \in Orderings
  THEN [tabs EXCEPT !["strict"] = tabs[StrictSide(expr.op)]]
  ELSE tabs

(***************************************************************************)
(* What each gadget claims, given its table and the chunk columns.         *)
(***************************************************************************)
BoolClaims(tab) ==
  <<Zero(Masked(ColMul(tab.left, ColSub(All(1), tab.left)), tab.act))>>
EqClaims(tab) == <<Zero(Masked(ColSub(tab.left, tab.right), tab.act))>>
\* left - right folded, plus (1 - activator) times a challenge of its own.
NeqClaims(tab) ==
  <<NonZero([i \in Rows |-> <<Sub(tab.left[i], tab.right[i]), Sub(1, tab.act[i])>>])>>
SignClaims(n, tab, ch) ==
  RangeClaims(expr.type, Oriented(Side(expr.op, n), tab.left), tab.act, ch)
\* Bug: nothing is claimed of the inactive rows.
RootClaimsNone == <<>>
\* No inactive row is marked.
RootClaims ==
  IF expr.act = None THEN <<>> ELSE <<Zero(ColMul(ColSub(expr.act, All(1)), expr.out))>>

GadgetClaims(n, tab, ch) ==
  CASE n = "bool" -> BoolClaims(tab)
    [] n = "eq" -> EqClaims(tab)
    [] n \in {"neq", "strict"} -> NeqClaims(tab)
    [] n \in {"true", "false"} -> SignClaims(n, tab, ch)
    [] n = "root" -> RootClaims

Commits(n) == IF n \in {"true", "false"} THEN ChunkCount(expr.type) ELSE 0

(***************************************************************************)
(* The honest prover's check of every gadget.                              *)
(***************************************************************************)
HonestBool(tab) ==
  \A i \in Rows : (tab.act # None => tab.act[i] = 1) => tab.left[i] \in {0, 1}
HonestNeq(tab) ==
  \A i \in Rows : tab.act[i] = 1 => tab.left[i] # tab.right[i]
HonestGadget(n) ==
  CASE n = "bool" -> HonestBool(tables[n])
    [] n \in {"neq", "strict"} -> HonestNeq(tables[n])
    [] n \in {"true", "false"} ->
         HonestSign(expr.type, Side(expr.op, n), tables[n].left, tables[n].act)
    [] OTHER -> TRUE

(***************************************************************************)
(* The prover.                                                             *)
(***************************************************************************)
NoTables == [n \in Gadget |-> None]
NoClaims == [n \in Gadget |-> <<>>]

Init ==
  /\ \E op \in Ops, t \in Types :
       \E l, r \in [Rows -> Samples(t)], act \in [Rows -> {0, 1}] \cup {None} :
         \E out \in {ComputedOutput(op, l, r, act)} \cup [Rows -> Outputs] :
           expr = [op |-> op, type |-> t, left |-> l, right |-> r, act |-> act, out |-> out]
  /\ tables = NoTables /\ ppc = "root" /\ pos = 0 /\ coms = <<>> /\ claims = NoClaims
  /\ vtables = NoTables /\ vpc = "root" /\ vpos = 0 /\ vread = 0 /\ vclaims = NoClaims

\* The gadget-initialization pass, parents first.
InitRoot ==
  /\ ppc = "root"
  /\ tables' = RootTables /\ ppc' = "strict"
  /\ UNCHANGED <<expr, pos, coms, claims, vvars>>
InitStrict ==
  /\ ppc = "strict"
  /\ tables' = WithStrict(tables)
  /\ ppc' = IF CheckHonest THEN "check" ELSE "prove"
  /\ UNCHANGED <<expr, pos, coms, claims, vvars>>

\* The honest-prover pass works on copies; a failed check ends the proof.
HonestPass ==
  /\ ppc = "check"
  /\ ppc' = IF \A k \in DOMAIN Walk(expr.op) : HonestGadget(Walk(expr.op)[k])
            THEN "prove" ELSE "rejected"
  /\ UNCHANGED <<expr, tables, pos, coms, claims, vvars>>

\* prove of the next gadget of the walk.
Prove ==
  /\ ppc = "prove" /\ pos < Len(Walk(expr.op))
  /\ LET n == Walk(expr.op)[pos + 1]
         tab == tables[n]
         ch == IF Commits(n) = 0 THEN <<>>
               ELSE ChunkColumns(expr.type, Oriented(Side(expr.op, n), tab.left), tab.act)
     IN  /\ coms' = coms \o ch
         /\ claims' = [claims EXCEPT ![n] = GadgetClaims(n, tab, ch)]
  /\ pos' = pos + 1
  /\ UNCHANGED <<expr, tables, ppc, vvars>>
SendProof ==
  /\ ppc = "prove" /\ pos = Len(Walk(expr.op))
  /\ ppc' = "sent"
  /\ UNCHANGED <<expr, tables, pos, coms, claims, vvars>>

(***************************************************************************)
(* The verifier.                                                           *)
(***************************************************************************)
VInitRoot ==
  /\ ppc = "sent" /\ vpc = "root"
  /\ vtables' = RootTables /\ vpc' = "strict"
  /\ UNCHANGED <<expr, pvars, vpos, vread, vclaims>>
VInitStrict ==
  /\ vpc = "strict"
  /\ vtables' = WithStrict(vtables) /\ vpc' = "verify"
  /\ UNCHANGED <<expr, pvars, vpos, vread, vclaims>>

\* Bug: every sign gadget reads the first chunks of the proof.
NextComsFirst(n) == SubSeq(coms, 1, Commits(n))
\* verify of the next gadget: its chunks are the next commitments of the proof.
NextComs(n) == SubSeq(coms, vread + 1, vread + Commits(n))
Verify ==
  /\ vpc = "verify" /\ vpos < Len(Walk(expr.op))
  /\ LET n == Walk(expr.op)[vpos + 1]
     IN  /\ vread + Commits(n) <= Len(coms)
         /\ vclaims' = [vclaims EXCEPT ![n] = GadgetClaims(n, vtables[n], NextComs(n))]
         /\ vread' = vread + Commits(n)
  /\ vpos' = vpos + 1
  /\ UNCHANGED <<expr, pvars, vtables, vpc>>
Finish ==
  /\ vpc = "verify" /\ vpos = Len(Walk(expr.op))
  /\ vpc' = "done"
  /\ UNCHANGED <<expr, pvars, vtables, vpos, vread, vclaims>>

\* A rejected proof is not sent; a verified one has been judged.
Stopped == (ppc = "rejected" \/ vpc = "done") /\ UNCHANGED vars

Next ==
  \/ InitRoot \/ InitStrict \/ HonestPass \/ Prove \/ SendProof
  \/ VInitRoot \/ VInitStrict \/ Verify \/ Finish
  \/ Stopped
Spec == Init /\ [][Next]_vars
-----------------------------------------------------------------------------
(***************************************************************************)
(* Properties.                                                             *)
(***************************************************************************)
Computed == ComputedOutput(expr.op, expr.left, expr.right, expr.act)
Accepted ==
  /\ vpc = "done"
  /\ \A n \in Gadget : \A k \in DOMAIN vclaims[n] : Holds(vclaims[n][k])

\* When every claim the verifier made holds, the committed output is the
\* comparison of the two columns: 1 on the active rows that satisfy it, 0 on
\* all others.
AcceptedIsCorrect == Accepted => expr.out = Computed

\* The verifier reads each gadget's chunk columns where the prover committed
\* them: gadget by gadget it makes the prover's claims, and no commitment of
\* the proof is left over.
VerifierMirrors ==
  /\ \A n \in Gadget : vclaims[n] # <<>> => vclaims[n] = claims[n]
  /\ vpc = "done" => vclaims = claims /\ vread = Len(coms)

\* The sign gadget reads a difference back with the width of the column's
\* type, so a signed difference has to fit that type.
DifferenceFits(i) ==
  Signed(expr.type) =>
    LET most == Half(Size(Bytes[expr.type])) - 1
    IN  expr.left[i] - expr.right[i] \in (-most)..most
Fits == expr.op \in Orderings => \A i \in Rows : DifferenceFits(i)

\* What DataFusion computed can be proved: if the differences fit, every claim
\* about the computed output is true.
ComputedIsProvable ==
  (expr.out = Computed /\ Fits) => (vpc = "done" => Accepted)

\* The honest prover's check stops no computed output, whether its
\* differences fit or not.
RejectedIsWrong == ppc = "rejected" => expr.out # Computed
=============================================================================
