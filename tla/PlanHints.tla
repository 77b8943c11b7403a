------------------------------ MODULE PlanHints ------------------------------
(***************************************************************************)
(* Data-dependent plan hints.  The prover executes parts of the query,     *)
(* decides from their row counts which subtrees of the logical plan to     *)
(* rewrite, applies the hints to its own plan and ships them in the proof; *)
(* the verifier, which has no rows, replays them on the plan it derives    *)
(* from the same query.  Proof and verification only fit together if both  *)
(* end up with the same plan.                                              *)
(*                                                                         *)
(* A plan is a function from paths (child indices from the root, as in     *)
(* target_path) to node kinds; a rewritten plan is the function that is    *)
(* left after truncation together with the set of wrapped paths.           *)
(***************************************************************************)
EXTENDS Naturals, Sequences, SequencesExt

CONSTANTS
  Plans,     \* the structurally optimized plans with the rows they produce
  RuleLists, \* the rule lists of a DataDependentOptimizer
  MaxRows    \* bound: rows a subtree produces

\* AddResultCheck is the last rule of the optimizer: the root is a ResultCheck.
ASSUME PlansAssumption ==
  \A pl \in Plans : <<>> \in DOMAIN pl.kind /\ pl.kind[<<>>] = "ResultCheck"

VARIABLES
  kind,      \* kind[p]: the operator at path p of the plan, on both sides
  rows,      \* rows[p]: rows DataFusion counts for the subtree at p
  rules,     \* rules that have not collected their hints yet
  hints,     \* the hints collected so far
  phase,     \* "collect", "prove", "sent", "verified" or "failed"
  proverPlan, payload, verifierPlan
hintVars == <<kind, rows, rules, hints, phase, proverPlan, payload, verifierPlan>>

-----------------------------------------------------------------------------
(* Plans and paths.                                                        *)

Paths == DOMAIN kind
Below(q, p) == IsStrictPrefix(q, p)          \* p is in the subtree below q
ResultCheckIgnored(p) == FALSE
IsResultCheck(p) == kind[p] = "ResultCheck"
UnderResultCheck(p) == p # <<>> /\ IsResultCheck(Front(p))

\* next_power_of_two_strict: 0 counts as 1, 1 as 2, a power of two doubles.
Powers == { 2^k : k \in 0..(MaxRows + 1) }
NextPow2Strict(r) == CHOOSE q \in Powers : q > r /\ q <= 2 * r + 1

\* should_rematerialize of a Filter or Aggregate; the input is child 0.
Shrinks(p) ==
  /\ rows[Append(p, 0)] > 0
  /\ NextPow2Strict(rows[p]) < NextPow2Strict(rows[Append(p, 0)])
SupportsWithLimit(k) == k \in {"Filter", "Aggregate", "Limit"}
Collects(k) == k \in {"Filter", "Aggregate"}
Supports(k) == k \in {"Filter", "Aggregate"}

-----------------------------------------------------------------------------
(* Collecting: the walk from the root stops at the first hit.              *)

RematHit(p) == ~UnderResultCheck(p) /\ Collects(kind[p]) /\ Shrinks(p)
TruncateHit(p) == kind[p] # "EmptyRelation" /\ rows[p] = 0

RematHits == { p \in Paths : RematHit(p) }
TruncateHits == { p \in Paths : TruncateHit(p) }

\* An EmptyRelation has no inputs, so only hits stop a walk.
EveryHit(hits) == hits
FirstHits(hits) == { p \in hits : \A q \in hits : ~Below(q, p) }

\* The walk pushes a child's index before it descends, so a hit's path reads
\* from the root.
TargetPath(p) == p

HintsOf(rule) ==
  IF rule = "rematerialize"
  THEN { [hint |-> "Rematerialize", path |-> TargetPath(p)] :
           p \in FirstHits(RematHits) }
  ELSE { [hint |-> "Truncate", path |-> TargetPath(p)] :
           p \in FirstHits(TruncateHits) }

-----------------------------------------------------------------------------
(* apply_optimization_hints.                                               *)

PathsOf(h, name) == { x.path : x \in { y \in h : y.hint = name } }
Failed == [ok |-> FALSE, kind |-> <<>>, wrapped |-> {}]

\* Truncation drops what is below a target.
Kept(targets) == { p \in Paths : \A t \in targets : ~Below(t, p) }
Truncated(targets) ==
  [p \in Kept(targets) |-> IF p \in targets THEN "EmptyRelation" ELSE kind[p]]
\* A target the walk does not reach stays unapplied.  The walk rebuilds every
\* node it leaves with plan.expressions(), which DataFusion refuses for a Join
\* with equality keys.
TruncateApplies(targets) ==
  /\ targets \subseteq Kept(targets)
  /\ \A p \in Kept(targets) \ targets : kind[p] # "Join"

\* A target under a ResultCheck is consumed without wrapping; any other one
\* must still be there and be of a supported kind.
RematApplies(k, targets) ==
  \A p \in targets :
    p \in DOMAIN k /\ (UnderResultCheck(p) \/ Supports(k[p]))
Wrapped(targets) == { p \in targets : ~UnderResultCheck(p) }

\* Truncate hints first; without hints of a variant its walk is skipped.
Apply(h) ==
  LET cut == PathsOf(h, "Truncate")
      remat == PathsOf(h, "Rematerialize")
      k == Truncated(cut)
  IN  IF (cut # {} => TruncateApplies(cut)) /\ RematApplies(k, remat)
      THEN [ok |-> TRUE, kind |-> k, wrapped |-> Wrapped(remat)]
      ELSE Failed

\* The hint slot of TTProof: empty, framed by TTH1, or ignored legacy bytes.
Encode(h) == IF h = {} THEN [frame |-> "none"]
             ELSE [frame |-> "TTH1", hints |-> h]
DecodeAsLegacy(b) == {}
Decode(b) == IF b.frame = "TTH1" THEN b.hints ELSE {}

-----------------------------------------------------------------------------
HintInit ==
  /\ \E pl \in Plans : kind = pl.kind /\ rows = pl.rows
  /\ rules \in RuleLists
  /\ hints = {} /\ phase = "collect"
  /\ proverPlan = Failed /\ verifierPlan = Failed
  /\ payload = [frame |-> "none"]

\* DataDependentOptimizer::collect_hints: every rule sees the same plan.
Collect ==
  /\ phase = "collect" /\ rules # <<>>
  /\ hints' = hints \cup HintsOf(Head(rules))
  /\ rules' = Tail(rules)
  /\ UNCHANGED <<kind, rows, phase, proverPlan, payload, verifierPlan>>

\* TTProver::lp_passes applies its own hints, or prove() returns the error.
ProverApply ==
  /\ phase = "collect" /\ rules = <<>>
  /\ proverPlan' = Apply(hints)
  /\ phase' = IF proverPlan'.ok THEN "prove" ELSE "failed"
  /\ UNCHANGED <<kind, rows, rules, hints, payload, verifierPlan>>

\* assemble_proof, serialized.
Assemble ==
  /\ phase = "prove"
  /\ payload' = Encode(hints) /\ phase' = "sent"
  /\ UNCHANGED <<kind, rows, rules, hints, proverPlan, verifierPlan>>

\* TTVerifier::lp_passes replays the hints it decodes.
VerifierApply ==
  /\ phase = "sent"
  /\ verifierPlan' = Apply(Decode(payload))
  /\ phase' = IF verifierPlan'.ok THEN "verified" ELSE "failed"
  /\ UNCHANGED <<kind, rows, rules, hints, proverPlan, payload>>

HintNext == Collect \/ ProverApply \/ Assemble \/ VerifierApply
HintSpec == HintInit /\ [][HintNext]_hintVars

-----------------------------------------------------------------------------
(* Properties.                                                             *)

\* Hints collected on a plan apply to it, on the prover's side and again on the
\* verifier's: apply_optimization_hints returns its error for them only where
\* a rule list outside production mixes truncation with rematerialization, or
\* truncates beside a join that stays.
Collected(name) == PathsOf(hints, name) # {}
HintsApply ==
  phase = "failed" =>
    /\ Collected("Truncate")
    /\ \/ Collected("Rematerialize")
       \/ \E p \in Kept(PathsOf(hints, "Truncate")) : kind[p] = "Join"

\* The verifier proves over the plan the prover proved over.
SamePlan == phase = "verified" => verifierPlan = proverPlan

\* The subtree right under a ResultCheck is never wrapped: what the verifier
\* compares with the received result is the query's own output.
ResultNotWrapped ==
  \A p \in proverPlan.wrapped : p # <<>> /\ kind[Front(p)] # "ResultCheck"

\* At most one subtree is rematerialized on the way from a leaf to the root.
OneWrapPerBranch ==
  \A p, q \in proverPlan.wrapped : ~Below(q, p)

\* What collects and what applies, each with a guard of its own, agree on where
\* subtrees are rematerialized: below the query's output, once on each branch.
WrapsInPlace == ResultNotWrapped /\ OneWrapPerBranch
=============================================================================
