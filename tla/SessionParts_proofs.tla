------------------------ MODULE SessionParts_proofs ------------------------
(***************************************************************************)
(* The two parts of a session that are models of their own: the workers of *)
(* the commitment pass, and the plan hints that travel in the proof.       *)
(***************************************************************************)
EXTENDS CommitmentPass, PlanHints, TLAPS

-----------------------------------------------------------------------------
(* The commitment pass for any arena, any number of columns and any        *)
(* sharing of polynomials: the cache never binds a column to a foreign     *)
(* commitment, and the pass implements ParallelPass.                       *)

\* The inductive invariant: besides the cache, every finished column has its
\* own commitment and left it in the cache, and every payload that was put out
\* is the expected one.
ColumnsSound ==
  \A e \in Entry : at[e] = "done" => com[e] = PcsCommit(Poly[e])
ColumnsCached == \A e \in Entry : at[e] = "done" => Key(e) \in DOMAIN cache
OutSound ==
  \A n \in DOMAIN out :
    /\ Source(n) # "panic"
    /\ out[n] = IF n \in Detached THEN None ELSE Committed(n, Source(n))
Inv == TypeOK /\ CacheSound /\ ColumnsSound /\ ColumnsCached /\ OutSound

USE DEF config

LEMMA InitInv == Init => Inv
  BY DEF Init, Inv, TypeOK, CacheSound, ColumnsSound, ColumnsCached, OutSound

\* A look-up keeps the invariant: a hit returns the column's own commitment.
LEMMA LookupInv == ASSUME Inv, NEW e \in Entry, Lookup(e) PROVE Inv'
<1> USE DEF Lookup, Inv
<1>1. com' = com \/ com' = With(com, e, PcsCommit(Poly[e]))
  BY DEF CacheSound
<1>2. at' \in [Entry -> {"todo", "msm", "done"}]
  BY DEF TypeOK
<1>3. DOMAIN com' = { f \in Entry : at'[f] = "done" }
  BY DEF TypeOK, With
<1>4. ColumnsSound'
  <2> SUFFICES ASSUME NEW f \in Entry, at'[f] = "done"
               PROVE  com'[f] = PcsCommit(Poly[f])
    BY DEF ColumnsSound
  <2>1. CASE f = e
    BY <2>1, <1>1, <1>3 DEF TypeOK, With, CacheSound
  <2>2. CASE f # e
    BY <2>2, <1>1 DEF TypeOK, With, ColumnsSound
  <2> QED BY <2>1, <2>2
<1>5. TypeOK'
  BY <1>2, <1>3 DEF TypeOK
<1>6. OutSound'
  BY DEF OutSound, Source
<1>7. CacheSound' /\ ColumnsCached'
  BY DEF CacheSound, ColumnsCached, Key, TypeOK
<1> QED BY <1>4, <1>5, <1>6, <1>7

\* An insert keeps the invariant: columns with the same key have the same
\* polynomial, so it does not matter whose commitment the cache keeps.
LEMMA InsertInv == ASSUME Inv, NEW e \in Entry, Insert(e) PROVE Inv'
<1> USE DEF Insert, Inv
<1>1. TypeOK'
  BY DEF TypeOK, With, OrInsert, Key
<1>2. ColumnsSound'
  BY DEF ColumnsSound, TypeOK, With
<1>3. CacheSound'
  <2> SUFFICES ASSUME NEW f \in Entry, Key(f) \in DOMAIN cache'
               PROVE  cache'[Key(f)] = PcsCommit(Poly[f])
    BY DEF CacheSound, Key
  <2>1. CASE Key(f) \in DOMAIN cache
    BY <2>1 DEF CacheSound, OrInsert, With
  <2>2. CASE Key(f) \notin DOMAIN cache
    <3>1. Key(f) = Key(e)
      BY <2>2 DEF OrInsert, With
    <3>2. Poly[f] = Poly[e]
      BY <3>1, DigestAssumption DEF Key
    <3> QED BY <3>1, <3>2, <2>2 DEF OrInsert, With
  <2> QED BY <2>1, <2>2
<1>4. OutSound'
  BY DEF OutSound, Source
<1>5. ColumnsCached'
  BY DEF ColumnsCached, Key, TypeOK, OrInsert, With
<1> QED BY <1>1, <1>2, <1>3, <1>4, <1>5

\* The payload a finished node puts out is the one it would compute alone.
LEMMA FinishOutput ==
  ASSUME Inv, NEW n \in Node, Finish(n)
  PROVE  /\ Source(n) # "panic"
         /\ out' = With(out, n, IF n \in Detached THEN None
                                ELSE Committed(n, Source(n)))
<1> USE DEF Finish, Inv
<1>1. CASE Source(n) = "detached"
  BY <1>1, EntryAssumption DEF Source
<1>2. CASE Source(n) = "oracle"
  BY <1>2 DEF Source, Oracle, Committed
<1>3. CASE Source(n) = "commit"
  <2>1. n \notin Detached
    BY <1>3 DEF Source
  <2>2. \A e \in Columns(n) : com[e] = PcsCommit(Poly[e])
    BY <1>3 DEF ColumnsSound, Columns
  <2>3. Table(n) = Committed(n, Source(n))
    BY <1>3, <2>2 DEF Table, Committed
  <2> QED BY <1>3, <2>1, <2>3
<1> QED BY <1>1, <1>2, <1>3

LEMMA FinishInv == ASSUME Inv, NEW n \in Node, Finish(n) PROVE Inv'
<1>1. \A m \in Node : Source(m)' = Source(m)
  BY DEF Finish, Source
<1>2. TypeOK' /\ CacheSound' /\ ColumnsSound' /\ ColumnsCached'
  BY FinishOutput DEF Finish, Inv, TypeOK, CacheSound, ColumnsSound,
                      ColumnsCached, With, Key
<1>3. OutSound'
  <2> SUFFICES ASSUME NEW m \in DOMAIN out'
               PROVE  /\ Source(m)' # "panic"
                      /\ out'[m] = IF m \in Detached THEN None
                                   ELSE Committed(m, Source(m)')
    BY DEF OutSound
  <2>1. m = n \/ m \in DOMAIN out
    BY FinishOutput DEF With
  <2>2. Source(m)' = Source(m)
    BY <1>1, <2>1 DEF Inv, TypeOK
  <2>3. CASE m = n
    BY <2>2, <2>3, FinishOutput DEF With
  <2>4. CASE m # n
    BY <2>1, <2>2, <2>4, FinishOutput DEF With, Inv, OutSound
  <2> QED BY <2>3, <2>4
<1> QED BY <1>2, <1>3 DEF Inv

LEMMA StepInv == Inv /\ [Next]_vars => Inv'
<1> SUFFICES ASSUME Inv, [Next]_vars PROVE Inv'
  OBVIOUS
<1>1. ASSUME NEW e \in Entry, Lookup(e) \/ Insert(e) PROVE Inv'
  BY <1>1, LookupInv, InsertInv
<1>2. ASSUME NEW n \in Node, Finish(n) PROVE Inv'
  BY <1>2, FinishInv
<1>3. ASSUME UNCHANGED <<config, at, com, cache, out>>,
             status' \in {"running", "done", "panic"}
      PROVE  Inv'
  BY <1>3 DEF Inv, TypeOK, CacheSound, ColumnsSound, ColumnsCached,
              OutSound, Source, Key
<1>4. ASSUME NEW n \in Node, Panic(n) PROVE Inv'
  BY <1>3, <1>4 DEF Panic
<1>5. CASE Return
  BY <1>3, <1>5 DEF Return
<1>6. CASE UNCHANGED vars
  BY <1>3, <1>6 DEF vars, Inv, TypeOK
<1> QED BY <1>1, <1>2, <1>4, <1>5, <1>6 DEF Next

LEMMA Invariance == Spec => []Inv
  BY InitInv, StepInv, PTL DEF Spec

\* TypeOK holds of every reachable state of the pass.
THEOREM TypeCorrect == Spec => []TypeOK
<1>1. Inv => TypeOK
  BY DEF Inv
<1> QED BY <1>1, Invariance, PTL

\* No interleaving of look-ups and inserts makes the cache answer with the
\* commitment of another polynomial.
THEOREM CacheNeverForeign == Spec => []CacheSound
<1>1. Inv => CacheSound
  BY DEF Inv
<1> QED BY <1>1, Invariance, PTL

\* A repeated MSM needs two overlapping misses.
THEOREM RepeatOnlyOnOverlap == Spec => MsmOnlyOnOverlap
<1> DEFINE NoRepeat ==
      \A e \in Entry : at[e] = "todo" /\ at'[e] = "msm" =>
        \A f \in Entry : at[f] = "done" => Poly[f] # Poly[e]
<1>1. Inv /\ [Next]_vars => [NoRepeat]_vars
  <2> SUFFICES ASSUME Inv, Next,
                      NEW e \in Entry, at[e] = "todo", at'[e] = "msm",
                      NEW f \in Entry, at[f] = "done"
               PROVE  Poly[f] # Poly[e]
    OBVIOUS
  <2>1. PICK g \in Entry : Lookup(g) \/ Insert(g)
    BY DEF Next, Finish, Panic, Return
  <2>2. Lookup(e) /\ Key(e) \notin DOMAIN cache
    BY <2>1 DEF Lookup, Insert, Inv, TypeOK
  <2>3. Key(f) \in DOMAIN cache
    BY DEF Inv, ColumnsCached
  <2> QED BY <2>2, <2>3 DEF Key
<1> QED BY <1>1, Invariance, PTL DEF Spec, MsmOnlyOnOverlap

-----------------------------------------------------------------------------
(* The refinement.                                                         *)

LEMMA InitRefines == Init => Pass!Start
  BY DEF Init, Pass!Start

LEMMA StepRefines ==
  ASSUME Inv, [Next]_vars PROVE [Pass!Next]_(Pass!passVars)
<1> DEFINE Stays == UNCHANGED [n \in Node |-> Source(n)]
<1>0. ASSUME UNCHANGED config PROVE Stays
  BY <1>0 DEF Source
<1>1. ASSUME NEW e \in Entry, Lookup(e) \/ Insert(e)
      PROVE  UNCHANGED Pass!passVars
  BY <1>0, <1>1 DEF Lookup, Insert, Pass!passVars
<1>2. ASSUME NEW n \in Node, Finish(n) PROVE Pass!NodeDone(n)
  <2>1. Stays /\ UNCHANGED status /\ n \notin DOMAIN out
    BY <1>0, <1>2 DEF Finish
  <2>2. n \notin Pass!Panics
    BY <1>2, FinishOutput DEF Pass!Panics, NoOracle
  <2>3. Pass!Output(n) = IF n \in Detached THEN None ELSE Committed(n, Source(n))
    BY DEF Pass!Output
  <2> QED BY <1>2, <2>1, <2>2, <2>3, FinishOutput DEF Pass!NodeDone, With
<1>3. ASSUME NEW n \in Node, Panic(n) PROVE Pass!NodePanic
  <2>1. Stays
    BY <1>0, <1>3 DEF Panic
  <2>2. n \in Pass!Panics
    BY <1>3 DEF Panic, Pass!Panics, NoOracle, Source
  <2>3. n \notin DOMAIN out
    BY <1>3 DEF Panic, Inv, OutSound
  <2> QED BY <1>3, <2>1, <2>2, <2>3 DEF Panic, Pass!NodePanic
<1>4. CASE Return
  <2>1. Stays
    BY <1>0, <1>4 DEF Return
  <2>2. status = "running" /\ DOMAIN out = Node /\ status' = "done"
        /\ UNCHANGED out
    BY <1>4 DEF Return
  <2> QED BY <2>1, <2>2 DEF Pass!Return, Pass!Next
<1>5. CASE UNCHANGED vars
  BY <1>0, <1>5 DEF vars, Pass!passVars
<1> QED BY <1>1, <1>2, <1>3, <1>4, <1>5 DEF Next, Pass!Next

\* The cached, interleaved commitment pass implements the parallel pass whose
\* payloads are functions of their own node.
THEOREM Refinement == Spec => ImplementsPass
  BY InitRefines, Invariance, StepRefines, PTL DEF Spec, ImplementsPass, Pass!Spec

-----------------------------------------------------------------------------
(* Plan hints.  For the rule list of production,                           *)
(* data_dependent_lp_optimizer::rules(), and for every plan and every row  *)
(* count: collected hints apply, and both sides arrive at the same plan.   *)

Production == RuleLists \subseteq { <<"rematerialize">>, <<>> }

\* The inductive invariant.  While collecting, the hints are what the rule
\* finds on the plan; from then on both sides' plans are Apply(hints).
RematHints ==
  { [hint |-> "Rematerialize", path |-> p] : p \in FirstHits(RematHits) }
FromRules ==
  /\ rules \in { <<"rematerialize">>, <<>> }
  /\ hints \subseteq RematHints
  /\ <<>> \in Paths /\ kind[<<>>] = "ResultCheck"
Replayed ==
  /\ phase \in {"collect", "prove", "sent", "verified"}
  /\ phase \in {"prove", "sent", "verified"} => proverPlan = Apply(hints)
  /\ phase = "collect" => proverPlan = Failed
  /\ phase = "sent" => Decode(payload) = hints
  /\ phase = "verified" => verifierPlan = Apply(hints)
  /\ phase # "verified" => verifierPlan = Failed
HintInv == FromRules /\ Replayed

\* Hints of the rematerialize rule truncate nothing and always apply: each
\* names a supported operator of the plan.
LEMMA RematApply ==
  ASSUME FromRules
  PROVE  /\ Apply(hints).ok
         /\ Apply(hints).wrapped \subseteq FirstHits(RematHits)
<1> DEFINE cut == PathsOf(hints, "Truncate")
           remat == PathsOf(hints, "Rematerialize")
<1>1. cut = {}
  BY DEF FromRules, RematHints, PathsOf
<1>2. remat \subseteq FirstHits(RematHits)
  BY DEF FromRules, RematHints, PathsOf
<1>3. Truncated(cut) = [p \in Paths |-> kind[p]]
  BY <1>1 DEF Truncated, Kept
<1>4. RematApplies(Truncated(cut), remat)
  BY <1>2, <1>3 DEF RematApplies, FirstHits, RematHits, RematHit, Collects, Supports
<1>5. Apply(hints) =
        [ok |-> TRUE, kind |-> Truncated(cut), wrapped |-> Wrapped(remat)]
  BY <1>1, <1>4 DEF Apply
<1> QED BY <1>2, <1>5 DEF Wrapped

LEMMA DecodeEncode == \A h : Decode(Encode(h)) = h
  BY DEF Decode, Encode

LEMMA HintInitInv == ASSUME Production, HintInit PROVE HintInv
<1>1. PICK pl \in Plans : kind = pl.kind /\ rows = pl.rows
  BY DEF HintInit
<1>2. <<>> \in Paths /\ kind[<<>>] = "ResultCheck"
  BY <1>1, PlansAssumption DEF Paths
<1> QED BY <1>2 DEF HintInit, HintInv, FromRules, Replayed, Production

\* Rules and hints only change while collecting, by the rule at the head.
LEMMA FromRulesStep == ASSUME FromRules, [HintNext]_hintVars PROVE FromRules'
<1>1. CASE Collect
  <2>1. rules = <<"rematerialize">>
    BY <1>1 DEF Collect, FromRules
  <2>2. rules' = <<>> /\ hints' = hints \cup RematHints
    BY <1>1, <2>1 DEF Collect, HintsOf, RematHints, TargetPath
  <2>3. RematHints' = RematHints /\ UNCHANGED <<kind, rows>>
    BY <1>1 DEF Collect, RematHints, FirstHits, RematHits, RematHit, Shrinks, Paths,
                UnderResultCheck, IsResultCheck
  <2> QED BY <2>2, <2>3 DEF FromRules, Paths
<1>2. ASSUME UNCHANGED <<kind, rows, rules, hints>> PROVE FromRules'
  BY <1>2 DEF FromRules, RematHints, FirstHits, RematHits, RematHit, Shrinks, Paths,
              UnderResultCheck, IsResultCheck
<1>3. CASE HintNext /\ ~Collect
  BY <1>2, <1>3 DEF HintNext, ProverApply, Assemble, VerifierApply
<1> QED BY <1>1, <1>2, <1>3 DEF hintVars

LEMMA SameApply == ASSUME UNCHANGED kind PROVE \A h : Apply(h)' = Apply(h)
  BY DEF Apply, Truncated, Kept, Paths, TruncateApplies, RematApplies, Wrapped,
         UnderResultCheck, IsResultCheck

LEMMA ReplayedStep == ASSUME HintInv, [HintNext]_hintVars PROVE Replayed'
<1> USE DEF HintInv
<1>1. CASE Collect
  BY <1>1 DEF Collect, Replayed
<1>2. CASE ProverApply
  <2>1. Apply(hints).ok
    BY RematApply
  <2>2. Apply(hints)' = Apply(hints)
    BY <1>2, SameApply DEF ProverApply
  <2> QED BY <1>2, <2>1, <2>2 DEF ProverApply, Replayed
<1>3. CASE Assemble
  BY <1>3, SameApply, DecodeEncode DEF Assemble, Replayed
<1>4. CASE VerifierApply
  BY <1>4, SameApply, RematApply DEF VerifierApply, Replayed
<1>5. CASE UNCHANGED hintVars
  BY <1>5, SameApply DEF hintVars, Replayed
<1> QED BY <1>1, <1>2, <1>3, <1>4, <1>5 DEF HintNext

LEMMA HintInvariance == ASSUME Production PROVE HintSpec => []HintInv
<1>1. HintInit => HintInv
  BY HintInitInv
<1>2. HintInv /\ [HintNext]_hintVars => HintInv'
  BY FromRulesStep, ReplayedStep DEF HintInv
<1> QED BY <1>1, <1>2, PTL DEF HintSpec

\* With the production rules no hint is ever left unapplied, on either side.
THEOREM HintsAlwaysApply ==
  ASSUME Production PROVE HintSpec => [](HintsApply /\ phase # "failed")
<1>1. HintInv => HintsApply /\ phase # "failed"
  BY DEF HintInv, Replayed, HintsApply
<1> QED BY <1>1, HintInvariance, PTL

\* Prover and verifier end up with the same plan.
THEOREM PlansAgree == ASSUME Production PROVE HintSpec => []SamePlan
<1>1. HintInv => SamePlan
  BY DEF HintInv, Replayed, SamePlan
<1> QED BY <1>1, HintInvariance, PTL

\* What is wrapped was found by the walk.
LEMMA WrappedAreHits == HintInv => proverPlan.wrapped \subseteq FirstHits(RematHits)
  BY RematApply DEF HintInv, Replayed, Failed

\* The query's own output is never rematerialized.
THEOREM OutputNotWrapped == ASSUME Production PROVE HintSpec => []ResultNotWrapped
<1>1. HintInv => ResultNotWrapped
  BY WrappedAreHits DEF HintInv, FromRules, ResultNotWrapped, FirstHits, RematHits, RematHit,
                        Collects, UnderResultCheck, IsResultCheck
<1> QED BY <1>1, HintInvariance, PTL

\* The walk stops at its first hit, so wraps never nest.
THEOREM WrapsNeverNest == ASSUME Production PROVE HintSpec => []OneWrapPerBranch
<1>1. HintInv => OneWrapPerBranch
  BY WrappedAreHits DEF FirstHits, OneWrapPerBranch
<1> QED BY <1>1, HintInvariance, PTL

\* Both together.
THEOREM WrapsStayInPlace == ASSUME Production PROVE HintSpec => []WrapsInPlace
<1>1. ResultNotWrapped /\ OneWrapPerBranch => WrapsInPlace
  BY DEF WrapsInPlace
<1> QED BY <1>1, OutputNotWrapped, WrapsNeverNest, PTL
=============================================================================
