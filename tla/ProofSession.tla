---------------------------- MODULE ProofSession ----------------------------
(***************************************************************************)
(* One proof session of truth-table: the data owner commits base tables,   *)
(* the prover runs the IR passes of TTProver::ir_passes over the arena and *)
(* builds a proof, the verifier replays the same arena against that proof. *)
(*                                                                         *)
(* The two sides never exchange a table of ids.  Each keeps a counter of   *)
(* tracker ids and both must advance it in the same order, column by       *)
(* column, gadget by gadget: the proof is a map from ids to commitments    *)
(* and the verifier takes "the next id" (track_next_mv_com).  This module  *)
(* models every step that commits or takes a commitment, and every early   *)
(* return, error and panic on the way.  The virtual polynomials of the     *)
(* virtualization and gadget initialization passes carry no commitment and *)
(* are left out.                                                           *)
(*                                                                         *)
(* Abstracted: a polynomial is the column it encodes together with the     *)
(* version of the base table it was read from, a commitment is the         *)
(* polynomial it binds to, and a gadget is the number of polynomials it    *)
(* commits to while proving.                                               *)
(***************************************************************************)
EXTENDS Integers, Sequences, FiniteSets

CONSTANTS
  Node,        \* the IR nodes
  Arena,       \* their post-order sequence, as the tree's arena iterates
  Kind,        \* Kind[n]: "TableScan", "Plan" or "Gadget"
  Column,      \* all hint columns of all nodes
  Cols,        \* Cols[n]: the hint columns of n, in payload order
  Table,       \* the hint tables (one per plan node, one per gadget key)
  TableOf,     \* TableOf[c]: the hint table of column c
  BaseTable,   \* the base tables of the database
  BaseOf,      \* BaseOf[n]: the base table a TableScan node reads
  GadgetComs,  \* GadgetComs[n]: commitments gadget n makes while it proves
  ResultCols,  \* columns of the result table the ResultCheck root binds
  ResultGadget,\* the ResultCheck gadget under the root
  MatChoices,  \* the materialization flags the planning passes may set
  MaxRows,     \* bound: rows of a hint table
  MaxLog,      \* log of the largest domain the commitment key supports
  MaxVersion,  \* bound: updates of a base table
  MaxVerify    \* bound: verifications of one proof

\* The columns of one node's payload.
ColSet(n) == { Cols[n][i] : i \in DOMAIN Cols[n] }

ASSUME ArenaAssumption ==
  /\ Arena \in Seq(Node)
  /\ \A i, j \in DOMAIN Arena : Arena[i] = Arena[j] => i = j
  /\ \A n \in Node : \E i \in DOMAIN Arena : Arena[i] = n
  /\ Kind \in [Node -> {"TableScan", "Plan", "Gadget"}]
  /\ ResultGadget \in Node /\ Kind[ResultGadget] = "Gadget"
ASSUME ColumnAssumption ==
  /\ IsFiniteSet(Column)
  /\ Cols \in [Node -> Seq(Column)]
  /\ \A n \in Node : \A i, j \in DOMAIN Cols[n] :
        Cols[n][i] = Cols[n][j] => i = j
  /\ \A m, n \in Node : m # n => ColSet(m) \cap ColSet(n) = {}
  /\ \A c \in Column : \E n \in Node : c \in ColSet(n)
  /\ TableOf \in [Column -> Table]
  /\ BaseOf \in [Node -> BaseTable]
ASSUME CountAssumption ==
  /\ GadgetComs \in [Node -> Nat]
  /\ ResultCols \in Nat
  /\ MaxRows \in Nat /\ MaxVersion \in Nat /\ MaxVerify \in Nat
  /\ MatChoices \subseteq SUBSET Column
\* Every table fits the commitment key: its padded size, two rows at the
\* least, is in the domain.
ASSUME SizeAssumption ==
  /\ MaxLog \in Nat \ {0} /\ 2 \in { 2^k : k \in 0..MaxLog }
  /\ \A r \in 1..MaxRows : \E k \in 0..MaxLog : r <= 2^k /\ 2^k < 2 * r

VARIABLES
  \* the database and the data owner
  version,     \* version[b]: the current content of base table b
  baseRows,    \* baseRows[b]: its row count
  oracle,      \* oracle[b]: the committed oracle file of b, or NoOracle
  \* the gadget-planned hints, equal on both sides, and what they execute to
  mat,         \* the columns whose should_materialize flag is set
  rows,        \* rows[t]: rows the DataFrame of hint table t collects
  faulty,      \* gadgets whose relation does not hold for the data
  \* the prover
  pphase,      \* the pass the prover is in
  read,        \* read[b]: the version of base table b the prover executed on
  mtab,        \* mtab[c]: padded rows of the materialized table holding c
  arith,       \* the columns that have an arithmetized polynomial
  com,         \* com[c]: commitment the commitment pass recorded
  pidx,        \* nodes the running sequential pass has visited
  pnext,       \* the prover tracker's next id
  pids,        \* pids[c]: id the prover tracked column c under
  pgids,       \* pgids[n]: the first id gadget n committed under
  perr,        \* an error is stored in the proving pass
  proofComs,   \* the proof's map from ids to emitted commitments
  \* the verifier
  vphase, vidx, vnext, vids, verr,
  vgids,       \* vgids[n]: the first id gadget n consumed
  vbad,        \* a claim the final SNARK check will refute was recorded
  vresult,     \* the result table handed to verify()
  verdicts     \* [result, oracle, accept] of the finished verifications

dbVars == <<version, baseRows, oracle>>
hintVars == <<mat, rows, faulty>>
proverVars == <<pphase, read, mtab, arith, com, pidx, pnext, pids, pgids, perr,
                proofComs>>
verifierVars == <<vphase, vidx, vnext, vids, verr, vgids, vbad, vresult,
                  verdicts>>
vars == <<dbVars, hintVars, proverVars, verifierVars>>

-----------------------------------------------------------------------------
(* Row counts and sizes.                                                   *)

Pow2 == { 2^k : k \in 0..MaxLog }
NextPow2(r) == CHOOSE p \in Pow2 : r <= p /\ p < 2 * r
Log2(p) == CHOOSE k \in 0..MaxLog : 2^k <= p /\ p < 2^(k + 1)

\* Rows after pad_batches_to_power_of_two.  An empty table still gets two
\* inactive rows, so it is arithmetized, committed and tracked.
PadRows(r) == IF r = 0 THEN 2 ELSE NextPow2(r)

NoOracle == [log |-> -1, version |-> -1]
Result == {"proved", "other"}

\* Each hint column belongs to one node, each hint table to one node.
NodeOf(c) == CHOOSE n \in Node : c \in ColSet(n)
IsScan(n) == Kind[n] = "TableScan"
IsGadget(n) == Kind[n] = "Gadget"

\* The rows the DataFrame behind column c collects.
RowsOf(c) == IF IsScan(NodeOf(c)) THEN baseRows[BaseOf[NodeOf(c)]]
             ELSE rows[TableOf[c]]

\* The prover's polynomial of a column: what it encodes, from which version.
Poly(c) == <<c, IF IsScan(NodeOf(c)) THEN read[BaseOf[NodeOf(c)]] ELSE 0>>
GadgetPoly(n, j) == <<n, j>>

\* The position of c among the columns S of one node, in payload order.
Index(n, c) == CHOOSE i \in DOMAIN Cols[n] : Cols[n][i] = c
Rank(n, S, c) == Cardinality({ d \in S : Index(n, d) < Index(n, c) })

Merge(f, g) == [x \in DOMAIN f \cup DOMAIN g |->
                  IF x \in DOMAIN g THEN g[x] ELSE f[x]]
Empty == [x \in {} |-> 0]

Init ==
  /\ version = [b \in BaseTable |-> 0]
  /\ baseRows \in [BaseTable -> 0..MaxRows]
  /\ oracle = [b \in BaseTable |-> NoOracle]
  /\ mat \in MatChoices
  /\ rows \in [Table -> 0..MaxRows]
  /\ faulty \in SUBSET { n \in Node : IsGadget(n) }
  /\ pphase = "idle" /\ read = version /\ mtab = Empty /\ arith = {} /\ com = Empty
  /\ pidx = 0 /\ pnext = 0 /\ pids = Empty /\ pgids = Empty /\ perr = FALSE
  /\ proofComs = Empty
  /\ vphase = "idle" /\ vidx = 0 /\ vnext = 0 /\ vids = Empty /\ verr = FALSE
  /\ vgids = Empty /\ vbad = FALSE /\ vresult = "proved" /\ verdicts = <<>>

-----------------------------------------------------------------------------
(* The data owner: base tables change and are committed again, before the  *)
(* query is proved and between the proof and each of its verifications.    *)

BetweenRoles == pphase \in {"idle", "proved"} /\ vphase = "idle"

UpdateTable(b) ==
  /\ BetweenRoles /\ version[b] < MaxVersion
  /\ version' = [version EXCEPT ![b] = @ + 1]
  /\ \E r \in 0..MaxRows : baseRows' = [baseRows EXCEPT ![b] = r]
  /\ UNCHANGED <<oracle, hintVars, proverVars, verifierVars>>

\* TTDataOwner::commit runs the prover's own passes over the table, so the
\* oracle has the padded size and the current content.
CommitTable(b) ==
  /\ BetweenRoles
  /\ oracle' = [oracle EXCEPT ![b] =
                  [log |-> Log2(PadRows(baseRows[b])), version |-> version[b]]]
  /\ UNCHANGED <<version, baseRows, hintVars, proverVars, verifierVars>>

-----------------------------------------------------------------------------
(* The prover.  Passes over the whole IR are one step each: their          *)
(* transforms read only their own node's payload.                          *)

\* materialize_hint_df: no flagged column, no table; otherwise padded rows.
Materialize ==
  /\ pphase = "idle"
  /\ pphase' = "arithmetize" /\ read' = version
  /\ mtab' = [c \in mat |-> PadRows(RowsOf(c))]
  /\ UNCHANGED <<dbVars, hintVars, arith, com, pidx, pnext, pids, pgids, perr,
                 proofComs, verifierVars>>

\* Tables without rows give no polynomial, a table of padding does; the row
\* count must be a power of two, the pass asserts it.
HasActiveRows(c) == RowsOf(c) # 0
HasRows(c) == mtab[c] # 0
Arithmetize ==
  /\ pphase = "arithmetize"
  /\ arith' = { c \in DOMAIN mtab : HasRows(c) }
  /\ pphase' = IF \A c \in arith' : mtab[c] \in Pow2 THEN "commit" ELSE "panic"
  /\ UNCHANGED <<dbVars, hintVars, read, mtab, com, pidx, pnext, pids, pgids, perr,
                 proofComs, verifierVars>>

\* The oracle of a scan column is usable: present, and on the same domain.
OracleFits(c) ==
  LET o == oracle[BaseOf[NodeOf(c)]]
  IN  o # NoOracle /\ o.log = Log2(mtab[c])

\* CommitmentPass::transform: a TableScan takes its commitments from the
\* oracle or panics, everything else is committed to now.
CommitColumn(c) ==
  IF IsScan(NodeOf(c))
  THEN [poly |-> <<c, oracle[BaseOf[NodeOf(c)]].version>>, external |-> TRUE]
  ELSE [poly |-> Poly(c), external |-> FALSE]
Commit ==
  /\ pphase = "commit"
  /\ IF \A c \in arith : IsScan(NodeOf(c)) => OracleFits(c)
     THEN /\ com' = [c \in arith |-> CommitColumn(c)]
          /\ pphase' = "track"
     ELSE pphase' = "panic" /\ com' = com
  /\ UNCHANGED <<dbVars, hintVars, read, mtab, arith, pidx, pnext, pids, pgids, perr,
                 proofComs, verifierVars>>

\* Prover TrackingPass::transform at the next arena node: every polynomial of
\* its payload gets the next id, in payload order; only the commitments made
\* for this proof go into the proof.
TrackedCols(n) == ColSet(n) \cap DOMAIN com
EmittedCols(n) == { c \in TrackedCols(n) : ~com[c].external }
Track ==
  /\ pphase = "track" /\ pidx < Len(Arena)
  /\ LET n == Arena[pidx + 1]
         S == TrackedCols(n)
         id == [c \in S |-> pnext + Rank(n, S, c)]
     IN  /\ pids' = Merge(pids, id)
         /\ proofComs' = Merge(proofComs,
              [i \in { id[c] : c \in EmittedCols(n) } |->
                 com[CHOOSE c \in S : id[c] = i].poly])
         /\ pnext' = pnext + Cardinality(S)
  /\ pidx' = pidx + 1
  /\ UNCHANGED <<dbVars, hintVars, pphase, read, mtab, arith, com, pgids, perr,
                 verifierVars>>

\* Prover TrackingPass::finish tracks the result table's polynomials without
\* committing to them.
FinishSkip == pnext
FinishNext == pnext + ResultCols
Finish ==
  /\ pphase = "track" /\ pidx = Len(Arena)
  /\ pphase' = "prove" /\ pidx' = 0
  /\ pnext' = FinishNext
  /\ UNCHANGED <<dbVars, hintVars, read, mtab, arith, com, pids, pgids, perr,
                 proofComs, verifierVars>>

\* ProvingPass::transform: plan nodes are skipped, and so is every node after
\* the first error.  A gadget over data that violates its relation may fail
\* here, or emit a proof that cannot verify.
ProveSkipsPlans(n) == ~IsGadget(n)
ProveSkips(n) == perr \/ ~IsGadget(n)
Prove ==
  /\ pphase = "prove" /\ pidx < Len(Arena)
  /\ pidx' = pidx + 1
  /\ LET n == Arena[pidx + 1] IN
       \/ /\ ProveSkips(n)
          /\ UNCHANGED <<pnext, pgids, perr, proofComs>>
       \/ /\ ~ProveSkips(n) /\ n \in faulty
          /\ perr' = TRUE
          /\ UNCHANGED <<pnext, pgids, proofComs>>
       \/ /\ ~ProveSkips(n)
          /\ pgids' = Merge(pgids, [m \in {n} |-> pnext])
          /\ proofComs' = Merge(proofComs,
               [i \in pnext .. (pnext + GadgetComs[n] - 1) |->
                  GadgetPoly(n, i - pnext)])
          /\ pnext' = pnext + GadgetComs[n]
          /\ UNCHANGED perr
  /\ UNCHANGED <<dbVars, hintVars, pphase, read, mtab, arith, com, pids,
                 verifierVars>>

\* ProvingPass::take_result, then build_proof only without an error.
Build ==
  /\ pphase = "prove" /\ pidx = Len(Arena)
  /\ pphase' = IF perr THEN "error" ELSE "proved"
  /\ UNCHANGED <<dbVars, hintVars, read, mtab, arith, com, pidx, pnext, pids, pgids,
                 perr, proofComs, verifierVars>>

-----------------------------------------------------------------------------
(* The verifier: verify_with_gadget_planned_ir over the same arena.        *)

\* ArgVerifier::fork: every verification starts from the same fresh state.
ForkShared == [next |-> vnext, ids |-> vids, gids |-> vgids]
Fork == [next |-> 0, ids |-> Empty, gids |-> Empty]

StartVerify(r) ==
  /\ pphase = "proved" /\ vphase = "idle" /\ Len(verdicts) < MaxVerify
  /\ vphase' = "track" /\ vresult' = r
  /\ vidx' = 0 /\ verr' = FALSE /\ vbad' = FALSE
  /\ vnext' = Fork.next /\ vids' = Fork.ids /\ vgids' = Fork.gids
  /\ UNCHANGED <<dbVars, hintVars, proverVars, verdicts>>

\* The verifier takes n's columns from the oracle file of its base table.
FromOracleAnyNode(n) == oracle[BaseOf[n]] # NoOracle
FromOracle(n) == IsScan(n) /\ oracle[BaseOf[n]] # NoOracle

\* Verifier TrackingPass::transform: flagged columns get the next id; a scan's
\* commitments come from the oracle, all others from the proof under that id,
\* and a missing id is a panic.
MatCols(n) == ColSet(n) \cap mat
VTrack ==
  /\ vphase = "track" /\ vidx < Len(Arena)
  /\ LET n == Arena[vidx + 1]
         S == MatCols(n)
         id == [c \in S |-> vnext + Rank(n, S, c)]
     IN  IF FromOracle(n) \/ \A c \in S : id[c] \in DOMAIN proofComs
         THEN /\ vids' = Merge(vids, [c \in S |->
                   [id |-> id[c],
                    poly |-> IF FromOracle(n)
                             THEN <<c, oracle[BaseOf[n]].version>>
                             ELSE proofComs[id[c]]]])
              /\ vnext' = vnext + Cardinality(S)
              /\ vidx' = vidx + 1
              /\ UNCHANGED vphase
         ELSE vphase' = "panic" /\ UNCHANGED <<vids, vnext, vidx>>
  /\ UNCHANGED <<dbVars, hintVars, proverVars, verr, vgids, vbad, vresult,
                 verdicts>>

\* Verifier TrackingPass::finish tracks the received result as base oracles.
VFinishSkip == vnext
VFinishNext == vnext + ResultCols
VFinish ==
  /\ vphase = "track" /\ vidx = Len(Arena)
  /\ vphase' = "verify" /\ vidx' = 0
  /\ vnext' = VFinishNext
  /\ UNCHANGED <<dbVars, hintVars, proverVars, vids, verr, vgids, vbad,
                 vresult, verdicts>>

\* The statement gadget n claims is false: its data violates its relation, or
\* it compares the proved rows with another result table.
Refuted(n) == n \in faulty \/ (n = ResultGadget /\ vresult # "proved")

\* VerifyPass::transform, with the commitments the gadget's verify() takes by
\* track_next_mv_com.  A false claim is an error now or is left to the final
\* SNARK check.
VerifySkips(n) == verr \/ ~IsGadget(n)
Verify ==
  /\ vphase = "verify" /\ vidx < Len(Arena)
  /\ vidx' = vidx + 1
  /\ LET n == Arena[vidx + 1]
         ids == vnext .. (vnext + GadgetComs[n] - 1)
     IN  \/ /\ VerifySkips(n)
            /\ UNCHANGED <<vnext, vgids, verr, vbad>>
         \/ /\ ~VerifySkips(n)
            /\ Refuted(n) \/ ~(ids \subseteq DOMAIN proofComs)
            /\ verr' = TRUE
            /\ UNCHANGED <<vnext, vgids, vbad>>
         \/ /\ ~VerifySkips(n) /\ ids \subseteq DOMAIN proofComs
            /\ vgids' = Merge(vgids, [m \in {n} |-> vnext])
            /\ vnext' = vnext + GadgetComs[n]
            /\ vbad' = (vbad \/ Refuted(n))
            /\ UNCHANGED verr
  /\ UNCHANGED <<dbVars, hintVars, proverVars, vphase, vids, vresult, verdicts>>

\* The final SNARK check: every commitment opens to the polynomial the prover
\* tracked under the same id, and every gadget's claims hold.
Opens ==
  /\ \A c \in DOMAIN vids :
        c \in DOMAIN pids /\ pids[c] = vids[c].id /\ vids[c].poly = Poly(c)
  /\ \A n \in DOMAIN vgids : n \in DOMAIN pgids /\ vgids[n] = pgids[n]
AcceptsIgnoringErrors == ~vbad /\ Opens
Accepts == ~verr /\ ~vbad /\ Opens
Conclude ==
  /\ vphase = "verify" /\ vidx = Len(Arena)
  /\ vphase' = "idle"
  /\ verdicts' = Append(verdicts,
       [result |-> vresult, oracle |-> oracle, accept |-> Accepts])
  /\ UNCHANGED <<dbVars, hintVars, proverVars, vidx, vnext, vids, verr, vgids,
                 vbad, vresult>>

ProverStep == Materialize \/ Arithmetize \/ Commit \/ Track \/ Finish \/ Prove
              \/ Build
VerifierStep == VTrack \/ VFinish \/ Verify \/ Conclude
Next ==
  \/ \E b \in BaseTable : UpdateTable(b) \/ CommitTable(b)
  \/ ProverStep
  \/ \E r \in Result : StartVerify(r)
  \/ VerifierStep

\* Both roles run their passes to the end once started: no pass waits for
\* anything but the processor.
Fairness == WF_vars(Arithmetize \/ Commit \/ Track \/ Finish \/ Prove \/ Build)
            /\ WF_vars(VerifierStep)
Spec == Init /\ [][Next]_vars
FairSpec == Spec /\ Fairness

-----------------------------------------------------------------------------
(* Properties.                                                             *)

\* The verifier's ids are the prover's: a column, or a gadget's first own
\* commitment, has the same tracker id on both sides, whatever columns are
\* materialized and however many of them come from oracle files.
TrackersInStep ==
  /\ \A c \in DOMAIN vids : c \in DOMAIN pids /\ pids[c] = vids[c].id
  /\ \A n \in DOMAIN vgids : n \in DOMAIN pgids /\ pgids[n] = vgids[n]

\* When the verify pass ends without error, it has consumed every commitment
\* of the proof exactly once: nothing the prover emitted is left unread.
EverythingConsumed ==
  vphase = "verify" /\ vidx = Len(Arena) /\ ~verr =>
    DOMAIN proofComs =
      { vids[c].id : c \in { d \in DOMAIN vids : ~FromOracle(NodeOf(d)) } }
      \cup UNION { vgids[n] .. (vgids[n] + GadgetComs[n] - 1) :
                     n \in DOMAIN vgids }

\* The oracles o hold the tables the prover read.
FreshScans(o) == \A n \in Node : IsScan(n) /\ MatCols(n) # {} =>
                   o[BaseOf[n]].version = read[BaseOf[n]]
\* An accepted verification saw the result that was proved, over data that
\* satisfies every gadget, read from the tables the verifier's oracle files
\* commit to: neither an oracle that was stale when the prover used it nor one
\* committed anew since leads to acceptance of rows it does not hold.
AcceptMeansProved ==
  \A i \in DOMAIN verdicts : verdicts[i].accept =>
    verdicts[i].result = "proved" /\ faulty = {}
      /\ FreshScans(verdicts[i].oracle)

\* Only an oracle file that is missing, or committed on another domain, stops
\* either side short: no row count makes the prover panic, and no verification of
\* a finished proof asks for an id the proof lacks (the "verifier should track
\* prover commitment by id" panic), whichever tables were empty.
PanicOnlyOnOracle ==
  /\ vphase # "panic"
  /\ pphase = "panic" => \E c \in mat : IsScan(NodeOf(c)) /\ ~OracleFits(c)

\* Verifying a proof again with the same result and oracle files, after
\* whatever verification came before, gives the same verdict: fork() leaves
\* nothing behind.
SameVerdict ==
  \A i, j \in DOMAIN verdicts :
    verdicts[i].result = verdicts[j].result
      /\ verdicts[i].oracle = verdicts[j].oracle =>
      verdicts[i].accept = verdicts[j].accept

\* After a gadget fails, neither side commits or consumes anything further.
StopAtFirstError ==
  [][ /\ perr => UNCHANGED <<pnext, proofComs, pgids>>
      /\ verr /\ verr' => UNCHANGED <<vnext, vgids, vbad>> ]_vars

\* An honest proof is accepted: with sound data, fresh oracles and the result
\* that was proved, a started verification ends in acceptance.
HonestAccepted ==
  (vphase = "track" /\ vresult = "proved" /\ faulty = {}
     /\ FreshScans(oracle))
    ~> (vphase = "idle" /\ verdicts # <<>> /\ verdicts[Len(verdicts)].accept)
=============================================================================
