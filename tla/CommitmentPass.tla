--------------------------- MODULE CommitmentPass ---------------------------
(***************************************************************************)
(* The commitment pass: rayon workers turn arithmetized tables into table  *)
(* oracles.  Nodes run in parallel, the tables of a gadget one after the   *)
(* other, the columns of a table in parallel again.  All workers share one *)
(* cache from the digest of a polynomial to its commitment; the lock is    *)
(* taken for the look-up and again for the insert, never across the MSM    *)
(* between them, so any two columns may be anywhere in their own steps.    *)
(*                                                                         *)
(* No bound on the workers: PCS::commit runs rayon tasks itself, and a     *)
(* worker that waits for them steals other columns.                        *)
(***************************************************************************)
EXTENDS Naturals, Sequences

CONSTANTS
  Node,         \* the arena's nodes
  Detached,     \* arena nodes without a payload entry
  None,         \* "no payload"
  Scan,         \* the TableScan nodes that have an arithmetized table
  OracleComs(_),\* the commitments of a scan's oracle file
  Entry,        \* the arithmetized columns of all nodes
  Owner,        \* Owner[e]: the node of column e
  TableNo,      \* TableNo[e]: which of its owner's tables e is in
  Name,         \* Name[e]: the field name of column e
  Poly,         \* Poly[e]: the evaluations of column e
  PcsCommit(_), \* PCS::commit, a function of the evaluations
  MleDigest(_)  \* mle_digest, the 32-byte digest of the evaluations

ASSUME EntryAssumption ==
  /\ Owner \in [Entry -> Node \ Detached]
  /\ TableNo \in [Entry -> Nat]
  /\ Scan \subseteq Node \ Detached
\* BLAKE3 does not collide on the polynomials of the query.
ASSUME DigestAssumption ==
  \A e, f \in Entry : MleDigest(Poly[e]) = MleDigest(Poly[f]) => Poly[e] = Poly[f]

VARIABLES
  ctx,     \* ctx[n]: the ctx oracle of scan n "fits", is on another domain
           \* ("mismatch") or is "missing"
  allow,   \* allow_table_scan_commit_without_ctx, set for the data owner only
  at,      \* at[e]: "todo", "msm" (missed, computing) or "done"
  com,     \* com[e]: the commitment of a column that is done
  cache,   \* the shared cache
  out,     \* out[n]: the payload of each node transformed so far
  status   \* "running", "done" or "panic"
config == <<ctx, allow>>
vars == <<config, at, com, cache, out, status>>

With(f, x, v) == [y \in DOMAIN f \cup {x} |-> IF y = x THEN v ELSE f[y]]
Columns(n) == { e \in Entry : Owner[e] = n }

\* What becomes of a node's payload: nothing, its oracle file, a panic, or
\* commitments made here.
Source(n) ==
  IF n \in Detached THEN "detached"
  ELSE IF n \notin Scan THEN "commit"
  ELSE IF ctx[n] = "fits" THEN "oracle"
  ELSE IF ctx[n] = "missing" /\ allow THEN "commit"
  ELSE "panic"

Init ==
  /\ ctx \in [Scan -> {"fits", "mismatch", "missing"}] /\ allow \in BOOLEAN
  /\ at = [e \in Entry |-> "todo"]
  /\ com = [e \in {} |-> None]
  /\ cache = [d \in {} |-> None]
  /\ out = [n \in {} |-> None]
  /\ status = "running"

-----------------------------------------------------------------------------
\* The cache key of a column.
KeyByName(e) == Name[e]
Key(e) == MleDigest(Poly[e])

\* A column's turn: the earlier tables of its owner are finished.
ReadyAfterOwnTable(e) ==
  \A f \in Columns(Owner[e]) : TableNo[f] <= TableNo[e] => at[f] = "done"
Ready(e) ==
  \A f \in Columns(Owner[e]) : TableNo[f] < TableNo[e] => at[f] = "done"

\* The short look-up: a hit ends the column, a miss starts its MSM.
Lookup(e) ==
  /\ at[e] = "todo" /\ Source(Owner[e]) = "commit" /\ Ready(e)
  /\ IF Key(e) \in DOMAIN cache
     THEN /\ at' = [at EXCEPT ![e] = "done"]
          /\ com' = With(com, e, cache[Key(e)])
     ELSE at' = [at EXCEPT ![e] = "msm"] /\ UNCHANGED com
  /\ UNCHANGED <<config, cache, out, status>>

\* After the MSM: entry(digest).or_insert, which keeps what a racing worker
\* inserted meanwhile; the column itself returns its own commitment.
InsertNothing(c, k, v) == c
OrInsert(c, k, v) == IF k \in DOMAIN c THEN c ELSE With(c, k, v)
Insert(e) ==
  /\ at[e] = "msm"
  /\ at' = [at EXCEPT ![e] = "done"]
  /\ com' = With(com, e, PcsCommit(Poly[e]))
  /\ cache' = OrInsert(cache, Key(e), PcsCommit(Poly[e]))
  /\ UNCHANGED <<config, out, status>>

\* The table oracles of a node; a node whose columns are none has no payload.
Table(n) ==
  IF Columns(n) = {} THEN None
  ELSE [external |-> FALSE, coms |-> [e \in Columns(n) |-> com[e]]]
OracleAsOwn(n) == [external |-> FALSE, coms |-> OracleComs(n)]
Oracle(n) == [external |-> TRUE, coms |-> OracleComs(n)]

Finish(n) ==
  /\ n \notin DOMAIN out
  /\ \/ Source(n) = "detached" /\ out' = With(out, n, None)
     \/ Source(n) = "oracle" /\ out' = With(out, n, Oracle(n))
     \/ /\ Source(n) = "commit" /\ \A e \in Columns(n) : at[e] = "done"
        /\ out' = With(out, n, Table(n))
  /\ UNCHANGED <<config, at, com, cache, status>>

\* The two panics of transform: oracle on another domain, or none at all.
Panic(n) ==
  /\ Source(n) = "panic" /\ status = "running"
  /\ status' = "panic"
  /\ UNCHANGED <<config, at, com, cache, out>>

Return ==
  /\ status = "running" /\ DOMAIN out = Node
  /\ status' = "done"
  /\ UNCHANGED <<config, at, com, cache, out>>

Next ==
  \/ \E e \in Entry : Lookup(e) \/ Insert(e)
  \/ \E n \in Node : Finish(n) \/ Panic(n)
  \/ Return

\* rayon runs every task it was given: each column and node makes progress.
Fairness ==
  /\ \A e \in Entry : WF_vars(Lookup(e) \/ Insert(e))
  /\ \A n \in Node : WF_vars(Finish(n) \/ Panic(n))
  /\ WF_vars(Return)
Spec == Init /\ [][Next]_vars
FairSpec == Spec /\ Fairness

-----------------------------------------------------------------------------
(* Properties.                                                             *)

\* The state's shape: a commitment exists exactly for the finished columns.
TypeOK ==
  /\ at \in [Entry -> {"todo", "msm", "done"}]
  /\ DOMAIN com = { e \in Entry : at[e] = "done" }
  /\ DOMAIN cache \subseteq { MleDigest(Poly[e]) : e \in Entry }
  /\ DOMAIN out \subseteq Node
  /\ status \in {"running", "done", "panic"}

\* Whoever inserted it first, a cache entry is the commitment of every column
\* that would hit it: racing inserts and look-ups of other nodes' columns never
\* bind a column to another polynomial.
CacheSound ==
  \A e \in Entry : Key(e) \in DOMAIN cache => cache[Key(e)] = PcsCommit(Poly[e])

\* An MSM is repeated only when two misses overlapped: no column starts one
\* after a column with the same polynomial has finished.
MsmOnlyOnOverlap ==
  [][ \A e \in Entry : at[e] = "todo" /\ at'[e] = "msm" =>
        \A f \in Entry : at[f] = "done" => Poly[f] # Poly[e] ]_vars

\* The pass comes to an end: no column waits for one that waits for it.
Terminates == <>(status # "running")

\* What each node's payload should be, without cache, workers or order.
Committed(n, source) ==
  IF source = "oracle" THEN [external |-> TRUE, coms |-> OracleComs(n)]
  ELSE IF Columns(n) = {} THEN None
  ELSE [external |-> FALSE,
        coms |-> [e \in Columns(n) |-> PcsCommit(Poly[e])]]
NoOracle(n, source) == source = "panic"
Pass == INSTANCE ParallelPass WITH Transform <- Committed, Fails <- NoOracle,
                                   input <- [n \in Node |-> Source(n)]

\* The pass with its shared cache implements the parallel pass in which each
\* node commits to its own columns, or takes its oracle's, on its own.
ImplementsPass == Pass!Spec
=============================================================================
