# A verification development of truth-table

truth-table answers SQL queries with a proof.  A *data owner* commits to base
tables, a *prover* runs a query and proves its result, a *verifier* who holds
only the commitments checks the proof.  The cryptography (polynomial
commitments, sumcheck, the tracker that numbers polynomials) is the library
`ark_piop`, outside this repository; what the repository itself has to get right
is the orchestration: two parties that never talk while they work must build the
same plan, the same tree of nodes, and the same numbering of polynomials, and
every failure on the way must end in an error and never in a wrong verdict.

Paths below are relative to `src/crates/`.

## 1. Inventory

| component | where | state | operations |
|---|---|---|---|
| Data owner | `tt-front-end/src/data_owner.rs` | oracle files | `commit` |
| Prover | `tt-front-end/src/prover.rs` | `ArgProver` (tracker, emitted commitments) | `prove` = execute, LP passes, IR passes, `assemble_proof` |
| Verifier | `tt-front-end/src/verifier.rs` | `ArgVerifier`, forked per verification | `verify` = LP passes, IR passes, tracking, verify pass, SNARK check |
| Proof artefact | `tt-front-end/src/structs.rs` | - | serialize / deserialize with a framed hint slot |
| IR and pass drivers | `tt-core/src/irs/{ir,tree}.rs` | arena (node id -> node, post-order), one payload per node | sequential and parallel pass application |
| Passes | `tt-core/src/{prover,verifier}/passes/` | payloads; `RefCell` around the tracker; a shared commitment cache | output planning, gadget planning, materialization, arithmetization, commitment, tracking, virtualization, gadget initialization, (honest prover), proving / verify |
| Oracle look-up | `tt-core/src/ctx_oracles.rs` | oracles by schema and by name | look-up in three stages |
| Plan nodes and expressions | `tt-core/src/irs/nodes/plan/` | hint tables, virtual tables | output hints, virtual tables, gadget plans |
| Gadgets | `tt-core/src/irs/nodes/utils/`, `.../gadget/` | - | `prove`, `verify`, honest check |
| Column toolbox | `tt-col-toolbox/` | - | lookup, keyed sumcheck, fold, defragmentation |
| Plan rules | `tt-proof-planner/` | - | analyzer, structural optimizer, data-dependent hints, proof-plan optimizer |
| Encodings | `tt-arithmetic/` | - | Arrow columns to field elements |
| Command line, data generation | `tt-exec/`, `tt-tpch-data/` | files | I/O only |

How they interact:

* The prover's pipeline and the verifier's pipeline share code up to gadget
  planning and then diverge.  Nothing but the proof (a map from tracker ids to
  commitments, evaluation proofs, plan hints), the result table and the oracle
  files passes between them.
* Passes communicate by payloads attached to nodes.  The tracking, proving and
  verify passes also share one tracker, so their order over the arena *is* the
  protocol.
* Materialization, arithmetization and commitment run their nodes in parallel
  on rayon workers; the commitment pass has a cache shared between them.
* Plan hints depend on data only the prover has.

What is hard to test here, each with its line, is the `hazards` list of
`PROJECT.json`.  In short: ids drifting apart; tables without rows; oracles that
are stale, missing or of another size; a failing gadget in the middle of a pass;
verifying twice; workers racing on the cache; hints that one side collects and
another cannot apply; signs, widths and encodings at the extremes of a type;
NULL, which DataFusion tells from zero and the proof does not; the order of rows,
which every hint table of a node has to share; key declarations that say less
than the planner takes them to say.

What makes each component correct:

* *session*: a column or gadget has the same id on both sides; what comes from
  an oracle file is not emitted, everything else is, and all of it is consumed;
  only the proved result over sound data and fresh oracles is accepted, and such
  a result *is* accepted; verifications do not influence each other.
* *commitment pass*: no schedule of the workers changes what a node gets.
* *plan hints*: both sides end with the same plan, never with an error.
* *gadget planning*: prover and verifier, planning in separately written
  branches, give every gadget column the same materialize flag.
* *plan nodes*: the active rows of a node's virtual table are the rows of its
  relational operator, and what the node's gadgets claim of its hint tables is
  true of every query they can express.
* *expressions*: a column is the encoding of what SQL computes, on both sides.
* *structural rules*: both sides end with one plan, made of what the proof has
  nodes for, that returns the query's rows.
* *gadgets*: the claims of a gadget hold exactly when its relation does, and the
  honest prover's check refuses nothing the gadget could prove.

## 2. Modules

| module | what it is | its state and the code |
|---|---|---|
| `ProofSession` | data owner, prover and verifier around one query | see below |
| `MCProofSession` | a scan, a projection, a gadget with two hint columns, the ResultCheck gadget and the root | |
| `ProofSession_proofs` | the trackers stay in step; what a verdict is worth and which one a verification ends with, nothing is left unread, only an oracle file stops the verifier | |
| `ParallelPass` | what `Ir::apply_local_pass_parallel` promises, as an abstract specification | `out` = the payload map being collected |
| `CommitmentPass` | the commitment pass with workers and cache; implements `ParallelPass` | `at`, `com` = where each column's worker is; `cache` = `commitment_cache`; `ctx`, `allow` = what `transform` finds in its context |
| `MCCommitmentPass` | four nodes, six columns, three of them the same polynomial | |
| `SessionParts_proofs` | type, cache and refinement theorems of the commitment pass; plan hints apply and plans agree, for every plan (the names of `PlanHints` that both modules need begin with `Hint` there) | |
| `PlanHints` | collecting, applying, encoding and replaying plan hints | `kind`, `rows` = the structurally optimized plan and its row counts; `hints`; `payload` = the hint slot of `TTProof`; the two resulting plans |
| `MCPlanHints` | all chains of three operators, joins of two filtered scans | |
| `LpRules` | the structural optimizer on both sides, rule by rule and pass by pass | `plan`, `rule`, `pass`, `seen` = the running optimizer's; `final` = what each side ended with |
| `MCLpRules` | chains over a scan, joins of two scans with operators above and below | |
| `Selections` | the members of a list that are in a set | none |
| `ChainPlans` | plans of unary operators over one scan, and the rows they return: the reference | |
| `VirtualTables` | the tables behind filter, limit, sort and rematerialize on both sides | `hint` = the nodes' hint tables; `tracked`, `oracle` = the prover's and the verifier's virtual tables; `misc` = the proof's miscellaneous fields |
| `MCVirtualTables` | plans of up to four operators over up to four rows | |
| `VirtualTables_proofs` | for every plan and scan: both sides' tables are the hint tables, their claims are true, their rows are the query's result | |
| `SignCheck` | the sign gadget as operators: encoding, chunks, claims, honest check | none |
| `Comparison` | one comparison of a query with its gadgets, on both sides | `expr` = the comparison and its columns; `tables`, `vtables` = the gadgets' payloads; `coms` = the chunk columns in the proof; `claims`, `vclaims` = what each side claims |
| `MCComparison` | the extreme values of every type, scaled down | |
| `Comparison_proofs` | the claims of a comparison are enough; the verifier mirrors the prover; right comparisons are provable; the honest check refuses wrong ones only | |
| `SortHints` | hint tables as frames of rows: sorting, row ids, padding, encoding, ties, and differences made either way the code has | none |
| `SortHints_proofs` | lemmas: sorting and padding keep rows and make them rise, codes of values that fit tell them apart, lists, their concatenation and what is kept of one, the sign gadget over the rows of a table, the multiplicities of a lookup | |
| `SortCheck` | the Sort node, NoDup and the contig_sort gadget under both, on both sides | `frames` = the hint tables; `coms` = the committed columns in the order they are tracked; `count` = what `misc` carries; `tabs`, `vtabs` = payloads; `claims`, `vclaims` |
| `MCSortCheck` | one to three keys over rows that rise by rank | |
| `SortCheck_proofs` | the verifier mirrors the prover, what is shown is the output, a repeated row is rejected, an order that can be expressed is proved | |
| `TableClaims` | lookup, keyed sumcheck and NoDup as relations on views of a table | none |
| `JoinCheck` | the join: its mode, its output whole or partial, its match-pair gadget | `mode`; `frames`, `coms`, `misc` = the proof's; `tabs`, `vtabs`, `claims`, `vclaims` |
| `MCJoinCheck` | undeclared and declared keys, one or two key columns | |
| `JoinCheck_proofs` | what stops a join, the verifier mirrors the prover, the output is the join, a join that can be expressed is proved | |
| `AggregateCheck` | the aggregate: its output beside its input, supp, SUM, MIN, MAX | `aggs` = after AVG is rewritten; `output`, `coms`, `tabs`, `vtabs`, `claims`, `vclaims` |
| `MCAggregateCheck` | no key, one key, two keys | |
| `AggregateCheck_proofs` | the verifier mirrors the prover, the result has one row of each group, an aggregate that can be expressed is proved | |
| `ExprTables` | tables of expressions, projections and filters on both sides | `tables`, `output` = tracked tables; `vtables`, `voutput` = the verifier's, of terms over `coms`; `pos`, `vpos` = the walk |
| `MCExprTables` | some 8,000 queries over the ten kinds of expression | |

### ProofSession

One state machine with three roles.  `pphase` is the pass the prover is in.
Passes whose transforms read only their own node (`Materialize`, `Arithmetize`,
`Commit`) are one step over the whole arena, and the interleaving inside the
commitment pass is the subject of `CommitmentPass`; passes that move the tracker
(`Track`, `Prove`, `VTrack`, `Verify`) are one step per arena node, with the
`finish` calls between them as steps of their own.  `pnext` and `vnext` are the
trackers' next ids, `proofComs` the map the proof carries, `vids` and `vgids`
what the verifier took.  The base tables change, and are committed anew, at any
time between the roles' runs, so an oracle may be missing, stale or of another
size when the prover meets it, and another one when the verifier does.

A gadget whose relation the data violates (`faulty`) either makes `prove` return
an error or emits claims that cannot be verified; both continue.

Kept abstract: a polynomial is a column and the version of the base table it was
read from; a commitment *is* the polynomial (binding); a gadget is the number of
polynomials it commits to while proving, equal on both sides.  Not in the model:
virtual polynomials, columns whose encoding has several segments, a second query
on one `TTProver`.

### CommitmentPass and ParallelPass

`Lookup` and `Insert` are the two critical sections of `arith_to_oracle`; the
MSM lies between them.  A gadget's tables are done one after the other (`Ready`),
everything else in any order.  Workers are unbounded: rayon steals work, so a
blocked worker never keeps another column from running.  `ImplementsPass` says
that the pass, with `cache`, `at` and `com` hidden, is a `ParallelPass` whose
transform commits to each column of a node separately.

### PlanHints

Plans are functions from child-index paths to operator kinds, the same paths as
`target_path`.  A walk that returns at its first hit finds the hits that have no
hit above them (`FirstHits`).  Applying truncate hints cuts the tree and then
rematerialize hints wrap what remains, with the three ways of failing that the
code has: a path nobody reached, an operator that cannot be wrapped, and a Join
that cannot be rebuilt.

### LpRules

Each rule of `rules()` is an action, and the optimizer's loop is `NextPass` and
`Optimized`.  The rules of this repository rewrite bottom up (`TransformUp`):
`normalize_scan`, `merge_limits`, `normalize_sort`, `merge_filters` and
`lift_join_filter` say what becomes of one operator over its rewritten input.
DataFusion's two push-downs walk top down, carrying a limit or a predicate.  They
are external, and are in the model because the repository's rules undo what they
do: a limit tells the scan and the Sort below it how many rows are needed, filters
go into the scans of the prover's parquet tables and stay above those of the
verifier's schema-only tables, and whatever goes in comes out again, in every pass.
`Executed` runs a plan with the activator filter that
`filter_inactive_rows_for_execution` puts on top of each scan.

Kept abstract: a plan is a chain over a scan or over a join of two chains; a
predicate is the sequence of its conjuncts; aliases and projections, past which
push-downs move freely, are left out, and with them `OptimizeProjections`; limits
that can return no row are `EliminateLimit`'s and do not occur.

### VirtualTables and ChainPlans

A proof drops no rows; it switches them off.  A table is its rows and an
activator.  Three passes over the plan, inputs first, each one action per
operator: planning (`Plan..`) computes the hint table as the DataFrames of
`hints.rs` and `output.rs` do; proving (`Prove..`) computes the activator from
other polynomials as `add_virtual_witness` does (a contiguous mask for a limit,
the bare predicate column for a filter, a prefix for a rematerialization) and
leaves numbers in the miscellaneous fields; verifying (`Verify..`) repeats that
on oracles with the numbers it finds there.  `ChainPlans!Result` is what the
query returns on the active rows, the reference for `ResultProved`.

A filter carries `masked`: whether its predicate's column is false on inactive
rows, which comparisons are and IN lists are not.  `HintsAgree`, `ClaimsHold`
and `ResultProved` are about plans whose filters are masked, and `Mirrors` and
`ClaimsHold` about plans in which limits with the same bounds are adjacent; what
happens otherwise is under *Divergences found*.

Kept abstract: a column is the identity of its row; a predicate is the set of
rows it holds for; a sort key is injective (ties are the engine's business).  A
limit with a skip is planned and then stops the pass, as `assert_no_skip` panics.

### SignCheck and Comparison

A materialized comparison (`>=`, `<=`, `>`, `<`, `=`, `<>`) is proved by a small
tree of gadgets: `bool` shows that the output is 0 or 1 on active rows; two sign
gadgets, or eq and neq, take the output and its complement as activators; the
strict sign has a neq gadget of its own; the comparison itself shows that no
inactive row is marked.  `InitRoot` and `InitStrict` are the two
`initialize_gadgets` that move payloads down, in pre-order; `HonestPass` is the
honest-prover pass; `Prove` and `Verify` are one gadget each, in the arena's
post-order, the verifier taking its chunk columns from the proof by position.

A value is a field element, a signed one through `F::from(i128)`, a decimal
through its two's-complement bytes.  A sign is looked up directly (one and two
bytes) or through chunks of two bytes that are shown to make up the value.

Kept abstract: `Byte` stands for 2^8, so that all widths scale together; a claim
is the column it is about and holds or not (sumcheck and lookup arguments are the
library's); folding with random challenges keeps pairs apart (`NonZero`).  The
claims of both sides are one operator: the two are written separately in the code
and were compared line by line, and what the model checks is that they are made
from the same tables and commitments.  A comparison of constants, whose claim is
decided at once, does not occur, since the output is a committed column.  NULL
(encoded as zero), text, types of different widths and decimal scales are left
out.

### SortHints and SortCheck

A row is a function of columns, of which 0 is the activator and -1 the row id; a
frame is a hint table before it is encoded.  `Plan` is what the node and its
gadgets plan: for Sort the output (whose row ids are stripped, or materialization
would put it back into the input's order) and the sorted keys, for NoDup the rows
sorted and numbered anew, and for contig_sort the rotated table, the ties of each
prefix of the keys and the differences.  `Commit` orders, pads and encodes
them; `Check` is the honest prover's check, only where the feature is on; `Prove`
claims.  The verifier (`VTrack`, `VClaim`) has schemas and commitments only, takes
each column by its position, and evaluates the shift of the prescribed permutation
bit by bit.

Differences are made in two ways (`contig_sort/hints.rs:295-451`).  If every key is
a signed integer or a Date32 (or a float, which is not modelled) the code subtracts
itself: a NULL on either side makes a NULL, and a difference that does not fit is a
panic in a build that checks arithmetic (`PlanPanics`) and wraps in another (`Plan`);
both are steps of the model, since nothing in the repository settles it.  One key of
another type (`ByWindows`), and DataFusion's windows make the differences of all
keys: they wrap, and the first row's key stands for a NULL of the next row
(`NextKeys`), in whatever row.  Types that are no numbers (`SignOnly`: Boolean,
Date64 and Timestamp, as integers) have the sign of the comparison for a
difference, an Int64, and zero where there is a NULL.

Kept abstract: a permutation claim is equality of bags, which its multiset check
proves; signs and products are `SignCheck`'s, over the rows of one table.

### TableClaims and JoinCheck

`TableClaims` says what a lookup with multiplicities, a keyed sumcheck and NoDup
claim of views of tables; combining a row with random challenges is taken to keep
rows apart.  A NoDup inside a join or an aggregate is this claim and no more: the
hint tables by which it is shown, and the differences among them that panic, wrap or
meet a NULL, are those of `SortCheck`, whose `Expressible` and `Closed` are
therefore further conditions on `JoinIsProvable` and `AggregateIsProvable`.  `SetJoinMode` decides from the declared keys; `Plan` builds the output
(the joined rows in the order of both row ids, or, with a primary key among the
keys, the foreign key's table with the partner's columns beside it); `GadgetPlan`
executes the join again and builds the pairs of row ids, the sources of each side
and the union of the keys; `Commit`, `Check`, `Prove`, `VTrack` and `VClaim` are as
in `SortCheck`.  The number of matching pairs reaches the verifier in the
miscellaneous fields.  A side is a table, a filtered table, or itself a join.

Left out: columns of one name on both sides, self-joins, keys that are no columns,
joins other than inner and left, the rank of the miscellaneous key, and the
planning cache.  In a partial output with more than one partner the order of rows
with one id is fixed.

### AggregateCheck

The output has as many rows as the input: beside each row its group's aggregates,
and an activator that is set on the group's first row.  `Rewrite` is
`add_avg_support`; `Plan` the output, which fails for groups that are expressions
or ambiguous names (`shape`); `InitGadgets` counts the multiplicities of the lookup.
`Check`, `Prove`, `VTrack` and `VClaim` are about the supp gadget's lookup and
NoDup, the boolean activator, a keyed sumcheck for SUM, a sign
for each of MIN and MAX.  COUNT and AVG are committed and nothing is claimed of
them, so an aggregate of these is only as good as the prover; the comment that
COUNT reuses the multiplicities of supp is not what the code does.

Kept abstract: AVG is the rounded quotient, SUM does not overflow, and the ties of
rows without ids stay in input order.  A global aggregate of no active rows has no
active output row, where SQL has one; `ResultIsGroupBy` is about groups.

### ExprTables

A query is an arena of expression nodes under a projection or a filter.  `Track`
computes and commits the columns that are materialized; `Virtualize` is
`add_virtual_witness` of one node, in post-order, and `VirtualizeRoot` the
projection's or filter's, with where each kind takes its
column, its activator and its row ids from; `VTrack`, `VVirtualize` and `VVirtualizeRoot` are the
verifier's own code for the same, which builds terms over commitments.  `Claim` and
`VClaim` are the filter's claims.  `Sql` is the reference: three-valued logic, with
errors.  Nothing is claimed of Cast, InList, InSubquery, CASE, BETWEEN, functions
and division: the code has no gadget for them, and the model has none.

Left out: the cache of bindings, correlated subqueries, and text.  Fields are
compared by relation and name.

## 3. Runs

| run | question | instance |
|---|---|---|
| `proof_session` | Do ids, commitments and verdicts fit together for every materialization, row count, fault, oracle and result? | 5 nodes, 5 columns, row counts 0..3, 2 versions of one base table, 2 verifications; 677,568 states |
| `commitment_pass` | Does any schedule change an output, or stop the pass? | 4 nodes, 6 columns; 3,083 states |
| `plan_hints` | Do hints apply, and give one plan, for production and for the other rule lists? | all chains of 3 operators and joins, rows 0..4, five rule lists; 54,544 states |
| `lp_rules` | Do both sides' optimizers end with one plan, in normal form, with the query's rows? | chains of up to 4 operators, joins with up to 2 above and 1 below; two tables with inactive rows; 157,479 states |
| `virtual_tables` | Do planning, prover and verifier switch the same rows on, and are they the query's rows? | all chains of up to 3 operators out of 13, chains of 4 with a rematerialization; 4 scans; 121,000 states |
| `virtual_tables_limit` | violation: two limits with the same bounds | limits and filters |
| `comparison` | Do the claims of a comparison hold exactly when its output is right, and does the honest check agree? | 6 operators, 10 types, their extreme values, right and wrong outputs; one row; 148,932 states |
| `sort_check` | Can every sorted table be proved, does the verifier derive the same claims, is a repeated row refuted? | Sort and NoDup, 1 to 3 Int16 keys, UInt16 and Timestamp keys alone and beside an Int16, up to 3 rows, zeros and NULLs among them; 106,675 states |
| `join_check` | Can every equi-join be proved, and is the output the join? | inner, left and filtered joins of up to 2 rows a side; keys undeclared or declared in five ways over tables, filters and joins; 98,165 states |
| `aggregate_check` | Can every aggregate be proved, and does the output hold each group once? | 0 to 2 keys, up to 3 rows; 55,960 states |
| `aggregate_order` | violation: the output beside an input without row ids | rows of a Sort |
| `expr_tables` | Do tables hold what SQL computes, on both sides, and when does the prover end early? | some 8,000 queries; 94,114 states |

Why the bounds are enough.  Row counts 0..3 cover no rows, one row, an exact
power of two and one that needs padding; two versions and one base table give
stale, fresh and re-committed oracles; two verifications show what the first
leaves behind; the column choices include all, none, only scan columns, only
gadget columns and mixtures, so that ids on both sides of an oracle column occur.
Six columns with three equal polynomials in two nodes and two tables of one
gadget allow every overlap of look-up and insert.  Rows 0..4 contain the
boundaries of the strict power-of-two comparison; chains of three operators let
hits nest, and joins give paths that differ in more than length.  Tables of no
rows, three rows (which are padded), four rows and four rows with an inactive
one, and fetches of none, 0, 1 and 2 put a limit's cut before, at and behind the
last active row, with inactive rows on either side once a filter or a sort lies
below it; three operators suffice to bring something between two limits.

Bytes of one bit (`Byte = 2`) make a chunk two bits wide, an Int32 -8..7 and a
decimal 16 bits, over a prime field of 262,139, more than four 64-bit (8-bit)
words and, as in the code, wider than 128-bit (16-bit) differences.  The values
are zero, its neighbours and the two extremes of each type with theirs, so every
difference at the edge of a width occurs; outputs are the computed one and all
others over 0, 1 and 2.  The claims are row-wise, so one row, which is active,
inactive or without an activator, reaches each of them; `Sound` is about any
number of rows.

The structural rules change an operator and its neighbour, and DataFusion's carry
one limit or one predicate, so chains of four contain a limit or a filter above, in
and below each other, twice over; the inactive rows are the first of one table and
the last of the other, so that a misplaced fetch counts one; a left row has no
partner, one and two, and one conjunct holds where the partner is missing.  Some
joins use all of the three passes.

The sorts have Int16 keys (-2..1), UInt16 keys (0..3) and Timestamp keys (-100 and
100, whose difference an Int64 of one-bit bytes does not hold), with NULL and with two values whose
difference overflows where it can; an Int16 beside a UInt16, or behind a Timestamp, has
its differences made by windows, and a NULL after a value that is greater than the first
row's, equal to it, and less; three rows give a tie between two others,
four padded rows and a rotation over the padding; three keys (of two rows) are the
least in which a prefix of ties has a prefix.  Every direction and NULLS FIRST or
LAST, and active and inactive rows, are enumerated; properties about provability
are about `Expressible` inputs, and what is not expressible is under *Divergences
found*.  In the joins two rows a side give no partner, one, two and four pairs, with
NULL meeting NULL and zero (both are encoded 0); the declarations are one to many,
many to one, one to one with and without a composite key, and a composite key; rows
arrive in the order of their ids and reversed, which is what a second execution may
change.  The aggregates have keys 0, 1, NULL and arguments -2, 0, 1, NULL; ids that
rise and fall with the keys; three rows make a group of two beside another.
Expressions are over the values -2..1 and NULL: a single row of every pair of
values, pairs and triples (padded to four) of few, activators on and off, row ids
that are absent, hidden or tracked, and reversed arrival.  A predicate that is a
Boolean column occurs only in tables that need no padding.

Deadlock checking is off in `proof_session`, `commitment_pass`, `plan_hints`,
`virtual_tables` and `virtual_tables_limit`, where every run of the system ends;
in the other runs stopping is a disjunct of `Next` (`Stopped`, `Stop`) whose guard
is that both sides are at an end, and deadlock is checked: the verifier never waits
for a commitment the proof does not have.

Fairness.  `ProofSession!Fairness` is weak fairness of the prover's steps and of
the verifier's: once started, a role runs its passes to the end on one thread
and waits for nobody.  Starting (`Materialize`, `StartVerify`) and the data
owner's steps are not fair.  `CommitmentPass!Fairness` is weak fairness per
column and node: rayon runs every task it was given.

Each property of the passing runs has a mutant in `PROJECT.json`: a definition of
the model changed the way a plausible bug would change the code, for which the
run fails.

### Divergences found

Shown by a run of their own:

* *Limits share a field* (`virtual_tables_limit`).  The mask length a limit
  leaves for the verifier is named by its skip and fetch.  Of two limits with the
  same bounds and something between them, the verifier reads the later one's
  value for both, and is not the mirror of the prover its comment promises.  No
  nesting of limits is needed in the query: in `LpRules` a LIMIT over a left join
  leaves a limit with the same bounds on the join's left input as well.
* *Aggregates beside another order* (`aggregate_order`).  Over an input without row
  ids, which a Sort leaves, the output is sorted by its groups while the group
  columns stay in the input's order.

Kept as a condition of a property, which says that nothing else goes wrong:

* *Both data-dependent rules together* (`HintsApply`).  The comment of
  `apply_optimization_hints` says rematerialize targets inside truncated subtrees
  are removed; the code reports them as `Unapplied rematerialize hints`.
* *Truncation beside a join* (`HintsApply`).  `apply_truncate_hints` rebuilds nodes
  from `plan.expressions()`, which, as the comment in `rematerialize.rs` explains,
  DataFusion refuses for joins; the fix recorded in `CHANGELOG.md:28` was made in
  one of the two walks.  Both need rule lists that production does not use
  (`rules()` returns the rematerialize rule only); `mod.rs` offers them to callers.
* *The filter's activator* (`Masked` in `VirtualTables`, `Guarded` in `ExprTables`).
  The comment (`lps/filter/mod.rs:89-103`) says input activator AND predicate; the
  code takes the predicate alone.  That is the same for comparisons, whose columns
  are masked, and lets rows in for an IN list or a CAST above a limit or filter.
* *Differences that do not fit* (`ComputedIsProvable`, `SortedIsProvable`,
  `AggregateIsProvable`).  The sign gadget proves `left - right` with the width of
  the columns' type.  2^31-1 >= -1 on Int32 is true, passes the honest prover's
  check, which reads the low 32 bits, and has chunks that do not make up the
  difference.  Of a sort's keys the neighbours' differences are concerned, and where
  the code subtracts itself (`lhs - rhs`, `contig_sort/hints.rs:497` and below) a
  build that checks arithmetic panics while planning, also for the difference of the
  last row to the first, which nobody reads: keys from -2^31 to 2^31-1 cannot be
  sorted there although every two neighbours may be close (`Closed`).
* *A NULL that windows replace* (`Expressible`).  `when(lead IS NULL, first_value)`
  (`contig_sort/hints.rs:323`) means the last row, whose successor is the first, and
  takes every NULL key for it.  In ascending order, NULLs last, [5, 7, NULL] of a type
  that is not the code's own to subtract has the difference 5 - 7 where the rows tie up
  to this key: a signed key (an Int16 beside a UInt16) and the sign of a compared one
  are negative and the honest check stops the prover, although the table is sorted.
  The next row's NULL is harmless if the first row's key does not precede, if either
  of the two others is NULL, and for unsigned keys, whose differences wrap and are
  never negative.
* *HasOne without one* (`WholeKey`).  The mode is decided from flags of single
  columns.  Part of a composite key, or a key that a join below repeats, is taken
  for a key, although the comment (`join/hints.rs:200`) speaks of a guarantee: a row
  then has two partners, and the partial output is longer than the foreign key's
  table, which may stop the prover or end as a wrong table.  For keys joined on as a
  whole, `StopsOnlyWhen` says that none of this happens.
* *NULL* (`Expressible`, `HasLookalikes`, `NoNullKeys`, `Exact`).  NULL is encoded as
  zero.  NULL keys do not match in a join and match in its lookups; a NULL key has no
  aggregates; a descending key's NULLs come first in the query and last in contig_sort; the
  difference of a NULL and anything is NULL (but see the item above), which in the last
  key of a strict order is taken for no increase;
  and NoDup, whose honest check compares encodings (`nodup/bezout.rs:235-258`), refuses
  a NULL row and a zero row for one row, wherever the two are in the table.  This last
  one was found by an attempt at a proof: neighbours that look alike were excluded,
  and rows farther apart were not.
* *Expressions without an activator* (`PanicOnlyOnBareOrError`).  The projection's
  comment says all expression nodes share one activator; CASE, BETWEEN and functions
  have none, and a projection that takes its activator from one of them panics.

Outside the instances: a negative decimal is encoded as 2^128-|v|, which the sign
gadget does not decode, so the decimals of `comparison` are non-negative; and
documentation promises that a filter is wrapped whenever its output fits a strictly
smaller hypercube, while the code doubles exact powers of two before it compares.

## 4. Theorems

`tlapm` checks them for every value of the constants.

* `InStep` (`Spec => []TrackersInStep`).  Neither side keeps a history, so the
  bare property is not inductive.  The invariant `Inv` states in closed form
  which id belongs to whom: column c of arena node j has the id `IdOf(j, c)`,
  the number of materialized columns before it; gadget j starts at `GadgetId(j)`,
  all columns, the result columns, and the commitments of the gadgets before it.
  `NoneSkipped` carries the fact that the prover drops no flagged column on its
  way from the flags to the tracker, which rests on padding never producing an
  empty table.  `ProverCounts` and `VerifierCounts` tie both counters and all
  recorded ids to the closed forms.  One lemma per action shows that it is kept;
  counting rests on `StartStep` and `SlotsStep`.
* `VerdictsSound`, `ProofConsumed`, `OracleAloneStops` and `FirstErrorStops`
  (second part of `ProofSession_proofs`).  `SInv`, on top of `Inv`, says which ids the proof
  holds at every point of the prover's pass (`Emission`), which of them the verifier
  has taken (`Consumption`), and that an error is seen at once or before the pass
  ends (`Late`).  A verifier that has stored no error has then run every gadget,
  none of them refuted (`NoneRefuted`), and has read every commitment; a scan is
  never among what was committed (`ScansCommitted`), so what stops the verifier
  short of a verdict can only be an oracle file.
* `VerdictDecided` and `ReplayStable` (the same module): a verification
  accepts exactly the proved result, over data without faults, with files of the
  tables the prover read; so two verifications given the same end the same.
  Soundness is not enough for that, nothing else may be refused: `RInv` adds that
  under a column's id the proof carries that column's polynomial (`Carried`), for
  which ids of different columns differ (`IdsApart`) and ids of gadgets lie above
  those of columns (`GadgetsAbove`), and that an error has a refuted gadget behind
  it (`Justified`).
* `TypeCorrect`, `CacheNeverForeign`, `RepeatOnlyOnOverlap` and `Refinement` of
  the commitment pass.  The invariant says of every column where its worker is
  and of every cache entry whose commitment it is; the refinement maps each step
  to one step of `ParallelPass` or to none.
* `HintsAlwaysApply`, `PlansAgree` and `WrapsStayInPlace`, each
  under `Production`: the rule lists are the production one and the empty one.
  There hints never fail to apply; with the other lists `plan_hints` checks that
  they fail only in the two ways `HintsApply` names.

* `PolynomialsAreHints` and `VerifierMirrors` of the virtual tables.  The first
  rests on `MaskIsRowNumber`: an active row lies within the contiguous mask iff
  its rank is within the fetch.  That every number up to the count of active rows
  is a rank (`RankOnto`) follows without induction, because ranks are an injection
  between finite sets of one size.  The invariant adds that hint tables never
  outgrow the scan, so that padding has room, and how each table comes from the
  one below.  The second needs, in addition, that the fields written so far still
  hold what their operators wrote (`FieldsKept`).  A limit that shares its field
  with limits below overwrites it with the same number, because a mask applied
  twice is applied once (`MaskTwice`).
* `HonestClaims` and `ResultIsProved` of the virtual tables, for base tables whose
  rows have ids of their own (`IdentifiedScans`) and sorts whose keys tell rows
  apart and whose fetch has become a limit (`PlainSorts`, which is what
  `normalize_sort_fetch.rs` leaves).  A sort's positions count the rows before a
  row; as a strict total order (`PrecedesOrder`) makes them a bijection
  (`PositionBijects`), sorting moves rows and loses none (`SortKeeps`).  `CInv`
  adds that hint tables keep ids apart and that a limit's sum is what its field
  holds.  For the result, the n-th active row of a table is told by its rank, and
  any list of the active rows that rises and leaves none out is the list by rank
  (`Enumerated`), so each operator's hint table holds what the operator returns
  (`HintReturns`).  The recursion of `Result` is unfolded without induction over
  plans: of two functions that satisfy it, the least place where they differ has
  a place below it where they do not (`ResultIs`, from `Least`).

* `Sound` (`Spec => []AcceptedIsCorrect`), for all types but the decimals, from
  `NoZeroDivisors`.  The pure part goes bottom up: four chunks make a number below
  2^64 (`RecomposeBound`, from `ShiftBound`), so an active value whose range claims
  hold is one (`RangeRow`); encoded differences say which value is larger because
  the field exceeds four 64-bit words (`Difference`, `RowValues`); then the rows of
  each side (`OrderingRow`, `EqualityRow`), and `OutputRight` puts them together
  with the boolean and the inactive-row claims.  The invariant is needed to know
  what the verifier claimed: its tables are those of the comparison whatever the
  prover does, and every gadget behind `vpos` has made its claims over columns of
  the proof, one visit each (`WalkInjective`).  The prover's chunks may be any
  columns: soundness does not rest on what `ChunkColumns` commits.
* `Mirrored`, `NoFalseRejection` and `Complete` of the same component.  The
  verifier finds chunk columns by position.  `MirrorInv` gives the position in
  closed form: a gadget of the walk commits behind what the gadgets before it
  commit (`Offset`), the proof holds there what the prover's gadget put there
  (`CommittedInv`), and the verifier has read as far as it has walked
  (`ReadInv`).  No commitment is left over, and both sides claim the same.  An
  honest output is never refused, whatever its differences: on the rows a sign
  gadget looks at, the difference has the sign asked for.  Where differences fit
  their type the claims hold as well: a value within half a width is read as
  itself (`ReadingValue`), its four limbs make it up (`Limbs`, by uniqueness of
  quotient and remainder), and inactive rows claim zeros.  The decimals are left
  out (`NoDecimals`); a byte's values are as many negative as not (`EvenByte`) and
  unsigned columns hold values of their type (`UnsignedInRange`).

* `TablesMirrored` and `OneRowPerGroup` of the aggregate.  `AggregateInv` describes
  the plan, the prover's table and the verifier's.  The committed fields of the
  output are the schema the verifier expects (`SchemaIsCommitted`), so what it reads
  by position is the prover's table (`TableRead`).  Input and output are sorted by
  row id, which is one and the same permutation `Spot` of both, ids being dense
  (`CommittedRows`).  In a group's rows, numbered by id, the active one of least id
  has number one (`FirstRepresents`) and no other (`OneRepresents`); keys differ
  where their codes do, for values that fit their eight bytes (`CodesDiffer`).
* `OrderMirrored`, `OrderShown` and `RepeatsRejected` of sort and NoDup.  `SortInv`
  says where both sides are in making their tables and claims from the query.  The
  committed fields of each frame are its `Schema` (`FramesCommit`), so the verifier,
  which takes them off one flat list, gets each frame its own columns back
  (`ColumnsRead`); its shift by highest bits is the prover's rotation (`AtLeastOne`,
  `ShiftsAgree`).  Sorting gives the same rows, rising (`SortedRises`); rows that
  rise already stay where they are (`SortedStays`), padding keeps them rising
  (`PaddedRises`); so what is shown is the output (`ActiveStay`).  Two equal rows
  among rows that rise have equal neighbours (`EqualNeighbours`), their place lies
  before the last active row (`ActiveFirst`), and there the strict claim asks a
  pair of zeros to be an increase (`EqualsClaimed`).

* `SortProvable` of sort and NoDup.  What makes an order provable is put as three
  facts about the tables, each shown of those the prover makes of a query it can
  express.  They are *truthful* (`TablesTruthful`): ties are zeros and ones and never
  come back, where two keys tie their codes are equal, where they decide they are not,
  and the difference that counts is in its type's range.  They are *turned*
  (`TablesTurned`): the rotated table has each active row one place before, the
  first row in the last place.  They *match* (`OutputMatched`): the input's active
  rows and the output's are counterparts one by one.  From the first follow ties,
  products and signs, whose chunks make up every difference, masked ones included
  (`HonestSignsHold`, `ClaimsHold`); from the second the prescribed permutation by
  its shift (`ShiftIs`); from the third the permutation (`HonestPermHolds`).  That rows
  without lookalikes have strict neighbours is where `HasLookalikes` enters
  (`NoneRepeated`).  The differences are truthful in both ways of making them: `KeyDiff`
  of a key and the next, or the first row's if that is NULL, is in the range of
  `DiffType` (`GapKind`, `PairFits`, `UnsignedFits`).  That the prover panics
  only over keys that are not `Closed` is a matter of the padding, whose rows are the
  last row again (`PaddingKeys`), so that their differences are zero and the last's
  is that of `Shown` (`ClosedFits`).  The invariant is `SortInv` and that the prover of such a query is
  not at `"error"`.  No key is a decimal (`InputAssumption`); and it is supposed
  (`KeysNarrow`) that a byte has an even number of values, that the type of a difference
  holds the number one, and that `None` is no column.

* `JoinStops`, `JoinMirrored`, `JoinResult` and `JoinProvable` of the join.  `PlanInv` says what has
  been planned at each point and what it stopped for, `TableInv` which tables and
  commitments there are.  A join is a list of lists put one behind the other
  (`Flattened`): as such it has each matching pair of row numbers once, and an outer
  join the rows without a partner (`RunIs`, `RunsJoin`), from which every row of the
  repeated execution has a source (`SourcesExist`).  That a whole key has one partner
  a row is `WholeKeyIsUnique`, and then a partial output is as long as the foreign
  key's table (`OneRowEach`, `SizesAgree`).  For the mirror, nine lists lie one behind
  the other in the proof and are found again by label and column (`ReadBack`): the
  committed fields of every frame are its schema (`FramesFit`).  For the result, the
  order by both ids moves the joined pairs and loses none (`OrderedMoves`); a whole
  output's ids count its rows, so sorting by id leaves them in place (`FullTable`), and
  a partial output and the foreign key's table have the same ids, so both are sorted
  alike (`PartialSpots`).  The active rows of the output and the pairs of the join are
  then counterparts one by one (`Counterparts`), and no value occurs more often in one
  than in the other (`SameTimes`).  That a whole output is proved rests on a count: a
  column that holds at each row the number of members of a set that are sent there
  adds up to the size of the set, while that is smaller than the field
  (`TotalCounts`).  So a lookup holds of its multiplicities (`LookupCounts`), and the
  products of the two sides' multiplicities add up to the number of pairs of equal keys
  (`PairsCount`), which is the number of rows of the join (`PairsAreJoin`) and what its
  activator adds up to (`OutputCounts`).  Both executions of the join end in one order
  (`RunsAgree`), so the ids of the sources are at the rows they belong to and lead to
  rows of the inputs with the same values (`RowsFound`); each key is in the table of
  keys once and is told from the others by its code (`UnionKeysAre`, `KeysListed`).
  `SumInv` adds to the invariant the sum that is sent and what an error means.

* `AggregateProvable` of the aggregate.  It adds to `AggregateInv` what the lookup's
  multiplicities count (`CountPart`), and that the prover of an aggregate the gadgets
  can express is neither at `"panic"` nor at `"error"`.  Of the tables it takes what
  `OneRowPerGroup` shows: an active row of the input has its group's row in the
  output, once (`GroupsClaimed`), so the lookup holds of its multiplicities
  (`LookupCounts`).  For SUM the two sides of the keyed sumcheck add up different
  things: the input's column a code for each row of the group, the output's the one
  code of the group's sum.  They agree because remainders add up (`RemainderAdds`),
  integers do so in any order (`AddsInAnyOrder`), and a column with one code for
  each member of a set and zeros elsewhere adds up to the code of the set's sum
  (`TotalIsSum`); a group without arguments has a NULL, whose code is zero
  (`CodeOfSum`).  For MIN and MAX an extremum exists and is the argument of a row of
  the group (`AggregateExtreme`), so its difference from every active row's argument
  is one of those supposed to fit, the codes of the two are as far apart as they are
  (`CodesApart`), and chunks make it up (`RangeHolds`).  The functions are those the
  planner leaves, of which the extrema are the query's own (`SupportList`).  It is
  supposed (`ArgNarrow`) that the argument is no decimal, that a byte has an even
  number of values, and that `None` is no column.

Assumptions: the arena lists every node once, columns belong to one node
and the ResultCheck gadget is a gadget (`ArenaAssumption`, `ColumnAssumption`);
tables fit the commitment key, which holds two rows or more (`SizeAssumption`); digests of different polynomials differ
(`DigestAssumption`); the root of an optimized plan is a `ResultCheck`
(`PlanHints!PlansAssumption`); scans are tables, plans are made of the four
operators, and there is a power of two for every table size
(`ScansAssumption`, `VirtualTables!PlansAssumption`, `SizesAssumption`); the field
is wider than four 64-bit words (`FieldAssumption`), a missing activator is no
column (`NoneAssumption`) and column values fit 64 bits (`Comparison!InputAssumption`);
an aggregate's rows have dense ids and key and argument values that fit their types,
and are fewer than the field has elements (`QueryAssumption`); a join's rows have dense ids, key pairs, no more than there are columns, are made of its columns,
the field is larger than tables are long and than there are pairs of their rows, and
the declared primary key of a table tells its rows apart (`JoinCheck!QueryAssumption`); a sort's keys are of modelled types, no decimals among them, and its rows integers or
NULL with an activator of zero or one (`SortCheck!InputAssumption`); NULL is no integer, there is a key column, and the
field is wider than four of the encoded words (`SortAssumption`).  TLC evaluates each of them in the runs.

Only model-checked: liveness (`HonestAccepted`, `Terminates`), which the prover's
backends do not reach; decimals in comparisons (not in sort keys and extrema, where they are
neither proved about nor in a run); and everything
about structural rules and expressions, the first of which run plans by folds of the community modules,
whose recursion takes an operator as a parameter, and the second open columns with a
`RECURSIVE` operator.  Two folds are sums, `TableClaims!Total` and the SUM of a group:
`TotalCounts` and `TotalIsSum` prove what the first is, `AddsInAnyOrder` that the second
does not depend on the order, from the definition of the fold at this one operator.  Where a proof needs induction over rows or
plans it takes the least counterexample (`Least`), which is first order.  The ranges of
the state are part of each inductive invariant; `TypeOK` of the commitment pass is
a theorem (`TypeCorrect`) and no property of a run.

## 5. Plan

Done: the session, the commitment pass, structural rules, plan hints, virtual tables, comparisons,
sorts, joins, aggregates and expressions, with the theorems above.  What would add
most next, in order of importance:

1. Theorems: the structural rules, decimals in `Comparison`.  Decimals as sort
   keys, in `SortCheck`, and as arguments of extrema, in a run of `AggregateCheck`.
2. `OptimizeProjections` and the alignment of operands, in `LpRules`.
3. The ResultCheck gadget with the domains it compares, and the rematerialization
   gadget beyond the prefix of `VirtualTables`.
4. The planning caches of joins and match pairs, and the look-up order of oracles.

Not modelled, and why:

* *Pruning of projections, alignment of operands and of aggregate inputs, rules
  inside subqueries*: they change which columns and types a plan has, and a row of
  `LpRules` has neither.
* *The IR codec*: an encoding without state that no pass calls.
* *Command line, benchmark data, vendored Arrow patches*: input and output around
  the roles, and third-party code.
* *ResultCheck's relation* is one bit of `ProofSession` (`Refuted`); its domains, and
  an empty result padded to one row, are not compared.
* *Planning caches and visited sets*: thread-local, opened and closed around one
  pass; the models plan each node once.
* *Oracle look-up*: each scan has its own oracle in `ProofSession`.
* *Text, floats, merged types, decimal scales, segmented columns*: one column of one
  type stands for each.  Of decimals only comparisons are modelled and run.
* *A second query on one `TTProver`*: the models run one.
* *Sumcheck, lookup arguments, commitments*: cryptography; a claim holds or not.

Folds that take an operator and `RECURSIVE` operators stay with TLC.
