---------------------------- MODULE AggregateCheck ----------------------------
(***************************************************************************)
(* An Aggregate node.  Its output has a row for each row of its input, the *)
(* aggregates of the row's group beside it, of which one row per group is  *)
(* active.  The aggregates and the activator are committed; the columns of *)
(* the keys stay the input's.  That each group is there once is claimed by *)
(* a lookup and a NoDup (module SortCheck's; here what it claims), of SUM  *)
(* that each group's totals agree, of MIN and MAX that no value lies       *)
(* beyond them.  COUNT and AVG are committed and nothing is claimed of     *)
(* them.                                                                   *)
(*                                                                         *)
(* Columns 1 and 2 are keys, 3 is the argument, 3 + j the j-th aggregate.  *)
(***************************************************************************)
EXTENDS TableClaims

CONSTANTS
  ArgType,   \* the type of the argument, and of its minimum and maximum
  Queries    \* the aggregates: see QueryAssumption

Arg == 3
Funs == {"sum", "count", "avg", "min", "max"}
\* Integers have at most eight bytes, with a sign or without.
Fits(v) == v = Null \/ (-Over({})!Long <= v /\ v < Over({})!Long)
\* shape: whether the query groups by columns whose names are unique, by an
\* expression, or by a name that two columns of the input have; numbered: rows
\* have ids, which those of a Sort have not.
ASSUME QueryAssumption ==
  /\ ArgType \in Over({})!Type
  /\ \A q \in Queries :
       /\ q.keys \in {<<>>, <<1>>, <<1, 2>>} /\ q.aggs \in Seq(Funs)
       /\ q.shape \in {"columns", "expression", "ambiguous"} /\ q.numbered \in BOOLEAN
       /\ MaxCols >= Arg + 3 * Len(q.aggs)
       \* The field is larger than tables are long.
       /\ q.rows \in Seq([-1..MaxCols -> Int \cup {Null}]) /\ Len(q.rows) < FieldSize
       /\ \A i \in DOMAIN q.rows :
            q.rows[i][Act] \in {0, 1} /\ \A n \in 1..Arg : Fits(q.rows[i][n])
       \* Row ids are dense.
       /\ {q.rows[i][RowId] : i \in DOMAIN q.rows} = 0..(Len(q.rows) - 1)

VARIABLES
  query,                             \* the aggregate
  aggs,                              \* the functions the planner leaves it with
  pc, output, coms, tabs, claims,    \* the prover: the output it plans, the
                                     \* proof's columns, its tables and claims
  vpc, vtabs, vclaims                \* the verifier
pvars == <<pc, output, coms, tabs, claims>>
vvars == <<vpc, vtabs, vclaims>>
vars == <<query, aggs, pvars, vvars>>

Key(row) == [j \in DOMAIN query.keys |-> row[query.keys[j]]]
HasGroups == query.keys # <<>>
AggCol(j) == Arg + j
AggCols == [j \in DOMAIN aggs |-> AggCol(j)]
ActiveRows == {r \in Range(query.rows) : r[Act] = 1}
Group(k) == {r \in ActiveRows : Key(r) = k}

(***************************************************************************)
(* The planner: an AVG is given the SUM and the COUNT it is made of.       *)
(***************************************************************************)
AddAvgSupport(fs) ==
  LET Missing(have, f) == IF f \in Range(have) \cup Range(fs) THEN <<>> ELSE <<f>>
      with(have, f) ==
        LET sum == Append(have, f) \o Missing(Append(have, f), "sum")
        IN  IF f = "avg" THEN sum \o Missing(sum, "count") ELSE Append(have, f)
      done[n \in 0..Len(fs)] == IF n = 0 THEN <<>> ELSE with(done[n - 1], fs[n])
  IN  done[Len(fs)]

(***************************************************************************)
(* The output.                                                             *)
(***************************************************************************)
\* SQL's aggregates of a set of rows pass over NULLs.
Aggregate(f, rows) ==
  LET given == {r \in rows : r[Arg] # Null}
      values == {r[Arg] : r \in given}
      sum == FoldFunctionOnSet(+, 0, [r \in given |-> r[Arg]], given)
      n == Cardinality(given)
  IN  CASE f = "count" -> n
        [] f # "count" /\ given = {} -> Null
        [] f = "sum" /\ given # {} -> sum
        [] f = "avg" /\ given # {} -> IF sum < 0 THEN -((-sum) \div n) ELSE sum \div n
        [] f = "min" /\ given # {} -> CHOOSE v \in values : \A w \in values : v <= w
        [] f = "max" /\ given # {} -> CHOOSE v \in values : \A w \in values : v >= w
\* Joined back to a row by SQL's equality, which holds of no NULL.
JoinedBack(f, row) ==
  IF Null \in Range(Key(row)) \/ (HasGroups /\ Group(Key(row)) = {}) THEN Null
  ELSE Aggregate(f, Group(Key(row)))

\* Its place among the rows of its keys, NULLs together: active rows first.
RowNumber(row) ==
  Cardinality({r \in Range(query.rows) :
    /\ Key(r) = Key(row)
    /\ r[Act] > row[Act] \/ (r[Act] = row[Act] /\ r[RowId] <= row[RowId])})
\* Bug: the first row of a group by its id, active or not.
RepresentsById(row) ==
  row[Act] = 1 /\ \A r \in Range(query.rows) : Key(r) = Key(row) => row[RowId] <= r[RowId]
Represents(row) == row[Act] = 1 /\ RowNumber(row) = 1

OutputRow(row) ==
  [n \in -1..MaxCols |->
    IF n \in Range(AggCols) THEN JoinedBack(aggs[n - Arg], row)
    ELSE IF n = Act THEN (IF Represents(row) THEN 1 ELSE 0) ELSE row[n]]
\* By the keys, NULLs first, and the place among the rows of those keys.
ByKeys ==
  LET Rank(v) == IF v = Null THEN <<0, 0>> ELSE <<1, v>>
      Less(a, b) == a[1] < b[1] \/ (a[1] = b[1] /\ a[2] < b[2])
      Before(r, s) ==
        \/ \E j \in DOMAIN query.keys :
             /\ \A i \in 1..(j - 1) : Key(r)[i] = Key(s)[i]
             /\ Less(Rank(Key(r)[j]), Rank(Key(s)[j]))
        \/ Key(r) = Key(s) /\ RowNumber(r) < RowNumber(s)
  IN  [i \in DOMAIN query.rows |->
        CHOOSE r \in Range(query.rows) :
          Cardinality({s \in Range(query.rows) : Before(s, r)}) = i - 1]
InputFields == <<1, 2, Arg>> \o (IF query.numbered THEN <<RowId>> ELSE <<>>)
OutputFrame ==
  LET rows == IF query.numbered THEN query.rows ELSE ByKeys
  IN  Frame(InputFields \o AggCols \o <<Act>>,
            [i \in DOMAIN rows |-> OutputRow(rows[i])], Range(AggCols) \cup {Act})

(***************************************************************************)
(* Tracked tables, of the columns c of the proof.                          *)
(***************************************************************************)
Input ==
  EncodedColumns(Frame(Append(InputFields, Act), query.rows, {1, 2, Arg, Act}))
\* The keys are the input's columns.
Merged(c) ==
  [n \in DOMAIN c.output \cup Range(query.keys) |->
    IF n \in Range(query.keys) THEN Input[n] ELSE c.output[n]]

\* Without keys all rows are of one group.
Groups(table) == View(table, query.keys, table[Act])
InputKeys == Groups(Input)
OutputKeys(c) == Groups(Merged(c))

(***************************************************************************)
(* Claims, and when they hold.                                             *)
(***************************************************************************)
Where(f) == Kept(AggCols, {AggCol(j) : j \in {i \in DOMAIN aggs : aggs[i] = f}})
\* How far an extremum is from each value, with the input's activator: the
\* values of every row, not of the representatives.
Margin(c, n) == Over(DOMAIN Input[Act])!ColSub(Merged(c)[n], Input[Arg])
SignClaims(c, sign, n) ==
  LET rows == DOMAIN Input[Act]
      data == Over(rows)!Oriented(sign, Margin(c, n))
      act == Input[Act]
  IN  Over(rows)!RangeClaims(ArgType, data, act, Over(rows)!ChunkColumns(ArgType, data, act))
MaxClaims(c, n) == SignClaims(c, "NonNegative", n)
MinClaims(c, n) == SignClaims(c, "NonPositive", n)

SumClaim(c, n) ==
  [left |-> InputKeys, of |-> Input[Arg], right |-> OutputKeys(c), sums |-> Merged(c)[n]]
SumHolds(k) ==
  \A v \in Values(k.left) \cup Values(k.right) :
    TotalOf(k.left, k.of, v) = TotalOf(k.right, k.sums, v)

AggregateClaims(c) ==
  LET sums == Where("sum")
      maxima == Where("max")
      minima == Where("min")
  IN  [nodup  |-> IF HasGroups THEN <<OutputKeys(c)>> ELSE <<>>,
       lookup |-> IF HasGroups THEN <<LookupClaim(InputKeys, OutputKeys(c), c.mult[1])>> ELSE <<>>,
       bool   |-> IF HasGroups THEN <<Merged(c)[Act]>> ELSE <<>>,
       sum    |-> [i \in DOMAIN sums |-> SumClaim(c, sums[i])],
       sign   |-> FlattenSeq([i \in DOMAIN maxima |-> MaxClaims(c, maxima[i])]
                               \o [i \in DOMAIN minima |-> MinClaims(c, minima[i])])]
AllHold(k) ==
  /\ \A i \in DOMAIN k.nodup : NoRepeats(k.nodup[i])
  /\ \A i \in DOMAIN k.lookup : LookupHolds(k.lookup[i])
  /\ \A i \in DOMAIN k.bool : Range(k.bool[i]) \subseteq {0, 1}
  /\ \A i \in DOMAIN k.sum : SumHolds(k.sum[i])
  /\ \A i \in DOMAIN k.sign : Over(DOMAIN Input[Act])!Holds(k.sign[i])

\* What the gadgets check for themselves.  The keyed sumcheck does not.
HonestCheck(c) ==
  /\ HasGroups => Among(InputKeys, OutputKeys(c)) /\ NoRepeats(OutputKeys(c))
  /\ HasGroups => Range(Merged(c)[Act]) \subseteq {0, 1}
  /\ \A n \in Range(Where("max")) :
       Over(DOMAIN Input[Act])!HonestSign(ArgType, "NonNegative", Margin(c, n), Input[Act])
  /\ \A n \in Range(Where("min")) :
       Over(DOMAIN Input[Act])!HonestSign(ArgType, "NonPositive", Margin(c, n), Input[Act])

(***************************************************************************)
(* The prover.                                                             *)
(***************************************************************************)
NoTables == [output |-> <<>>, mult |-> <<>>]
NoClaims == [nodup |-> <<>>, lookup |-> <<>>, bool |-> <<>>, sum |-> <<>>, sign |-> <<>>]
Init ==
  /\ query \in Queries /\ aggs = <<>>
  /\ pc = "rewrite" /\ output = <<>> /\ coms = <<>> /\ tabs = NoTables /\ claims = NoClaims
  /\ vpc = "track" /\ vtabs = NoTables /\ vclaims = NoClaims

Rewrite ==
  /\ pc = "rewrite" /\ pc' = "plan"
  /\ aggs' = AddAvgSupport(query.aggs)
  /\ UNCHANGED <<query, output, coms, tabs, claims, vvars>>

\* Keys that are no columns, or are of an ambiguous name, stop it.
Plan ==
  /\ pc = "plan"
  /\ IF query.shape = "columns" THEN pc' = "commit" /\ output' = OutputFrame
     ELSE pc' = "panic" /\ UNCHANGED output
  /\ UNCHANGED <<query, aggs, coms, tabs, claims, vvars>>

Commit ==
  /\ pc = "commit" /\ pc' = "gadgets"
  /\ coms' = Commitments(output)
  /\ tabs' = [tabs EXCEPT !.output = EncodedColumns(output)]
  /\ UNCHANGED <<query, aggs, output, claims, vvars>>

\* The lookup of the keys counts.
InitGadgets ==
  /\ pc = "gadgets" /\ pc' \in {"check", "prove"}
  /\ LET mult == IF HasGroups THEN <<Multiplicities(InputKeys, OutputKeys(tabs))>> ELSE <<>>
     IN  coms' = coms \o mult /\ tabs' = [tabs EXCEPT !.mult = mult]
  /\ UNCHANGED <<query, aggs, output, claims, vvars>>

\* Built with the honest-prover feature.
Check ==
  /\ pc = "check" /\ pc' = IF HonestCheck(tabs) THEN "prove" ELSE "error"
  /\ UNCHANGED <<query, aggs, output, coms, tabs, claims, vvars>>

Prove ==
  /\ pc = "prove" /\ pc' = "sent"
  /\ claims' = AggregateClaims(tabs)
  /\ UNCHANGED <<query, aggs, output, coms, tabs, vvars>>

(***************************************************************************)
(* The verifier.                                                           *)
(***************************************************************************)
\* Bug: the activator is expected before the aggregates.
SchemaActFirst == <<Act>> \o AggCols
\* The committed columns of the output, from the plan alone.
Schema == Append(AggCols, Act)

VTrack ==
  /\ pc = "sent" /\ vpc = "track" /\ vpc' = "verify"
  /\ vtabs' = [output |-> [n \in Range(Schema) |->
                             coms[CHOOSE i \in DOMAIN Schema : Schema[i] = n]],
                mult   |-> SubSeq(coms, Len(Schema) + 1, Len(coms))]
  /\ UNCHANGED <<query, aggs, pvars, vclaims>>

VClaim ==
  /\ vpc = "verify" /\ vpc' = "done"
  /\ vclaims' = AggregateClaims(vtabs)
  /\ UNCHANGED <<query, aggs, pvars, vtabs>>

Finished == pc \in {"panic", "error"} \/ vpc = "done"
Stop == Finished /\ UNCHANGED vars
Next ==
  \/ Rewrite \/ Plan \/ Commit \/ InitGadgets \/ Check \/ Prove
  \/ VTrack \/ VClaim
  \/ Stop
Spec == Init /\ [][Next]_vars

(***************************************************************************)
(* Properties.                                                             *)
(***************************************************************************)

NoNullKeys == \A r \in ActiveRows : Null \notin Range(Key(r))
\* The differences of values, a NULL counted as the zero it is encoded as, fit
\* the type of the extrema.
DifferencesFit ==
  LET coded == {IF r[Arg] = Null THEN 0 ELSE r[Arg] : r \in ActiveRows}
  IN  \A v, w \in coded : v >= w => Diff(ArgType, v, w) = v - w
ExtremaExpressible ==
  Range(query.aggs) \cap {"min", "max"} # {} =>
    DifferencesFit /\ \A r \in ActiveRows : r[Arg] # Null

\* Every aggregate the gadgets can express, over rows that have ids, is proved:
\* the prover does not stop, and what the verifier checks is true.
AggregateIsProvable ==
  query.shape = "columns" /\ query.numbered /\ NoNullKeys /\ ExtremaExpressible
  => pc \notin {"panic", "error"} /\ (vpc = "done" => AllHold(vclaims))

\* The verifier, which sees schemas and commitments only, gets the prover's
\* tables and makes its claims.
VerifierMirrors == vpc = "done" => vtabs = tabs /\ vclaims = claims

\* A table of the aggregates of each group, encoded.
Grouped ==
  LET keys == {Key(r) : r \in ActiveRows}
  IN  {[j \in DOMAIN k |-> Enc(k[j])] \o [j \in DOMAIN aggs |-> Enc(Aggregate(aggs[j], Group(k)))] :
         k \in keys}
\* The output table both sides end with has one active row for each group, which
\* holds its aggregates, those of AVG and COUNT too.  (Without keys SQL has a
\* row even of no rows; the output has none.)
ResultIsGroupBy ==
  vpc = "done" /\ query.numbered /\ NoNullKeys =>
    LET rows == View(Merged(vtabs), query.keys \o AggCols, Merged(vtabs)[Act])
    IN  /\ {rows[i].v : i \in {j \in DOMAIN rows : rows[j].on}} = Grouped
        /\ \A i, j \in DOMAIN rows :
             rows[i].on /\ rows[j].on
             /\ (\A k \in DOMAIN query.keys : rows[i].v[k] = rows[j].v[k]) => i = j

\* "exactly one active row per group is marked as the representative": of the
\* table both sides end with, when no key is NULL.
OneRepresentative ==
  vpc = "done" /\ NoNullKeys =>
    \A k \in {Key(r) : r \in ActiveRows} :
      TimesIn(OutputKeys(vtabs), [j \in DOMAIN k |-> Enc(k[j])]) = 1
=============================================================================
