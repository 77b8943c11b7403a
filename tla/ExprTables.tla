------------------------------ MODULE ExprTables ------------------------------
(***************************************************************************)
(* The tables of a query's expressions, and of the Projection or Filter    *)
(* above them.  An expression is an arena of nodes, children first, over   *)
(* one input.  Some nodes have a column that is computed with DataFusion   *)
(* and committed; others have one made of their children's.  The prover    *)
(* builds a tracked table per node: its column, the row ids, the           *)
(* activator.  The verifier builds the same tables in code of its own, of  *)
(* oracles: terms over the commitments in the proof.                       *)
(*                                                                         *)
(* Columns 1 and 2 are the input's; 2 + i is the one of node i.            *)
(***************************************************************************)
EXTENDS SortHints, SequencesExt

CONSTANTS
  Queries,    \* the queries: see QueryAssumption
  Debug       \* are debug assertions compiled in?

Kinds == {"column", "literal", "binary", "cast", "in_list", "in_subquery", "alias",
          "case", "between", "scalar"}
ASSUME QueryAssumption ==
  /\ Debug \in BOOLEAN
  /\ \A q \in Queries :
       /\ q.root \in {"Projection", "Filter"}
       /\ q.ids \in {"none", "hidden", "tracked"}   \* has the input row ids, tracked ones?
       /\ Len(q.nodes) + 2 <= MaxCols /\ q.roots \in Seq(DOMAIN q.nodes)
       /\ q.root = "Filter" => Len(q.roots) = 1
       /\ \A i \in DOMAIN q.nodes :
            q.nodes[i].kind \in Kinds /\ Range(q.nodes[i].args) \subseteq 1..(i - 1)

VARIABLES
  query,                                  \* an expression per root, over rows
  pc, pos, coms, tables, output, claims,  \* the prover: commitments, a table per node
  vpc, vpos, vtables, voutput, vclaims    \* the verifier
pvars == <<pc, pos, coms, tables, output, claims>>
vvars == <<vpc, vpos, vtables, voutput, vclaims>>
vars == <<query, pvars, vvars>>

Node(i) == query.nodes[i]
NodeCol(i) == 2 + i
Unnamed == 0

(***************************************************************************)
(* What SQL makes of the expressions: NULL is neither true nor false, and  *)
(* None is an error.  Integers wrap.                                       *)
(***************************************************************************)
Truth(b) == IF b THEN 1 ELSE 0
Negate(b) == IF b = Null THEN Null ELSE 1 - b
And3(a, b) == IF 0 \in {a, b} THEN 0 ELSE IF Null \in {a, b} THEN Null ELSE 1
Or3(a, b) == Negate(And3(Negate(a), Negate(b)))
WrapInt(v) == Over({})!Wrap(v, 2)
Arithmetic == {"+", "-", "*"}
Exactly(op, a, b) == CASE op = "+" -> a + b [] op = "-" -> a - b [] op = "*" -> a * b
Magnitude(v) == IF v < 0 THEN -v ELSE v
Quotient(a, b) ==
  LET q == Magnitude(a) \div Magnitude(b) IN IF (a < 0) = (b < 0) THEN q ELSE -q
Compute(op, a, b) ==
  IF None \in {a, b} THEN None
  ELSE IF op \in {"and", "or"} THEN IF op = "and" THEN And3(a, b) ELSE Or3(a, b)
  ELSE IF Null \in {a, b} THEN Null
  ELSE CASE op \in Arithmetic -> WrapInt(Exactly(op, a, b))
         [] op = "/" -> IF b = 0 \/ Quotient(a, b) # WrapInt(Quotient(a, b)) THEN None
                        ELSE Quotient(a, b)
         [] op = "=" -> Truth(a = b)
         [] op = "<" -> Truth(a < b)
         [] op = "<=" -> Truth(a <= b)
\* Nothing is in the empty set, not even NULL.
IsIn(v, list, negated) ==
  LET found == IF list = <<>> THEN 0 ELSE IF v = Null THEN Null
            ELSE IF v \in Range(list) THEN 1 ELSE IF Null \in Range(list) THEN Null ELSE 0
  IN  IF negated THEN Negate(found) ELSE found
\* A qualified name has one meaning; so has one that is there once.
Meant(col) ==
  CHOOSE c \in 1..2 : query.fields[c].name = col.name /\ col.rel \in {Unnamed, query.fields[c].rel}
\* The values of all nodes at a row.
Sql(row) ==
  LET value[i \in DOMAIN query.nodes] ==
        LET n == Node(i)
            x == value[n.args[1]]
        IN  CASE n.kind = "column" -> row[Meant(n.col)]
              [] n.kind = "literal" -> n.list[1]
              [] n.kind = "binary" -> Compute(n.op, x, value[n.args[2]])
              [] n.kind = "case" -> IF x = None THEN None ELSE value[n.args[IF x = 1 THEN 2 ELSE 3]]
              [] n.kind = "alias" -> x
              [] OTHER ->
                   IF x = None THEN None
                   ELSE CASE n.kind \in {"in_list", "in_subquery"} -> IsIn(x, n.list, n.negated)
                          [] n.kind = "between" ->
                               And3(Compute("<=", n.list[1], x), Compute("<=", x, n.list[2]))
                          [] n.kind = "cast" /\ x # Null -> Truth(x # 0)       \* to a Boolean
                          [] n.kind = "scalar" /\ x # Null -> WrapInt(Magnitude(x))  \* abs
                          [] OTHER -> Null
  IN  value

(***************************************************************************)
(* Which columns are committed, and with what in them.                     *)
(***************************************************************************)
Comparisons == {"=", "<", "<="}
ShouldMaterialize(op) == op \in Comparisons \cup {"/"}
Materialized(i) ==
  \/ Node(i).kind \in {"cast", "in_list", "in_subquery", "case", "between", "scalar"}
  \/ Node(i).kind = "binary" /\ ShouldMaterialize(Node(i).op)
IsBoolean(i) ==
  \/ Node(i).kind \in {"cast", "in_list", "in_subquery", "between"}
  \/ Node(i).kind = "binary" /\ Node(i).op \in Comparisons

\* Bug: a comparison is computed on every row.
BinaryHintUnmasked(i, row) == Sql(row)[i]
\* CASE WHEN activator THEN left op right ELSE false (NULL of a quotient).
BinaryHint(i, row) ==
  IF row[Act] = 1 THEN Sql(row)[i] ELSE IF IsBoolean(i) THEN 0 ELSE Null
\* The values of the subquery are collected first.
InSubqueryHint(i, row) ==
  LET n == Node(i)
  IN  IF n.list = <<>> THEN Truth(n.negated) ELSE IsIn(Sql(row)[n.args[1]], n.list, n.negated)
\* The others are computed on every row, active or not.
UnmaskedHint(i, row) == Sql(row)[i]
HintValue(i, row) ==
  CASE Node(i).kind = "binary" -> BinaryHint(i, row)
    [] Node(i).kind = "in_subquery" -> InSubqueryHint(i, row)
    [] OTHER -> UnmaskedHint(i, row)

Rows == IF query.ids = "none" THEN query.rows ELSE ById(query.rows)
\* Padded with false or with the last value.
HintColumn(i) ==
  [j \in 1..PowerOfTwo(Len(Rows)) |->
    IF j <= Len(Rows) THEN HintValue(i, Rows[j])
    ELSE IF Rows = <<>> THEN Null
    ELSE IF IsBoolean(i) THEN 0 ELSE HintValue(i, Rows[Len(Rows)])]
Encoded(col) == [j \in DOMAIN col |-> Enc(col[j])]
InputFields == <<1, 2>> \o (IF query.ids = "tracked" THEN <<RowId>> ELSE <<>>) \o <<Act>>
InputFrame == Frame(InputFields, query.rows, Range(InputFields))

(***************************************************************************)
(* Tables: columns, or terms, by name, in the order they were put there.   *)
(***************************************************************************)
NoTable == [order |-> <<>>, col |-> <<>>]
Has(t, n) == n \in DOMAIN t.col
Insert(t, n, c) ==
  [order |-> IF Has(t, n) THEN t.order ELSE Append(t.order, n),
   col |-> [m \in DOMAIN t.col \cup {n} |-> IF m = n THEN c ELSE t.col[m]]]
DataOf(t) == SelectSeq(t.order, LAMBDA n : n \notin {Act, RowId})
Data(t) == t.col[DataOf(t)[1]]
Rename(t, n, m) ==
  [order |-> [j \in DOMAIN t.order |-> IF t.order[j] = n THEN m ELSE t.order[j]],
   col |-> [k \in (DOMAIN t.col \ {n}) \cup {m} |-> t.col[IF k = m THEN n ELSE k]]]
\* Column n and the system columns.
Subtable(t, n) ==
  FoldLeft(LAMBDA s, m : IF m \in {Act, RowId} THEN Insert(s, m, t.col[m]) ELSE s,
           Insert(NoTable, n, t.col[n]), t.order)
\* Row ids that are not there yet, and the activator.
WithSystem(t, from) ==
  LET ided == IF Has(from, RowId) /\ ~Has(t, RowId) THEN Insert(t, RowId, from.col[RowId]) ELSE t
  IN  IF Has(from, Act) THEN Insert(ided, Act, from.col[Act]) ELSE ided

\* Bug: qualifiers are not looked at.
IndexOfColumnByName(t, col) ==
  LET named == SelectSeq(DataOf(t), LAMBDA c : query.fields[c].name = col.name) IN named[1]
\* The field of that qualifier, or else the first of that name.
IndexOfColumn(t, col) ==
  LET qualified == SelectSeq(DataOf(t), LAMBDA c : query.fields[c] = col)
      named == SelectSeq(DataOf(t), LAMBDA c : query.fields[c].name = col.name)
  IN  IF qualified # <<>> THEN qualified[1] ELSE named[1]

(***************************************************************************)
(* The prover's tables.  Those of CASE, BETWEEN and functions are left as  *)
(* they were tracked.                                                      *)
(***************************************************************************)
Poly(op, a, b) == [j \in DOMAIN a |-> Exactly(op, a[j], b[j]) % FieldSize]
VirtualPoly(op, l, r) ==
  CASE op = "and" -> Poly("*", l, r)
    [] op = "or" -> Poly("-", Poly("+", l, r), Poly("*", l, r))
    [] op \in Arithmetic -> Poly(op, l, r)
ConstantPoly(v, col) == [j \in DOMAIN col |-> Enc(v)]

ColumnTable(i) == Subtable(tables[0], IndexOfColumn(tables[0], Node(i).col))
LiteralTable(i) ==
  WithSystem(Insert(NoTable, NodeCol(i), ConstantPoly(Node(i).list[1], tables[0].col[Act])), tables[0])
BinaryTable(i) ==
  LET l == tables[Node(i).args[1]]
      r == tables[Node(i).args[2]]
      own == IF ShouldMaterialize(Node(i).op) THEN tables[i]
             ELSE Insert(tables[i], NodeCol(i), VirtualPoly(Node(i).op, Data(l), Data(r)))
  IN  WithSystem(own, l)
\* Bug: the tracked table is left as it is.
CastTableBare(i) == tables[i]
CastTable(i) == WithSystem(tables[i], tables[Node(i).args[1]])
InListTable(i) ==
  WithSystem(Insert(NoTable, NodeCol(i), Data(tables[i])), tables[Node(i).args[1]])
InSubqueryTable(i) ==
  WithSystem(Insert(NoTable, NodeCol(i), Data(tables[i])), tables[Node(i).args[1]])
AliasTable(i) ==
  LET t == tables[Node(i).args[1]] IN Rename(t, DataOf(t)[1], NodeCol(i))
ExprTable(i) ==
  CASE Node(i).kind = "column" -> ColumnTable(i)
    [] Node(i).kind = "literal" -> LiteralTable(i)
    [] Node(i).kind = "binary" -> BinaryTable(i)
    [] Node(i).kind = "cast" -> CastTable(i)
    [] Node(i).kind = "in_list" -> InListTable(i)
    [] Node(i).kind = "in_subquery" -> InSubqueryTable(i)
    [] Node(i).kind = "alias" -> AliasTable(i)
    [] Node(i).kind \in {"case", "between", "scalar"} -> tables[i]
\* The operands of a binary expression have the same activator, or both none.
OperandsAgree(i) ==
  Node(i).kind = "binary" =>
    (Has(tables[Node(i).args[1]], Act) <=> Has(tables[Node(i).args[2]], Act))

\* All data columns and the first row ids.
Stitched(exprs) ==
  LET Columns(s, t) == FoldLeft(LAMBDA u, n : Insert(u, n, t.col[n]), s, DataOf(t))
      ided == SelectSeq(exprs, LAMBDA t : Has(t, RowId))
      data == FoldLeft(Columns, NoTable, exprs)
  IN  IF ided = <<>> THEN data ELSE Insert(data, RowId, ided[1].col[RowId])
\* The activator is the first expression's.
ProjectionTable ==
  LET exprs == [k \in DOMAIN query.roots |-> tables[query.roots[k]]]
  IN  IF exprs = <<>> THEN tables[0] ELSE Insert(Stitched(exprs), Act, exprs[1].col[Act])
\* Bug: the activator is the input's still.
FilterTableUnfiltered == tables[0]
\* The predicate takes the activator's place.
FilterTable == Insert(tables[0], Act, Data(tables[query.roots[1]]))

\* input AND predicate is the output; where the input is not, the predicate is not.
FilterClaims ==
  LET input == tables[0].col[Act]
      pred == Data(tables[query.roots[1]])
      one == ConstantPoly(1, input)
  IN  <<Poly("-", Poly("*", input, pred), output.col[Act]), Poly("*", Poly("-", one, input), pred)>>

(***************************************************************************)
(* The verifier's.  It has no columns: an oracle is a commitment of the    *)
(* proof, a constant, or made of two oracles.                              *)
(***************************************************************************)
Com(k) == <<"commitment", k>>
Constant(v) == <<"constant", v>>
RECURSIVE Opened(_)
Opened(oracle) ==
  CASE oracle[1] = "commitment" -> coms[oracle[2]]
    [] oracle[1] = "constant" -> ConstantPoly(oracle[2], coms[1])
    [] OTHER -> Poly(oracle[1], Opened(oracle[2]), Opened(oracle[3]))
OpenedTable(t) == [t EXCEPT !.col = [n \in DOMAIN t.col |-> Opened(t.col[n])]]

\* Where in the proof the column of a node is: after those of the nodes before.
ComOf(i) == Len(InputFields) + Cardinality({j \in 1..i : Materialized(j)})
VInputTable ==
  [order |-> InputFields,
   col |-> [n \in Range(InputFields) |-> Com(CHOOSE k \in DOMAIN InputFields : InputFields[k] = n)]]

VirtualOracle(op, l, r) ==
  CASE op = "and" -> <<"*", l, r>>
    [] op = "or" -> <<"-", <<"+", l, r>>, <<"*", l, r>>>>
    [] op \in Arithmetic -> <<op, l, r>>
VColumnTable(i) == Subtable(vtables[0], IndexOfColumn(vtables[0], Node(i).col))
VLiteralTable(i) ==
  WithSystem(Insert(NoTable, NodeCol(i), Constant(Node(i).list[1])), vtables[0])
VBinaryTable(i) ==
  LET l == vtables[Node(i).args[1]]
      r == vtables[Node(i).args[2]]
      own == IF ShouldMaterialize(Node(i).op) THEN vtables[i]
             ELSE Insert(vtables[i], NodeCol(i), VirtualOracle(Node(i).op, Data(l), Data(r)))
  IN  WithSystem(own, l)
VCastTable(i) == WithSystem(vtables[i], vtables[Node(i).args[1]])
\* Bug: the activator comes before the row ids.
VInListTableActFirst(i) ==
  LET child == vtables[Node(i).args[1]]
      own == Insert(NoTable, NodeCol(i), Data(vtables[i]))
  IN  WithSystem(IF Has(child, Act) THEN Insert(own, Act, child.col[Act]) ELSE own, child)
VInListTable(i) ==
  WithSystem(Insert(NoTable, NodeCol(i), Data(vtables[i])), vtables[Node(i).args[1]])
VInSubqueryTable(i) ==
  WithSystem(Insert(NoTable, NodeCol(i), Data(vtables[i])), vtables[Node(i).args[1]])
VAliasTable(i) ==
  LET t == vtables[Node(i).args[1]] IN Rename(t, DataOf(t)[1], NodeCol(i))
VExprTable(i) ==
  CASE Node(i).kind = "column" -> VColumnTable(i)
    [] Node(i).kind = "literal" -> VLiteralTable(i)
    [] Node(i).kind = "binary" -> VBinaryTable(i)
    [] Node(i).kind = "cast" -> VCastTable(i)
    [] Node(i).kind = "in_list" -> VInListTable(i)
    [] Node(i).kind = "in_subquery" -> VInSubqueryTable(i)
    [] Node(i).kind = "alias" -> VAliasTable(i)
    [] Node(i).kind \in {"case", "between", "scalar"} -> vtables[i]
VProjectionTable ==
  LET exprs == [k \in DOMAIN query.roots |-> vtables[query.roots[k]]]
  IN  IF exprs = <<>> THEN vtables[0] ELSE Insert(Stitched(exprs), Act, exprs[1].col[Act])
VFilterTable == Insert(vtables[0], Act, Data(vtables[query.roots[1]]))
VFilterClaims ==
  LET input == vtables[0].col[Act]
      pred == Data(vtables[query.roots[1]])
  IN  <<<<"-", <<"*", input, pred>>, voutput.col[Act]>>,
        <<"*", <<"-", Constant(1), input>>, pred>>>>

(***************************************************************************)
(* The prover: its passes.  An assertion that fails ends it.               *)
(***************************************************************************)
Nodes == DOMAIN query.nodes
Init ==
  /\ query \in Queries
  /\ pc = "track" /\ pos = 0 /\ coms = <<>> /\ tables = <<>> /\ output = NoTable /\ claims = <<>>
  /\ vpc = "track" /\ vpos = 0 /\ vtables = <<>> /\ voutput = NoTable /\ vclaims = <<>>

Own(i, c) == Insert(NoTable, NodeCol(i), c)
Fails == \E i \in Nodes, j \in DOMAIN Rows : Materialized(i) /\ HintValue(i, Rows[j]) = None
\* The columns are computed, committed and tracked.
Track ==
  /\ pc = "track"
  /\ IF Fails THEN pc' = "panicked" /\ UNCHANGED <<coms, tables>>
     ELSE LET columns == [i \in Nodes |-> IF Materialized(i) THEN Encoded(HintColumn(i)) ELSE <<>>]
              committed == SelectSeq([i \in Nodes |-> i], Materialized)
          IN  /\ pc' = "virtual"
              /\ coms' = Commitments(InputFrame) \o [k \in DOMAIN committed |-> columns[committed[k]]]
              /\ tables' = [i \in {0} \cup Nodes |->
                   IF i = 0 THEN [order |-> InputFields, col |-> EncodedColumns(InputFrame)]
                   ELSE IF Materialized(i) THEN Own(i, columns[i]) ELSE NoTable]
  /\ UNCHANGED <<query, pos, output, claims, vvars>>
\* The virtualization pass, children first.
Virtualize ==
  /\ pc = "virtual" /\ pos < Len(query.nodes)
  /\ IF Debug /\ ~OperandsAgree(pos + 1) THEN pc' = "panicked" /\ UNCHANGED <<pos, tables>>
     ELSE pos' = pos + 1 /\ tables' = [tables EXCEPT ![pos + 1] = ExprTable(pos + 1)] /\ UNCHANGED pc
  /\ UNCHANGED <<query, coms, output, claims, vvars>>
HasActivator == query.root = "Projection" /\ query.roots # <<>> => Has(tables[query.roots[1]], Act)
VirtualizeRoot ==
  /\ pc = "virtual" /\ pos = Len(query.nodes)
  /\ IF ~HasActivator THEN pc' = "panicked" /\ UNCHANGED output
     ELSE pc' = "claim" /\ output' = IF query.root = "Filter" THEN FilterTable ELSE ProjectionTable
  /\ UNCHANGED <<query, pos, coms, tables, claims, vvars>>
Claim ==
  /\ pc = "claim" /\ pc' = "sent"
  /\ claims' = IF query.root = "Filter" THEN FilterClaims ELSE <<>>
  /\ UNCHANGED <<query, pos, coms, tables, output, vvars>>

(***************************************************************************)
(* The verifier: its passes.                                               *)
(***************************************************************************)
VTrack ==
  /\ pc = "sent" /\ vpc = "track" /\ vpc' = "virtual"
  /\ vtables' = [i \in {0} \cup Nodes |->
       IF i = 0 THEN VInputTable ELSE IF Materialized(i) THEN Own(i, Com(ComOf(i))) ELSE NoTable]
  /\ UNCHANGED <<query, pvars, vpos, voutput, vclaims>>
VVirtualize ==
  /\ vpc = "virtual" /\ vpos < Len(query.nodes)
  /\ vpos' = vpos + 1 /\ vtables' = [vtables EXCEPT ![vpos + 1] = VExprTable(vpos + 1)]
  /\ UNCHANGED <<query, pvars, vpc, voutput, vclaims>>
VVirtualizeRoot ==
  /\ vpc = "virtual" /\ vpos = Len(query.nodes) /\ vpc' = "claim"
  /\ voutput' = IF query.root = "Filter" THEN VFilterTable ELSE VProjectionTable
  /\ UNCHANGED <<query, pvars, vpos, vtables, vclaims>>
VClaim ==
  /\ vpc = "claim" /\ vpc' = "done"
  /\ vclaims' = IF query.root = "Filter" THEN VFilterClaims ELSE <<>>
  /\ UNCHANGED <<query, pvars, vpos, vtables, voutput>>
Stopped == (pc = "panicked" \/ vpc = "done") /\ UNCHANGED vars

Next ==
  \/ Track \/ Virtualize \/ VirtualizeRoot \/ Claim
  \/ VTrack \/ VVirtualize \/ VVirtualizeRoot \/ VClaim
  \/ Stopped
Spec == Init /\ [][Next]_vars

(***************************************************************************)
(* What a node's polynomial promises at a row.                             *)
(***************************************************************************)
\* It is the SQL value's unless integers wrap in it, or NULLs are added up.
Exact(i, row) ==
  LET value == Sql(row)
      exact[n \in Nodes] ==
        CASE Materialized(n) \/ Node(n).kind \in {"column", "literal"} -> TRUE
          [] Node(n).kind = "alias" -> exact[Node(n).args[1]]
          [] OTHER ->
               LET a == Node(n).args[1]
                   b == Node(n).args[2]
               IN  /\ exact[a] /\ exact[b]
                   /\ Node(n).op \in Arithmetic =>
                        /\ {value[a], value[b]} \cap {Null, None} = {}
                        /\ Exactly(Node(n).op, value[a], value[b]) = value[n]
  IN  exact[i]
\* A predicate is false where all the nodes it is made of are, given Base is of those.
FalseWhere(i, Base(_)) ==
  LET false[n \in Nodes] ==
        LET n1 == Node(n)
        IN  IF n1.kind = "alias" THEN false[n1.args[1]]
            ELSE IF n1.op = "and" THEN false[n1.args[1]] \/ false[n1.args[2]]
            ELSE IF n1.op = "or" THEN false[n1.args[1]] /\ false[n1.args[2]]
            ELSE Base(n)
  IN  false[i]
\* False on rows that are not active, as comparisons are; false in the padding.
Masked(i) == FalseWhere(i, LAMBDA n : Node(n).kind = "binary" /\ Node(n).op \in Comparisons)
PadsFalse(i) == FalseWhere(i, IsBoolean)
\* No row that is not there can be let in by the predicate.
Guarded(i) ==
  \/ Masked(i)
  \/ /\ \A j \in DOMAIN Rows : Rows[j][Act] = 1
     /\ PadsFalse(i) \/ Len(Rows) = PowerOfTwo(Len(Rows))

(***************************************************************************)
(* Properties                                                              *)
(***************************************************************************)

\* A column of a Projection's output is, on every active row, the encoding of
\* what SQL makes of its expression, whatever names the columns share, whichever
\* nodes are committed and whichever are made of others, in whatever order the
\* rows arrive; unless integers wrap or NULLs are added up (Projection's and the
\* expressions' add_virtual_witness; BinaryExpr's virtual columns wrap nowhere).
ProjectedIsComputed ==
  (pc \in {"claim", "sent"} /\ query.root = "Projection") =>
    \A k \in DOMAIN query.roots, j \in DOMAIN Rows :
      LET i == query.roots[k]
      IN  (Rows[j][Act] = 1 /\ Exact(i, Rows[j])) =>
            /\ output.col[DataOf(tables[i])[1]][j] = Enc(Sql(Rows[j])[i])
            /\ output.col[Act][j] = 1

\* A Filter's output has the rows of its input for which the predicate is true,
\* and none of the others, of the inactive or of the padding, although the
\* predicate's column takes the activator's place; and what the gadget claims of
\* it holds, so that an honest prover succeeds.  That is so of predicates
\* that are false on inactive rows, as comparisons are, and of others if
\* every row is active.
FilterKeepsWhatHolds ==
  (pc = "sent" /\ query.root = "Filter" /\ Guarded(query.roots[1])) =>
    /\ \A j \in DOMAIN Rows :
         output.col[Act][j] = Enc(And3(Rows[j][Act], Sql(Rows[j])[query.roots[1]]))
    /\ \A j \in DOMAIN output.col[Act] : j > Len(Rows) => output.col[Act][j] = 0
    /\ \A c \in DOMAIN claims : Range(claims[c]) = {0}

\* The verifier, which sees no column, has for every node and for the output a
\* table of the same columns in the same order: each of its oracles, opened,
\* is the prover's column, and so are the claims (the verifier's
\* add_virtual_witness of every expression, of Projection and of Filter).
VerifierMirrors ==
  vpc = "done" =>
    /\ \A i \in DOMAIN tables : OpenedTable(vtables[i]) = tables[i]
    /\ OpenedTable(voutput) = output
    /\ DOMAIN vclaims = DOMAIN claims
    /\ \A k \in DOMAIN claims : Opened(vclaims[k]) = claims[k]

\* The prover ends early over a CASE, a BETWEEN or a function only, whose tables
\* have no activator, or because a committed column cannot be computed: some
\* node is in error on a row, though perhaps on one that the query has
\* filtered out or in a branch that it does not take.
PanicOnlyOnBareOrError ==
  pc = "panicked" =>
    \/ \E i \in Nodes : Node(i).kind \in {"case", "between", "scalar"}
    \/ \E i \in Nodes, j \in DOMAIN Rows : Sql(Rows[j])[i] = None
=============================================================================
