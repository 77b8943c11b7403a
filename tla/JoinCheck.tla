------------------------------ MODULE JoinCheck ------------------------------
(***************************************************************************)
(* A Join node: which mode it runs in, the output it plans, and how that   *)
(* is shown to be the join.  A join of tables that may repeat their keys   *)
(* (ManyToMany) is materialized whole; hint tables say which input rows    *)
(* each output row comes from and which keys there are, and lookups and a  *)
(* count of the matching pairs are claimed of them.  When a primary key is *)
(* among the join keys (HasOne modes) the output is the foreign key's      *)
(* table with the partner's columns added, and nothing is claimed.         *)
(*                                                                         *)
(* Columns 1 and 2 are the left table's, 3 and 4 the right one's, 5 and 6  *)
(* the ids of the rows an output row comes from.  The NoDup gadget is      *)
(* module SortCheck's; here it stands for what it claims.                  *)
(***************************************************************************)
EXTENDS TableClaims

CONSTANT Queries   \* the joins: see QueryAssumption

Sides == {"left", "right"}
Cols(s) == IF s = "left" THEN <<1, 2>> ELSE <<3, 4>>
Src(s) == IF s = "left" THEN 5 ELSE 6
Other(s) == IF s = "left" THEN "right" ELSE "left"
ColumnsOf(s) == Range(Cols(s))

\* pk: the columns flagged as (part of) a primary key; fk: the columns a column
\* refers to; on: pairs of key columns; source: where the rows come from;
\* reversed: the order in which DataFusion returns unordered rows.
ASSUME QueryAssumption ==
  /\ MaxCols = 6
  /\ \A q \in Queries :
       /\ q.source \in [Sides -> {"table", "filter", "join"}]
       /\ q.on \in Seq(ColumnsOf("left") \X ColumnsOf("right")) /\ Len(q.on) <= MaxCols
       /\ q.type \in {"Inner", "Left"}
       /\ {q.filter, q.specialize, q.reversed} \subseteq BOOLEAN
       /\ q.pk \subseteq 1..4 /\ q.fk \in [1..4 -> SUBSET (1..4)]
       \* Row ids are dense, and a table's declared primary key tells its rows apart.
       /\ \A s \in Sides :
            LET rows == q.rows[s]
                key == q.pk \cap ColumnsOf(s)
            IN  /\ rows \in Seq([-1..MaxCols -> Int \cup {Null}])
                /\ \A i \in DOMAIN rows : rows[i][Act] \in {0, 1}
                /\ {rows[i][RowId] : i \in DOMAIN rows} = 0..(Len(rows) - 1)
                /\ q.source[s] = "table" /\ key # {} =>
                     \A i, j \in DOMAIN rows : (\A c \in key : rows[i][c] = rows[j][c]) => i = j
       \* The field is larger than tables are long, and than there are pairs of rows.
       /\ \A s \in Sides : Len(q.rows[s]) < FieldSize
       /\ Len(q.rows["left"]) * Len(q.rows["right"]) < FieldSize

VARIABLES
  query,                      \* the join
  mode,                       \* decided by the planner
  pc, frames, coms, misc, tabs, claims,   \* the prover: its hints, the proof's
                              \* columns and field elements, its tables, claims
  vpc, vtabs, vclaims         \* the verifier
pvars == <<pc, frames, coms, misc, tabs, claims>>
vvars == <<vpc, vtabs, vclaims>>
vars == <<query, mode, pvars, vvars>>

KeyCols(s) == [i \in DOMAIN query.on |-> query.on[i][IF s = "left" THEN 1 ELSE 2]]
KeyCount == Len(query.on)
Rows(s) == query.rows[s]
ActiveRows(s) == {r \in Range(Rows(s)) : r[Act] = 1}
Key(s, row) == [i \in 1..KeyCount |-> row[KeyCols(s)[i]]]

(***************************************************************************)
(* The mode: what the declared keys say of the number of partners.         *)
(***************************************************************************)
Declared(c) == c \in query.pk \/ query.fk[c] # {}
AllPk(s) == Range(KeyCols(s)) \subseteq query.pk
RefersTo(s) == \A c \in Range(KeyCols(s)) : query.fk[c] = Range(KeyCols(Other(s)))
DecideJoinMode ==
  LET unless(filtered, m) == IF \E s \in filtered : query.source[s] = "filter"
                             THEN "ManyToMany" ELSE m
  IN  IF ~query.specialize \/ query.type # "Inner" \/ query.on = <<>> \/ query.filter
           \/ (\E s \in Sides : \E c \in Range(KeyCols(s)) : ~Declared(c)) THEN "ManyToMany"
      ELSE IF AllPk("left") /\ RefersTo("right") THEN unless({"left"}, "OneToMany")
      ELSE IF AllPk("right") /\ RefersTo("left") THEN unless({"right"}, "ManyToOne")
      ELSE IF KeyCount = 1 /\ AllPk("left") /\ AllPk("right") THEN unless(Sides, "OneToOne")
      ELSE "ManyToMany"
HasOne == mode # "ManyToMany"
\* Bug: the unique side is taken for the other one.
FkSideSwapped == IF mode = "ManyToOne" THEN "right" ELSE "left"
FkSide == IF mode = "ManyToOne" THEN "left" ELSE "right"
PkSide == Other(FkSide)

(***************************************************************************)
(* DataFusion's joins, in whatever order the rows come.                    *)
(***************************************************************************)
NoRow == [n \in -1..MaxCols |-> Null]
\* SQL's equality holds of no NULL; the filter compares columns 2 and 4.
Matches(l, r) ==
  /\ Null \notin Range(Key("left", l)) /\ Key("left", l) = Key("right", r)
  /\ query.filter => l[2] # r[4]
\* The active rows of the other side that a row of side s joins.
Partners(s, row) ==
  Kept(Rows(Other(s)),
       {p \in ActiveRows(Other(s)) : IF s = "left" THEN Matches(row, p) ELSE Matches(p, row)})
OrNone(partners) == IF partners = <<>> THEN <<NoRow>> ELSE partners
JoinedPairs ==
  LET active == Kept(Rows("left"), ActiveRows("left"))
      of(l) == IF query.type = "Left" THEN OrNone(Partners("left", l)) ELSE Partners("left", l)
  IN  FlattenSeq([i \in DOMAIN active |->
        LET partners == of(active[i])
        IN  [j \in DOMAIN partners |-> <<active[i], partners[j]>>]])
\* The join is executed for the output and once more for the gadget.
Arrived(run) == IF run = 2 /\ query.reversed THEN Reverse(JoinedPairs) ELSE JoinedPairs

\* Bug: the right row id is no tie breaker.
IdsBeforeLeftOnly(p, q) == p[1][RowId] < q[1][RowId]
IdsBefore(p, q) ==
  \/ p[1][RowId] < q[1][RowId]
  \/ p[1][RowId] = q[1][RowId] /\ p[2][RowId] < q[2][RowId]
\* A stable sort.
Ordered(s) ==
  [i \in DOMAIN s |->
    s[CHOOSE n \in DOMAIN s :
        Cardinality({m \in DOMAIN s \ {n} :
          IdsBefore(s[m], s[n]) \/ (m < n /\ ~IdsBefore(s[n], s[m]))}) = i - 1]]
JoinRun(run) == Ordered(Arrived(run))

(***************************************************************************)
(* The output.                                                             *)
(***************************************************************************)
Combined(l, r) ==
  [n \in -1..MaxCols |->
    IF n \in ColumnsOf("left") THEN l[n] ELSE IF n \in ColumnsOf("right") THEN r[n] ELSE Null]
FullOutput ==
  LET run == JoinRun(1)
  IN  Frame(Cols("left") \o Cols("right") \o <<Act, RowId>>,
            [i \in DOMAIN run |->
              [Combined(run[i][1], run[i][2]) EXCEPT ![Act] = 1, ![RowId] = i - 1]],
            ColumnsOf("left") \cup ColumnsOf("right"))

\* Bug: the row counts though it found no partner.
PartialRowsAllActive(row) ==
  LET partners == OrNone(Partners(FkSide, row))
      with(p) == IF FkSide = "left" THEN Combined(row, p) ELSE Combined(p, row)
  IN  [j \in DOMAIN partners |->
        [with(partners[j]) EXCEPT ![Act] = row[Act], ![RowId] = row[RowId]]]
\* A row of the foreign key's table, active or not, with each partner, or none.
PartialRows(row) ==
  LET partners == OrNone(Partners(FkSide, row))
      with(p) == IF FkSide = "left" THEN Combined(row, p) ELSE Combined(p, row)
  IN  [j \in DOMAIN partners |->
        [with(partners[j]) EXCEPT
          ![Act] = IF partners[j] = NoRow THEN 0 ELSE row[Act], ![RowId] = row[RowId]]]
PartialOutput ==
  Frame(Cols(FkSide) \o Cols(PkSide) \o <<Act, RowId>>,
        ById(FlattenSeq([i \in DOMAIN Rows(FkSide) |-> PartialRows(Rows(FkSide)[i])])),
        ColumnsOf(PkSide) \cup {Act})
Output == IF HasOne THEN PartialOutput ELSE FullOutput

(***************************************************************************)
(* The gadget's hint tables.                                               *)
(***************************************************************************)
Payload(s, row) == [i \in DOMAIN Cols(s) |-> row[Cols(s)[i]]]
Replayed(s, i) == JoinRun(2)[i][IF s = "left" THEN 1 ELSE 2]
SameRow(s, i) == {r \in ActiveRows(s) : Payload(s, r) = Payload(s, Replayed(s, i))}
\* Bug: rows of equal payload are an error, which nothing catches.
SourceIdsNoFallback(s) ==
  [i \in DOMAIN JoinRun(2) |->
    IF Cardinality(SameRow(s, i)) = 1 THEN (CHOOSE r \in SameRow(s, i) : TRUE)[RowId] ELSE Null]
\* Rows are found again by what they hold if that tells all rows apart, by the
\* ids the replayed join carries if not; a row that does not exist has no id.
SourceIds(s) ==
  LET apart == \A r, q \in ActiveRows(s) : Payload(s, r) = Payload(s, q) => r = q
      found == \A i \in DOMAIN JoinRun(2) : SameRow(s, i) # {}
  IN  [i \in DOMAIN JoinRun(2) |->
        IF apart /\ found THEN (CHOOSE r \in SameRow(s, i) : TRUE)[RowId]
        ELSE Replayed(s, i)[RowId]]

SourceRows ==
  LET left == SourceIds("left")
      right == SourceIds("right")
  IN  [i \in DOMAIN left |->
        [n \in -1..MaxCols |->
          CASE n = Src("left") -> left[i] [] n = Src("right") -> right[i]
            [] n = Act -> 1 [] n = RowId -> i - 1 [] OTHER -> Null]]
SourceFrame(s) == Frame(<<Src(s), Act, RowId>>, SourceRows, {Src(s)})
PairsFrame ==
  Frame(<<Src("left"), Src("right"), Act, RowId>>, SourceRows, {Src("left"), Src("right"), Act})

KeySeq(s) ==
  LET rows == Kept(ById(Rows(s)), ActiveRows(s))
  IN  [i \in DOMAIN rows |-> Key(s, rows[i])]
\* Each key of an active row, once.
UnionKeys ==
  LET all == KeySeq("left") \o KeySeq("right")
      first == {i \in DOMAIN all : \A j \in 1..(i - 1) : all[j] # all[i]}
  IN  [n \in 1..Cardinality(first) |-> all[Nth(first, n)]]
UnionFields == [j \in 1..KeyCount |-> j]
UnionFrame ==
  Frame(UnionFields \o <<Act, RowId>>,
        [i \in 1..PowerOfTwo(Len(UnionKeys)) |->
          IF i > Len(UnionKeys) THEN NullRow(i)
          ELSE [n \in -1..MaxCols |->
                 CASE n = Act -> 1 [] n = RowId -> i - 1
                   [] n \in 1..KeyCount -> UnionKeys[i][n] [] OTHER -> Null]],
        Range(UnionFields) \cup {Act})

\* The committed tables, in this order; the last four are multiplicities.
Labels == <<"output", "src_left", "src_right", "pairs", "union",
            "left_keys", "right_keys", "left_rows", "right_rows">>
Nothing == [l \in Range(Labels) |-> <<>>]
GadgetFrames(output) ==
  [output |-> output, src_left |-> SourceFrame("left"), src_right |-> SourceFrame("right"),
   pairs |-> PairsFrame, union |-> UnionFrame]
\* A replayed row without a source is an error, and so is a join without keys.
GadgetPlannable ==
  \A s \in Sides : Null \notin Range(SourceIds(s)) /\ query.on # <<>>

(***************************************************************************)
(* Tracked tables.  Both sides know the input tables; what follows is      *)
(* computed from them and from the columns c of the proof.                 *)
(***************************************************************************)
Input(s) ==
  EncodedColumns(Frame(Cols(s) \o <<Act, RowId>>, Rows(s), ColumnsOf(s) \cup {Act}))
Size(table) == Len(table[CHOOSE n \in DOMAIN table : TRUE])
\* The foreign key's side passes its columns on; a whole output's activator is
\* rebuilt from the number of its rows.
OutputTable(c, count) ==
  IF HasOne THEN [n \in DOMAIN c.output \cup ColumnsOf(FkSide) |->
                   IF n \in ColumnsOf(FkSide) THEN Input(FkSide)[n] ELSE c.output[n]]
  ELSE [n \in DOMAIN c.output \cup {Act} |->
         IF n = Act THEN [i \in 1..Size(c.output) |-> IF i <= count THEN 1 ELSE 0]
         ELSE c.output[n]]

KeyView(s) == View(Input(s), KeyCols(s), Input(s)[Act])
UnionView(c) == View(c.union, UnionFields, c.union[Act])
\* The columns of the output that come from side s and the source ids, and the
\* input's rows with their index.
FromView(c, s, out) ==
  With(View(out, Cols(s), out[Act]), c[IF s = "left" THEN "src_left" ELSE "src_right"][Src(s)])
SourceView(s) == LET rows == View(Input(s), Cols(s), Input(s)[Act]) IN With(rows, Index(rows))

(***************************************************************************)
(* Claims, and when they hold.                                             *)
(***************************************************************************)
JoinClaims(c, count, sum) ==
  LET out == OutputTable(c, count)
  IN  IF HasOne THEN [nodup |-> <<>>, lookup |-> <<>>, sum |-> <<>>]
      ELSE
      [nodup  |-> <<View(c.pairs, <<Src("left"), Src("right")>>, c.pairs[Act]), UnionView(c)>>,
       lookup |-> <<LookupClaim(KeyView("left"), UnionView(c), c.left_keys[1]),
                    LookupClaim(KeyView("right"), UnionView(c), c.right_keys[1]),
                    LookupClaim(FromView(c, "left", out), SourceView("left"), c.left_rows[1]),
                    LookupClaim(FromView(c, "right", out), SourceView("right"), c.right_rows[1])>>,
       sum    |-> <<[values |-> [i \in DOMAIN c.union[Act] |->
                       (c.union[Act][i] * c.left_keys[1][i] * c.right_keys[1][i]) % FieldSize],
                     sum |-> sum]>>]
AllHold(k) ==
  /\ \A i \in DOMAIN k.nodup : NoRepeats(k.nodup[i])
  /\ \A i \in DOMAIN k.lookup : LookupHolds(k.lookup[i])
  /\ \A i \in DOMAIN k.sum : Total(k.sum[i].values) = k.sum[i].sum

\* What the gadgets check for themselves, of encoded values.
HonestCheck(c, count) ==
  LET out == OutputTable(c, count)
      left == KeyView("left")
      right == KeyView("right")
  IN  HasOne \/
      /\ NoRepeats(View(c.pairs, <<Src("left"), Src("right")>>, c.pairs[Act]))
      /\ NoRepeats(UnionView(c))
      /\ \A s \in Sides : Among(KeyView(s), UnionView(c)) /\ Among(FromView(c, s, out), SourceView(s))
      /\ Cardinality({i \in DOMAIN out[Act] : out[Act][i] = 1})
           = Cardinality({p \in (DOMAIN left) \X (DOMAIN right) :
               left[p[1]].on /\ right[p[2]].on /\ left[p[1]].v = right[p[2]].v})

(***************************************************************************)
(* The prover.                                                             *)
(***************************************************************************)
NoClaims == [nodup |-> <<>>, lookup |-> <<>>, sum |-> <<>>]
Init ==
  /\ query \in Queries /\ mode = "ManyToMany"
  /\ pc = "decide" /\ frames = <<>> /\ coms = <<>> /\ misc = [count |-> 0, sum |-> 0]
  /\ tabs = Nothing /\ claims = NoClaims
  /\ vpc = "track" /\ vtabs = Nothing /\ vclaims = NoClaims

\* The planner's rule sets the mode of the node and of its gadget.
SetJoinMode ==
  /\ pc = "decide" /\ pc' = "plan"
  /\ mode' = DecideJoinMode
  /\ UNCHANGED <<query, frames, coms, misc, tabs, claims, vvars>>

Plan ==
  /\ pc = "plan" /\ pc' = IF HasOne THEN "commit" ELSE "gadget"
  /\ frames' = [output |-> Output]
  /\ misc' = [misc EXCEPT !.count = IF HasOne THEN 0 ELSE Len(Output.rows)]
  /\ UNCHANGED <<query, mode, coms, tabs, claims, vvars>>

GadgetPlan ==
  /\ pc = "gadget"
  /\ IF GadgetPlannable THEN pc' = "commit" /\ frames' = GadgetFrames(frames.output)
     ELSE pc' = "panic" /\ UNCHANGED frames
  /\ UNCHANGED <<query, mode, coms, misc, tabs, claims, vvars>>

\* Materialization, commitment and gadget initialization, where the lookups of
\* keys count.  Tables of different lengths fail a debug assertion.
Commit ==
  /\ pc = "commit"
  /\ LET c == [l \in Range(Labels) |->
                IF l \in DOMAIN frames THEN EncodedColumns(frames[l]) ELSE <<>>]
         keys(s) == <<Multiplicities(KeyView(s), UnionView(c))>>
         counted == IF HasOne THEN c
                    ELSE [c EXCEPT !.left_keys = keys("left"), !.right_keys = keys("right")]
     IN  /\ coms' = FlattenSeq([i \in DOMAIN Labels |->
                      IF Labels[i] \in DOMAIN frames THEN Commitments(frames[Labels[i]])
                      ELSE counted[Labels[i]]])
         /\ tabs' = counted
         /\ pc' \in IF HasOne /\ Size(c.output) # Size(Input(FkSide)) THEN {"prove", "panic"}
                    ELSE {"check", "prove"}
  /\ UNCHANGED <<query, mode, frames, misc, claims, vvars>>

\* Built with the honest-prover feature.
Check ==
  /\ pc = "check" /\ pc' = IF HonestCheck(tabs, misc.count) THEN "prove" ELSE "error"
  /\ UNCHANGED <<query, mode, frames, coms, misc, tabs, claims, vvars>>

\* The lookups of rows count while they are proved.
Prove ==
  /\ pc = "prove" /\ pc' = "sent"
  /\ LET out == OutputTable(tabs, misc.count)
         rows(s) == <<Multiplicities(FromView(tabs, s, out), SourceView(s))>>
         c == IF HasOne THEN tabs
              ELSE [tabs EXCEPT !.left_rows = rows("left"), !.right_rows = rows("right")]
         sum == IF HasOne THEN 0 ELSE Total(out[Act])
     IN  /\ tabs' = c /\ coms' = coms \o c.left_rows \o c.right_rows
         /\ misc' = [misc EXCEPT !.sum = sum]
         /\ claims' = JoinClaims(c, misc.count, sum)
  /\ UNCHANGED <<query, mode, frames, vvars>>

(***************************************************************************)
(* The verifier.                                                           *)
(***************************************************************************)
\* The committed columns of a table, from the plan alone.
FullSchema(l) ==
  CASE l = "output" -> Cols("left") \o Cols("right")
    [] l = "src_left" -> <<Src("left")>>
    [] l = "src_right" -> <<Src("right")>>
    [] l = "pairs" -> Append(<<Src("left"), Src("right")>>, Act)
    [] l = "union" -> Append(UnionFields, Act)
    [] OTHER -> <<1>>
\* Bug: of a partial output it expects the right table's columns.
SchemaRightIsPk(l) ==
  IF ~HasOne THEN FullSchema(l)
  ELSE IF l = "output" THEN Append(Cols("right"), Act) ELSE <<>>
Schema(l) ==
  IF ~HasOne THEN FullSchema(l)
  ELSE IF l = "output" THEN Append(Cols(PkSide), Act) ELSE <<>>
SchemaColumns ==
  FlattenSeq([i \in DOMAIN Labels |->
    [j \in DOMAIN Schema(Labels[i]) |-> <<Labels[i], Schema(Labels[i])[j]>>]])

VTrack ==
  /\ pc = "sent" /\ vpc = "track" /\ vpc' = "verify"
  /\ vtabs' = [l \in Range(Labels) |-> [n \in Range(Schema(l)) |->
                coms[CHOOSE i \in DOMAIN SchemaColumns : SchemaColumns[i] = <<l, n>>]]]
  /\ UNCHANGED <<query, mode, pvars, vclaims>>

VClaim ==
  /\ vpc = "verify" /\ vpc' = "done"
  /\ vclaims' = JoinClaims(vtabs, misc.count, misc.sum)
  /\ UNCHANGED <<query, mode, pvars, vtabs>>

Finished == pc \in {"panic", "error"} \/ vpc = "done"
Stop == Finished /\ UNCHANGED vars
Next ==
  SetJoinMode \/ Plan \/ GadgetPlan \/ Commit \/ Check \/ Prove \/ VTrack \/ VClaim \/ Stop
Spec == Init /\ [][Next]_vars

(***************************************************************************)
(* Properties.                                                             *)
(***************************************************************************)

\* A row of the left table that an outer join has to keep without a partner.
Unmatched == \E l \in ActiveRows("left") : Partners("left", l) = <<>>
Codes(s, row) == [j \in 1..KeyCount |-> Enc(Key(s, row)[j])]
\* Rows whose encoded keys agree are joined, and keys that differ in one table
\* have different encodings: no NULL met a NULL or a zero, no filter dropped a
\* pair.
Expressible ==
  /\ \A l \in ActiveRows("left"), r \in ActiveRows("right") :
       Codes("left", l) = Codes("right", r) => Matches(l, r)
  /\ \A s \in Sides : \A r, q \in ActiveRows(s) :
       Codes(s, r) = Codes(s, q) => Key(s, r) = Key(s, q)

\* Every equi-join the gadget can express is proved, in whatever order the two
\* executions of it return the rows: the prover does not stop, and what the
\* verifier checks is true.
JoinIsProvable ==
  ~HasOne /\ query.on # <<>> /\ Expressible /\ (query.type = "Left" => ~Unmatched)
  => pc \notin {"panic", "error"} /\ (vpc = "done" => AllHold(vclaims))

\* The verifier, which sees schemas, commitments and the counts sent only, gets
\* the prover's tables and makes its claims.
VerifierMirrors == vpc = "done" => vtabs = tabs /\ vclaims = claims

\* At most one active row of the primary key's side for each foreign key.
PartnersAreUnique == \A i \in DOMAIN Rows(FkSide) : Len(Partners(FkSide, Rows(FkSide)[i])) <= 1
\* The output table both sides end with holds the rows of the join, each as
\* often as the join does, whichever of the two forms it was materialized in.
ResultIsJoin ==
  vpc = "done" /\ (HasOne => PartnersAreUnique) =>
    LET out == OutputTable(vtabs, misc.count)
        view == View(out, Cols("left") \o Cols("right"), out[Act])
        join == [i \in DOMAIN JoinedPairs |->
                  LET row == Combined(JoinedPairs[i][1], JoinedPairs[i][2])
                  IN  [v |-> [n \in 1..4 |-> Enc(row[n])], on |-> TRUE]]
    IN  \A v \in Values(view) \cup Values(join) :
          TimesIn(view, v) = TimesIn(join, v)

\* "HasOne modes guarantee at most one PK match per FK row", says the comment that
\* the raw LEFT JOIN of a partial output relies on.  They do where the primary
\* key's side is a table as declared and the whole of its key is joined on.
WholeKey ==
  HasOne /\ query.source[PkSide] = "table"
    /\ query.pk \cap ColumnsOf(PkSide) \subseteq Range(KeyCols(PkSide))
\* A whole key has one partner a row.  Planning and materialization stop only for
\* what the code cannot do: an outer join's row without a partner, a join without
\* keys, and a partial output longer than its foreign key's table, which no whole
\* key leads to.
StopsOnlyWhen ==
  /\ pc # "decide" /\ WholeKey => PartnersAreUnique
  /\ pc = "panic" =>
       \/ query.on = <<>>
       \/ query.type = "Left" /\ Unmatched
       \/ HasOne /\ ~WholeKey /\ ~PartnersAreUnique
=============================================================================
