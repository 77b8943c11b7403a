------------------------------ MODULE SortCheck ------------------------------
(***************************************************************************)
(* Proving that a table is sorted.  A Sort node materializes its output    *)
(* and, apart from it, its sort keys in order; the NoDup gadget sorts its  *)
(* input to show that no row is twice in it.  Both hand the sorted rows to *)
(* the contig_sort gadget.  The prover plans the hint tables, commits      *)
(* them, checks itself if it is built to, and claims; the verifier knows   *)
(* the schemas and the commitments only, derives from the former which of  *)
(* the latter is which column, and claims the same.  Field arithmetic and  *)
(* the claims about signs are those of SignCheck, over a table's rows.     *)
(***************************************************************************)
EXTENDS SortHints, SequencesExt

CONSTANTS
  Types,      \* the types of the keys
  Inputs(_)   \* the inputs whose keys have these types, in turn: sequences of rows

ASSUME InputAssumption ==
  /\ Types \subseteq (Over({})!Type \ {"Decimal128"}) \cup SignOnly
  /\ \A k \in 1..MaxCols : \A types \in [1..k -> Types] : \A rows \in Inputs(types) :
       /\ rows \in Seq([0..k -> Int \cup {Null}])
       /\ \A i \in DOMAIN rows : rows[i][Act] \in {0, 1}

VARIABLES
  query,                      \* the gadget, its keys' types and specs, its input,
                              \* and whether the honest-prover feature is on
  pc, frames, coms, count,    \* the prover: hints, and what its proof holds
  tabs, claims,               \* its tables and claims
  vpc, vtabs, vclaims         \* the same for the verifier
pvars == <<pc, frames, coms, count, tabs, claims>>
vvars == <<vpc, vtabs, vclaims>>
vars == <<query, pvars, vvars>>

KeyCount == Len(query.specs)
KeySeq == [k \in 1..KeyCount |-> k]
\* Bug: NoDup asks for an order in which rows may repeat.
NeverStrictly == FALSE
Strictly == query.gadget = "nodup"
Data(fields) == {fields[i] : i \in DOMAIN fields} \ {Act, RowId}

(***************************************************************************)
(* Gadget planning on the prover's side.                                   *)
(***************************************************************************)
InputFrame ==
  LET fields == KeySeq \o <<Act, RowId>>
  IN  Frame(fields, query.rows, Data(fields) \cup {Act})

\* The node's own output has no row ids, or it would be materialized in the
\* order of its input.
SortOutput == Strip([InputFrame EXCEPT !.rows = Sorted(@, query.specs)])
\* NoDup numbers its rows anew instead; of the activator it sends the length.
LexSorted ==
  LET rows == Sorted(query.rows, query.specs)
  IN  [InputFrame EXCEPT
        !.rows = [i \in DOMAIN rows |-> [rows[i] EXCEPT ![RowId] = i - 1]],
        !.mat = @ \ {Act}]
OutputFrame == IF query.gadget = "sort" THEN SortOutput ELSE LexSorted

\* The rows contig_sort is given, sorted once more and padded.
ContigRows ==
  LET given == IF query.gadget = "sort" THEN Sorted(query.rows, query.specs) ELSE LexSorted.rows
  IN  Padded(Sorted(given, NullsLast(query.specs)))
\* Bug: the row ids of the Sort node's table are kept.
TableFrameKeepIds ==
  LET table == [InputFrame EXCEPT !.rows = ContigRows]
  IN  IF query.gadget = "sort" THEN table ELSE [table EXCEPT !.mat = {}]
\* The Sort node's table loses its ids and is committed; NoDup's is a view of
\* what it has committed itself.
TableFrame ==
  LET table == [InputFrame EXCEPT !.rows = ContigRows]
  IN  IF query.gadget = "sort" THEN Strip(table) ELSE [table EXCEPT !.mat = {}]

RotatedFrame ==
  Strip([InputFrame EXCEPT !.rows = Rotated(Sorted(ContigRows, NullsLast(query.specs)))])
TieFrame ==
  LET fields == TieFields(KeyCount)
  IN  Frame(fields, TieRows(Sorted(ContigRows, NullsLast(query.specs))), Range(fields))
DiffFrame ==
  Frame(KeySeq, DiffRows(query.types, query.specs, Sorted(ContigRows, NullsLast(query.specs))),
        Range(KeySeq))

Labels == <<"input", "output", "table", "rotated", "ties", "diffs">>
Planned ==
  [input |-> InputFrame, output |-> OutputFrame, table |-> TableFrame,
   rotated |-> RotatedFrame, ties |-> TieFrame, diffs |-> DiffFrame]
ActiveRows == Cardinality({i \in DOMAIN query.rows : query.rows[i][Act] = 1})

(***************************************************************************)
(* Gadget initialization, on both sides of the proof.                      *)
(***************************************************************************)
Size(t) == Len(t.rotated[1])
\* The activator of the first m rows.
Contig(n, m) == [i \in 1..n |-> IF i <= m THEN 1 ELSE 0]
\* NoDup gives contig_sort its own table, with the activator it rebuilt.
WithActivator(t, m) ==
  IF query.gadget = "sort" THEN t
  ELSE LET lex == [n \in DOMAIN t.output \cup {Act} |->
                    IF n = Act THEN Contig(Size(t), m) ELSE t.output[n]]
       IN  [t EXCEPT !.output = lex, !.table = lex]
\* tie_0 is a virtual column when it is not the only one.
AllTies(t) ==
  IF KeyCount = 1 THEN <<t.ties[FirstTie]>>
  ELSE <<[i \in 1..Size(t) |-> IF i < Size(t) THEN 1 ELSE 0]>>
         \o [j \in 1..(KeyCount - 1) |-> t.ties[j]]

\* 0 .. n-1 rotated right by s, as the prover builds it.
ShiftColumn(n, s) == [i \in 1..n |-> (i - 1 - s) % n]
\* Bug: the wrap-around threshold is off by one.
ShiftOracleLate(n, s) ==
  LET shift == s % n
  IN  [i \in 1..n |-> i - 1 + ((n - shift) % n) - (IF shift # 0 /\ i - 1 > shift THEN n ELSE 0)]
\* x >= bound, bit by bit from the top: at the first bit where they differ x
\* has a one, or there is none.
Bit(x, j) == (x \div TwoTo[j]) % 2
AtLeast(x, bound, bits) ==
  LET Agree(js) == \A j \in js : Bit(x, j) = Bit(bound, j)
  IN  \/ \E j \in 0..(bits - 1) :
           Bit(bound, j) = 0 /\ Bit(x, j) = 1 /\ Agree((j + 1)..(bits - 1))
      \/ Agree(0..(bits - 1))
Log2(n) == CHOOSE j \in 0..n : TwoTo[j] = n
\* As the verifier evaluates it: an offset, less n where it wraps around.
ShiftOracle(n, s) ==
  LET shift == s % n
  IN  [i \in 1..n |->
        i - 1 + ((n - shift) % n)
          - (IF shift # 0 /\ AtLeast(i - 1, shift, Log2(n)) THEN n ELSE 0)]

(***************************************************************************)
(* Claims.                                                                 *)
(***************************************************************************)
\* Columns folded into one with the weights 1, 2, .., here one row of them.
Folded(cells) ==
  LET f[k \in 0..Len(cells)] == IF k = 0 THEN 0 ELSE (f[k - 1] + k * cells[k]) % FieldSize
  IN  f[Len(cells)]
Cells(cols, i) == [k \in DOMAIN cols |-> cols[k][i]]
\* The folded active rows of two tables are the same bag.
PermClaim(left, leftAct, right, rightAct) ==
  [kind |-> "perm",
   left  |-> [i \in DOMAIN leftAct |-> <<Folded(Cells(left, i)), leftAct[i]>>],
   right |-> [i \in DOMAIN rightAct |-> <<Folded(Cells(right, i)), rightAct[i]>>]]
Times(side, v) == Cardinality({i \in DOMAIN side : side[i] = <<v, 1>>})
SameBag(claim) ==
  \A v \in {claim.left[i][1] : i \in DOMAIN claim.left}
             \cup {claim.right[i][1] : i \in DOMAIN claim.right} :
    Times(claim.left, v) = Times(claim.right, v)

Columns(tab) == [k \in 1..KeyCount |-> tab[k]]
One(t) == Over(1..Size(t))!All(1)
Product(t, a, b) == Over(1..Size(t))!ColMul(a, b)
Difference(t, a, b) == Over(1..Size(t))!ColSub(a, b)
\* Where a row and the next are both active.
BothActive(t) == Product(t, t.table[Act], t.rotated[Act])

\* A difference counts where the keys before it tie; elsewhere it is 0, or 1 if
\* the order is strict.
MaskedDiff(t, k) ==
  LET tie == AllTies(t)[k]
      diff == Product(t, t.diffs[k], tie)
  IN  IF Strictly THEN [i \in 1..Size(t) |-> Over({})!Add(diff[i], Difference(t, One(t), tie)[i])]
      ELSE diff
SignClaims(t, k) ==
  LET type == DiffType(query.types[k])
  IN  Over(1..Size(t))!RangeClaims(type, MaskedDiff(t, k), BothActive(t),
        Over(1..Size(t))!ChunkColumns(type, MaskedDiff(t, k), BothActive(t)))
StrictClaim(t) ==
  Over(1..Size(t))!NonZero([i \in 1..Size(t) |->
    <<MaskedDiff(t, KeyCount)[i], Over({})!Sub(1, BothActive(t)[i])>>])

\* Where the keys cease to tie, the next row's key is another one.
NeqClaim(t) ==
  LET ties == AllTies(t)
      Break(k) == Product(t, ties[k], Difference(t, One(t), ties[k + 1]))
      breaks == [i \in 1..Size(t) |-> IF \E k \in 1..(KeyCount - 1) : Break(k)[i] = 1 THEN 1 ELSE 0]
      Differs(i) == \E k \in 1..(KeyCount - 1) :
        Difference(t, Product(t, t.rotated[k], Break(k)), Product(t, t.table[k], Break(k)))[i] # 0
      act == Product(t, BothActive(t), breaks)
  IN  Over(1..Size(t))!NonZero([i \in 1..Size(t) |->
        <<IF Differs(i) THEN 1 ELSE 0,
          IF KeyCount = 1 THEN 1 ELSE Over({})!Sub(1, act[i])>>])

\* A longer prefix ties only where a shorter one does ..
PrefixTies(t) ==
  LET ties == AllTies(t)
  IN  [j \in 1..(KeyCount - 2) |->
        Over(1..Size(t))!Zero(Difference(t, Product(t, ties[j + 2], ties[j + 1]), ties[j + 2]))]
\* .. and where it does the keys of the two rows are equal.
TiesAreEqual(t) ==
  LET ties == AllTies(t)
  IN  [j \in 1..(KeyCount - 1) |->
        Over(1..Size(t))!Zero(
          Product(t, Product(t, Product(t, ties[j + 1], ties[1]), Difference(t, t.table[j], t.rotated[j])),
                 t.table[Act]))]
BoolClaim(t, j) ==
  Over(1..Size(t))!Zero(Product(t, AllTies(t)[j], Difference(t, One(t), AllTies(t)[j])))
RotationClaim(t, shifted, rows) ==
  PermClaim(Append(Columns(t.table), shifted), t.table[Act],
            Append(Columns(t.rotated), rows), t.rotated[Act])

SortClaims(t, shifted, rows) ==
  [perm     |-> <<PermClaim(Columns(t.input), t.input[Act], Columns(t.output), t.output[Act])>>,
   rotation |-> <<RotationClaim(t, shifted, rows)>>,
   bool     |-> [j \in 1..KeyCount |-> BoolClaim(t, j)],
   sign     |-> FlattenSeq([k \in 1..KeyCount |-> SignClaims(t, k)]),
   strict   |-> IF Strictly THEN <<StrictClaim(t)>> ELSE <<>>,
   neq      |-> <<NeqClaim(t)>>,
   order    |-> PrefixTies(t) \o TiesAreEqual(t)]

Holds(claim) ==
  IF claim.kind = "perm" THEN SameBag(claim)
  ELSE Over(DOMAIN claim.values)!Holds(claim)
AllHold(cs) == \A g \in DOMAIN cs : \A i \in DOMAIN cs[g] : Holds(cs[g][i])
(***************************************************************************)
(* The honest prover's checks.  contig_sort itself has none.               *)
(***************************************************************************)
ActiveBag(tab, row) ==
  Cardinality({i \in DOMAIN tab[Act] : tab[Act][i] = 1 /\ \A k \in 1..KeyCount : tab[k][i] = row[k]})
HonestPerm(left, right) ==
  \A tab \in {left, right} : \A i \in DOMAIN tab[Act] :
    LET row == [k \in 1..KeyCount |-> tab[k][i]]
    IN  tab[Act][i] = 1 => ActiveBag(left, row) = ActiveBag(right, row)
\* An active row's counterpart is its row of the rotated table, and active.
HonestRotation(t) ==
  LET n == Size(t)
  IN  \A i \in 1..n :
        LET to == ShiftColumn(n, 1)[i] + 1
        IN  /\ t.table[Act][i] = t.rotated[Act][to]
            /\ t.table[Act][i] = 1 => \A k \in 1..KeyCount : t.table[k][i] = t.rotated[k][to]
HonestSigns(t) ==
  LET rows == 1..Size(t)
      ties == AllTies(t)
      both == [i \in rows |-> t.table[Act][i] * t.rotated[Act][i]]
      Masked(k) == [i \in rows |-> IF ties[k][i] = 1 THEN t.diffs[k][i]
                                   ELSE IF Strictly THEN 1 ELSE 0]
  IN  \A k \in 1..KeyCount :
        Over(rows)!HonestSign(DiffType(query.types[k]),
          IF Strictly /\ k = KeyCount THEN "Positive" ELSE "NonNegative", Masked(k), both)
HonestNeq(t) ==
  LET ties == AllTies(t)
      Break(k, i) == k < KeyCount /\ ties[k][i] = 1 /\ ties[k + 1][i] = 0
  IN  \A i \in 1..Size(t) :
        (\E k \in 1..KeyCount : Break(k, i)) /\ t.table[Act][i] * t.rotated[Act][i] = 1
          => \E k \in 1..KeyCount : Break(k, i) /\ t.table[k][i] # t.rotated[k][i]
\* NoDup looks for an active row that is twice in its input.
Repeated(tab) ==
  \E i, j \in DOMAIN tab[Act] :
    i # j /\ tab[Act][i] = 1 /\ tab[Act][j] = 1 /\ \A k \in 1..KeyCount : tab[k][i] = tab[k][j]
HonestCheck(t) ==
  /\ HonestPerm(t.input, t.output)
  /\ HonestRotation(t)
  /\ HonestSigns(t)
  /\ HonestNeq(t)
  /\ Strictly => ~Repeated(t.input)

(***************************************************************************)
(* The prover.                                                             *)
(***************************************************************************)
NoTables == [l \in Range(Labels) |-> <<>>]
NoClaims == [g \in {"perm", "rotation", "bool", "sign", "strict", "neq", "order"} |-> <<>>]

\* A Sort node orders each key one way, NULLs first if descending; NoDup sorts
\* every column in descending order.
Specs(gadget, k) ==
  IF gadget = "nodup" THEN {[j \in 1..k |-> [asc |-> FALSE, nullsFirst |-> FALSE]]}
  ELSE [1..k -> {[asc |-> a, nullsFirst |-> ~a] : a \in BOOLEAN}]

Init ==
  /\ \E g \in {"sort", "nodup"}, k \in 1..MaxCols, honest \in BOOLEAN :
       \E types \in [1..k -> Types], specs \in Specs(g, k) : \E rows \in Inputs(types) :
         query = [gadget |-> g, types |-> types, specs |-> specs, honest |-> honest,
                  rows |-> [i \in DOMAIN rows |-> [n \in -1..MaxCols |->
                    CASE n = Act -> rows[i][Act] [] n = RowId -> i - 1
                      [] n \in 1..k -> rows[i][n] [] OTHER -> Null]]]
  /\ pc = "plan" /\ frames = <<>> /\ coms = <<>> /\ count = 0
  /\ tabs = NoTables /\ claims = NoClaims
  /\ vpc = "track" /\ vtabs = NoTables /\ vclaims = NoClaims

Plan ==
  /\ pc = "plan" /\ pc' = "commit"
  /\ frames' = Planned
  /\ count' = IF query.gadget = "nodup" THEN ActiveRows ELSE 0
  /\ UNCHANGED <<query, coms, tabs, claims, vvars>>

\* In a build that checks arithmetic.
PlanPanics ==
  /\ pc = "plan" /\ Overflows(query.types, query.specs, Sorted(ContigRows, NullsLast(query.specs)))
  /\ pc' = "panic"
  /\ UNCHANGED <<query, frames, coms, count, tabs, claims, vvars>>

\* Materialization, commitment and gadget initialization.
Commit ==
  /\ pc = "commit" /\ pc' = IF query.honest THEN "check" ELSE "prove"
  /\ coms' = FlattenSeq([l \in DOMAIN Labels |-> Commitments(frames[Labels[l]])])
  /\ tabs' = WithActivator([l \in Range(Labels) |-> EncodedColumns(frames[l])], count)
  /\ UNCHANGED <<query, frames, count, claims, vvars>>

Check ==
  /\ pc = "check" /\ pc' = IF HonestCheck(tabs) THEN "prove" ELSE "error"
  /\ UNCHANGED <<query, frames, coms, count, tabs, claims, vvars>>

Prove ==
  /\ pc = "prove" /\ pc' = "sent"
  /\ claims' = SortClaims(tabs, ShiftColumn(Size(tabs), 1), ShiftColumn(Size(tabs), 0))
  /\ UNCHANGED <<query, frames, coms, count, tabs, vvars>>

(***************************************************************************)
(* The verifier.                                                           *)
(***************************************************************************)
\* The committed columns of each hint table, from the schema of the input.
Schema(label) ==
  CASE label \in {"input", "rotated"} -> Append(KeySeq, Act)
    [] label = "output" -> IF query.gadget = "sort" THEN Append(KeySeq, Act) ELSE KeySeq
    [] label = "table" -> IF query.gadget = "sort" THEN Append(KeySeq, Act) ELSE <<>>
    [] label = "ties" -> IF KeyCount = 1 THEN <<FirstTie>> ELSE [j \in 1..(KeyCount - 1) |-> j]
    [] label = "diffs" -> KeySeq
SchemaColumns ==
  FlattenSeq([l \in DOMAIN Labels |->
    [i \in DOMAIN Schema(Labels[l]) |-> <<Labels[l], Schema(Labels[l])[i]>>]])

\* The commitments are tracked in the order they come in.
VTrack ==
  /\ pc = "sent" /\ vpc = "track" /\ vpc' = "verify"
  /\ vtabs' = WithActivator(
       [l \in Range(Labels) |-> [n \in Range(Schema(l)) |->
         coms[CHOOSE i \in DOMAIN SchemaColumns : SchemaColumns[i] = <<l, n>>]]], count)
  /\ UNCHANGED <<query, pvars, vclaims>>

VClaim ==
  /\ vpc = "verify" /\ vpc' = "done"
  /\ vclaims' = SortClaims(vtabs, ShiftOracle(Size(vtabs), 1), ShiftOracle(Size(vtabs), 0))
  /\ UNCHANGED <<query, pvars, vtabs>>

Finished == pc \in {"panic", "error"} \/ vpc = "done"
Stop == Finished /\ UNCHANGED vars
Next == Plan \/ PlanPanics \/ Commit \/ Check \/ Prove \/ VTrack \/ VClaim \/ Stop
Spec == Init /\ [][Next]_vars

(***************************************************************************)
(* Properties.                                                             *)
(***************************************************************************)

\* The rows shown to be sorted, and those of them that are compared.
Shown == Sorted(query.rows, NullsLast(query.specs))
Neighbours == {i \in 1..(Len(Shown) - 1) : Shown[i + 1][Act] = 1}
\* The first key in which a row and the next differ, or the last.
Decisive(i) ==
  CHOOSE k \in 1..KeyCount :
    /\ SameUpTo(Shown[i], Shown[i + 1], k - 1)
    /\ k = KeyCount \/ Shown[i][k] # Shown[i + 1][k]
\* A difference of integers that is what its type keeps of it.
Fits(t, spec, own, next) ==
  IF spec.asc THEN Diff(t, next, own) = next - own ELSE Diff(t, own, next) = own - next
\* The key that follows is not before this one: false of a NULL in whose place
\* stands the first row's, unless the two are equal or other keys come first.
InOrderOf(spec, own, next) == IF spec.asc THEN own <= next ELSE next <= own
\* Where two neighbours differ the difference fits its type, no NULL has to be
\* told from a zero, nor, in the last of the keys of a strict order, from
\* anything; and in a table with a key the code has no difference of its own
\* for, a NULL, as good as the first row's key, does not come after a greater
\* one, of a type whose differences may be negative.
Expressible ==
  \A i \in Neighbours :
    LET k == Decisive(i)
        t == query.types[k]
        spec == query.specs[k]
        a == Shown[i][k]
        b == Shown[i + 1][k]
        first == Shown[1][k]
    IN  /\ Null \notin {a, b} /\ t \notin SignOnly => Fits(t, spec, a, b)
        /\ ByWindows(query.types) /\ b = Null /\ Null \notin {a, first}
             /\ (t \in SignOnly \/ Over({})!Signed(t)) =>
             /\ InOrderOf(spec, a, first)
             /\ t \notin SignOnly => Fits(t, spec, a, first)
        /\ k < KeyCount => Enc(a) # Enc(b)
        /\ k = KeyCount /\ Strictly => Null \notin {a, b}
\* Keys whose differences the code takes itself, and which fit from row to row
\* and from the last to the first.
Closed ==
  ByWindows(query.types) \/
    \A i \in DOMAIN Shown, k \in 1..KeyCount :
      LET a == Shown[i][k]
          b == Shown[IF i = Len(Shown) THEN 1 ELSE i + 1][k]
      IN  Null \notin {a, b} => Fits(query.types[k], query.specs[k], a, b)
HasRepeats ==
  \E i, j \in DOMAIN query.rows :
    /\ i # j /\ query.rows[i][Act] = 1 /\ query.rows[j][Act] = 1
    /\ SameUpTo(query.rows[i], query.rows[j], KeyCount)
\* The same row twice, or rows that differ where one has a NULL and the other a
\* zero only: NoDup compares encodings, next to each other or not.
HasLookalikes ==
  \E i, j \in DOMAIN query.rows :
    /\ i # j /\ query.rows[i][Act] = 1 /\ query.rows[j][Act] = 1
    /\ \A k \in 1..KeyCount : Enc(query.rows[i][k]) = Enc(query.rows[j][k])

\* Every order contig_sort can express is proved: the prover does not stop, and
\* what the verifier checks is true (of NoDup, when no two rows look alike).  Of
\* any order, the prover panics only if a difference the code takes does not fit.
SortedIsProvable ==
  /\ Expressible /\ (query.gadget = "nodup" => ~HasLookalikes) =>
       pc # "error" /\ (vpc = "done" => AllHold(vclaims))
  /\ Closed => pc # "panic"

\* The verifier, which sees schemas and commitments only and evaluates the
\* shift by its bits, makes the prover's claims.
VerifierMirrors == vpc = "done" => vtabs = tabs /\ vclaims = claims

\* The order shown is that of the node's output, unless a descending key holds
\* NULLs: the query puts them first, contig_sort last.
ShownIsOutput ==
  pc = "sent" /\ query.gadget = "sort"
    /\ (\A i \in DOMAIN query.rows, k \in 1..KeyCount :
          query.rows[i][Act] = 1 /\ query.specs[k].nullsFirst => query.rows[i][k] # Null)
  => \A i \in DOMAIN tabs.table[Act] :
       /\ tabs.table[Act][i] = tabs.output[Act][i]
       /\ tabs.table[Act][i] = 1 => \A k \in 1..KeyCount : tabs.table[k][i] = tabs.output[k][i]

\* A NoDup that had an active row twice in its input does not verify, whether
\* or not the prover checked itself.
AcceptedHasNoRepeats ==
  query.gadget = "nodup" /\ HasRepeats /\ vpc = "done" => ~AllHold(vclaims)
=============================================================================
