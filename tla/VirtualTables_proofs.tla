------------------------ MODULE VirtualTables_proofs ------------------------
(***************************************************************************)
(* The tables of a plan for scans of any size and plans of any length: the *)
(* prover's polynomials are the hint tables, the verifier's oracles are    *)
(* the prover's polynomials, and what the gadgets claim of them is true.   *)
(***************************************************************************)
EXTENDS VirtualTables, FiniteSetTheorems, SequenceTheorems, WellFoundedInduction, TLAPS

-----------------------------------------------------------------------------
(* Ranks: the row numbers of the active rows.                              *)

LEMMA ActiveFinite ==
  ASSUME NEW t, t.n \in Nat
  PROVE  /\ IsFiniteSet(Active(t)) /\ Active(t) \subseteq 1..t.n
         /\ Cardinality(Active(t)) \in Nat
<1>1. IsFiniteSet(1..t.n)
  BY FS_Interval
<1>2. Active(t) \in SUBSET (1..t.n)
  BY DEF Active
<1>3. IsFiniteSet(Active(t))
  BY <1>1, <1>2, FS_Subset
<1> QED BY <1>2, <1>3, FS_CardinalityType

\* The rank of an active row lies between 1 and the number of active rows.
LEMMA RankBounds ==
  ASSUME NEW t, t.n \in Nat, NEW i \in Active(t)
  PROVE  Rank(t, i) \in 1..Cardinality(Active(t))
<1> DEFINE Upto == { j \in Active(t) : j <= i }
<1>1. Upto \in SUBSET Active(t) /\ i \in Upto
  BY ActiveFinite
<1>2. IsFiniteSet(Upto) /\ Cardinality(Upto) <= Cardinality(Active(t))
  BY <1>1, ActiveFinite, FS_Subset
<1>3. Cardinality(Upto) \in Nat /\ Cardinality(Upto) # 0
  BY <1>1, <1>2, FS_CardinalityType, FS_EmptySet
<1> QED BY <1>2, <1>3, ActiveFinite DEF Rank

\* A later active row has a higher rank.
LEMMA RankMonotonic ==
  ASSUME NEW t, t.n \in Nat, NEW i \in Active(t), NEW j \in Active(t), i < j
  PROVE  Rank(t, i) < Rank(t, j)
<1> DEFINE Low == { k \in Active(t) : k <= i }
           High == { k \in Active(t) : k <= j }
<1>1. i \in Nat /\ j \in Nat /\ Active(t) \subseteq Nat
  BY ActiveFinite
<1>2. High \in SUBSET Active(t) /\ Low \in SUBSET High /\ j \in High /\ j \notin Low
  BY <1>1
<1>3. IsFiniteSet(High)
  BY <1>2, ActiveFinite, FS_Subset
<1>4. Cardinality(Low) <= Cardinality(High) /\ Cardinality(Low) # Cardinality(High)
      /\ IsFiniteSet(Low)
  <2> HIDE DEF Low, High
  <2> QED BY <1>2, <1>3, FS_Subset
<1>5. Cardinality(Low) \in Nat /\ Cardinality(High) \in Nat
  BY <1>3, <1>4, FS_CardinalityType
<1> QED BY <1>4, <1>5 DEF Rank

\* Every number up to the number of active rows is the rank of one of them.
LEMMA RankOnto ==
  ASSUME NEW t, t.n \in Nat, NEW r \in 1..Cardinality(Active(t))
  PROVE  \E i \in Active(t) : Rank(t, i) = r
<1> DEFINE N == Cardinality(Active(t))
           rank == [i \in Active(t) |-> Rank(t, i)]
<1>1. N \in Nat /\ Active(t) \subseteq Nat
  BY ActiveFinite
<1>2. rank \in [Active(t) -> 1..N]
  BY RankBounds
<1>3. \A i, j \in Active(t) : rank[i] = rank[j] => i = j
  <2> SUFFICES ASSUME NEW i \in Active(t), NEW j \in Active(t), i # j
               PROVE  Rank(t, i) # Rank(t, j)
    OBVIOUS
  <2>1. i < j \/ j < i
    BY <1>1
  <2>2. Rank(t, i) \in Nat /\ Rank(t, j) \in Nat
    BY <1>1, RankBounds
  <2> QED BY <2>1, <2>2, RankMonotonic
<1>4. rank \in Injection(Active(t), 1..N)
  BY <1>2, <1>3 DEF Injection, IsInjective
<1>5. IsFiniteSet(1..N) /\ Cardinality(1..N) = N
  BY <1>1, FS_Interval
<1>6. rank \in Surjection(Active(t), 1..N)
  BY <1>4, <1>5, FS_Injection
<1> QED BY <1>6 DEF Surjection

\* The contiguous mask keeps the rows whose number is within the fetch:
\* counting active rows up to the fetch-th (limit/mod.rs) and comparing
\* row_number() with the fetch (limit/hints.rs) select the same rows.
LEMMA MaskIsRowNumber ==
  ASSUME NEW t, t.n \in Nat, NEW f, IsFetch(f), NEW i \in Active(t)
  PROVE  i <= ContigS(t, f) <=> (f = NoFetch \/ Rank(t, i) <= f)
<1>1. i \in 1..t.n /\ Active(t) \subseteq 1..t.n
  BY ActiveFinite
<1>2. Rank(t, i) \in 1..Cardinality(Active(t)) /\ Cardinality(Active(t)) \in Nat
  BY RankBounds, ActiveFinite
<1>3. CASE f = NoFetch
  <2>1. \A j \in Active(t) : Rank(t, j) # f
    BY <1>3, RankBounds, ActiveFinite, RowsAssumption
  <2>2. ContigS(t, f) = t.n
    BY <1>3, <2>1, RowsAssumption DEF ContigS
  <2> QED BY <1>1, <1>3, <2>2
<1>4. CASE f = 0
  <2>1. f # NoFetch /\ ContigS(t, f) = 0
    BY <1>4, RowsAssumption DEF ContigS
  <2> QED BY <1>1, <1>2, <1>4, <2>1
<1>5. CASE f \in Nat /\ f # 0
  <2> DEFINE hits == { j \in Active(t) : Rank(t, j) = f }
  <2>1. f # NoFetch
    BY <1>5, RowsAssumption
  <2>2. CASE hits = {}
    <3>1. ContigS(t, f) = t.n
      BY <1>5, <2>1, <2>2 DEF ContigS
    <3>2. Cardinality(Active(t)) < f
      BY <1>2, <1>5, <2>2, RankOnto
    <3> QED BY <1>1, <1>2, <1>5, <3>1, <3>2
  <2>3. CASE hits # {}
    <3> DEFINE h == CHOOSE j \in hits : TRUE
    <3>1. h \in Active(t) /\ Rank(t, h) = f
      BY <2>3
    <3>2. ContigS(t, f) = h
      BY <1>5, <2>1, <2>3 DEF ContigS
    <3> HIDE DEF h
    <3>3. h \in Nat
      BY <1>1, <3>1
    <3>4. CASE i < h
      BY <1>1, <1>2, <1>5, <3>1, <3>2, <3>3, <3>4, RankMonotonic
    <3>5. CASE i = h
      BY <1>1, <1>5, <3>1, <3>2, <3>5
    <3>6. CASE h < i
      BY <1>1, <1>2, <1>5, <2>1, <3>1, <3>2, <3>3, <3>6, RankMonotonic
    <3> QED BY <1>1, <3>3, <3>4, <3>5, <3>6
  <2> QED BY <2>2, <2>3
<1> QED BY <1>3, <1>4, <1>5 DEF IsFetch

-----------------------------------------------------------------------------
(* Padding and the tables of each operator.                                *)

IsShape(t) == t = [n |-> t.n, row |-> t.row, act |-> t.act] /\ t.n \in Nat

LEMMA PadFits ==
  ASSUME NEW scan \in Scans, NEW n \in 0..scan.n
  PROVE  PadSize(n) \in Nat /\ n <= PadSize(n)
<1>1. scan.n \in Nat
  BY ScansAssumption DEF IsTable
<1>2. CASE n = 0
  BY <1>2 DEF PadSize
<1>3. CASE n # 0
  <2>1. n \in 1..scan.n
    BY <1>1, <1>3
  <2>2. \E s \in Sizes : s >= n /\ s < 2 * n
    BY <2>1, SizesAssumption
  <2> DEFINE c == CHOOSE s \in Sizes : s >= n /\ s < 2 * n
  <2>3. c \in Sizes /\ c >= n
    BY <2>2
  <2>4. PadSize(n) = c
    BY <1>3 DEF PadSize
  <2> HIDE DEF c
  <2> QED BY <1>1, <2>1, <2>3, <2>4, SizesAssumption
<1> QED BY <1>2, <1>3

LEMMA NewActivator ==
  ASSUME NEW n, NEW row, NEW a, NEW b
  PROVE  WithAct([n |-> n, row |-> row, act |-> a], b)
           = [n |-> n, row |-> row, act |-> b]
  BY DEF WithAct

LEMMA ShapeActivator ==
  ASSUME NEW t, t = [n |-> t.n, row |-> t.row, act |-> t.act], NEW b
  PROVE  WithAct(t, b) = [n |-> t.n, row |-> t.row, act |-> b]
<1> DEFINE u == [n |-> t.n, row |-> t.row, act |-> t.act]
<1>1. WithAct(u, b) = [n |-> t.n, row |-> t.row, act |-> b]
  BY NewActivator
<1>2. t = u
  OBVIOUS
<1> HIDE DEF u
<1> QED BY <1>1, <1>2

\* What padding leaves of the activator a of a table t.
PadAct(n, a) == [i \in 1..PadSize(n) |-> i <= n /\ a[i]]

LEMMA PadNewActivator ==
  ASSUME NEW t, IsShape(t), NEW a
  PROVE  /\ Pad(WithAct(t, a)) = [Pad(t) EXCEPT !.act = PadAct(t.n, a)]
         /\ Pad(WithAct(t, a)).act = PadAct(t.n, a)
<1>1. WithAct(t, a) = [n |-> t.n, row |-> t.row, act |-> a]
  BY NewActivator DEF IsShape
<1>2. Pad([n |-> t.n, row |-> t.row, act |-> a])
        = [n |-> PadSize(t.n), row |-> Pad(t).row, act |-> PadAct(t.n, a)]
  BY DEF Pad, PadAct
<1>3. Pad(t) = [n |-> PadSize(t.n), row |-> Pad(t).row, act |-> Pad(t).act]
  BY DEF Pad
<1> QED BY <1>1, <1>2, <1>3

\* Padding adds no active row and moves none.
LEMMA PadActive ==
  ASSUME NEW t, t.n \in Nat, PadSize(t.n) \in Nat, t.n <= PadSize(t.n)
  PROVE  Active(Pad(t)) = Active(t) /\ \A i : Rank(Pad(t), i) = Rank(t, i)
<1>1. Active(Pad(t)) = Active(t)
  <2>1. Pad(t).n = PadSize(t.n)
    BY DEF Pad
  <2>2. \A i \in 1..PadSize(t.n) : Pad(t).act[i] <=> i <= t.n /\ t.act[i]
    BY DEF Pad
  <2>3. ASSUME NEW i PROVE i \in Active(Pad(t)) <=> i \in Active(t)
    BY <2>1, <2>2 DEF Active
  <2> QED BY <2>3
<1> QED BY <1>1 DEF Rank

\* A masked predicate column is the activator planning computed for the filter.
LEMMA FilterAgrees ==
  ASSUME NEW t, IsShape(t), NEW f, f.masked = TRUE
  PROVE  WithAct(Pad(t), PredColumn(t, f)) = Pad(FilterHint(t, f))
<1> DEFINE a == [i \in 1..t.n |-> t.act[i] /\ t.row[i] \in f.keep]
           b == [i \in 1..t.n |-> /\ f.masked => t.act[i]
                                  /\ t.row[i] \in f.keep]
<1>1. a = b
  OBVIOUS
<1>2. FilterHint(t, f) = WithAct(t, a) /\ PredColumn(t, f) = Pad(WithAct(t, a)).act
  BY <1>1 DEF FilterHint, PredColumn
<1> HIDE DEF a, b
<1>3. Pad(WithAct(t, a)) = WithAct(Pad(t), Pad(WithAct(t, a)).act)
  BY PadNewActivator DEF WithAct
<1> QED BY <1>2, <1>3

\* Masking the prover's activator is padding the activator of row_number().
LEMMA LimitAgrees ==
  ASSUME NEW t, IsShape(t), PadSize(t.n) \in Nat, t.n <= PadSize(t.n),
         NEW l, l.skip = 0, IsFetch(l.fetch)
  PROVE  LimitMask(Pad(t), ContigS(Pad(t), l.fetch)) = Pad(LimitHint(t, l))
<1> DEFINE P == Pad(t)
           S == ContigS(P, l.fetch)
           a == [i \in 1..t.n |-> t.act[i] /\ InRange(t, i, l)]
<1>1. P.n = PadSize(t.n) /\ P.n \in Nat /\ t.n \in Nat
  BY DEF Pad, IsShape
<1>2. LimitHint(t, l) = WithAct(t, a)
  BY DEF LimitHint
<1>3. ASSUME NEW i \in 1..P.n
      PROVE  (P.act[i] /\ i <= S) <=> (i <= t.n /\ a[i])
  <2>1. CASE i \in Active(t)
    <3>1. i \in 1..t.n /\ t.act[i] /\ P.act[i] /\ i \in Active(P)
      BY <2>1, <1>1, PadActive DEF Active, Pad
    <3>2. i <= S <=> (l.fetch = NoFetch \/ Rank(P, i) <= l.fetch)
      BY <3>1, <1>1, MaskIsRowNumber
    <3>3. Rank(P, i) = Rank(t, i) /\ Rank(t, i) >= 1
      BY <2>1, <1>1, PadActive, RankBounds, ActiveFinite
    <3>4. a[i] <=> (l.fetch = NoFetch \/ Rank(t, i) <= l.fetch)
      <4>1. l.fetch # NoFetch => l.fetch \in Nat /\ 0 + l.fetch = l.fetch
        BY DEF IsFetch
      <4>2. 0 + 1 = 1
        OBVIOUS
      <4> QED BY <3>1, <3>3, <4>1, <4>2 DEF InRange, RowNumber
    <3> QED BY <3>1, <3>2, <3>3, <3>4
  <2>2. CASE i \notin Active(t)
    <3>1. ~(i <= t.n /\ t.act[i])
      BY <1>1, <2>2 DEF Active
    <3>2. P.act[i] <=> i <= t.n /\ t.act[i]
      BY <1>1 DEF Pad
    <3>3. i <= t.n => a[i] = (t.act[i] /\ InRange(t, i, l))
      BY <1>1
    <3> QED BY <3>1, <3>2, <3>3
  <2> QED BY <2>1, <2>2
<1>4. \A j \in 1..P.n : Contig(P.n, S)[j] = (j <= S)
  BY DEF Contig
<1>5. [j \in 1..P.n |-> P.act[j] /\ Contig(P.n, S)[j]] = PadAct(t.n, a)
  BY <1>1, <1>3, <1>4 DEF PadAct
<1> HIDE DEF a, S, P
<1>6. LimitMask(P, S) = WithAct(P, PadAct(t.n, a))
  BY <1>5 DEF LimitMask
<1> QED BY <1>2, <1>6, PadNewActivator DEF WithAct, P, S

\* The rematerialized rows are the active ones, and the mask is as long.
LEMMA RematAgrees ==
  ASSUME NEW t, IsShape(t), PadSize(t.n) \in Nat, t.n <= PadSize(t.n)
  PROVE  RematMask(Pad(RematHint(t)), Cardinality(Active(Pad(t)))) = Pad(RematHint(t))
<1> DEFINE n == Cardinality(Active(t))
           h == RematHint(t)
<1>1. h.n = n /\ h.act = [k \in 1..n |-> TRUE] /\ n \in Nat
  BY ActiveFinite DEF RematHint, IsShape
<1>2. Cardinality(Active(Pad(t))) = n
  BY PadActive DEF IsShape
<1>3. h = [n |-> n, row |-> h.row, act |-> h.act]
  BY DEF RematHint
<1> HIDE DEF n, h
<1>4. Pad(h).n = PadSize(n)
  BY <1>1 DEF Pad
<1>5. Contig(PadSize(n), n) = PadAct(n, h.act)
  BY <1>1 DEF Contig, PadAct
<1>6. WithAct(Pad(h), PadAct(n, h.act)) = Pad(WithAct(h, h.act))
  BY <1>1, <1>3, PadNewActivator DEF WithAct, IsShape
<1>7. WithAct(h, h.act) = h
  BY <1>3, NewActivator
<1> QED BY <1>2, <1>4, <1>5, <1>6, <1>7 DEF RematMask, h

\* Hint tables never grow.
LEMMA HintShapes ==
  ASSUME NEW t, IsShape(t), NEW o, IsOperator(o)
  PROVE  /\ IsShape(FilterHint(t, o)) /\ FilterHint(t, o).n = t.n
         /\ IsShape(LimitHint(t, o)) /\ LimitHint(t, o).n = t.n
         /\ o.op = "Sort" => IsShape(SortHint(t, o)) /\ SortHint(t, o).n <= t.n
         /\ IsShape(RematHint(t)) /\ RematHint(t).n <= t.n
<1>1. IsShape(FilterHint(t, o)) /\ FilterHint(t, o).n = t.n
  BY DEF IsShape, FilterHint, WithAct
<1>2. IsShape(LimitHint(t, o)) /\ LimitHint(t, o).n = t.n
  BY DEF IsShape, LimitHint, WithAct
<1>3. o.op = "Sort" => IsShape(SortHint(t, o)) /\ SortHint(t, o).n <= t.n
  <2> SUFFICES ASSUME o.op = "Sort"
               PROVE  IsShape(SortHint(t, o)) /\ SortHint(t, o).n <= t.n
    OBVIOUS
  <2>1. IsFetch(o.fetch)
    BY DEF IsOperator, Rematerialize
  <2> DEFINE m == IF o.fetch = NoFetch \/ t.n < o.fetch THEN t.n ELSE o.fetch
  <2>2. m \in Nat /\ m <= t.n
    BY <2>1 DEF IsFetch, IsShape
  <2>3. SortHint(t, o).n = m
    BY DEF SortHint
  <2>4. SortHint(t, o) = [n |-> SortHint(t, o).n, row |-> SortHint(t, o).row,
                          act |-> SortHint(t, o).act]
    BY DEF SortHint
  <2> HIDE DEF m
  <2> QED BY <2>2, <2>3, <2>4 DEF IsShape
<1>4. IsShape(RematHint(t)) /\ RematHint(t).n <= t.n
  <2>1. Cardinality(Active(t)) \in Nat /\ Cardinality(Active(t)) <= t.n
    <3>1. Active(t) \in SUBSET (1..t.n) /\ IsFiniteSet(1..t.n)
      BY ActiveFinite, FS_Interval DEF IsShape
    <3>2. Cardinality(Active(t)) <= Cardinality(1..t.n)
      BY <3>1, FS_Subset
    <3>3. Cardinality(1..t.n) = t.n
      BY FS_Interval DEF IsShape
    <3> QED BY <3>2, <3>3, ActiveFinite DEF IsShape
  <2> QED BY <2>1 DEF RematHint, IsShape
<1> QED BY <1>1, <1>2, <1>3, <1>4

-----------------------------------------------------------------------------
(* The inductive invariant.                                                *)

IsSeq(s) == s \in Seq({ s[i] : i \in DOMAIN s })

LEMMA AppendSeq ==
  ASSUME NEW s, IsSeq(s), NEW e
  PROVE  /\ IsSeq(Append(s, e))
         /\ Len(s) \in Nat /\ Len(Append(s, e)) = Len(s) + 1
         /\ \A i \in 1..Len(s) : Append(s, e)[i] = s[i]
         /\ Append(s, e)[Len(s) + 1] = e
<1> DEFINE T == { s[i] : i \in DOMAIN s } \cup {e}
           a == Append(s, e)
<1>1. s \in Seq(T) /\ Len(s) \in Nat
  BY LenProperties DEF IsSeq
<1>2. e \in T
  OBVIOUS
<1> HIDE DEF T
<1>3. /\ a \in Seq(T) /\ Len(a) = Len(s) + 1
      /\ \A i \in 1..Len(s) : a[i] = s[i]
      /\ a[Len(s) + 1] = e
  BY <1>1, <1>2, AppendProperties
<1>4. IsSeq(a)
  <2>1. a \in [1..Len(a) -> T] /\ DOMAIN a = 1..Len(a) /\ Len(a) \in Nat
    BY <1>3, LenProperties
  <2>2. a \in [1..Len(a) -> { a[i] : i \in DOMAIN a }]
    BY <2>1
  <2> HIDE DEF a
  <2> QED BY <2>1, <2>2 DEF IsSeq
<1> QED BY <1>1, <1>3, <1>4

\* The passes: planning is ahead of proving, and proving of verifying.
Lengths ==
  /\ plan \in Plans /\ IsSeq(hint) /\ IsSeq(tracked) /\ IsSeq(oracle)
  /\ 1 <= Len(oracle) /\ Len(oracle) <= Len(tracked)
  /\ Len(tracked) <= Len(hint) /\ Len(hint) <= Len(plan) + 1

\* Hint tables have a shape, and none is longer than the scan.
HintsShaped ==
  \E scan \in Scans : \A i \in 1..Len(hint) : IsShape(hint[i]) /\ hint[i].n <= scan.n

\* Each hint table comes from the one below it.
HintsLinked ==
  \A i \in 1..(Len(hint) - 1) :
    /\ plan[i].op = "Filter" => hint[i + 1] = FilterHint(hint[i], plan[i])
    /\ plan[i].op = "Limit" => hint[i + 1] = LimitHint(hint[i], plan[i])
    /\ plan[i].op = "Sort" => hint[i + 1] = SortHint(hint[i], plan[i])
    /\ plan[i].op = "Rematerialize" => hint[i + 1] = RematHint(hint[i])

Agreement == Masked => \A i \in 1..Len(tracked) : tracked[i] = Pad(hint[i])

Inv == Lengths /\ HintsShaped /\ HintsLinked /\ Agreement

LEMMA IsSeqLen ==
  ASSUME NEW s, IsSeq(s)
  PROVE  Len(s) \in Nat /\ DOMAIN s = 1..Len(s)
  BY LenProperties DEF IsSeq

LEMMA Single ==
  ASSUME NEW t
  PROVE  IsSeq(<<t>>) /\ Len(<<t>>) = 1 /\ <<t>>[1] = t
<1>1. Len(<<t>>) = 1 /\ <<t>>[1] = t /\ DOMAIN <<t>> = 1..1
  OBVIOUS
<1>2. { <<t>>[i] : i \in DOMAIN <<t>> } = {t}
  BY <1>1
<1> QED BY <1>1, <1>2 DEF IsSeq

LEMMA InitInv == Init => Inv
<1> SUFFICES ASSUME Init PROVE Inv
  OBVIOUS
<1>1. plan \in Plans /\ Len(plan) \in Nat
  BY PlansAssumption DEF Init, IsPlan
<1>2. PICK scan \in Scans :
        hint = <<scan>> /\ tracked = <<Pad(scan)>> /\ oracle = <<Pad(scan)>>
  BY DEF Init
<1>3. IsShape(scan)
  BY ScansAssumption DEF IsTable, IsShape
<1>4. Lengths
  BY <1>1, <1>2, Single DEF Lengths
<1>5. Len(hint) = 1 /\ hint[1] = scan /\ Len(tracked) = 1 /\ tracked[1] = Pad(scan)
  BY <1>2, Single
<1>6. HintsShaped
  <2>1. \A i \in 1..Len(hint) : IsShape(hint[i]) /\ hint[i].n <= scan.n
    BY <1>3, <1>5 DEF IsShape
  <2> QED BY <2>1 DEF HintsShaped
<1>7. HintsLinked /\ Agreement
  BY <1>5 DEF HintsLinked, Agreement
<1> QED BY <1>4, <1>6, <1>7 DEF Inv

\* The table an operator's planning appends.
NextHint(t) ==
  LET h == hint[Len(hint)]
      o == plan[Len(hint)]
  IN /\ o.op = "Filter" => t = FilterHint(h, o)
     /\ o.op = "Limit" => t = LimitHint(h, o)
     /\ o.op = "Sort" => t = SortHint(h, o)
     /\ o.op = "Rematerialize" => t = RematHint(h)

LEMMA PlanStep ==
  ASSUME Inv, NEW t, ~Planned, PlanAs(t), NextHint(t)
  PROVE  Inv'
<1> DEFINE n == Len(hint)
<1>1. n \in Nat /\ n >= 1 /\ Len(plan) \in Nat /\ n <= Len(plan)
  <2>1. Len(plan) \in Nat /\ n \in Nat /\ Len(oracle) \in Nat /\ Len(tracked) \in Nat
    BY IsSeqLen, PlansAssumption DEF Inv, Lengths, IsPlan
  <2> QED BY <2>1 DEF Inv, Lengths, Planned
<1>2. /\ IsSeq(hint') /\ Len(hint') = n + 1 /\ hint'[n + 1] = t
      /\ \A i \in 1..n : hint'[i] = hint[i]
  BY AppendSeq DEF PlanAs, Inv, Lengths
<1>3. UNCHANGED <<plan, tracked, oracle>>
  BY DEF PlanAs
<1>4. IsOperator(plan[n])
  BY <1>1, PlansAssumption DEF Inv, Lengths, IsPlan
<1>5. Lengths'
  <2>1. Len(tracked) \in Nat
    BY IsSeqLen DEF Inv, Lengths
  <2> QED BY <1>1, <1>2, <1>3, <2>1 DEF Inv, Lengths
<1>6. HintsShaped'
  <2>1. PICK scan \in Scans :
          \A i \in 1..n : IsShape(hint[i]) /\ hint[i].n <= scan.n
    BY DEF Inv, HintsShaped
  <2>2. IsShape(hint[n]) /\ hint[n].n <= scan.n /\ scan.n \in Nat
    BY <1>1, <2>1, ScansAssumption DEF IsTable
  <2>3. IsShape(t) /\ t.n <= hint[n].n
    <3>1. plan[n].op \in {"Filter", "Limit", "Sort", "Rematerialize"}
      BY <1>4 DEF IsOperator, Rematerialize
    <3> QED BY <1>4, <2>2, <3>1, HintShapes DEF NextHint, IsShape
  <2>4. t.n <= scan.n
    BY <2>2, <2>3 DEF IsShape
  <2>5. \A i \in 1..Len(hint') : IsShape(hint'[i]) /\ hint'[i].n <= scan.n
    BY <1>1, <1>2, <2>1, <2>3, <2>4
  <2> QED BY <2>5 DEF HintsShaped
<1>7. HintsLinked'
  <2> SUFFICES ASSUME NEW i \in 1..n
               PROVE  /\ plan[i].op = "Filter" => hint'[i + 1] = FilterHint(hint'[i], plan[i])
                      /\ plan[i].op = "Limit" => hint'[i + 1] = LimitHint(hint'[i], plan[i])
                      /\ plan[i].op = "Sort" => hint'[i + 1] = SortHint(hint'[i], plan[i])
                      /\ plan[i].op = "Rematerialize" => hint'[i + 1] = RematHint(hint'[i])
    BY <1>1, <1>2, <1>3 DEF HintsLinked
  <2>1. CASE i = n
    BY <1>2, <2>1 DEF NextHint
  <2>2. CASE i # n
    <3>1. i \in 1..(n - 1) /\ i + 1 \in 1..n
      BY <1>1, <2>2
    <3> QED BY <1>2, <3>1 DEF Inv, HintsLinked
  <2> QED BY <2>1, <2>2
<1>8. Agreement'
  <2>1. \A i \in 1..Len(tracked) : i \in 1..n
    BY <1>1, IsSeqLen DEF Inv, Lengths
  <2> QED BY <1>2, <1>3, <2>1 DEF Inv, Agreement, Masked
<1> QED BY <1>5, <1>6, <1>7, <1>8 DEF Inv

\* The prover appends the padded hint table of its operator.
LEMMA ProveStep ==
  ASSUME Inv, NEW t, Planned, ~Proved, ProveAs(t),
         Masked => t = Pad(hint[Len(tracked) + 1])
  PROVE  Inv'
<1> DEFINE n == Len(tracked)
<1>1. n \in Nat /\ Len(hint) \in Nat /\ Len(plan) \in Nat /\ n + 1 <= Len(hint)
      /\ Len(oracle) \in Nat
  <2>1. Len(plan) \in Nat /\ n \in Nat /\ Len(oracle) \in Nat /\ Len(hint) \in Nat
    BY IsSeqLen, PlansAssumption DEF Inv, Lengths, IsPlan
  <2> QED BY <2>1 DEF Inv, Lengths, Planned, Proved
<1>2. /\ IsSeq(tracked') /\ Len(tracked') = n + 1 /\ tracked'[n + 1] = t
      /\ \A i \in 1..n : tracked'[i] = tracked[i]
  BY AppendSeq DEF ProveAs, Inv, Lengths
<1>3. UNCHANGED <<plan, hint, oracle>>
  BY DEF ProveAs
<1>4. Lengths'
  BY <1>1, <1>2, <1>3 DEF Inv, Lengths
<1>5. HintsShaped' /\ HintsLinked'
  BY <1>3 DEF Inv, HintsShaped, HintsLinked
<1>6. Agreement'
  BY <1>1, <1>2, <1>3 DEF Inv, Agreement, Masked
<1> QED BY <1>4, <1>5, <1>6 DEF Inv

\* The verifier changes neither hints nor polynomials.
LEMMA VerifyStep ==
  ASSUME Inv, NEW t, Proved, ~Verified, VerifyAs(t)
  PROVE  Inv'
<1>1. Len(oracle) \in Nat /\ Len(tracked) \in Nat /\ Len(plan) \in Nat
  BY IsSeqLen, PlansAssumption DEF Inv, Lengths, IsPlan
<1>2. IsSeq(oracle') /\ Len(oracle') = Len(oracle) + 1
  BY AppendSeq DEF VerifyAs, Inv, Lengths
<1>3. UNCHANGED <<plan, hint, tracked>>
  BY DEF VerifyAs
<1>4. Lengths'
  BY <1>1, <1>2, <1>3 DEF Inv, Lengths, Proved, Verified
<1>5. HintsShaped' /\ HintsLinked' /\ Agreement'
  BY <1>3 DEF Inv, HintsShaped, HintsLinked, Agreement, Masked
<1> QED BY <1>4, <1>5 DEF Inv

\* What ProveStep asks of each operator.
LEMMA ProveHint ==
  ASSUME Inv, Planned, ~Proved, Masked, NEW n, n = Len(tracked)
  PROVE  /\ tracked[n] = Pad(hint[n])
         /\ plan[n].op = "Filter" =>
              WithAct(tracked[n], PredColumn(hint[n], plan[n])) = Pad(hint[n + 1])
         /\ plan[n].op = "Limit" /\ NoSkip(plan[n]) =>
              LimitMask(tracked[n], ContigS(tracked[n], plan[n].fetch)) = Pad(hint[n + 1])
         /\ plan[n].op = "Rematerialize" =>
              RematMask(Pad(hint[n + 1]), Cardinality(Active(tracked[n]))) = Pad(hint[n + 1])
<1>1. n \in 1..(Len(hint) - 1) /\ n \in 1..Len(plan) /\ n \in 1..Len(tracked)
      /\ Len(hint) \in Nat
  <2>1. Len(plan) \in Nat /\ n \in Nat /\ Len(oracle) \in Nat /\ Len(hint) \in Nat
    BY IsSeqLen, PlansAssumption DEF Inv, Lengths, IsPlan
  <2> QED BY <2>1 DEF Inv, Lengths, Planned, Proved
<1>2. IsOperator(plan[n])
  BY <1>1, PlansAssumption DEF Inv, Lengths, IsPlan
<1>3. tracked[n] = Pad(hint[n])
  BY <1>1 DEF Inv, Agreement
<1>4. IsShape(hint[n]) /\ PadSize(hint[n].n) \in Nat /\ hint[n].n <= PadSize(hint[n].n)
  <2>1. PICK scan \in Scans :
          \A i \in 1..Len(hint) : IsShape(hint[i]) /\ hint[i].n <= scan.n
    BY DEF Inv, HintsShaped
  <2>2. IsShape(hint[n]) /\ hint[n].n \in 0..scan.n
    BY <1>1, <2>1, ScansAssumption DEF IsShape, IsTable
  <2> QED BY <2>2, PadFits
<1>5. ASSUME plan[n].op = "Filter"
      PROVE  WithAct(tracked[n], PredColumn(hint[n], plan[n])) = Pad(hint[n + 1])
  <2>1. plan[n].masked = TRUE
    <3>1. n \in DOMAIN plan => plan[n].masked
      BY <1>5 DEF Masked
    <3>2. plan[n].masked \in BOOLEAN
      BY <1>2, <1>5 DEF IsOperator, Rematerialize
    <3>3. n \in DOMAIN plan
      BY <1>1, PlansAssumption DEF Inv, Lengths, IsPlan
    <3> QED BY <3>1, <3>2, <3>3
  <2>2. hint[n + 1] = FilterHint(hint[n], plan[n])
    BY <1>1, <1>5 DEF Inv, HintsLinked
  <2> QED BY <1>3, <1>4, <2>1, <2>2, FilterAgrees
<1>6. ASSUME plan[n].op = "Limit", NoSkip(plan[n])
      PROVE  LimitMask(tracked[n], ContigS(tracked[n], plan[n].fetch)) = Pad(hint[n + 1])
  <2>1. plan[n].skip = 0 /\ IsFetch(plan[n].fetch)
    BY <1>2, <1>6 DEF IsOperator, Rematerialize, NoSkip
  <2>2. hint[n + 1] = LimitHint(hint[n], plan[n])
    BY <1>1, <1>6 DEF Inv, HintsLinked
  <2> QED BY <1>3, <1>4, <2>1, <2>2, LimitAgrees
<1>7. ASSUME plan[n].op = "Rematerialize"
      PROVE  RematMask(Pad(hint[n + 1]), Cardinality(Active(tracked[n]))) = Pad(hint[n + 1])
  <2>1. hint[n + 1] = RematHint(hint[n])
    BY <1>1, <1>7 DEF Inv, HintsLinked
  <2> QED BY <1>3, <1>4, <2>1, RematAgrees
<1> QED BY <1>3, <1>5, <1>6, <1>7

LEMMA LastHint == ASSUME Inv PROVE Last(hint) = hint[Len(hint)]
  BY DEF Last

LEMMA StepInv == Inv /\ [Next]_vars => Inv'
<1> SUFFICES ASSUME Inv, [Next]_vars PROVE Inv'
  OBVIOUS
<1> USE LastHint
<1>1. CASE PlanFilter
  BY <1>1, PlanStep DEF PlanFilter, PlanOp, NextHint
<1>2. CASE PlanLimit
  BY <1>2, PlanStep DEF PlanLimit, PlanOp, NextHint
<1>3. CASE PlanSort
  BY <1>3, PlanStep DEF PlanSort, PlanOp, NextHint
<1>4. CASE PlanRemat
  BY <1>4, PlanStep DEF PlanRemat, PlanOp, NextHint
<1>5. CASE ProveFilter
  BY <1>5, ProveStep, ProveHint DEF ProveFilter, ProveOp
<1>6. CASE ProveLimit
  BY <1>6, ProveStep, ProveHint DEF ProveLimit, ProveOp
<1>7. CASE ProveSort
  BY <1>7, ProveStep DEF ProveSort, ProveOp
<1>8. CASE ProveRemat
  BY <1>8, ProveStep, ProveHint DEF ProveRemat, ProveOp
<1>9. CASE VerifyFilter
  BY <1>9, VerifyStep DEF VerifyFilter, VerifyOp
<1>10. CASE VerifyLimit
  BY <1>10, VerifyStep DEF VerifyLimit, VerifyOp
<1>11. CASE VerifySort
  BY <1>11, VerifyStep DEF VerifySort, VerifyOp
<1>12. CASE VerifyRemat
  BY <1>12, VerifyStep DEF VerifyRemat, VerifyOp
<1>13. CASE UNCHANGED vars
  BY <1>13 DEF vars, Inv, Lengths, HintsShaped, HintsLinked, Agreement, Masked
<1> QED BY <1>1, <1>2, <1>3, <1>4, <1>5, <1>6, <1>7, <1>8, <1>9, <1>10,
           <1>11, <1>12, <1>13 DEF Next

LEMMA AlwaysInv == Spec => []Inv
  BY InitInv, StepInv, PTL DEF Spec

\* For scans of any size, and plans of any length, order and bounds whose
\* predicates are false on inactive rows, the prover's polynomials (limit/mod.rs,
\* filter/mod.rs, rematerialize.rs) are the padded tables planning computed.
THEOREM PolynomialsAreHints == Spec => []HintsAgree
<1>1. Inv => HintsAgree
  BY IsSeqLen DEF Inv, Lengths, Agreement, HintsAgree
<1> QED BY <1>1, AlwaysInv, PTL

-----------------------------------------------------------------------------
(* The verifier's tables.  Limits with the same bounds share one field of  *)
(* the proof, so what a later one writes has to be what the earlier ones   *)
(* wrote.                                                                  *)

\* A second limit with the same fetch, right above the first, has its mask.
LEMMA MaskTwice ==
  ASSUME NEW t, IsShape(t), NEW f, IsFetch(f)
  PROVE  ContigS(LimitMask(t, ContigS(t, f)), f) = ContigS(t, f)
<1> DEFINE S == ContigS(t, f)
           u == LimitMask(t, S)
           hits == { j \in Active(t) : Rank(t, j) = f }
<1>1. t.n \in Nat /\ Active(t) \subseteq 1..t.n
  BY ActiveFinite DEF IsShape
<1>2. u = [n |-> t.n, row |-> t.row,
           act |-> [j \in 1..t.n |-> t.act[j] /\ Contig(t.n, S)[j]]]
  BY NewActivator DEF LimitMask, IsShape
<1>3. u.n = t.n /\ \A j \in 1..t.n : u.act[j] <=> t.act[j] /\ j <= S
  <2> HIDE DEF S, u
  <2> QED BY <1>2 DEF Contig
<1>4. ASSUME NEW j PROVE j \in Active(u) <=> j \in Active(t) /\ j <= S
  <2> HIDE DEF S, u
  <2> QED BY <1>3 DEF Active
<1>5. CASE f = 0
  BY <1>5 DEF ContigS
<1>6. CASE f # 0 /\ hits = {}
  <2>1. S = t.n
    BY <1>6 DEF ContigS
  <2>2. Active(u) = Active(t)
    <3> HIDE DEF S, u
    <3> QED BY <1>1, <1>4, <2>1
  <2>3. \A j : Rank(u, j) = Rank(t, j)
    BY <2>2 DEF Rank
  <2>4. { j \in Active(u) : Rank(u, j) = f } = {}
    <3> HIDE DEF u, S
    <3> QED BY <1>6, <2>2, <2>3
  <2>5. u.n = t.n
    BY <1>3
  <2> HIDE DEF u
  <2>6. ContigS(u, f) = t.n
    BY <1>6, <2>4, <2>5 DEF ContigS
  <2> QED BY <2>1, <2>6 DEF u
<1>7. CASE f # 0 /\ hits # {}
  <2>1. S \in Active(t) /\ Rank(t, S) = f
    BY <1>7 DEF ContigS
  <2> HIDE DEF S, u
  <2>2. S \in Active(u) /\ S \in Nat
    BY <1>1, <1>4, <2>1
  <2>3. { j \in Active(u) : j <= S } = { j \in Active(t) : j <= S }
    BY <1>4
  <2>4. Rank(u, S) = f
    BY <2>1, <2>3 DEF Rank
  <2>5. ASSUME NEW j \in Active(u), Rank(u, j) = f PROVE j = S
    <3>1. j \in Nat /\ u.n \in Nat
      BY <1>1, <1>3, <1>4
    <3>2. f \in Nat
      BY <2>2, <2>4, <3>1, RankBounds, ActiveFinite
    <3>3. ~(j < S) /\ ~(S < j)
      BY <2>2, <2>4, <2>5, <3>1, <3>2, RankMonotonic
    <3> QED BY <2>2, <3>1, <3>3
  <2>6. { j \in Active(u) : Rank(u, j) = f } = {S}
    BY <2>2, <2>4, <2>5
  <2>7. ContigS(u, f) = S
    BY <1>7, <2>6 DEF ContigS
  <2> QED BY <2>7 DEF S, u
<1> QED BY <1>5, <1>6, <1>7

\* Each tracked table comes from the one below it.
TrackedLinked ==
  \A i \in 1..(Len(tracked) - 1) :
    /\ plan[i].op = "Filter" =>
         tracked[i + 1] = WithAct(tracked[i], PredColumn(hint[i], plan[i]))
    /\ plan[i].op = "Limit" =>
         tracked[i + 1] = LimitMask(tracked[i], ContigS(tracked[i], plan[i].fetch))
    /\ plan[i].op = "Sort" => tracked[i + 1] = Pad(hint[i + 1])
    /\ plan[i].op = "Rematerialize" =>
         tracked[i + 1] = RematMask(Pad(hint[i + 1]), Cardinality(Active(tracked[i])))

TrackedShaped == \A i \in 1..Len(tracked) : IsShape(tracked[i])

\* What operator i has left in the miscellaneous fields is still there.
FieldsOf(i) ==
  /\ plan[i].op = "Limit" =>
       /\ LimitSKey(i) \in DOMAIN misc
       /\ misc[LimitSKey(i)] = ContigS(tracked[i], plan[i].fetch)
  /\ plan[i].op = "Rematerialize" =>
       /\ RematKey(i) \in DOMAIN misc
       /\ misc[RematKey(i)] = Cardinality(Active(tracked[i]))
FieldsKept == LimitsApart => \A i \in 1..(Len(tracked) - 1) : FieldsOf(i)

Mirroring == LimitsApart => \A i \in 1..Len(oracle) : oracle[i] = tracked[i]

MInv == Inv /\ TrackedLinked /\ TrackedShaped /\ FieldsKept /\ Mirroring

LEMMA PadShape == ASSUME NEW t, PadSize(t.n) \in Nat PROVE IsShape(Pad(t))
  BY DEF Pad, IsShape

LEMMA InitMInv == Init => MInv
<1> SUFFICES ASSUME Init PROVE MInv
  OBVIOUS
<1>1. PICK scan \in Scans :
        hint = <<scan>> /\ tracked = <<Pad(scan)>> /\ oracle = <<Pad(scan)>>
  BY DEF Init
<1>2. Len(tracked) = 1 /\ tracked[1] = Pad(scan) /\ oracle = tracked
  BY <1>1, Single
<1>3. IsShape(Pad(scan))
  <2>1. scan.n \in Nat
    BY ScansAssumption DEF IsTable
  <2>2. PadSize(scan.n) \in Nat
    BY <2>1, PadFits
  <2> QED BY <2>2, PadShape
<1> QED BY <1>2, <1>3, InitInv
     DEF MInv, TrackedLinked, TrackedShaped, FieldsKept, Mirroring

LEMMA LengthFacts ==
  ASSUME Inv
  PROVE  /\ Len(plan) \in Nat /\ Len(hint) \in Nat /\ Len(tracked) \in Nat
         /\ Len(oracle) \in Nat /\ 1 <= Len(oracle) /\ Len(oracle) <= Len(tracked)
         /\ Len(tracked) <= Len(hint) /\ Len(hint) <= Len(plan) + 1
         /\ DOMAIN plan = 1..Len(plan)
         /\ \A i \in 1..Len(plan) : IsOperator(plan[i])
  BY IsSeqLen, PlansAssumption DEF Inv, Lengths, IsPlan

\* The fields that ProveLimit writes agree with what limits below have written.
LEMMA LimitKeepsFields ==
  ASSUME MInv, LimitsApart, ProveLimit,
         NEW i \in 1..(Len(tracked) - 1), plan[i].op = "Limit",
         LimitSKey(i) = LimitSKey(Len(tracked))
  PROVE  ContigS(tracked[i], plan[i].fetch)
           = ContigS(tracked[Len(tracked)], plan[Len(tracked)].fetch)
<1> DEFINE n == Len(tracked)
           f == plan[n].fetch
<1>1. n \in Nat /\ n \in 1..Len(plan) /\ plan[n].op = "Limit" /\ i \in 1..Len(plan)
      /\ DOMAIN plan = 1..Len(plan) /\ Len(plan) \in Nat
  BY LengthFacts DEF MInv, ProveLimit, ProveOp, Planned, Proved
<1>2. plan[i] = Limit(plan[i].skip, plan[i].fetch) /\ plan[n] = Limit(plan[n].skip, f)
      /\ IsFetch(f)
  BY <1>1, LengthFacts DEF MInv, IsOperator, Rematerialize
<1>3. plan[i] = plan[n]
  BY <1>2 DEF LimitSKey, LimitKey
<1>4. n - 1 \in 1..Len(plan) /\ n - 1 \in 1..(n - 1) /\ i <= n - 1 /\ n - 1 <= n
  BY <1>1
<1>5. plan[n - 1] = plan[n]
  BY <1>1, <1>3, <1>4 DEF LimitsApart
<1>6. misc[LimitSKey(n - 1)] = ContigS(tracked[n - 1], f)
  BY <1>1, <1>4, <1>5 DEF MInv, FieldsKept, FieldsOf
<1>7. misc[LimitSKey(i)] = ContigS(tracked[i], f)
  BY <1>3 DEF MInv, FieldsKept, FieldsOf
<1>8. LimitSKey(n - 1) = LimitSKey(i)
  BY <1>3, <1>5 DEF LimitSKey, LimitKey
<1>9. tracked[n] = LimitMask(tracked[n - 1], ContigS(tracked[n - 1], f))
  <2>1. (n - 1) + 1 = n
    BY <1>1
  <2> QED BY <1>1, <1>4, <1>5, <2>1 DEF MInv, TrackedLinked
<1>10. IsShape(tracked[n - 1])
  BY <1>1, <1>4 DEF MInv, TrackedShaped
<1>11. ContigS(tracked[n], f) = ContigS(tracked[n - 1], f)
  BY <1>2, <1>9, <1>10, MaskTwice
<1> QED BY <1>3, <1>6, <1>7, <1>8, <1>11

\* The table and the fields an operator's proving adds.
NextTracked(t) ==
  LET n == Len(tracked)
      o == plan[n]
  IN /\ o.op = "Filter" => t = WithAct(tracked[n], PredColumn(hint[n], o))
     /\ o.op = "Limit" => t = LimitMask(tracked[n], ContigS(tracked[n], o.fetch))
     /\ o.op = "Sort" => t = Pad(hint[n + 1])
     /\ o.op = "Rematerialize" =>
          t = RematMask(Pad(hint[n + 1]), Cardinality(Active(tracked[n])))

LEMMA TrackedStep ==
  ASSUME MInv, Inv', NEW t, Planned, ~Proved, ProveAs(t), NextTracked(t)
  PROVE  TrackedLinked' /\ TrackedShaped' /\ Mirroring'
<1> DEFINE n == Len(tracked)
<1>1. n \in Nat /\ n \in 1..Len(plan) /\ n + 1 \in 1..Len(hint)
  BY LengthFacts DEF MInv, Planned, Proved
<1>2. /\ Len(tracked') = n + 1 /\ tracked'[n + 1] = t
      /\ \A i \in 1..n : tracked'[i] = tracked[i]
  BY AppendSeq DEF ProveAs, MInv, Inv, Lengths
<1>3. UNCHANGED <<plan, hint, oracle>>
  BY DEF ProveAs
<1>4. TrackedLinked'
  <2> SUFFICES ASSUME NEW i \in 1..n
               PROVE  /\ plan[i].op = "Filter" =>
                           tracked'[i + 1] = WithAct(tracked'[i], PredColumn(hint[i], plan[i]))
                      /\ plan[i].op = "Limit" =>
                           tracked'[i + 1] = LimitMask(tracked'[i], ContigS(tracked'[i], plan[i].fetch))
                      /\ plan[i].op = "Sort" => tracked'[i + 1] = Pad(hint[i + 1])
                      /\ plan[i].op = "Rematerialize" =>
                           tracked'[i + 1] = RematMask(Pad(hint[i + 1]), Cardinality(Active(tracked'[i])))
    BY <1>1, <1>2, <1>3 DEF TrackedLinked
  <2>1. CASE i = n
    BY <1>2, <2>1 DEF NextTracked
  <2>2. CASE i # n
    <3>1. i \in 1..(n - 1) /\ i + 1 \in 1..n
      BY <1>1, <2>2
    <3> QED BY <1>2, <3>1 DEF MInv, TrackedLinked
  <2> QED BY <2>1, <2>2
<1>5. IsShape(t)
  <2>1. IsShape(tracked[n])
    BY <1>1, LengthFacts DEF MInv, TrackedShaped
  <2>2. IsShape(Pad(hint[n + 1]))
    <3>1. PICK scan \in Scans :
            \A i \in 1..Len(hint) : IsShape(hint[i]) /\ hint[i].n <= scan.n
      BY DEF MInv, Inv, HintsShaped
    <3>2. hint[n + 1].n \in 0..scan.n
      <4>1. hint[n + 1].n \in Nat /\ hint[n + 1].n <= scan.n
        BY <1>1, <3>1 DEF IsShape
      <4>2. scan.n \in Nat
        BY ScansAssumption DEF IsTable
      <4> QED BY <4>1, <4>2
    <3>3. PadSize(hint[n + 1].n) \in Nat
      BY <3>2, PadFits
    <3> QED BY <3>3, PadShape
  <2>3. ASSUME NEW u, NEW a, IsShape(u) PROVE IsShape(WithAct(u, a))
    <3>1. WithAct(u, a) = [n |-> u.n, row |-> u.row, act |-> a]
      BY <2>3, NewActivator DEF IsShape
    <3> QED BY <2>3, <3>1 DEF IsShape
  <2>4. plan[n].op \in {"Filter", "Limit", "Sort", "Rematerialize"}
    BY <1>1, LengthFacts DEF MInv, IsOperator, Rematerialize
  <2> QED BY <2>1, <2>2, <2>3, <2>4 DEF NextTracked, LimitMask, RematMask
<1>6. TrackedShaped'
  BY <1>1, <1>2, <1>5 DEF MInv, TrackedShaped
<1>7. Mirroring'
  BY <1>1, <1>2, <1>3, LengthFacts DEF MInv, Mirroring, LimitsApart
<1> QED BY <1>4, <1>6, <1>7

\* No operator's field is lost: only limits with the same bounds share one.
LEMMA FieldsStep ==
  ASSUME MInv, [Next]_vars PROVE FieldsKept'
<1> DEFINE n == Len(tracked)
<1> USE LengthFacts DEF MInv
<1>1. CASE ProveLimit
  <2> SUFFICES ASSUME LimitsApart', NEW i \in 1..(Len(tracked') - 1)
               PROVE  FieldsOf(i)'
    BY DEF FieldsKept
  <2> DEFINE s == ContigS(tracked[n], plan[n].fetch)
  <2>1. /\ Len(tracked') = n + 1 /\ \A j \in 1..n : tracked'[j] = tracked[j]
        /\ UNCHANGED <<plan, hint>> /\ LimitsApart /\ i \in 1..n /\ n \in Nat
    BY <1>1, AppendSeq DEF ProveLimit, ProveAs, Inv, Lengths, LimitsApart
  <2>2. PICK sum : misc' = Put(Put(misc, LimitSKey(n), s), LimitSumKey(n), sum)
    BY <1>1 DEF ProveLimit
  <2> HIDE DEF s
  <2>3. /\ LimitSKey(n) \in DOMAIN misc' /\ misc'[LimitSKey(n)] = s
        /\ \A k \in DOMAIN misc :
             k \in DOMAIN misc' /\ (k # LimitSKey(n) /\ k # LimitSumKey(n) => misc'[k] = misc[k])
    BY <2>2 DEF Put, LimitSKey, LimitSumKey
  <2>4. CASE i = n
    <3>1. plan[n].op = "Limit"
      BY <1>1 DEF ProveLimit, ProveOp
    <3> QED BY <2>1, <2>3, <2>4, <3>1 DEF FieldsOf, LimitSKey, LimitKey, s
  <2>5. CASE i # n
    <3>1. i \in 1..(n - 1)
      BY <2>1, <2>5
    <3>2. FieldsOf(i)
      BY <2>1, <3>1 DEF FieldsKept
    <3>3. plan[i].op = "Limit" => misc'[LimitSKey(i)] = ContigS(tracked[i], plan[i].fetch)
      <4>1. CASE plan[i].op = "Limit" /\ LimitSKey(i) = LimitSKey(n)
        BY <1>1, <2>1, <2>3, <3>1, <4>1, LimitKeepsFields DEF s
      <4>2. CASE plan[i].op = "Limit" /\ LimitSKey(i) # LimitSKey(n)
        <5>1. LimitSKey(i) # LimitSumKey(n)
          BY DEF LimitSKey, LimitSumKey
        <5> QED BY <2>3, <3>2, <4>2, <5>1 DEF FieldsOf
      <4> QED BY <4>1, <4>2
    <3>4. plan[i].op = "Rematerialize" =>
            misc'[RematKey(i)] = Cardinality(Active(tracked[i]))
      <4>1. RematKey(i) # LimitSKey(n) /\ RematKey(i) # LimitSumKey(n)
        BY DEF LimitSKey, LimitSumKey, RematKey
      <4> QED BY <2>3, <3>2, <4>1 DEF FieldsOf
    <3>5. LimitSKey(i)' = LimitSKey(i) /\ RematKey(i)' = RematKey(i)
      BY <2>1 DEF LimitSKey, LimitKey, RematKey
    <3> QED BY <2>1, <2>3, <3>2, <3>3, <3>4, <3>5 DEF FieldsOf
  <2> QED BY <2>4, <2>5
<1>2. CASE ProveRemat
  <2> SUFFICES ASSUME LimitsApart', NEW i \in 1..(Len(tracked') - 1)
               PROVE  FieldsOf(i)'
    BY DEF FieldsKept
  <2> DEFINE s == Cardinality(Active(tracked[n]))
  <2>1. /\ Len(tracked') = n + 1 /\ \A j \in 1..n : tracked'[j] = tracked[j]
        /\ UNCHANGED <<plan, hint>> /\ LimitsApart /\ i \in 1..n /\ n \in Nat
    BY <1>2, AppendSeq DEF ProveRemat, ProveAs, Inv, Lengths, LimitsApart
  <2>2. misc' = Put(misc, RematKey(n), s)
    BY <1>2 DEF ProveRemat
  <2> HIDE DEF s
  <2>3. /\ RematKey(n) \in DOMAIN misc' /\ misc'[RematKey(n)] = s
        /\ \A k \in DOMAIN misc :
             k \in DOMAIN misc' /\ (k # RematKey(n) => misc'[k] = misc[k])
    BY <2>2 DEF Put
  <2>4. CASE i = n
    <3>1. plan[n].op = "Rematerialize"
      BY <1>2 DEF ProveRemat, ProveOp
    <3> QED BY <2>1, <2>3, <2>4, <3>1 DEF FieldsOf, RematKey, s
  <2>5. CASE i # n
    <3>1. FieldsOf(i)
      BY <2>1, <2>5 DEF FieldsKept
    <3>2. RematKey(i) # RematKey(n) /\ LimitSKey(i) # RematKey(n)
      BY <2>5 DEF RematKey, LimitSKey
    <3>3. LimitSKey(i)' = LimitSKey(i) /\ RematKey(i)' = RematKey(i)
      BY <2>1 DEF LimitSKey, LimitKey, RematKey
    <3> QED BY <2>1, <2>3, <3>1, <3>2, <3>3 DEF FieldsOf
  <2> QED BY <2>4, <2>5
<1>3. CASE ProveFilter \/ ProveSort
  <2> SUFFICES ASSUME LimitsApart', NEW i \in 1..(Len(tracked') - 1)
               PROVE  FieldsOf(i)'
    BY DEF FieldsKept
  <2>1. /\ Len(tracked') = n + 1 /\ \A j \in 1..n : tracked'[j] = tracked[j]
        /\ UNCHANGED <<plan, hint, misc>> /\ LimitsApart /\ i \in 1..n /\ n \in Nat
    <3>1. PICK t : ProveAs(t) /\ UNCHANGED misc
      BY <1>3 DEF ProveFilter, ProveSort
    <3> QED BY <3>1, AppendSeq DEF ProveAs, Inv, Lengths, LimitsApart
  <2>2. CASE i = n
    <3>1. plan[n].op # "Limit" /\ plan[n].op # "Rematerialize"
      BY <1>3 DEF ProveFilter, ProveSort, ProveOp
    <3> QED BY <2>1, <2>2, <3>1 DEF FieldsOf
  <2>3. CASE i # n
    <3>1. FieldsOf(i)
      BY <2>1, <2>3 DEF FieldsKept
    <3> QED BY <2>1, <3>1 DEF FieldsOf, LimitSKey, LimitKey, RematKey
  <2> QED BY <2>2, <2>3
<1>4. CASE UNCHANGED <<plan, tracked, misc>>
  <2>1. LimitsApart' = LimitsApart
    BY <1>4 DEF LimitsApart
  <2>2. ASSUME NEW i PROVE FieldsOf(i) => FieldsOf(i)'
    BY <1>4 DEF FieldsOf, LimitSKey, LimitKey, RematKey
  <2> QED BY <1>4, <2>1, <2>2 DEF FieldsKept
<1>5. CASE PlanFilter \/ PlanLimit \/ PlanSort \/ PlanRemat
  BY <1>4, <1>5 DEF PlanFilter, PlanLimit, PlanSort, PlanRemat, PlanAs
<1>6. CASE VerifyFilter \/ VerifyLimit \/ VerifySort \/ VerifyRemat
  BY <1>4, <1>6 DEF VerifyFilter, VerifyLimit, VerifySort, VerifyRemat, VerifyAs
<1>7. CASE UNCHANGED vars
  BY <1>4, <1>7 DEF vars
<1> QED BY <1>1, <1>2, <1>3, <1>5, <1>6, <1>7 DEF Next

\* The oracle an operator's verification appends is the polynomial's.
LEMMA OracleStep ==
  ASSUME MInv, NEW t, Proved, ~Verified, VerifyAs(t),
         LimitsApart => t = tracked[Len(oracle) + 1]
  PROVE  Mirroring'
<1> DEFINE n == Len(oracle)
<1>1. n \in Nat /\ Len(tracked) \in Nat /\ n + 1 <= Len(tracked)
  BY LengthFacts DEF MInv, Proved, Verified
<1>2. /\ Len(oracle') = n + 1 /\ oracle'[n + 1] = t
      /\ \A i \in 1..n : oracle'[i] = oracle[i]
  BY AppendSeq DEF VerifyAs, MInv, Inv, Lengths
<1>3. UNCHANGED <<plan, tracked>>
  BY DEF VerifyAs
<1> QED BY <1>1, <1>2, <1>3 DEF MInv, Mirroring, LimitsApart

LEMMA MirrorStep ==
  ASSUME MInv, [Next]_vars PROVE Mirroring'
<1> USE DEF MInv
<1> DEFINE n == Len(oracle)
<1>1. ASSUME Proved, ~Verified, LimitsApart
      PROVE  /\ oracle[n] = tracked[n] /\ n \in 1..(Len(tracked) - 1) /\ FieldsOf(n)
  <2>1. n \in 1..(Len(tracked) - 1) /\ n \in 1..Len(oracle)
    BY <1>1, LengthFacts DEF Proved, Verified
  <2> QED BY <1>1, <2>1 DEF FieldsKept, Mirroring
<1>2. CASE VerifyFilter
  BY <1>1, <1>2, OracleStep DEF VerifyFilter, VerifyOp, TrackedLinked
<1>3. CASE VerifyLimit
  BY <1>1, <1>3, OracleStep DEF VerifyLimit, VerifyOp, TrackedLinked, FieldsOf, FieldOf
<1>4. CASE VerifySort
  BY <1>1, <1>4, OracleStep DEF VerifySort, VerifyOp, TrackedLinked
<1>5. CASE VerifyRemat
  BY <1>1, <1>5, OracleStep DEF VerifyRemat, VerifyOp, TrackedLinked, FieldsOf, FieldOf
<1>6. CASE UNCHANGED <<plan, tracked, oracle>>
  BY <1>6 DEF Mirroring, LimitsApart
<1>7. CASE PlanFilter \/ PlanLimit \/ PlanSort \/ PlanRemat
  BY <1>6, <1>7 DEF PlanFilter, PlanLimit, PlanSort, PlanRemat, PlanAs
<1>8. CASE ProveFilter \/ ProveLimit \/ ProveSort \/ ProveRemat
  <2>1. PICK t : ProveAs(t)
    BY <1>8 DEF ProveFilter, ProveLimit, ProveSort, ProveRemat
  <2>2. \A i \in 1..Len(oracle) : i \in 1..Len(tracked)
    BY LengthFacts
  <2>3. \A i \in 1..Len(tracked) : tracked'[i] = tracked[i]
    BY <2>1, AppendSeq DEF ProveAs, Inv, Lengths
  <2> QED BY <2>1, <2>2, <2>3 DEF ProveAs, Mirroring, LimitsApart
<1>9. CASE UNCHANGED vars
  BY <1>6, <1>9 DEF vars
<1> QED BY <1>2, <1>3, <1>4, <1>5, <1>7, <1>8, <1>9 DEF Next

\* Planning and verifying add no tracked table.
LEMMA SameTracked ==
  ASSUME MInv, UNCHANGED <<plan, tracked>>, \A i \in 1..Len(hint) : hint'[i] = hint[i]
  PROVE  TrackedLinked' /\ TrackedShaped'
<1>1. \A i \in 1..(Len(tracked) - 1) : i \in 1..Len(hint) /\ i + 1 \in 1..Len(hint)
  BY LengthFacts DEF MInv
<1> QED BY <1>1 DEF MInv, TrackedLinked, TrackedShaped

LEMMA TrackedNext ==
  ASSUME MInv, [Next]_vars, Inv' PROVE TrackedLinked' /\ TrackedShaped'
<1>1. CASE ProveFilter
  BY <1>1, TrackedStep DEF ProveFilter, ProveOp, NextTracked
<1>2. CASE ProveLimit
  BY <1>2, TrackedStep DEF ProveLimit, ProveOp, NextTracked
<1>3. CASE ProveSort
  BY <1>3, TrackedStep DEF ProveSort, ProveOp, NextTracked
<1>4. CASE ProveRemat
  BY <1>4, TrackedStep DEF ProveRemat, ProveOp, NextTracked
<1>5. CASE PlanFilter \/ PlanLimit \/ PlanSort \/ PlanRemat
  <2>1. PICK t : PlanAs(t)
    BY <1>5 DEF PlanFilter, PlanLimit, PlanSort, PlanRemat
  <2>2. \A i \in 1..Len(hint) : hint'[i] = hint[i]
    BY <2>1, AppendSeq DEF PlanAs, MInv, Inv, Lengths
  <2> QED BY <2>1, <2>2, SameTracked DEF PlanAs
<1>6. CASE VerifyFilter \/ VerifyLimit \/ VerifySort \/ VerifyRemat
  BY <1>6, SameTracked DEF VerifyFilter, VerifyLimit, VerifySort, VerifyRemat, VerifyAs
<1>7. CASE UNCHANGED vars
  BY <1>7, SameTracked DEF vars
<1> QED BY <1>1, <1>2, <1>3, <1>4, <1>5, <1>6, <1>7 DEF Next

LEMMA StepMInv == MInv /\ [Next]_vars => MInv'
<1> SUFFICES ASSUME MInv, [Next]_vars PROVE MInv'
  OBVIOUS
<1>1. Inv'
  BY StepInv DEF MInv
<1> QED BY <1>1, TrackedNext, FieldsStep, MirrorStep DEF MInv

\* The verifier, who has only the fields of the proof, computes the prover's
\* activators at every Limit (limit/mod.rs) and Rematerialize, unless two limits
\* with the same bounds have another operator between them.
THEOREM VerifierMirrors == Spec => []Mirrors
<1>1. MInv => Mirrors
  BY IsSeqLen DEF MInv, Inv, Lengths, Mirroring, Mirrors
<1> QED BY <1>1, InitMInv, StepMInv, PTL DEF Spec

-----------------------------------------------------------------------------
(* Sorting.  A row of a table is known by its __row_id__, and a sort key    *)
(* tells the rows apart.                                                   *)

Keyed(t) ==
  /\ IsShape(t) /\ t.row \in [1..t.n -> Rows] /\ t.act \in [1..t.n -> BOOLEAN]
  /\ \A i, j \in 1..t.n : t.row[i] = t.row[j] => i = j
IsKey(key) ==
  key \in [Rows -> Int] /\ \A r, s \in Rows : key[r] = key[s] => r = s

\* The order of a sort is a strict total order on the rows of a table.
LEMMA PrecedesOrder ==
  ASSUME NEW t, Keyed(t), NEW key, IsKey(key)
  PROVE  /\ \A i \in 1..t.n : ~Precedes(t, key, i, i)
         /\ \A i, j \in 1..t.n : i # j => Precedes(t, key, i, j) \/ Precedes(t, key, j, i)
         /\ \A i, j, k \in 1..t.n :
              Precedes(t, key, i, j) /\ Precedes(t, key, j, k) => Precedes(t, key, i, k)
<1>1. \A i \in 1..t.n : key[t.row[i]] \in Int /\ t.act[i] \in BOOLEAN
  BY DEF Keyed, IsKey
<1>2. \A i, j \in 1..t.n : i # j => key[t.row[i]] # key[t.row[j]]
  BY DEF Keyed, IsKey
<1>3. \A i \in 1..t.n : ~Precedes(t, key, i, i)
  BY <1>1 DEF Precedes
<1>4. \A i, j \in 1..t.n : i # j => Precedes(t, key, i, j) \/ Precedes(t, key, j, i)
  <2> TAKE i, j \in 1..t.n
  <2>1. i # j => key[t.row[i]] < key[t.row[j]] \/ key[t.row[j]] < key[t.row[i]]
    BY <1>1, <1>2
  <2> QED BY <1>1, <2>1 DEF Precedes
<1>5. \A i, j, k \in 1..t.n :
        Precedes(t, key, i, j) /\ Precedes(t, key, j, k) => Precedes(t, key, i, k)
  <2> TAKE i, j, k \in 1..t.n
  <2>1. key[t.row[i]] < key[t.row[j]] /\ key[t.row[j]] < key[t.row[k]]
          => key[t.row[i]] < key[t.row[k]]
    BY <1>1
  <2> QED BY <1>1, <2>1 DEF Precedes
<1> QED BY <1>3, <1>4, <1>5

\* Positions are numbers of rows, and rise with the order.
LEMMA PositionRises ==
  ASSUME NEW t, Keyed(t), NEW key, IsKey(key)
  PROVE  /\ \A i \in 1..t.n : SortPosition(t, key, i) \in 1..t.n
         /\ \A i, j \in 1..t.n : Precedes(t, key, i, j) =>
              SortPosition(t, key, i) < SortPosition(t, key, j)
<1> DEFINE Below(i) == { j \in 1..t.n : Precedes(t, key, j, i) }
<1>1. t.n \in Nat /\ IsFiniteSet(1..t.n) /\ Cardinality(1..t.n) = t.n
  BY FS_Interval DEF Keyed, IsShape
<1>2. ASSUME NEW i \in 1..t.n
      PROVE  /\ IsFiniteSet(Below(i)) /\ Cardinality(Below(i)) \in Nat
             /\ Cardinality(Below(i)) < t.n
  <2>1. Below(i) \in SUBSET (1..t.n) /\ i \notin Below(i)
    BY PrecedesOrder
  <2>2. IsFiniteSet(Below(i)) /\ Cardinality(Below(i)) <= t.n
        /\ (Cardinality(Below(i)) = t.n => Below(i) = 1..t.n)
    <3> HIDE DEF Below
    <3> QED BY <1>1, <2>1, FS_Subset
  <2>3. Cardinality(Below(i)) \in Nat
    BY <2>2, FS_CardinalityType
  <2> QED BY <1>1, <2>1, <2>2, <2>3
<1>3. ASSUME NEW i \in 1..t.n, NEW j \in 1..t.n, Precedes(t, key, i, j)
      PROVE  Cardinality(Below(i)) < Cardinality(Below(j))
  <2>1. Below(i) \in SUBSET Below(j)
    BY <1>3, PrecedesOrder
  <2>2. i \in Below(j) /\ i \notin Below(i)
    BY <1>3, PrecedesOrder
  <2>3. Cardinality(Below(i)) <= Cardinality(Below(j))
        /\ Cardinality(Below(i)) # Cardinality(Below(j))
    <3>1. IsFiniteSet(Below(j))
      BY <1>2
    <3> HIDE DEF Below
    <3> QED BY <2>1, <2>2, <3>1, FS_Subset
  <2>4. Cardinality(Below(i)) \in Nat /\ Cardinality(Below(j)) \in Nat
    BY <1>2
  <2> HIDE DEF Below
  <2> QED BY <2>3, <2>4
<1>4. \A i : SortPosition(t, key, i) = Cardinality(Below(i)) + 1
  BY DEF SortPosition
<1> HIDE DEF Below
<1>5. \A i \in 1..t.n : Cardinality(Below(i)) + 1 \in 1..t.n
  BY <1>1, <1>2
<1>6. \A i, j \in 1..t.n : Precedes(t, key, i, j) =>
        Cardinality(Below(i)) + 1 < Cardinality(Below(j)) + 1
  BY <1>2, <1>3
<1> QED BY <1>4, <1>5, <1>6

\* Every position is taken by exactly one row.
LEMMA PositionBijects ==
  ASSUME NEW t, Keyed(t), NEW key, IsKey(key)
  PROVE  /\ \A i, j \in 1..t.n : SortPosition(t, key, i) = SortPosition(t, key, j) => i = j
         /\ \A k \in 1..t.n : \E i \in 1..t.n : SortPosition(t, key, i) = k
<1> DEFINE pos == [i \in 1..t.n |-> SortPosition(t, key, i)]
<1>1. IsFiniteSet(1..t.n)
  BY FS_Interval DEF Keyed, IsShape
<1>2. pos \in [1..t.n -> 1..t.n]
  BY PositionRises
<1>3. \A i, j \in 1..t.n : SortPosition(t, key, i) = SortPosition(t, key, j) => i = j
  <2> SUFFICES ASSUME NEW i \in 1..t.n, NEW j \in 1..t.n, i # j
               PROVE  SortPosition(t, key, i) # SortPosition(t, key, j)
    OBVIOUS
  <2>1. Precedes(t, key, i, j) \/ Precedes(t, key, j, i)
    BY PrecedesOrder
  <2>2. SortPosition(t, key, i) < SortPosition(t, key, j)
        \/ SortPosition(t, key, j) < SortPosition(t, key, i)
    BY <2>1, PositionRises
  <2>3. SortPosition(t, key, i) \in Nat /\ SortPosition(t, key, j) \in Nat
    BY PositionRises DEF Keyed, IsShape
  <2> QED BY <2>2, <2>3
<1>4. pos \in Injection(1..t.n, 1..t.n)
  BY <1>2, <1>3 DEF Injection, IsInjective
<1>5. pos \in Surjection(1..t.n, 1..t.n)
  BY <1>1, <1>4, FS_Injection
<1>6. \A k \in 1..t.n : \E i \in 1..t.n : pos[i] = k
  BY <1>5 DEF Surjection
<1> QED BY <1>3, <1>6

\* The active rows of a table whose activator never rises are its first rows.
LEMMA ActivePrefix ==
  ASSUME NEW t, t.n \in Nat,
         \A j, k \in 1..t.n : j < k /\ t.act[k] => t.act[j]
  PROVE  Active(t) = 1..Cardinality(Active(t))
<1> DEFINE N == Cardinality(Active(t))
<1>1. N \in Nat /\ IsFiniteSet(Active(t)) /\ Active(t) \subseteq 1..t.n
  BY ActiveFinite
<1>2. CASE N = 0
  BY <1>1, <1>2, FS_EmptySet
<1>3. CASE N # 0
  <2>1. N \in 1..N
    BY <1>1, <1>3
  <2>2. PICK m \in Active(t) : Rank(t, m) = N
    BY <2>1, RankOnto
  <2> DEFINE Upto == { j \in Active(t) : j <= m }
  <2>3. Upto \in SUBSET Active(t) /\ Cardinality(Upto) = N
    BY <2>2 DEF Rank
  <2>4. Upto = Active(t)
    <3> HIDE DEF Upto
    <3> QED BY <1>1, <2>3, FS_Subset
  <2>5. \A j \in Active(t) : j <= m
    BY <2>4
  <2>6. m \in 1..t.n /\ t.act[m]
    BY DEF Active
  <2>7. Active(t) = 1..m
    <3>1. ASSUME NEW j \in Active(t) PROVE j \in 1..m
      BY <1>1, <2>5, <2>6
    <3>2. ASSUME NEW j \in 1..m PROVE j \in Active(t)
      <4>1. j \in 1..t.n /\ (j = m \/ j < m)
        BY <2>6
      <4> QED BY <2>6, <4>1 DEF Active
    <3> QED BY <3>1, <3>2
  <2>8. Cardinality(1..m) = m
    BY <2>6, FS_Interval
  <2> QED BY <2>7, <2>8
<1> QED BY <1>2, <1>3

\* A sort keeps the active rows, puts them first, and orders them by the key.
LEMMA SortKeeps ==
  ASSUME NEW t, Keyed(t), NEW o, IsKey(o.key), o.fetch = NoFetch
  PROVE  LET h == SortHint(t, o)
         IN /\ Keyed(h) /\ h.n = t.n
            /\ ActiveRows(h) = ActiveRows(t)
            /\ Cardinality(Active(h)) = Cardinality(Active(t))
            /\ Active(h) = 1..Cardinality(Active(h))
            /\ \A j, k \in Active(h) : j < k => o.key[h.row[j]] < o.key[h.row[k]]
<1> DEFINE key == o.key
           n == t.n
           At(k) == CHOOSE i \in 1..n : SortPosition(t, key, i) = k
           h == SortHint(t, o)
<1>1. h = [n |-> n, row |-> [k \in 1..n |-> t.row[At(k)]],
           act |-> [k \in 1..n |-> t.act[At(k)]]]
  BY DEF SortHint
<1>2. \A k \in 1..n : At(k) \in 1..n /\ SortPosition(t, key, At(k)) = k
  BY PositionBijects
<1>3. \A i \in 1..n : SortPosition(t, key, i) \in 1..n /\ At(SortPosition(t, key, i)) = i
  BY PositionRises, PositionBijects, <1>2
<1> HIDE DEF At
<1>4. /\ n \in Nat /\ t.row \in [1..n -> Rows] /\ t.act \in [1..n -> BOOLEAN]
      /\ \A i, j \in 1..n : t.row[i] = t.row[j] => i = j
  BY DEF Keyed, IsShape
<1>5. /\ h.n = n /\ \A k \in 1..n : h.row[k] = t.row[At(k)] /\ h.act[k] = t.act[At(k)]
      /\ h = [n |-> h.n, row |-> h.row, act |-> h.act]
      /\ h.row \in [1..n -> Rows] /\ h.act \in [1..n -> BOOLEAN]
  BY <1>1, <1>2, <1>4
<1> HIDE DEF h
<1>6. \A j, k \in 1..n : At(j) = At(k) => j = k
  BY <1>2
<1>7. Keyed(h)
  <2>1. \A j, k \in 1..n : h.row[j] = h.row[k] => j = k
    BY <1>2, <1>4, <1>5, <1>6
  <2> QED BY <1>4, <1>5, <2>1 DEF Keyed, IsShape
<1>8. \A k \in 1..n : k \in Active(h) <=> At(k) \in Active(t)
  BY <1>2, <1>5 DEF Active
<1>9. ActiveRows(h) = ActiveRows(t)
  <2>1. \A k \in Active(h) : k \in 1..n /\ h.row[k] = t.row[At(k)] /\ At(k) \in Active(t)
    BY <1>5, <1>8 DEF Active
  <2>2. ASSUME NEW i \in Active(t)
        PROVE  \E k \in Active(h) : t.row[i] = h.row[k]
    <3>1. i \in 1..n
      BY DEF Active
    <3>2. SortPosition(t, key, i) \in 1..n /\ At(SortPosition(t, key, i)) = i
      BY <1>3, <3>1
    <3>3. SortPosition(t, key, i) \in Active(h)
      BY <1>8, <3>2
    <3> QED BY <1>5, <3>2, <3>3
  <2> QED BY <2>1, <2>2 DEF ActiveRows
<1>10. Cardinality(Active(h)) = Cardinality(Active(t))
  <2> DEFINE at == [k \in Active(h) |-> At(k)]
  <2>1. \A k \in Active(h) : k \in 1..n
    BY <1>5 DEF Active
  <2>2. at \in [Active(h) -> Active(t)]
    BY <1>8, <2>1
  <2>3. \A j, k \in Active(h) : at[j] = at[k] => j = k
    BY <1>6, <2>1
  <2>4. \A i \in Active(t) : \E k \in Active(h) : at[k] = i
    <3> TAKE i \in Active(t)
    <3>1. i \in 1..n
      BY DEF Active
    <3>2. SortPosition(t, key, i) \in Active(h) /\ At(SortPosition(t, key, i)) = i
      BY <1>3, <1>8, <3>1
    <3> QED BY <3>2
  <2>5. at \in Bijection(Active(h), Active(t))
    BY <2>2, <2>3, <2>4 DEF Bijection, Injection, Surjection, IsInjective
  <2>6. IsFiniteSet(Active(h)) /\ IsFiniteSet(Active(t))
    BY <1>4, <1>5, ActiveFinite
  <2> QED BY <2>5, <2>6, FS_Bijection DEF ExistsBijection
<1>11. \A j, k \in 1..n : j < k => Precedes(t, key, At(j), At(k))
  <2> SUFFICES ASSUME NEW j \in 1..n, NEW k \in 1..n, j < k
               PROVE  Precedes(t, key, At(j), At(k))
    OBVIOUS
  <2>1. At(j) # At(k)
    BY <1>6
  <2>2. ~Precedes(t, key, At(k), At(j))
    <3> SUFFICES ASSUME Precedes(t, key, At(k), At(j)) PROVE FALSE
      OBVIOUS
    <3>1. SortPosition(t, key, At(k)) < SortPosition(t, key, At(j))
      BY <1>2, PositionRises
    <3>2. SortPosition(t, key, At(k)) = k /\ SortPosition(t, key, At(j)) = j
      BY <1>2
    <3>3. k < j
      <4> HIDE DEF key
      <4> QED BY <3>1, <3>2
    <3> HIDE DEF n
    <3> QED BY <1>4, <3>3
  <2> QED BY <1>2, <2>1, <2>2, PrecedesOrder
<1>12. Active(h) = 1..Cardinality(Active(h))
  <2>1. \A j, k \in 1..h.n : j < k /\ h.act[k] => h.act[j]
    BY <1>2, <1>4, <1>5, <1>11 DEF Precedes
  <2> QED BY <1>4, <1>5, <2>1, ActivePrefix
<1>13. \A j, k \in Active(h) : j < k => key[h.row[j]] < key[h.row[k]]
  <2> TAKE j, k \in Active(h)
  <2>1. j \in 1..n /\ k \in 1..n /\ h.act[j] /\ h.act[k]
    BY <1>5 DEF Active
  <2>2. j < k => Precedes(t, key, At(j), At(k))
    BY <1>11, <2>1
  <2> QED BY <1>2, <1>4, <1>5, <2>1, <2>2 DEF Precedes
<1> QED BY <1>5, <1>7, <1>9, <1>10, <1>12, <1>13 DEF h

\* The other operators keep a row's identity and its switch.
LEMMA HintsKeep ==
  ASSUME NEW t, Keyed(t), NEW o, IsOperator(o)
  PROVE  Keyed(FilterHint(t, o)) /\ Keyed(LimitHint(t, o)) /\ Keyed(RematHint(t))
<1>1. t.n \in Nat /\ t = [n |-> t.n, row |-> t.row, act |-> t.act]
  BY DEF Keyed, IsShape
<1>2. ASSUME NEW a \in [1..t.n -> BOOLEAN] PROVE Keyed(WithAct(t, a))
  <2>1. WithAct(t, a) = [n |-> t.n, row |-> t.row, act |-> a]
    BY <1>1, ShapeActivator
  <2> QED BY <2>1 DEF Keyed, IsShape
<1>3. Keyed(FilterHint(t, o))
  BY <1>2 DEF FilterHint
<1>4. Keyed(LimitHint(t, o))
  BY <1>2 DEF LimitHint
<1>5. Keyed(RematHint(t))
  <2> DEFINE n == Cardinality(Active(t))
             At(k) == CHOOSE i \in Active(t) : Rank(t, i) = k
             h == RematHint(t)
  <2>1. n \in Nat /\ Active(t) \subseteq 1..t.n
    BY <1>1, ActiveFinite
  <2>2. \A k \in 1..n : At(k) \in Active(t) /\ Rank(t, At(k)) = k
    BY <1>1, RankOnto
  <2>3. h = [n |-> n, row |-> [k \in 1..n |-> t.row[At(k)]], act |-> [k \in 1..n |-> TRUE]]
    BY DEF RematHint
  <2> HIDE DEF n, At, h
  <2>4. h.n = n /\ h.row = [k \in 1..n |-> t.row[At(k)]] /\ h.act = [k \in 1..n |-> TRUE]
        /\ h = [n |-> h.n, row |-> h.row, act |-> h.act]
    BY <2>3
  <2>5. h.row \in [1..n -> Rows]
    <3>1. \A k \in 1..n : At(k) \in 1..t.n
      BY <2>1, <2>2
    <3>2. \A k \in 1..n : t.row[At(k)] \in Rows
      BY <3>1 DEF Keyed
    <3> QED BY <2>4, <3>2
  <2>6. \A j, k \in 1..n : h.row[j] = h.row[k] => j = k
    BY <2>1, <2>2, <2>4 DEF Keyed
  <2>7. Keyed(h)
    BY <2>1, <2>4, <2>5, <2>6 DEF Keyed, IsShape
  <2> QED BY <2>7 DEF h
<1> QED BY <1>3, <1>4, <1>5

-----------------------------------------------------------------------------
(* The claims of an honest prover.                                         *)

\* Every row of a base table has a __row_id__ of its own.
IdentifiedScans ==
  \A scan \in Scans : scan.row \in [1..scan.n -> Rows]
                      /\ \A i, j \in 1..scan.n : scan.row[i] = scan.row[j] => i = j
\* Sort keys differ from row to row (ties are the engine's business), and a
\* Sort's fetch has become a limit of its own (normalize_sort_fetch.rs).
PlainSorts ==
  \A p \in Plans : \A i \in 1..Len(p) :
    p[i].op = "Sort" => IsKey(p[i].key) /\ p[i].fetch = NoFetch

HintsKeyed == \A i \in 1..Len(hint) : Keyed(hint[i])

\* The number a limit leaves for its sum gadget counts the rows it kept.
SumsKept ==
  LimitsApart => \A i \in 1..(Len(tracked) - 1) :
    plan[i].op = "Limit" =>
      /\ LimitSumKey(i) \in DOMAIN misc
      /\ misc[LimitSumKey(i)] = Cardinality(Active(tracked[i + 1]))

CInv == MInv /\ HintsKeyed /\ SumsKept

LEMMA InitCInv == ASSUME IdentifiedScans PROVE Init => CInv
<1> SUFFICES ASSUME Init PROVE CInv
  OBVIOUS
<1>1. PICK scan \in Scans :
        hint = <<scan>> /\ tracked = <<Pad(scan)>> /\ oracle = <<Pad(scan)>>
  BY DEF Init
<1>2. Len(hint) = 1 /\ hint[1] = scan /\ Len(tracked) = 1
  BY <1>1, Single
<1>3. Keyed(scan)
  BY ScansAssumption DEF IdentifiedScans, IsTable, IsShape, Keyed
<1> QED BY <1>2, <1>3, InitMInv DEF CInv, HintsKeyed, SumsKept

LEMMA HintsKeyedStep ==
  ASSUME PlainSorts, CInv, [Next]_vars PROVE HintsKeyed'
<1> DEFINE n == Len(hint)
<1> USE DEF CInv, MInv
<1>1. ASSUME NEW t, ~Planned, PlanAs(t), Keyed(t) PROVE HintsKeyed'
  <2>1. Len(hint') = n + 1 /\ hint'[n + 1] = t /\ n \in Nat
        /\ \A i \in 1..n : hint'[i] = hint[i]
    BY <1>1, AppendSeq DEF PlanAs, Inv, Lengths
  <2> QED BY <1>1, <2>1 DEF HintsKeyed
<1>2. ASSUME ~Planned
      PROVE  /\ Keyed(Last(hint)) /\ IsOperator(plan[n])
             /\ n \in 1..Len(plan) /\ plan \in Plans
  <2>1. n \in 1..Len(hint) /\ n \in 1..Len(plan)
    BY <1>2, LengthFacts DEF Planned
  <2> QED BY <2>1, LengthFacts, LastHint DEF HintsKeyed, Inv, Lengths
<1>3. CASE PlanFilter
  BY <1>1, <1>2, <1>3, HintsKeep DEF PlanFilter, PlanOp
<1>4. CASE PlanLimit
  BY <1>1, <1>2, <1>4, HintsKeep DEF PlanLimit, PlanOp
<1>5. CASE PlanSort
  <2>1. IsKey(plan[n].key) /\ plan[n].fetch = NoFetch
    BY <1>2, <1>5 DEF PlanSort, PlanOp, PlainSorts
  <2>2. Keyed(SortHint(Last(hint), plan[n]))
    BY <1>2, <1>5, <2>1, SortKeeps DEF PlanSort, PlanOp
  <2> QED BY <1>1, <1>5, <2>2 DEF PlanSort, PlanOp
<1>6. CASE PlanRemat
  BY <1>1, <1>2, <1>6, HintsKeep DEF PlanRemat, PlanOp
<1>7. CASE UNCHANGED hint
  BY <1>7 DEF HintsKeyed
<1>8. CASE ProveFilter \/ ProveLimit \/ ProveSort \/ ProveRemat
  BY <1>7, <1>8 DEF ProveFilter, ProveLimit, ProveSort, ProveRemat, ProveAs
<1>9. CASE VerifyFilter \/ VerifyLimit \/ VerifySort \/ VerifyRemat
  BY <1>7, <1>9 DEF VerifyFilter, VerifyLimit, VerifySort, VerifyRemat, VerifyAs
<1>10. CASE UNCHANGED vars
  BY <1>7, <1>10 DEF vars
<1> QED BY <1>3, <1>4, <1>5, <1>6, <1>8, <1>9, <1>10 DEF Next

\* A limit right above one with the same bounds keeps what that one kept.
LEMMA LimitKeepsSum ==
  ASSUME MInv, LimitsApart, ProveLimit,
         NEW i \in 1..(Len(tracked) - 1), plan[i].op = "Limit",
         LimitSumKey(i) = LimitSumKey(Len(tracked))
  PROVE  LET n == Len(tracked)
         IN /\ n - 1 \in 1..(n - 1) /\ plan[n - 1] = plan[n] /\ plan[i] = plan[n]
            /\ LimitMask(tracked[n], ContigS(tracked[n], plan[n].fetch)) = tracked[n]
<1> DEFINE n == Len(tracked)
           f == plan[n].fetch
<1>1. n \in Nat /\ n \in 1..Len(plan) /\ plan[n].op = "Limit" /\ i \in 1..Len(plan)
      /\ DOMAIN plan = 1..Len(plan) /\ Len(plan) \in Nat
  BY LengthFacts DEF MInv, ProveLimit, ProveOp, Planned, Proved
<1>2. plan[i] = Limit(plan[i].skip, plan[i].fetch) /\ plan[n] = Limit(plan[n].skip, f)
      /\ IsFetch(f)
  BY <1>1, LengthFacts DEF MInv, IsOperator, Rematerialize
<1>3. plan[i] = plan[n]
  BY <1>2 DEF LimitSumKey, LimitKey
<1>4. n - 1 \in 1..Len(plan) /\ n - 1 \in 1..(n - 1) /\ i <= n - 1 /\ n - 1 <= n
  BY <1>1
<1>5. plan[n - 1] = plan[n]
  BY <1>1, <1>3, <1>4 DEF LimitsApart
<1> DEFINE u == tracked[n - 1]
           S == ContigS(u, f)
<1>6. tracked[n] = LimitMask(u, S)
  <2>1. (n - 1) + 1 = n
    BY <1>1
  <2> QED BY <1>1, <1>4, <1>5, <2>1 DEF MInv, TrackedLinked
<1>7. IsShape(u)
  BY <1>1, <1>4 DEF MInv, TrackedShaped
<1>8. ContigS(tracked[n], f) = S
  BY <1>2, <1>6, <1>7, MaskTwice
<1>9. LimitMask(LimitMask(u, S), S) = LimitMask(u, S)
  <2> HIDE DEF u, S
  <2> DEFINE a == [j \in 1..u.n |-> u.act[j] /\ Contig(u.n, S)[j]]
  <2>1. LimitMask(u, S) = [n |-> u.n, row |-> u.row, act |-> a]
    BY <1>7, NewActivator DEF LimitMask, IsShape
  <2> DEFINE b == [j \in 1..u.n |-> a[j] /\ Contig(u.n, S)[j]]
  <2>2. b = a
    OBVIOUS
  <2> DEFINE v == LimitMask(u, S)
  <2>3. v.n = u.n /\ v.act = a
    BY <2>1
  <2>4. LimitMask(v, S) = WithAct(v, b)
    <3> HIDE DEF v, a
    <3> QED BY <2>3 DEF LimitMask
  <2>5. v = [n |-> u.n, row |-> u.row, act |-> a]
    BY <2>1
  <2> HIDE DEF a, b, v
  <2>6. LimitMask(v, S) = v
    BY <2>2, <2>4, <2>5, NewActivator
  <2> QED BY <2>6 DEF v
<1> QED BY <1>3, <1>4, <1>5, <1>6, <1>8, <1>9

LEMMA SumsStep ==
  ASSUME CInv, [Next]_vars PROVE SumsKept'
<1> DEFINE n == Len(tracked)
<1> USE LengthFacts DEF CInv, MInv
<1>1. CASE ProveLimit
  <2> SUFFICES ASSUME LimitsApart', NEW i \in 1..(Len(tracked') - 1),
                      plan'[i].op = "Limit"
               PROVE  /\ LimitSumKey(i)' \in DOMAIN misc'
                      /\ misc'[LimitSumKey(i)'] = Cardinality(Active(tracked'[i + 1]))
    BY DEF SumsKept
  <2> DEFINE out == LimitMask(tracked[n], ContigS(tracked[n], plan[n].fetch))
             sum == Cardinality(Active(out))
  <2>1. /\ Len(tracked') = n + 1 /\ \A j \in 1..n : tracked'[j] = tracked[j]
        /\ tracked'[n + 1] = out
        /\ UNCHANGED <<plan, hint>> /\ LimitsApart /\ i \in 1..n /\ n \in Nat
    BY <1>1, AppendSeq DEF ProveLimit, ProveAs, Inv, Lengths, LimitsApart
  <2>2. PICK s : misc' = Put(Put(misc, LimitSKey(n), s), LimitSumKey(n), sum)
    BY <1>1 DEF ProveLimit
  <2> HIDE DEF sum
  <2>3. /\ LimitSumKey(n) \in DOMAIN misc' /\ misc'[LimitSumKey(n)] = sum
        /\ \A k \in DOMAIN misc :
             k \in DOMAIN misc' /\ (k # LimitSKey(n) /\ k # LimitSumKey(n) => misc'[k] = misc[k])
    BY <2>2 DEF Put
  <2>4. LimitSumKey(i)' = LimitSumKey(i) /\ plan[i].op = "Limit"
    BY <2>1 DEF LimitSumKey, LimitKey
  <2>5. CASE i = n
    BY <2>1, <2>3, <2>4, <2>5 DEF sum
  <2>6. CASE i # n
    <3>1. i \in 1..(n - 1) /\ i + 1 \in 1..n
      BY <2>1, <2>6
    <3>2. LimitSumKey(i) \in DOMAIN misc
          /\ misc[LimitSumKey(i)] = Cardinality(Active(tracked[i + 1]))
      BY <2>1, <2>4, <3>1 DEF SumsKept
    <3>3. CASE LimitSumKey(i) = LimitSumKey(n)
      <4>1. n - 1 \in 1..(n - 1) /\ plan[n - 1] = plan[n] /\ plan[i] = plan[n]
            /\ out = tracked[n]
        BY <1>1, <2>1, <2>4, <3>1, <3>3, LimitKeepsSum
      <4>2. LimitSumKey(n - 1) = LimitSumKey(i) /\ plan[n - 1].op = "Limit"
        BY <2>4, <4>1 DEF LimitSumKey, LimitKey
      <4>3. (n - 1) + 1 = n
        BY <2>1
      <4>4. misc[LimitSumKey(i)] = Cardinality(Active(tracked[n]))
        BY <2>1, <4>1, <4>2, <4>3 DEF SumsKept
      <4> QED BY <2>1, <2>3, <2>4, <3>1, <3>2, <3>3, <4>1, <4>4 DEF sum
    <3>4. CASE LimitSumKey(i) # LimitSumKey(n)
      <4>1. LimitSumKey(i) # LimitSKey(n)
        BY DEF LimitSKey, LimitSumKey
      <4> QED BY <2>1, <2>3, <2>4, <3>1, <3>2, <3>4, <4>1
    <3> QED BY <3>3, <3>4
  <2> QED BY <2>5, <2>6
<1>2. ASSUME NEW t, ProveAs(t), plan[n].op # "Limit",
             \A i : LimitSumKey(i) \in DOMAIN misc =>
               /\ LimitSumKey(i) \in DOMAIN misc'
               /\ misc'[LimitSumKey(i)] = misc[LimitSumKey(i)]
      PROVE  SumsKept'
  <2> SUFFICES ASSUME LimitsApart', NEW i \in 1..(Len(tracked') - 1),
                      plan'[i].op = "Limit"
               PROVE  /\ LimitSumKey(i)' \in DOMAIN misc'
                      /\ misc'[LimitSumKey(i)'] = Cardinality(Active(tracked'[i + 1]))
    BY DEF SumsKept
  <2>1. /\ Len(tracked') = n + 1 /\ \A j \in 1..n : tracked'[j] = tracked[j]
        /\ UNCHANGED <<plan, hint>> /\ LimitsApart /\ i \in 1..n /\ n \in Nat
    BY <1>2, AppendSeq DEF ProveAs, Inv, Lengths, LimitsApart
  <2>2. LimitSumKey(i)' = LimitSumKey(i) /\ plan[i].op = "Limit"
    BY <2>1 DEF LimitSumKey, LimitKey
  <2>3. i \in 1..(n - 1) /\ i + 1 \in 1..n
    BY <1>2, <2>1, <2>2
  <2> QED BY <1>2, <2>1, <2>2, <2>3 DEF SumsKept
<1>3. CASE ProveRemat
  <2>1. PICK s : misc' = Put(misc, RematKey(n), s)
    BY <1>3 DEF ProveRemat
  <2>2. \A i : LimitSumKey(i) # RematKey(n)
    BY DEF LimitSumKey, RematKey
  <2>3. plan[n].op # "Limit" /\ \E t : ProveAs(t)
    BY <1>3 DEF ProveRemat, ProveOp
  <2> QED BY <1>2, <2>1, <2>2, <2>3 DEF Put
<1>4. CASE ProveFilter \/ ProveSort
  <2>1. plan[n].op # "Limit" /\ misc' = misc /\ \E t : ProveAs(t)
    BY <1>4 DEF ProveFilter, ProveSort, ProveOp
  <2> QED BY <1>2, <2>1
<1>5. CASE UNCHANGED <<plan, tracked, misc>>
  <2>1. LimitsApart' = LimitsApart
    BY <1>5 DEF LimitsApart
  <2> QED BY <1>5, <2>1 DEF SumsKept, LimitSumKey, LimitKey
<1>6. CASE PlanFilter \/ PlanLimit \/ PlanSort \/ PlanRemat
  BY <1>5, <1>6 DEF PlanFilter, PlanLimit, PlanSort, PlanRemat, PlanAs
<1>7. CASE VerifyFilter \/ VerifyLimit \/ VerifySort \/ VerifyRemat
  BY <1>5, <1>7 DEF VerifyFilter, VerifyLimit, VerifySort, VerifyRemat, VerifyAs
<1>8. CASE UNCHANGED vars
  BY <1>5, <1>8 DEF vars
<1> QED BY <1>1, <1>3, <1>4, <1>6, <1>7, <1>8 DEF Next

LEMMA StepCInv == ASSUME PlainSorts PROVE CInv /\ [Next]_vars => CInv'
  BY StepMInv, HintsKeyedStep, SumsStep DEF CInv

LEMMA PadAt ==
  ASSUME NEW t, NEW j \in 1..PadSize(t.n)
  PROVE  /\ Pad(t).act[j] <=> j <= t.n /\ t.act[j]
         /\ j <= t.n => Pad(t).row[j] = t.row[j]
  BY DEF Pad

\* Padding keeps a keyed table's rows where they are.
LEMMA PadRows ==
  ASSUME NEW t, Keyed(t), PadSize(t.n) \in Nat, t.n <= PadSize(t.n)
  PROVE  /\ Active(Pad(t)) = Active(t)
         /\ \A i \in Active(t) : Pad(t).row[i] = t.row[i]
         /\ ActiveRows(Pad(t)) = ActiveRows(t)
<1>1. t.n \in Nat
  BY DEF Keyed, IsShape
<1>2. Active(Pad(t)) = Active(t)
  BY <1>1, PadActive
<1>3. \A i \in Active(t) : Pad(t).row[i] = t.row[i]
  <2> TAKE i \in Active(t)
  <2>1. i \in 1..t.n /\ i \in 1..PadSize(t.n)
    BY <1>1 DEF Active
  <2> QED BY <2>1 DEF Pad
<1> QED BY <1>2, <1>3 DEF ActiveRows

\* What the gadgets below each operator state is true of the polynomials.
LEMMA ClaimsTrue == ASSUME PlainSorts PROVE CInv => ClaimsHold
<1> SUFFICES ASSUME CInv, Masked, LimitsApart, Proved, NEW i \in DOMAIN plan
             PROVE  Claim(i)
  BY DEF ClaimsHold
<1> USE DEF CInv, MInv
<1>1. /\ i \in 1..Len(plan) /\ IsOperator(plan[i]) /\ plan \in Plans
      /\ i \in 1..(Len(tracked) - 1) /\ i \in 1..Len(tracked) /\ i + 1 \in 1..Len(tracked)
      /\ i \in 1..(Len(hint) - 1) /\ i \in 1..Len(hint) /\ i + 1 \in 1..Len(hint)
  <2>1. plan \in Plans
    BY DEF Inv, Lengths
  <2> QED BY <2>1, LengthFacts DEF Proved
<1>2. tracked[i] = Pad(hint[i]) /\ tracked[i + 1] = Pad(hint[i + 1])
  BY <1>1 DEF Inv, Agreement
<1>3. \A j \in 1..Len(hint) : /\ Keyed(hint[j]) /\ hint[j].n \in Nat
                             /\ PadSize(hint[j].n) \in Nat /\ hint[j].n <= PadSize(hint[j].n)
  <2>1. PICK scan \in Scans :
          \A j \in 1..Len(hint) : IsShape(hint[j]) /\ hint[j].n <= scan.n
    BY DEF Inv, HintsShaped
  <2>2. scan.n \in Nat
    BY ScansAssumption DEF IsTable
  <2> SUFFICES ASSUME NEW j \in 1..Len(hint)
               PROVE  /\ Keyed(hint[j]) /\ hint[j].n \in Nat
                      /\ PadSize(hint[j].n) \in Nat /\ hint[j].n <= PadSize(hint[j].n)
    OBVIOUS
  <2>3. Keyed(hint[j])
    BY DEF HintsKeyed
  <2>4. IsShape(hint[j]) /\ hint[j].n <= scan.n
    BY <2>1
  <2>5. hint[j].n \in Nat
    BY <2>4 DEF IsShape
  <2>6. hint[j].n \in 0..scan.n
    BY <2>2, <2>4, <2>5
  <2> QED BY <2>3, <2>5, <2>6, PadFits
<1>4. CASE plan[i].op = "Filter"
  <2>1. tracked[i + 1] = WithAct(tracked[i], PredColumn(hint[i], plan[i]))
    BY <1>1, <1>4 DEF TrackedLinked
  <2> DEFINE t == hint[i]
             f == plan[i]
             a == [j \in 1..t.n |-> /\ f.masked => t.act[j]
                                    /\ t.row[j] \in f.keep]
  <2>2. tracked[i + 1].act = PredColumn(t, f)
    BY <1>2, <2>1 DEF WithAct, Pad
  <2>3. PredColumn(t, f) = PadAct(t.n, a)
    <3>1. PredColumn(t, f) = Pad(WithAct(t, a)).act
      BY DEF PredColumn
    <3>2. IsShape(t)
      BY <1>1, <1>3 DEF Keyed
    <3> HIDE DEF t, a
    <3> QED BY <3>1, <3>2, PadNewActivator
  <2>4. ASSUME f.masked
        PROVE  PadAct(t.n, a) =
                 [j \in 1..tracked[i].n |-> /\ tracked[i].act[j]
                                            /\ tracked[i].row[j] \in f.keep]
    <3>1. tracked[i].n = PadSize(t.n)
      BY <1>2 DEF Pad
    <3>2. ASSUME NEW j \in 1..PadSize(t.n)
          PROVE  (j <= t.n /\ a[j]) <=> (tracked[i].act[j] /\ tracked[i].row[j] \in f.keep)
      <4>1. /\ tracked[i].act[j] <=> j <= t.n /\ t.act[j]
            /\ j <= t.n => tracked[i].row[j] = t.row[j]
        BY <1>2, PadAt
      <4>2. j <= t.n => j \in 1..t.n
        BY <1>1, <1>3
      <4> QED BY <2>4, <4>1, <4>2
    <3> HIDE DEF a
    <3> QED BY <3>1, <3>2 DEF PadAct
  <2> QED BY <1>4, <2>2, <2>3, <2>4 DEF Claim, Comparison
<1>5. CASE plan[i].op = "Limit"
  BY <1>1, <1>5 DEF SumsKept, Claim, LimitSum
<1>6. CASE plan[i].op = "Sort"
  <2> DEFINE t == hint[i]
             h == hint[i + 1]
             key == plan[i].key
  <2>1. IsKey(key) /\ plan[i].fetch = NoFetch
    BY <1>1, <1>6 DEF PlainSorts
  <2>2. h = SortHint(t, plan[i])
    BY <1>1, <1>6 DEF Inv, HintsLinked
  <2>3. /\ ActiveRows(h) = ActiveRows(t)
        /\ Cardinality(Active(h)) = Cardinality(Active(t))
        /\ Active(h) = 1..Cardinality(Active(h))
        /\ \A j, k \in Active(h) : j < k => key[h.row[j]] < key[h.row[k]]
    BY <1>1, <1>3, <2>1, <2>2, SortKeeps
  <2>4. /\ Active(tracked[i]) = Active(t) /\ ActiveRows(tracked[i]) = ActiveRows(t)
        /\ Active(tracked[i + 1]) = Active(h) /\ ActiveRows(tracked[i + 1]) = ActiveRows(h)
        /\ \A j \in Active(h) : tracked[i + 1].row[j] = h.row[j]
    BY <1>1, <1>2, <1>3, PadRows
  <2>5. Permutes(i)
    BY <2>3, <2>4 DEF Permutes
  <2>6. SortedPrefix(tracked[i + 1], key)
    BY <2>3, <2>4 DEF SortedPrefix
  <2> QED BY <1>6, <2>5, <2>6 DEF Claim
<1>7. CASE plan[i].op = "Rematerialize"
  BY <1>7 DEF Claim
<1> QED BY <1>1, <1>4, <1>5, <1>6, <1>7 DEF IsOperator, Rematerialize

\* An honest prover claims nothing false: under every filter the comparison's
\* output is the predicate on the active rows, every limit's sum is the number
\* in the proof (limit/mod.rs), and every sort permutes the active rows and
\* puts them first, in the order of the key (sort/gadget/mod.rs).
THEOREM HonestClaims ==
  ASSUME IdentifiedScans, PlainSorts PROVE Spec => []ClaimsHold
<1>1. Init => CInv
  BY InitCInv
<1>2. CInv /\ [Next]_vars => CInv'
  BY StepCInv
<1>3. CInv => ClaimsHold
  BY ClaimsTrue
<1> QED BY <1>1, <1>2, <1>3, PTL DEF Spec

-----------------------------------------------------------------------------
(* The rows a plan returns.                                                *)

\* A set of numbers that is not empty has a least one.
LEMMA Least ==
  ASSUME NEW S \in SUBSET Nat, S # {}
  PROVE  \E m \in S : \A k \in S : m <= k
<1>1. PICK m \in S : \A k \in S : ~(<<k, m>> \in OpToRel(<, Nat))
  BY NatLessThanWellFounded, WFMin
<1>2. ASSUME NEW k \in S, k < m PROVE FALSE
  <2>1. <<k, m>> \in OpToRel(<, Nat)
    BY <1>2 DEF OpToRel
  <2> QED BY <1>1, <2>1
<1>3. \A k \in S : m <= k
  <2> TAKE k \in S
  <2>1. k \in Nat /\ m \in Nat /\ ~(k < m)
    BY <1>2
  <2> QED BY <2>1
<1> QED BY <1>3

\* What a plan returns, table by table.
LEMMA ResultIs ==
  ASSUME NEW p, NEW s, Len(p) \in Nat, NEW g,
         g = [i \in 0..Len(p) |-> IF i = 0 THEN s ELSE Returns(g[i - 1], p[i])]
  PROVE  Result(p, s) = g[Len(p)]
<1> DEFINE N == Len(p)
           IsAfter(f) == f = [i \in 0..N |-> IF i = 0 THEN s ELSE Returns(f[i - 1], p[i])]
           f0 == CHOOSE f : IsAfter(f)
<1>1. Result(p, s) = f0[N]
  BY DEF Result
<1>2. IsAfter(f0)
  <2>1. IsAfter(g)
    OBVIOUS
  <2> HIDE DEF IsAfter
  <2> QED BY <2>1
<1> HIDE DEF f0
<1>3. f0[0] = s /\ \A i \in 1..N : f0[i] = Returns(f0[i - 1], p[i])
  BY <1>2
<1>4. g[0] = s /\ \A i \in 1..N : g[i] = Returns(g[i - 1], p[i])
  OBVIOUS
<1> DEFINE D == { i \in 0..N : f0[i] # g[i] }
<1>5. D \in SUBSET Nat /\ \A i \in 0..N : i \in D <=> f0[i] # g[i]
  OBVIOUS
<1> SUFFICES ASSUME D # {} PROVE FALSE
  BY <1>1
<1>6. \A i \in D : i \in 0..N
  OBVIOUS
<1> HIDE DEF D
<1>7. PICK m \in D : \A k \in D : m <= k
  BY <1>5, Least
<1>8. m \in 1..N
  BY <1>3, <1>4, <1>5, <1>6
<1>9. m - 1 \in 0..N /\ m - 1 \notin D
  BY <1>6, <1>7, <1>8
<1> QED BY <1>3, <1>4, <1>5, <1>6, <1>8, <1>9

NthActive(t, k) == CHOOSE i \in Active(t) : Rank(t, i) = k

\* The active rows in the order of their ranks.
LEMMA NthOrder ==
  ASSUME NEW t, t.n \in Nat
  PROVE  LET N == Cardinality(Active(t))
         IN /\ N \in Nat
            /\ \A k \in 1..N : NthActive(t, k) \in Active(t) /\ Rank(t, NthActive(t, k)) = k
            /\ \A j, k \in 1..N : j < k => NthActive(t, j) < NthActive(t, k)
            /\ \A i \in Active(t) : Rank(t, i) \in 1..N /\ NthActive(t, Rank(t, i)) = i
<1> DEFINE N == Cardinality(Active(t))
<1>1. N \in Nat /\ Active(t) \subseteq Nat
  BY ActiveFinite
<1>2. \A k \in 1..N : NthActive(t, k) \in Active(t) /\ Rank(t, NthActive(t, k)) = k
  BY RankOnto DEF NthActive
<1>3. \A i \in Active(t) : Rank(t, i) \in 1..N
  BY RankBounds
<1>4. \A i, j \in Active(t) : i < j <=> Rank(t, i) < Rank(t, j)
  <2> SUFFICES ASSUME NEW i \in Active(t), NEW j \in Active(t)
               PROVE  i < j <=> Rank(t, i) < Rank(t, j)
    OBVIOUS
  <2>1. i < j => Rank(t, i) < Rank(t, j)
    BY RankMonotonic
  <2>2. j < i => Rank(t, j) < Rank(t, i)
    BY RankMonotonic
  <2>3. i \in Nat /\ j \in Nat /\ Rank(t, i) \in Nat /\ Rank(t, j) \in Nat
    BY <1>1, <1>3
  <2> HIDE DEF N
  <2> QED BY <2>1, <2>2, <2>3
<1> HIDE DEF N
<1>5. \A j, k \in 1..N : j < k => NthActive(t, j) < NthActive(t, k)
  BY <1>2, <1>4
<1>6. \A i \in Active(t) : NthActive(t, Rank(t, i)) = i
  <2> TAKE i \in Active(t)
  <2> DEFINE j == NthActive(t, Rank(t, i))
  <2>1. j \in Active(t) /\ Rank(t, j) = Rank(t, i)
    BY <1>2, <1>3
  <2>2. i \in Nat /\ j \in Nat /\ Rank(t, i) \in Nat
    BY <1>1, <1>3, <2>1
  <2>3. ~(i < j) /\ ~(j < i)
    <3> HIDE DEF j
    <3> QED BY <1>4, <2>1, <2>2
  <2> HIDE DEF j
  <2>4. j = i
    BY <2>2, <2>3
  <2> QED BY <2>4 DEF j
<1> QED BY <1>1, <1>2, <1>3, <1>5, <1>6 DEF N

\* The rows at m places.
RowsAt(t, m, e) == [k \in 1..m |-> t.row[e[k]]]

\* A list of the active rows, in order and complete, is the list by rank.
LEMMA Enumerated ==
  ASSUME NEW t, t.n \in Nat, NEW m \in Nat, NEW e \in [1..m -> Active(t)],
         \A j, k \in 1..m : j < k => e[j] < e[k],
         \A i \in Active(t) : \E k \in 1..m : e[k] = i
  PROVE  /\ Cardinality(Active(t)) = m
         /\ \A k \in 1..m : Rank(t, e[k]) = k
         /\ RowsOf(t) = RowsAt(t, m, e)
<1>1. IsFiniteSet(Active(t)) /\ Active(t) \subseteq Nat
  BY ActiveFinite
<1>2. \A j, k \in 1..m : (e[j] = e[k] => j = k) /\ (e[j] <= e[k] <=> j <= k)
  <2> TAKE j, k \in 1..m
  <2>1. j < k \/ k < j \/ j = k
    OBVIOUS
  <2>2. e[j] \in Nat /\ e[k] \in Nat
    BY <1>1
  <2> QED BY <2>1, <2>2
<1>3. Cardinality(Active(t)) = m
  <2>1. e \in Bijection(1..m, Active(t))
    BY <1>2 DEF Bijection, Injection, Surjection, IsInjective
  <2>2. ExistsBijection(1..m, Active(t))
    BY <2>1 DEF ExistsBijection
  <2> QED BY <1>1, <2>2, FS_CountingElements
<1>4. ASSUME NEW k \in 1..m PROVE Rank(t, e[k]) = k
  <2> DEFINE S == { j \in Active(t) : j <= e[k] }
             f == [l \in 1..k |-> e[l]]
  <2>1. S \in SUBSET Active(t) /\ IsFiniteSet(S)
    BY <1>1, FS_Subset
  <2>2. f \in [1..k -> S]
    BY <1>2
  <2>3. \A i \in S : \E l \in 1..k : f[l] = i
    <3> TAKE i \in S
    <3>1. PICK l \in 1..m : e[l] = i
      OBVIOUS
    <3>2. l \in 1..k
      BY <1>2, <3>1
    <3> QED BY <3>1, <3>2
  <2>4. f \in Bijection(1..k, S)
    <3>1. \A i, j \in 1..k : f[i] = f[j] => i = j
      BY <1>2
    <3> HIDE DEF f, S
    <3> QED BY <2>2, <2>3, <3>1 DEF Bijection, Injection, Surjection, IsInjective
  <2>5. ExistsBijection(1..k, S) /\ k \in Nat
    <3> HIDE DEF f, S
    <3> QED BY <2>4 DEF ExistsBijection
  <2>6. Cardinality(S) = k
    <3> HIDE DEF S
    <3> QED BY <2>1, <2>5, FS_CountingElements
  <2> QED BY <2>6 DEF Rank
<1>5. \A k \in 1..m : NthActive(t, k) = e[k]
  BY <1>4, NthOrder
<1>6. RowsOf(t) = [k \in 1..Cardinality(Active(t)) |-> t.row[NthActive(t, k)]]
  BY DEF RowsOf, NthActive
<1>7. [k \in 1..m |-> t.row[NthActive(t, k)]] = [k \in 1..m |-> t.row[e[k]]]
  BY <1>5
<1> QED BY <1>3, <1>4, <1>6, <1>7 DEF RowsAt

\* The rows of a list that are in a set, by rank.
LEMMA RowsLength ==
  ASSUME NEW t, t.n \in Nat
  PROVE  LET N == Cardinality(Active(t))
         IN /\ N \in Nat /\ Len(RowsOf(t)) = N /\ DOMAIN RowsOf(t) = 1..N
            /\ RowsOf(t) = [k \in 1..N |-> t.row[NthActive(t, k)]]
  BY ActiveFinite DEF RowsOf, NthActive

\* A filter keeps the rows of its predicate, in their order.
LEMMA FilterReturns ==
  ASSUME NEW t, Keyed(t), NEW o, o.op = "Filter"
  PROVE  RowsOf(FilterHint(t, o)) = Returns(RowsOf(t), o)
<1> DEFINE N == Cardinality(Active(t))
           rows == RowsOf(t)
           keep == o.keep
           at == { k \in 1..N : rows[k] \in keep }
           u == [n |-> N, row |-> rows, act |-> [k \in 1..N |-> rows[k] \in keep]]
           h == FilterHint(t, o)
<1>1. t.n \in Nat /\ IsShape(t)
  BY DEF Keyed, IsShape
<1>2. /\ N \in Nat /\ DOMAIN rows = 1..N
      /\ \A k \in 1..N : rows[k] = t.row[NthActive(t, k)]
  BY <1>1, RowsLength
<1>3. /\ \A k \in 1..N : NthActive(t, k) \in Active(t)
      /\ \A j, k \in 1..N : j < k => NthActive(t, j) < NthActive(t, k)
      /\ \A i \in Active(t) : Rank(t, i) \in 1..N /\ NthActive(t, Rank(t, i)) = i
  BY <1>1, NthOrder
<1>4. h.n = t.n /\ h.row = t.row
      /\ h.act = [i \in 1..t.n |-> t.act[i] /\ t.row[i] \in keep]
  <2>1. t = [n |-> t.n, row |-> t.row, act |-> t.act]
    BY <1>1 DEF IsShape
  <2> DEFINE b == [i \in 1..t.n |-> t.act[i] /\ t.row[i] \in keep]
  <2>2. h = WithAct(t, b)
    BY DEF FilterHint
  <2> HIDE DEF b, h
  <2>3. h = [n |-> t.n, row |-> t.row, act |-> b]
    BY <2>1, <2>2, ShapeActivator
  <2> QED BY <2>3 DEF b
<1> HIDE DEF rows, h
<1>5. \A i : i \in Active(h) <=> i \in Active(t) /\ t.row[i] \in keep
  BY <1>4 DEF Active
<1> DEFINE M == Cardinality(Active(u))
           e == [n \in 1..M |-> NthActive(t, NthActive(u, n))]
<1>6. u.n = N /\ \A k : k \in Active(u) <=> k \in 1..N /\ rows[k] \in keep
  BY DEF Active
<1>7. Active(u) = at /\ \A k \in Active(u) : k \in 1..N
  BY <1>6
<1> HIDE DEF u
<1>8. /\ M \in Nat
      /\ \A n \in 1..M : NthActive(u, n) \in Active(u)
      /\ \A j, k \in 1..M : j < k => NthActive(u, j) < NthActive(u, k)
      /\ \A i \in Active(u) : Rank(u, i) \in 1..M /\ NthActive(u, Rank(u, i)) = i
  BY <1>2, <1>6, NthOrder
<1> HIDE DEF M, N
<1>9. e \in [1..M -> Active(h)] /\ \A n \in 1..M : e[n] = NthActive(t, NthActive(u, n))
  BY <1>2, <1>3, <1>5, <1>6, <1>8
<1> HIDE DEF e
<1>10. \A j, k \in 1..M : j < k => e[j] < e[k]
  BY <1>3, <1>7, <1>8, <1>9
<1>11. \A i \in Active(h) : \E n \in 1..M : e[n] = i
  <2> TAKE i \in Active(h)
  <2>1. i \in Active(t) /\ t.row[i] \in keep
    BY <1>5
  <2>2. Rank(t, i) \in Active(u)
    BY <1>2, <1>3, <1>6, <2>1
  <2> QED BY <1>3, <1>8, <1>9, <2>1, <2>2
<1>12. RowsOf(h) = RowsAt(h, M, e)
  <2>1. h.n \in Nat /\ M \in Nat /\ e \in [1..M -> Active(h)]
    BY <1>1, <1>4, <1>8, <1>9
  <2> QED BY <1>10, <1>11, <2>1, Enumerated
<1>13. \A n \in 1..M : h.row[e[n]] = rows[Nth(at, n)]
  <2> TAKE n \in 1..M
  <2>1. Nth(at, n) = NthActive(u, n)
    BY <1>7 DEF Nth, NthActive, Rank
  <2> QED BY <1>2, <1>4, <1>7, <1>8, <1>9, <2>1
<1>14. Returns(rows, o) = [n \in 1..M |-> rows[Nth(at, n)]]
  BY <1>2, <1>7 DEF Returns, Kept, M
<1>15. [n \in 1..M |-> h.row[e[n]]] = [n \in 1..M |-> rows[Nth(at, n)]]
  BY <1>13
<1> QED BY <1>12, <1>14, <1>15 DEF rows, h, RowsAt

\* What follows the first skip members of a list, up to the b-th.
After(s, skip, b) == [k \in 1..(b - skip) |-> s[k + skip]]

\* The last of n rows that a fetch lets through.
Bound(n, skip, fetch) == IF fetch = NoFetch \/ n < skip + fetch THEN n ELSE skip + fetch

LEMMA BoundIs ==
  ASSUME NEW n \in Nat, NEW skip \in Nat, NEW fetch, IsFetch(fetch)
  PROVE  /\ Bound(n, skip, fetch) \in Nat /\ Bound(n, skip, fetch) <= n
         /\ \A k \in 1..n :
              k <= Bound(n, skip, fetch) <=> fetch = NoFetch \/ k <= skip + fetch
  BY DEF IsFetch, Bound

LEMMA FetchedRows ==
  ASSUME NEW s, NEW n \in Nat, DOMAIN s = 1..n, Len(s) = n,
         NEW skip \in Nat, NEW fetch, IsFetch(fetch)
  PROVE  Fetched(s, skip, fetch) = After(s, skip, Bound(n, skip, fetch))
<1> DEFINE b == Bound(n, skip, fetch)
<1>1. b \in Nat /\ b <= n
  BY BoundIs
<1>2. Fetched(s, skip, fetch) = SubSeq(s, skip + 1, b)
  BY DEF Fetched, Bound
<1> HIDE DEF b
<1>3. SubSeq(s, skip + 1, b) = [k \in 1..(b - skip) |-> s[k + skip]]
  BY <1>1
<1> QED BY <1>2, <1>3 DEF After, b

\* A limit leaves the rows between its skip and its fetch.
LEMMA LimitReturns ==
  ASSUME NEW t, Keyed(t), NEW o, o.op = "Limit", o.skip \in Nat, IsFetch(o.fetch)
  PROVE  RowsOf(LimitHint(t, o)) = Returns(RowsOf(t), o)
<1> DEFINE N == Cardinality(Active(t))
           rows == RowsOf(t)
           h == LimitHint(t, o)
           skip == o.skip
           Within(r) == r >= skip + 1 /\ (o.fetch = NoFetch \/ r <= skip + o.fetch)
<1>1. t.n \in Nat /\ IsShape(t)
  BY DEF Keyed, IsShape
<1>2. /\ N \in Nat /\ DOMAIN rows = 1..N /\ Len(rows) = N
      /\ \A k \in 1..N : rows[k] = t.row[NthActive(t, k)]
  BY <1>1, RowsLength
<1>3. /\ \A k \in 1..N : NthActive(t, k) \in Active(t) /\ Rank(t, NthActive(t, k)) = k
      /\ \A j, k \in 1..N : j < k => NthActive(t, j) < NthActive(t, k)
      /\ \A i \in Active(t) : Rank(t, i) \in 1..N /\ NthActive(t, Rank(t, i)) = i
  BY <1>1, NthOrder
<1>4. h.n = t.n /\ h.row = t.row
      /\ h.act = [i \in 1..t.n |-> t.act[i] /\ InRange(t, i, o)]
  <2>1. t = [n |-> t.n, row |-> t.row, act |-> t.act]
    BY <1>1 DEF IsShape
  <2> DEFINE b == [i \in 1..t.n |-> t.act[i] /\ InRange(t, i, o)]
  <2>2. h = WithAct(t, b)
    BY DEF LimitHint
  <2> HIDE DEF b, h
  <2>3. h = [n |-> t.n, row |-> t.row, act |-> b]
    BY <2>1, <2>2, ShapeActivator
  <2> QED BY <2>3 DEF b
<1> HIDE DEF rows, h
<1>5. \A i : i \in Active(h) <=> i \in Active(t) /\ Within(Rank(t, i))
  BY <1>4 DEF Active, InRange, RowNumber
<1> DEFINE b == Bound(N, skip, o.fetch)
<1> HIDE DEF N
<1>6. /\ b \in Nat /\ b <= N
      /\ \A k \in 1..N : k <= b <=> o.fetch = NoFetch \/ k <= skip + o.fetch
      /\ Fetched(rows, skip, o.fetch) = After(rows, skip, b)
  <2>1. N \in Nat /\ DOMAIN rows = 1..N /\ Len(rows) = N
    BY <1>2
  <2>2. /\ b \in Nat /\ b <= N
        /\ \A k \in 1..N : k <= b <=> o.fetch = NoFetch \/ k <= skip + o.fetch
    BY <2>1, BoundIs
  <2>3. Fetched(rows, skip, o.fetch) = After(rows, skip, b)
    BY <2>1, FetchedRows
  <2> QED BY <2>2, <2>3
<1> HIDE DEF b
<1>7. \A r \in 1..N : Within(r) <=> r > skip /\ r <= b
  BY <1>2, <1>6
<1> DEFINE M == IF skip <= b THEN b - skip ELSE 0
           e == [k \in 1..M |-> NthActive(t, k + skip)]
<1>8. M \in Nat /\ 1..M = 1..(b - skip) /\ \A k \in 1..M : k + skip \in 1..N /\ k + skip <= b
  BY <1>2, <1>6
<1>9. \A r \in 1..N : r > skip /\ r <= b => r - skip \in 1..M /\ (r - skip) + skip = r
  BY <1>2, <1>6
<1> HIDE DEF M, Within
<1>10. e \in [1..M -> Active(h)] /\ \A k \in 1..M : e[k] = NthActive(t, k + skip)
  <2>1. ASSUME NEW k \in 1..M PROVE NthActive(t, k + skip) \in Active(h)
    <3>1. k + skip \in 1..N /\ k + skip > skip /\ k + skip <= b
      BY <1>8
    <3> QED BY <1>3, <1>5, <1>7, <3>1
  <2> QED BY <2>1
<1> HIDE DEF e
<1>11. \A j, k \in 1..M : j < k => e[j] < e[k]
  BY <1>3, <1>8, <1>10
<1>12. \A i \in Active(h) : \E k \in 1..M : e[k] = i
  <2> TAKE i \in Active(h)
  <2>1. i \in Active(t) /\ Within(Rank(t, i))
    BY <1>5
  <2>2. Rank(t, i) \in 1..N /\ Rank(t, i) > skip /\ Rank(t, i) <= b
    BY <1>3, <1>7, <2>1
  <2>3. Rank(t, i) - skip \in 1..M /\ (Rank(t, i) - skip) + skip = Rank(t, i)
    BY <1>9, <2>2
  <2> QED BY <1>3, <1>10, <2>1, <2>3
<1>13. RowsOf(h) = RowsAt(h, M, e)
  BY <1>1, <1>4, <1>8, <1>10, <1>11, <1>12, Enumerated
<1>14. Returns(rows, o) = [k \in 1..M |-> rows[k + skip]]
  BY <1>6, <1>8 DEF Returns, After
<1>15. [k \in 1..M |-> h.row[e[k]]] = [k \in 1..M |-> rows[k + skip]]
  BY <1>2, <1>4, <1>8, <1>10
<1> QED BY <1>13, <1>14, <1>15 DEF rows, h, RowsAt

\* Active rows that come first are listed as they stand.
LEMMA PrefixRows ==
  ASSUME NEW t, t.n \in Nat, Active(t) = 1..Cardinality(Active(t))
  PROVE  RowsOf(t) = [k \in 1..Cardinality(Active(t)) |-> t.row[k]]
<1> DEFINE N == Cardinality(Active(t))
           e == [k \in 1..N |-> k]
<1>1. N \in Nat
  BY ActiveFinite
<1>2. e \in [1..N -> Active(t)] /\ \A k \in 1..N : e[k] = k
  OBVIOUS
<1>3. \A i \in Active(t) : i \in 1..N
  OBVIOUS
<1> HIDE DEF N, e
<1>4. RowsOf(t) = RowsAt(t, N, e)
  BY <1>1, <1>2, <1>3, Enumerated
<1>5. [k \in 1..N |-> t.row[e[k]]] = [k \in 1..N |-> t.row[k]]
  BY <1>2
<1> QED BY <1>4, <1>5 DEF N, RowsAt

\* Rematerializing a table leaves its rows as they were.
LEMMA RematReturns ==
  ASSUME NEW t, Keyed(t), NEW o, o.op = "Rematerialize"
  PROVE  RowsOf(RematHint(t)) = Returns(RowsOf(t), o)
<1> DEFINE N == Cardinality(Active(t))
           h == RematHint(t)
<1>1. t.n \in Nat
  BY DEF Keyed, IsShape
<1>2. /\ N \in Nat /\ RowsOf(t) = [k \in 1..N |-> t.row[NthActive(t, k)]]
  BY <1>1, RowsLength
<1>3. h = [n |-> N, row |-> [k \in 1..N |-> t.row[NthActive(t, k)]],
           act |-> [k \in 1..N |-> TRUE]]
  BY DEF RematHint, NthActive
<1> HIDE DEF N, h
<1>4. h.n = N /\ h.row = [k \in 1..N |-> t.row[NthActive(t, k)]] /\ Active(h) = 1..N
  BY <1>3 DEF Active
<1>5. Cardinality(Active(h)) = N
  BY <1>2, <1>4, FS_Interval
<1>6. RowsOf(h) = [k \in 1..N |-> h.row[k]]
  BY <1>2, <1>4, <1>5, PrefixRows
<1>7. [k \in 1..N |-> h.row[k]] = [k \in 1..N |-> t.row[NthActive(t, k)]]
  BY <1>4
<1>8. Returns(RowsOf(t), o) = RowsOf(t)
  BY DEF Returns
<1> QED BY <1>2, <1>6, <1>7, <1>8 DEF h

Members(s) == { s[k] : k \in DOMAIN s }

\* The rows of a table are its active rows.
LEMMA RowsAre ==
  ASSUME NEW t, t.n \in Nat
  PROVE  Members(RowsOf(t)) = ActiveRows(t)
<1> DEFINE N == Cardinality(Active(t))
           rows == RowsOf(t)
<1>1. DOMAIN rows = 1..N /\ \A k \in 1..N : rows[k] = t.row[NthActive(t, k)]
  BY RowsLength
<1>2. /\ \A k \in 1..N : NthActive(t, k) \in Active(t)
      /\ \A i \in Active(t) : Rank(t, i) \in 1..N /\ NthActive(t, Rank(t, i)) = i
  BY NthOrder
<1> HIDE DEF N, rows
<1>3. \A k \in DOMAIN rows : rows[k] \in ActiveRows(t)
  BY <1>1, <1>2 DEF ActiveRows
<1>4. ASSUME NEW r \in ActiveRows(t) PROVE \E k \in DOMAIN rows : rows[k] = r
  <2>1. PICK i \in Active(t) : r = t.row[i]
    BY DEF ActiveRows
  <2> QED BY <1>1, <1>2, <2>1
<1>5. Members(rows) = ActiveRows(t)
  BY <1>3, <1>4 DEF Members
<1> QED BY <1>5 DEF rows

\* A list in the order of its keys is the list InOrder makes of its members.
LEMMA OrderedBy ==
  ASSUME NEW key, IsKey(key), NEW n \in Nat, NEW q \in [1..n -> Rows],
         \A j, k \in 1..n : j < k => key[q[j]] < key[q[k]],
         NEW rows, Members(rows) = Members(q)
  PROVE  InOrder(rows, key) = q
<1> DEFINE all == { q[k] : k \in 1..n }
           Upto(r) == { s \in all : key[s] <= key[r] }
           It(k) == CHOOSE r \in all : Cardinality(Upto(r)) = k
           First(k) == { q[l] : l \in 1..k }
           Ordered(A) == [k \in 1..Cardinality(A) |->
             CHOOSE r \in A : Cardinality({ s \in A : key[s] <= key[r] }) = k]
<1>1. \A j, k \in 1..n : (q[j] = q[k] => j = k) /\ (key[q[j]] <= key[q[k]] <=> j <= k)
  <2> TAKE j, k \in 1..n
  <2>1. key[q[j]] \in Int /\ key[q[k]] \in Int
    BY DEF IsKey
  <2>2. j < k \/ k < j \/ j = k
    OBVIOUS
  <2> QED BY <2>1, <2>2
<1>2. \A k \in 0..n : Cardinality(First(k)) = k
  <2> TAKE k \in 0..n
  <2> DEFINE S == { q[l] : l \in 1..k }
             f == [l \in 1..k |-> q[l]]
  <2>1. f \in [1..k -> S] /\ \A r \in S : \E l \in 1..k : f[l] = r
    OBVIOUS
  <2>2. \A i, j \in 1..k : f[i] = f[j] => i = j
    BY <1>1
  <2> HIDE DEF f, S
  <2>3. f \in Bijection(1..k, S)
    BY <2>1, <2>2 DEF Bijection, Injection, Surjection, IsInjective
  <2>4. ExistsBijection(1..k, S) /\ k \in Nat
    BY <2>3 DEF ExistsBijection
  <2>5. Cardinality(S) = k
    BY <2>4, FS_CountingElements
  <2> QED BY <2>5 DEF S
<1>3. \A k \in 1..n : Upto(q[k]) = First(k)
  <2> TAKE k \in 1..n
  <2>1. \A l \in 1..n : q[l] \in Upto(q[k]) <=> l \in 1..k
    BY <1>1
  <2>2. \A r \in Upto(q[k]) : \E l \in 1..n : q[l] = r
    OBVIOUS
  <2>3. \A l \in 1..k : l \in 1..n
    OBVIOUS
  <2> HIDE DEF Upto
  <2> QED BY <2>1, <2>2, <2>3
<1>4. \A k \in 1..n : Cardinality(Upto(q[k])) = k
  <2> HIDE DEF Upto, First
  <2> QED BY <1>2, <1>3
<1>5. \A r \in all : \E k \in 1..n : r = q[k]
  OBVIOUS
<1>6. \A k \in 1..n : q[k] \in all
  OBVIOUS
<1>7. Cardinality(all) = n
  BY <1>2
<1>8. InOrder(rows, key) = [k \in 1..Cardinality(all) |-> It(k)]
  <2>1. InOrder(rows, key) = Ordered(Members(rows))
    BY DEF InOrder, Members
  <2>2. Members(q) = all
    BY DEF Members
  <2>3. Ordered(all) = [k \in 1..Cardinality(all) |-> It(k)]
    OBVIOUS
  <2> HIDE DEF Ordered, all, It
  <2> QED BY <2>1, <2>2, <2>3
<1> HIDE DEF all, Upto
<1>9. \A k \in 1..n : It(k) = q[k]
  BY <1>4, <1>5, <1>6
<1> HIDE DEF It
<1>10. [k \in 1..n |-> It(k)] = q
  BY <1>9
<1> QED BY <1>7, <1>8, <1>10

\* A sort returns the rows in the order of its key.
LEMMA SortReturns ==
  ASSUME NEW t, Keyed(t), NEW o, o.op = "Sort", IsKey(o.key), o.fetch = NoFetch
  PROVE  RowsOf(SortHint(t, o)) = Returns(RowsOf(t), o)
<1> DEFINE h == SortHint(t, o)
           N == Cardinality(Active(h))
           q == RowsOf(h)
           rows == RowsOf(t)
<1>1. /\ Keyed(h) /\ ActiveRows(h) = ActiveRows(t) /\ Active(h) = 1..N
      /\ \A j, k \in Active(h) : j < k => o.key[h.row[j]] < o.key[h.row[k]]
  BY SortKeeps
<1> HIDE DEF h
<1>2. t.n \in Nat /\ h.n \in Nat
  BY <1>1 DEF Keyed, IsShape
<1>3. N \in Nat /\ Active(h) \subseteq 1..h.n
  BY <1>2, ActiveFinite
<1>4. q = [k \in 1..N |-> h.row[k]]
  BY <1>1, <1>2, PrefixRows
<1>5. DOMAIN q = 1..N /\ Len(q) = N
  BY <1>2, RowsLength
<1>6. Members(rows) = Members(q)
  BY <1>1, <1>2, RowsAre
<1> HIDE DEF q, rows, N
<1>7. q \in [1..N -> Rows] /\ \A j, k \in 1..N : j < k => o.key[q[j]] < o.key[q[k]]
  BY <1>1, <1>3, <1>4 DEF Keyed
<1>8. InOrder(rows, o.key) = q
  BY <1>3, <1>5, <1>6, <1>7, OrderedBy
<1>9. Returns(rows, o) = Fetched(q, 0, NoFetch)
  BY <1>8 DEF Returns
<1>10. Fetched(q, 0, NoFetch) = After(q, 0, N)
  BY <1>3, <1>5, FetchedRows DEF IsFetch, Bound
<1>11. After(q, 0, N) = q
  BY <1>3, <1>4 DEF After
<1> QED BY <1>9, <1>10, <1>11 DEF h, q, rows

\* Every hint table holds what its operator returns on the rows below it.
LEMMA HintReturns ==
  ASSUME NEW t, Keyed(t), NEW o, IsOperator(o),
         o.op = "Sort" => IsKey(o.key) /\ o.fetch = NoFetch
  PROVE  /\ o.op = "Filter" => RowsOf(FilterHint(t, o)) = Returns(RowsOf(t), o)
         /\ o.op = "Limit" => RowsOf(LimitHint(t, o)) = Returns(RowsOf(t), o)
         /\ o.op = "Sort" => RowsOf(SortHint(t, o)) = Returns(RowsOf(t), o)
         /\ o.op = "Rematerialize" => RowsOf(RematHint(t)) = Returns(RowsOf(t), o)
<1>1. o.op = "Limit" => o.skip \in Nat /\ IsFetch(o.fetch)
  BY DEF IsOperator, Rematerialize
<1> QED BY <1>1, FilterReturns, LimitReturns, SortReturns, RematReturns

\* The root's table holds the rows of the query's result.
LEMMA ResultTrue == ASSUME PlainSorts PROVE CInv => ResultProved
<1> SUFFICES ASSUME CInv, Masked, Proved
             PROVE  LET top == Last(tracked)
                        rows == Result(plan, RowsOf(hint[1]))
                    IN /\ Cardinality(Active(top)) = Len(rows)
                       /\ \A i \in Active(top) : top.row[i] = rows[Rank(top, i)]
  BY DEF ResultProved
<1> DEFINE N == Len(plan)
           g == [i \in 0..N |-> RowsOf(hint[i + 1])]
           t == hint[N + 1]
           top == Last(tracked)
<1> USE DEF CInv, MInv
<1>1. /\ plan \in Plans /\ N \in Nat /\ Len(tracked) = N + 1 /\ Len(hint) = N + 1
      /\ \A i \in 1..N : IsOperator(plan[i])
  BY LengthFacts, PlansAssumption DEF Proved, Inv, Lengths, IsPlan
<1>2. \A i \in 1..N : RowsOf(hint[i + 1]) = Returns(RowsOf(hint[i]), plan[i])
  <2> TAKE i \in 1..N
  <2>1. i \in 1..(Len(hint) - 1) /\ i \in 1..Len(hint) /\ IsOperator(plan[i])
    BY <1>1
  <2>2. Keyed(hint[i]) /\ (plan[i].op = "Sort" => IsKey(plan[i].key) /\ plan[i].fetch = NoFetch)
    BY <1>1, <2>1 DEF HintsKeyed, PlainSorts
  <2>3. plan[i].op \in {"Filter", "Limit", "Sort", "Rematerialize"}
    BY <2>1 DEF IsOperator, Rematerialize, Filter, Limit, Sort
  <2>4. /\ plan[i].op = "Filter" => hint[i + 1] = FilterHint(hint[i], plan[i])
        /\ plan[i].op = "Limit" => hint[i + 1] = LimitHint(hint[i], plan[i])
        /\ plan[i].op = "Sort" => hint[i + 1] = SortHint(hint[i], plan[i])
        /\ plan[i].op = "Rematerialize" => hint[i + 1] = RematHint(hint[i])
    BY <2>1 DEF Inv, HintsLinked
  <2> QED BY <2>1, <2>2, <2>3, <2>4, HintReturns
<1>3. /\ tracked[N + 1] = Pad(t) /\ Keyed(t) /\ t.n \in Nat
      /\ PadSize(t.n) \in Nat /\ t.n <= PadSize(t.n)
  <2>1. N + 1 \in 1..Len(tracked) /\ N + 1 \in 1..Len(hint)
    BY <1>1
  <2>2. tracked[N + 1] = Pad(t) /\ Keyed(t)
    BY <2>1 DEF Inv, Agreement, HintsKeyed
  <2>3. PICK scan \in Scans :
          \A j \in 1..Len(hint) : IsShape(hint[j]) /\ hint[j].n <= scan.n
    BY DEF Inv, HintsShaped
  <2>4. scan.n \in Nat
    BY ScansAssumption DEF IsTable
  <2>5. t.n \in Nat /\ t.n <= scan.n
    BY <2>1, <2>3 DEF IsShape
  <2>6. t.n \in 0..scan.n
    BY <2>4, <2>5
  <2> QED BY <2>2, <2>5, <2>6, PadFits
<1>4. top = Pad(t)
  BY <1>1, <1>3 DEF Last
<1>5. Result(plan, RowsOf(hint[1])) = RowsOf(t)
  <2>1. g[0] = RowsOf(hint[1]) /\ g[N] = RowsOf(t)
    BY <1>1
  <2>2. \A i \in 1..N : g[i] = Returns(g[i - 1], plan[i])
    BY <1>1, <1>2
  <2>3. DOMAIN g = 0..N /\ g = [i \in 0..N |-> g[i]]
    OBVIOUS
  <2> HIDE DEF g
  <2>4. \A i \in 0..N : g[i] = IF i = 0 THEN g[0] ELSE Returns(g[i - 1], plan[i])
    BY <1>1, <2>2
  <2>5. g = [i \in 0..N |-> IF i = 0 THEN g[0] ELSE Returns(g[i - 1], plan[i])]
    BY <2>3, <2>4
  <2>6. Result(plan, g[0]) = g[N]
    BY <1>1, <2>5, ResultIs
  <2> QED BY <2>1, <2>6
<1> HIDE DEF g, t, top
<1>6. /\ Active(top) = Active(t) /\ \A i : Rank(top, i) = Rank(t, i)
      /\ \A i \in Active(t) : top.row[i] = t.row[i]
  BY <1>3, <1>4, PadActive, PadRows
<1>7. /\ Len(RowsOf(t)) = Cardinality(Active(t))
      /\ \A k \in 1..Cardinality(Active(t)) : RowsOf(t)[k] = t.row[NthActive(t, k)]
  BY <1>3, RowsLength
<1>8. \A i \in Active(t) : Rank(t, i) \in 1..Cardinality(Active(t))
                           /\ NthActive(t, Rank(t, i)) = i
  BY <1>3, NthOrder
<1>9. \A i \in Active(top) : top.row[i] = RowsOf(t)[Rank(top, i)]
  BY <1>6, <1>7, <1>8
<1>10. Cardinality(Active(top)) = Len(RowsOf(t))
  BY <1>6, <1>7
<1> QED BY <1>5, <1>9, <1>10 DEF top

\* The rows ResultCheck (result_check.rs) finds among the active rows of the
\* root's table are the rows DataFusion returns for the plan, in its order and
\* no others: for scans of any size and plans of any length, whose filters are
\* false on inactive rows.
THEOREM ResultIsProved ==
  ASSUME IdentifiedScans, PlainSorts PROVE Spec => []ResultProved
<1>1. Init => CInv
  BY InitCInv
<1>2. CInv /\ [Next]_vars => CInv'
  BY StepCInv
<1>3. CInv => ResultProved
  BY ResultTrue
<1> QED BY <1>1, <1>2, <1>3, PTL DEF Spec

=============================================================================
