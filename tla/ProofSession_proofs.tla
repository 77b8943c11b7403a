------------------------- MODULE ProofSession_proofs -------------------------
(***************************************************************************)
(* The two tracker counters stay in step, for every arena, every choice of *)
(* materialized columns and every number of commitments a gadget makes.    *)
(*                                                                         *)
(* Neither side keeps a history, so the proof states in closed form which  *)
(* id belongs to which column and gadget: the number of columns, and then  *)
(* of gadget commitments, that come before it in the arena.                *)
(***************************************************************************)
EXTENDS ProofSession, FiniteSetTheorems, TLAPS

\* The materialized columns of the first k arena nodes, and the id with which
\* node k + 1 starts.
Owned(k) == { c \in mat : \E j \in 1..k : c \in ColSet(Arena[j]) }
Start(k) == Cardinality(Owned(k))
IdOf(j, c) == Start(j - 1) + Rank(Arena[j], MatCols(Arena[j]), c)

\* The commitments of the gadgets among the first k arena nodes.
ComsOf(j) == IF IsGadget(Arena[j]) THEN 0 .. (GadgetComs[Arena[j]] - 1) ELSE {}
Slots(k) == { s \in (1..k) \X Nat : s[2] \in ComsOf(s[1]) }
Base == Start(Len(Arena)) + ResultCols
GadgetId(j) == Base + Cardinality(Slots(j - 1))

-----------------------------------------------------------------------------
(* The inductive invariant.                                                *)

Ranges ==
  /\ mat \subseteq Column
  /\ baseRows \in [BaseTable -> 0..MaxRows] /\ rows \in [Table -> 0..MaxRows]
  /\ pidx \in 0..Len(Arena) /\ vidx \in 0..Len(Arena)
  /\ pphase \in {"idle", "arithmetize", "commit", "track", "prove", "proved",
                 "error", "panic"}
  /\ vphase \in {"idle", "track", "verify", "panic"}

\* Every flagged column is materialized, arithmetized and committed to: no
\* table is so empty that the prover skips what the verifier will expect.
NoneSkipped ==
  /\ pphase = "idle" => pidx = 0 /\ pnext = 0
  /\ pphase = "arithmetize" =>
       /\ pidx = 0 /\ pnext = 0
       /\ DOMAIN mtab = mat /\ \A c \in mat : mtab[c] # 0
  /\ pphase = "commit" => pidx = 0 /\ pnext = 0 /\ arith = mat
  /\ pphase \in {"track", "prove", "proved"} => DOMAIN com = mat

ColumnsTracked(k) ==
  \A j \in 1..k : \A c \in MatCols(Arena[j]) :
    c \in DOMAIN pids /\ pids[c] = IdOf(j, c)
GadgetsProved(k) ==
  \A j \in 1..k : IsGadget(Arena[j]) =>
    Arena[j] \in DOMAIN pgids /\ pgids[Arena[j]] = GadgetId(j)
SlotsCounted(next, k) ==
  IsFiniteSet(Slots(k)) /\ next = Base + Cardinality(Slots(k))

ProverCounts ==
  /\ pphase = "track" => pnext = Start(pidx) /\ ColumnsTracked(pidx)
  /\ pphase \in {"prove", "proved"} => ColumnsTracked(Len(Arena))
  /\ pphase = "prove" /\ ~perr =>
       SlotsCounted(pnext, pidx) /\ GadgetsProved(pidx)
  /\ pphase = "proved" => GadgetsProved(Len(Arena))

VerifierCounts ==
  /\ vphase # "idle" \/ DOMAIN vids # {} \/ DOMAIN vgids # {} =>
       pphase = "proved"
  /\ vphase = "track" => vnext = Start(vidx)
  /\ vphase = "verify" /\ ~verr => SlotsCounted(vnext, vidx)
  /\ \A c \in DOMAIN vids : \E j \in 1..Len(Arena) :
        c \in MatCols(Arena[j]) /\ vids[c].id = IdOf(j, c)
  /\ \A n \in DOMAIN vgids : \E j \in 1..Len(Arena) :
        n = Arena[j] /\ IsGadget(n) /\ vgids[n] = GadgetId(j)

Inv == Ranges /\ NoneSkipped /\ ProverCounts /\ VerifierCounts

-----------------------------------------------------------------------------
(* Facts about the arena, the closed forms and the row counts.             *)

\* Counting disjoint unions, initial segments and tagged copies.
LEMMA DisjointUnion ==
  ASSUME NEW S, NEW T, NEW U, IsFiniteSet(S), IsFiniteSet(T),
         S \cap T = {}, U = S \cup T
  PROVE  /\ IsFiniteSet(U)
         /\ Cardinality(S) \in Nat /\ Cardinality(T) \in Nat
         /\ Cardinality(U) = Cardinality(S) + Cardinality(T)
<1>1. Cardinality(S) \in Nat /\ Cardinality(T) \in Nat
  BY FS_CardinalityType
<1>2. IsFiniteSet(S \cup T)
      /\ Cardinality(S \cup T)
           = Cardinality(S) + Cardinality(T) - Cardinality(S \cap T)
  BY FS_Union
<1>3. Cardinality(S \cap T) = 0
  BY FS_EmptySet
<1>4. IsFiniteSet(U) /\ Cardinality(U) = Cardinality(S) + Cardinality(T) - 0
  BY <1>2, <1>3, Zenon
<1> QED BY <1>1, <1>4

LEMMA SegmentSize ==
  ASSUME NEW n \in Nat
  PROVE  IsFiniteSet(0 .. (n - 1)) /\ Cardinality(0 .. (n - 1)) = n
<1> DEFINE m == n - 1
<1>1. m \in Int /\ 0 \in Int
  OBVIOUS
<1> HIDE DEF m
<1>2. IsFiniteSet(0..m) /\ Cardinality(0..m) = IF 0 > m THEN 0 ELSE m - 0 + 1
  BY <1>1, FS_Interval
<1> USE DEF m
<1>3. (IF 0 > m THEN 0 ELSE m - 0 + 1) = n
  OBVIOUS
<1> QED BY <1>2, <1>3

LEMMA TaggedSize ==
  ASSUME NEW x, NEW S, IsFiniteSet(S)
  PROVE  IsFiniteSet({x} \X S) /\ Cardinality({x} \X S) = Cardinality(S)
<1> DEFINE f == [y \in S |-> <<x, y>>]
<1>1. f \in [S -> {x} \X S]
  OBVIOUS
<1>2. \A y, z \in S : f[y] = f[z] => y = z
  OBVIOUS
<1>3. \A s \in {x} \X S : \E y \in S : f[y] = s
  OBVIOUS
<1> HIDE DEF f
<1>4. f \in Injection(S, {x} \X S)
  BY <1>1, <1>2 DEF Injection, IsInjective
<1>5. f \in Surjection(S, {x} \X S)
  BY <1>1, <1>3 DEF Surjection
<1>6. ExistsBijection(S, {x} \X S)
  BY <1>4, <1>5 DEF ExistsBijection, Bijection
<1> QED BY <1>6, FS_Bijection

LEMMA ArenaNodes == \A j \in 1..Len(Arena) : Arena[j] \in Node
  BY ArenaAssumption

LEMMA LenNat == Len(Arena) \in Nat
  BY ArenaAssumption

\* Different arena positions own different columns.
LEMMA ColumnsApart ==
  ASSUME NEW i \in 1..Len(Arena), NEW j \in 1..Len(Arena), i # j
  PROVE  ColSet(Arena[i]) \cap ColSet(Arena[j]) = {}
<1>1. Arena[i] # Arena[j]
  BY ArenaAssumption
<1> QED BY <1>1, ArenaNodes, ColumnAssumption

LEMMA StartZero == Start(0) = 0
<1>1. Owned(0) = {}
  BY DEF Owned
<1> QED BY <1>1, FS_EmptySet DEF Start

\* A node moves the start of the next one by the columns it has.
LEMMA StartStep ==
  ASSUME mat \subseteq Column, NEW k \in 0..(Len(Arena) - 1)
  PROVE  /\ Start(k) \in Nat
         /\ Start(k + 1) = Start(k) + Cardinality(MatCols(Arena[k + 1]))
<1> DEFINE new == MatCols(Arena[k + 1])
<1>1. IsFiniteSet(Owned(k)) /\ IsFiniteSet(new)
  <2>1. Owned(k) \in SUBSET Column /\ new \in SUBSET Column
    BY DEF Owned, MatCols
  <2> QED BY <2>1, FS_Subset, ColumnAssumption
<1>2. Owned(k + 1) = Owned(k) \cup new
  <2>1. \A j : j \in 1..(k + 1) <=> (j \in 1..k \/ j = k + 1)
    BY LenNat
  <2> QED BY <2>1 DEF Owned, MatCols
<1>3. Owned(k) \cap new = {}
  <2> SUFFICES ASSUME NEW c \in Owned(k), c \in new PROVE FALSE
    OBVIOUS
  <2>1. PICK j \in 1..k : c \in ColSet(Arena[j])
    BY DEF Owned
  <2>2. j \in 1..Len(Arena) /\ k + 1 \in 1..Len(Arena) /\ j # k + 1
    BY LenNat
  <2> QED BY <2>1, <2>2, ColumnsApart DEF MatCols
<1> HIDE DEF new
<1>4. /\ Cardinality(Owned(k)) \in Nat
      /\ Cardinality(Owned(k + 1)) = Cardinality(Owned(k)) + Cardinality(new)
  BY <1>1, <1>2, <1>3, DisjointUnion
<1> QED BY <1>4 DEF Start, new

LEMMA BaseNat == ASSUME mat \subseteq Column PROVE Base \in Nat
<1>1. Owned(Len(Arena)) \in SUBSET Column
  BY DEF Owned
<1>2. Start(Len(Arena)) \in Nat
  BY <1>1, FS_Subset, FS_CardinalityType, ColumnAssumption DEF Start
<1> QED BY <1>2, CountAssumption DEF Base

LEMMA SlotsZero == IsFiniteSet(Slots(0)) /\ Cardinality(Slots(0)) = 0
<1>1. Slots(0) = {}
  BY DEF Slots
<1> QED BY <1>1, FS_EmptySet

\* A gadget adds its commitments, any other node adds none.
LEMMA SlotsStep ==
  ASSUME NEW k \in 0..(Len(Arena) - 1), IsFiniteSet(Slots(k))
  PROVE  /\ IsFiniteSet(Slots(k + 1))
         /\ Cardinality(Slots(k)) \in Nat
         /\ Cardinality(Slots(k + 1)) = Cardinality(Slots(k))
              + (IF IsGadget(Arena[k + 1]) THEN GadgetComs[Arena[k + 1]] ELSE 0)
<1> DEFINE coms == ComsOf(k + 1)
           new == {k + 1} \X coms
           size == IF IsGadget(Arena[k + 1]) THEN GadgetComs[Arena[k + 1]] ELSE 0
<1>1. GadgetComs[Arena[k + 1]] \in Nat
  BY ArenaNodes, CountAssumption, LenNat
<1>2. IsFiniteSet(coms) /\ Cardinality(coms) = size
  <2>1. CASE IsGadget(Arena[k + 1])
    BY <1>1, <2>1, SegmentSize DEF ComsOf
  <2>2. CASE ~IsGadget(Arena[k + 1])
    BY <2>2, FS_EmptySet DEF ComsOf
  <2> QED BY <2>1, <2>2
<1>3. coms \subseteq Nat
  BY <1>1 DEF ComsOf
<1>4. Slots(k + 1) = Slots(k) \cup new
  <2>1. \A j : j \in 1..(k + 1) <=> (j \in 1..k \/ j = k + 1)
    BY LenNat
  <2> QED BY <1>3, <2>1 DEF Slots
<1>5. Slots(k) \cap new = {}
  BY LenNat DEF Slots
<1> HIDE DEF coms, size
<1>6. IsFiniteSet(new) /\ Cardinality(new) = size
  BY <1>2, TaggedSize
<1> HIDE DEF new
<1>7. /\ IsFiniteSet(Slots(k + 1)) /\ Cardinality(Slots(k)) \in Nat
      /\ Cardinality(Slots(k + 1)) = Cardinality(Slots(k)) + Cardinality(new)
  BY <1>4, <1>5, <1>6, DisjointUnion
<1> QED BY <1>6, <1>7 DEF size

\* No table is padded to nothing.
LEMMA PadRowsNonzero == \A r \in 0..MaxRows : PadRows(r) # 0
<1> SUFFICES ASSUME NEW r \in 0..MaxRows, r # 0 PROVE NextPow2(r) # 0
  BY DEF PadRows
<1>1. r \in 1..MaxRows
  BY CountAssumption
<1>2. \E p \in Pow2 : r <= p /\ p < 2 * r
  BY <1>1, SizeAssumption DEF Pow2
<1>3. r <= NextPow2(r)
  BY <1>2 DEF NextPow2
<1> QED BY <1>1, <1>3

LEMMA RowsInRange == ASSUME Ranges, NEW c \in Column PROVE RowsOf(c) \in 0..MaxRows
<1>1. NodeOf(c) \in Node
  BY ColumnAssumption DEF NodeOf
<1> QED BY <1>1, ColumnAssumption DEF Ranges, RowsOf

\* The closed forms read only mat, which no step changes.
LEMMA ClosedFormsStable ==
  ASSUME mat' = mat
  PROVE  /\ \A n : MatCols(n)' = MatCols(n)
         /\ \A k : Start(k)' = Start(k)
         /\ \A j, c : IdOf(j, c)' = IdOf(j, c)
         /\ \A j : GadgetId(j)' = GadgetId(j)
         /\ Base' = Base
  BY DEF MatCols, Start, Owned, IdOf, GadgetId, Base

LEMMA InitInv == Init => Inv
<1> SUFFICES ASSUME Init PROVE Inv
  OBVIOUS
<1> USE DEF Init
<1>1. mat \subseteq Column
  BY CountAssumption
<1>2. Ranges
  BY <1>1, LenNat DEF Ranges
<1>3. NoneSkipped
  BY DEF NoneSkipped
<1>4. ProverCounts
  BY DEF ProverCounts
<1>5. VerifierCounts
  BY DEF VerifierCounts, Empty
<1> QED BY <1>2, <1>3, <1>4, <1>5 DEF Inv

-----------------------------------------------------------------------------
(* Each action keeps the invariant.                                        *)

LEMMA DatabaseInv ==
  ASSUME Inv, NEW b \in BaseTable, UpdateTable(b) \/ CommitTable(b) PROVE Inv'
<1>1. /\ UNCHANGED <<hintVars, proverVars, verifierVars>>
      /\ baseRows' \in [BaseTable -> 0..MaxRows]
  BY DEF UpdateTable, CommitTable, Inv, Ranges
<1> USE DEF hintVars, proverVars, verifierVars
<1>2. Ranges' /\ NoneSkipped'
  BY <1>1 DEF Inv, Ranges, NoneSkipped
<1>3. ProverCounts'
  BY <1>1, ClosedFormsStable
     DEF Inv, ProverCounts, ColumnsTracked, GadgetsProved, SlotsCounted
<1>4. VerifierCounts'
  BY <1>1, ClosedFormsStable DEF Inv, VerifierCounts, SlotsCounted
<1> QED BY <1>2, <1>3, <1>4 DEF Inv

\* The passes before tracking: what each passes on is still every column.
LEMMA EarlyPassesInv ==
  ASSUME Inv, Materialize \/ Arithmetize \/ Commit PROVE Inv'
<1> USE DEF Inv, dbVars, hintVars, verifierVars
<1>1. Ranges'
  BY DEF Materialize, Arithmetize, Commit, Ranges
<1>2. NoneSkipped'
  <2>1. CASE Materialize
    <3>1. \A c \in mat : PadRows(RowsOf(c)) # 0
      BY PadRowsNonzero, RowsInRange DEF Ranges
    <3> QED BY <2>1, <3>1 DEF Materialize, NoneSkipped
  <2>2. CASE Arithmetize
    BY <2>2 DEF Arithmetize, HasRows, NoneSkipped
  <2>3. CASE Commit
    BY <2>3 DEF Commit, NoneSkipped
  <2> QED BY <2>1, <2>2, <2>3
<1>3. ProverCounts'
  <2>1. CASE Commit
    BY <2>1, StartZero, ClosedFormsStable
       DEF Commit, NoneSkipped, ProverCounts, ColumnsTracked
  <2>2. CASE Materialize \/ Arithmetize
    BY <2>2 DEF Materialize, Arithmetize, ProverCounts
  <2> QED BY <2>1, <2>2
<1>4. VerifierCounts'
  BY DEF Materialize, Arithmetize, Commit, VerifierCounts
<1> QED BY <1>1, <1>2, <1>3, <1>4

LEMMA TrackInv == ASSUME Inv, Track PROVE Inv'
<1> DEFINE n == Arena[pidx + 1]
           S == TrackedCols(n)
           id == [c \in S |-> pnext + Rank(n, S, c)]
<1>0. /\ pidx \in 0..(Len(Arena) - 1) /\ pphase = "track" /\ pphase' = "track"
      /\ pidx' = pidx + 1 /\ pnext' = pnext + Cardinality(S)
      /\ pids' = Merge(pids, id)
      /\ UNCHANGED <<dbVars, hintVars, com, perr, pgids, verifierVars>>
  BY LenNat DEF Track, Inv, Ranges
<1> USE DEF Inv, dbVars, hintVars, verifierVars
<1>1. Ranges' /\ NoneSkipped'
  BY <1>0, LenNat DEF Ranges, NoneSkipped
<1>2. S = MatCols(n)
  BY <1>0 DEF NoneSkipped, TrackedCols, MatCols
<1>3. pnext' = Start(pidx')
  BY <1>0, <1>2, StartStep DEF ProverCounts, Ranges
<1>4. \A j \in 1..pidx' : \A c \in MatCols(Arena[j]) :
        c \in DOMAIN pids' /\ pids'[c] = IdOf(j, c)
  <2> SUFFICES ASSUME NEW j \in 1..(pidx + 1), NEW c \in MatCols(Arena[j])
               PROVE  c \in DOMAIN pids' /\ pids'[c] = IdOf(j, c)
    BY <1>0
  <2>1. CASE j = pidx + 1
    <3>1. c \in S /\ id[c] = pnext + Rank(n, S, c)
      BY <1>2, <2>1
    <3>2. IdOf(j, c) = pnext + Rank(n, S, c)
      BY <1>0, <1>2, <2>1 DEF IdOf, ProverCounts
    <3> QED BY <1>0, <3>1, <3>2 DEF Merge
  <2>2. CASE j # pidx + 1
    <3>1. j \in 1..pidx /\ j \in 1..Len(Arena) /\ pidx + 1 \in 1..Len(Arena)
      BY <1>0, <2>2, LenNat
    <3>2. c \notin S
      BY <1>2, <2>2, <3>1, ColumnsApart DEF MatCols
    <3>3. c \in DOMAIN pids /\ pids[c] = IdOf(j, c)
      BY <1>0, <3>1 DEF ProverCounts, ColumnsTracked
    <3> QED BY <1>0, <3>2, <3>3 DEF Merge
  <2> QED BY <2>1, <2>2
<1>5. ProverCounts'
  <2>1. ColumnsTracked(pidx)'
    BY <1>0, <1>4, ClosedFormsStable DEF ColumnsTracked
  <2>2. pnext' = Start(pidx)'
    BY <1>0, <1>3 DEF Start, Owned
  <2> QED BY <1>0, <2>1, <2>2 DEF ProverCounts
<1>6. VerifierCounts'
  BY <1>0 DEF VerifierCounts
<1> QED BY <1>1, <1>5, <1>6

LEMMA FinishInv == ASSUME Inv, Finish PROVE Inv'
<1> USE DEF Inv, Finish, FinishNext, dbVars, hintVars, verifierVars
<1>1. Ranges' /\ NoneSkipped'
  BY LenNat DEF Ranges, NoneSkipped
<1>2. ColumnsTracked(Len(Arena))'
  BY ClosedFormsStable DEF ProverCounts, ColumnsTracked
<1>3. SlotsCounted(pnext, pidx)'
  <2>2. Base \in Nat /\ pnext' = Base
    BY BaseNat DEF Base, ProverCounts, Ranges
  <2>3. pidx' = 0 /\ Base' = Base
    BY ClosedFormsStable
  <2> QED BY <2>2, <2>3, SlotsZero DEF SlotsCounted
<1>4. ProverCounts'
  <2>1. GadgetsProved(pidx)'
    BY DEF GadgetsProved
  <2> QED BY <1>2, <1>3, <2>1 DEF ProverCounts
<1>5. VerifierCounts'
  BY DEF VerifierCounts
<1> QED BY <1>1, <1>4, <1>5

\* A proved gadget starts at the id its place in the arena gives it.
LEMMA ProveInv == ASSUME Inv, Prove PROVE Inv'
<1> DEFINE n == Arena[pidx + 1]
<1>0. /\ pidx \in 0..(Len(Arena) - 1) /\ pphase = "prove" /\ pphase' = "prove"
      /\ pidx' = pidx + 1
      /\ UNCHANGED <<dbVars, hintVars, com, pids, verifierVars>>
  BY LenNat DEF Prove, Inv, Ranges
<1> USE DEF Inv, dbVars, hintVars, verifierVars
<1>1. Ranges' /\ NoneSkipped'
  BY <1>0, LenNat DEF Ranges, NoneSkipped
<1>2. ColumnsTracked(Len(Arena))'
  BY <1>0, ClosedFormsStable DEF ProverCounts, ColumnsTracked
<1>3. ~perr' => SlotsCounted(pnext, pidx)' /\ GadgetsProved(pidx)'
  <2> SUFFICES ASSUME ~perr'
               PROVE  SlotsCounted(pnext, pidx)' /\ GadgetsProved(pidx)'
    OBVIOUS
  <2>1. ~perr /\ SlotsCounted(pnext, pidx) /\ GadgetsProved(pidx)
    BY <1>0 DEF Prove, ProverCounts
  <2>2. /\ IsFiniteSet(Slots(pidx + 1)) /\ Cardinality(Slots(pidx)) \in Nat
        /\ Cardinality(Slots(pidx + 1)) = Cardinality(Slots(pidx))
              + (IF IsGadget(n) THEN GadgetComs[n] ELSE 0)
    BY <1>0, <2>1, SlotsStep DEF SlotsCounted
  <2>3. Base' = Base /\ Base \in Int /\ pnext = GadgetId(pidx + 1)
    BY <1>0, <2>1, BaseNat, ClosedFormsStable DEF SlotsCounted, GadgetId, Ranges
  <2>4. CASE ~IsGadget(n)
    <3>1. pnext' = pnext /\ pgids' = pgids
      BY <1>0, <2>1, <2>4 DEF Prove, ProveSkips
    <3>2. SlotsCounted(pnext, pidx)'
      BY <1>0, <2>1, <2>2, <2>3, <2>4, <3>1 DEF SlotsCounted, Slots
    <3>3. \A j \in 1..pidx' : IsGadget(Arena[j]) =>
            Arena[j] \in DOMAIN pgids' /\ pgids'[Arena[j]] = GadgetId(j)
      BY <1>0, <2>1, <2>4, <3>1 DEF GadgetsProved
    <3> QED BY <1>0, <3>2, <3>3, ClosedFormsStable DEF GadgetsProved
  <2>5. CASE IsGadget(n)
    <3>1. /\ pgids' = Merge(pgids, [m \in {n} |-> pnext])
          /\ pnext' = pnext + GadgetComs[n]
      BY <1>0, <2>1, <2>5 DEF Prove, ProveSkips
    <3>2. n \in Node /\ GadgetComs[n] \in Nat
      BY <1>0, ArenaNodes, CountAssumption
    <3>3. SlotsCounted(pnext, pidx)'
      BY <1>0, <2>1, <2>2, <2>3, <2>5, <3>1, <3>2 DEF SlotsCounted, Slots
    <3>4. \A j \in 1..pidx' : IsGadget(Arena[j]) =>
            Arena[j] \in DOMAIN pgids' /\ pgids'[Arena[j]] = GadgetId(j)
      <4> SUFFICES ASSUME NEW j \in 1..(pidx + 1), IsGadget(Arena[j])
                   PROVE  /\ Arena[j] \in DOMAIN pgids'
                          /\ pgids'[Arena[j]] = GadgetId(j)
        BY <1>0
      <4>1. CASE j = pidx + 1
        BY <2>3, <3>1, <4>1 DEF Merge
      <4>2. CASE j # pidx + 1
        <5>1. j \in 1..pidx /\ Arena[j] # n
          BY <1>0, <4>2, LenNat, ArenaAssumption
        <5>2. Arena[j] \in DOMAIN pgids /\ pgids[Arena[j]] = GadgetId(j)
          BY <2>1, <5>1 DEF GadgetsProved
        <5> QED BY <3>1, <5>1, <5>2 DEF Merge
      <4> QED BY <4>1, <4>2
    <3> QED BY <1>0, <3>3, <3>4, ClosedFormsStable DEF GadgetsProved
  <2> QED BY <2>4, <2>5
<1>4. ProverCounts'
  BY <1>0, <1>2, <1>3 DEF ProverCounts
<1>5. VerifierCounts'
  BY <1>0 DEF VerifierCounts
<1> QED BY <1>1, <1>4, <1>5

LEMMA BuildInv == ASSUME Inv, Build PROVE Inv'
<1> USE DEF Inv, Build, dbVars, hintVars, verifierVars
<1>1. Ranges' /\ NoneSkipped'
  BY DEF Ranges, NoneSkipped
<1>2. ColumnsTracked(Len(Arena))'
  BY ClosedFormsStable DEF ProverCounts, ColumnsTracked
<1>3. ~perr => GadgetsProved(Len(Arena))'
  BY ClosedFormsStable DEF ProverCounts, GadgetsProved
<1>4. ProverCounts'
  BY <1>2, <1>3 DEF ProverCounts
<1>5. VerifierCounts'
  BY DEF VerifierCounts
<1> QED BY <1>1, <1>4, <1>5

\* No verifier step touches the prover's part of the invariant.
LEMMA ProverKept ==
  ASSUME Inv, UNCHANGED <<dbVars, hintVars, proverVars>>
  PROVE  NoneSkipped' /\ ProverCounts'
<1> USE DEF Inv, dbVars, hintVars, proverVars
<1>1. NoneSkipped'
  BY DEF NoneSkipped
<1>2. ProverCounts'
  BY ClosedFormsStable
     DEF ProverCounts, ColumnsTracked, GadgetsProved, SlotsCounted
<1> QED BY <1>1, <1>2

LEMMA StartVerifyInv ==
  ASSUME Inv, NEW r \in Result, StartVerify(r) PROVE Inv'
<1>1. NoneSkipped' /\ ProverCounts'
  BY ProverKept DEF StartVerify
<1> USE DEF Inv, StartVerify, Fork, dbVars, hintVars, proverVars
<1>2. Ranges'
  BY LenNat DEF Ranges
<1>3. VerifierCounts'
  <2>1. Start(0)' = 0
    BY StartZero, ClosedFormsStable
  <2> QED BY <2>1 DEF VerifierCounts, Empty
<1> QED BY <1>1, <1>2, <1>3

\* A column the verifier tracks gets the id of its place in the arena.
LEMMA VTrackInv == ASSUME Inv, VTrack PROVE Inv'
<1>1. NoneSkipped' /\ ProverCounts'
  BY ProverKept DEF VTrack
<1> DEFINE n == Arena[vidx + 1]
           S == MatCols(n)
           id == [c \in S |-> vnext + Rank(n, S, c)]
           taken == [c \in S |->
                       [id |-> id[c],
                        poly |-> IF FromOracle(n)
                                 THEN <<c, oracle[BaseOf[n]].version>>
                                 ELSE proofComs[id[c]]]]
<1>2. /\ vidx \in 0..(Len(Arena) - 1) /\ vphase = "track"
      /\ UNCHANGED <<dbVars, hintVars, proverVars, verr, vgids>>
      /\ \/ /\ vids' = Merge(vids, taken) /\ vphase' = "track"
            /\ vnext' = vnext + Cardinality(S) /\ vidx' = vidx + 1
         \/ vphase' = "panic" /\ vids' = vids /\ vidx' = vidx
  BY LenNat DEF VTrack, Inv, Ranges
<1> USE DEF Inv, dbVars, hintVars, proverVars
<1>3. Ranges'
  BY <1>2, LenNat DEF Ranges
<1>4. pphase' = "proved" /\ vnext = Start(vidx)
  BY <1>2 DEF VerifierCounts
<1>5. vphase' = "track" => vnext' = Start(vidx)'
  <2> SUFFICES ASSUME vphase' = "track" PROVE vnext' = Start(vidx)'
    OBVIOUS
  <2>1. vnext' = Start(vidx')
    BY <1>2, <1>4, StartStep DEF Ranges
  <2> QED BY <1>2, <2>1 DEF Start, Owned
<1>6. \A c \in DOMAIN vids' : \E j \in 1..Len(Arena) :
        c \in MatCols(Arena[j]) /\ vids'[c].id = IdOf(j, c)
  <2> SUFFICES ASSUME NEW c \in DOMAIN vids'
               PROVE  \E j \in 1..Len(Arena) :
                        c \in MatCols(Arena[j]) /\ vids'[c].id = IdOf(j, c)
    OBVIOUS
  <2>1. CASE vids' = vids
    BY <2>1 DEF VerifierCounts
  <2>2. CASE vids' = Merge(vids, taken) /\ c \notin S
    BY <2>2 DEF VerifierCounts, Merge
  <2>3. CASE vids' = Merge(vids, taken) /\ c \in S
    <3>1. vids'[c].id = vnext + Rank(n, S, c)
      BY <2>3 DEF Merge
    <3>2. vids'[c].id = IdOf(vidx + 1, c)
      BY <1>2, <1>4, <3>1 DEF IdOf
    <3>3. vidx + 1 \in 1..Len(Arena) /\ c \in MatCols(Arena[vidx + 1])
      BY <1>2, <2>3, LenNat
    <3> HIDE DEF n, S, id, taken
    <3> QED BY <3>2, <3>3
  <2> QED BY <1>2, <2>1, <2>2, <2>3
<1>7. VerifierCounts'
  BY <1>2, <1>4, <1>5, <1>6, ClosedFormsStable DEF VerifierCounts
<1> QED BY <1>1, <1>3, <1>7

LEMMA VFinishInv == ASSUME Inv, VFinish PROVE Inv'
<1>1. NoneSkipped' /\ ProverCounts'
  BY ProverKept DEF VFinish
<1> USE DEF Inv, VFinish, VFinishNext, dbVars, hintVars, proverVars
<1>2. Ranges'
  BY LenNat DEF Ranges
<1>3. SlotsCounted(vnext, vidx)'
  <2>1. Base \in Nat /\ vnext' = Base /\ Base' = Base /\ vidx' = 0
    BY BaseNat, ClosedFormsStable DEF Base, VerifierCounts, Ranges
  <2> QED BY <2>1, SlotsZero DEF SlotsCounted
<1>4. VerifierCounts'
  BY <1>3, ClosedFormsStable DEF VerifierCounts
<1> QED BY <1>1, <1>2, <1>4

\* A gadget the verifier runs starts at the id of its place in the arena.
LEMMA VerifyInv == ASSUME Inv, Verify PROVE Inv'
<1>1. NoneSkipped' /\ ProverCounts'
  BY ProverKept DEF Verify
<1> DEFINE n == Arena[vidx + 1]
<1>2. /\ vidx \in 0..(Len(Arena) - 1) /\ vphase = "verify" /\ vphase' = "verify"
      /\ vidx' = vidx + 1
      /\ UNCHANGED <<dbVars, hintVars, proverVars, vids>>
  BY LenNat DEF Verify, Inv, Ranges
<1> USE DEF Inv, dbVars, hintVars, proverVars
<1>3. Ranges'
  BY <1>2, LenNat DEF Ranges
<1>4. ASSUME ~verr
      PROVE  /\ SlotsCounted(vnext, vidx) /\ vnext = GadgetId(vidx + 1)
             /\ Base \in Nat /\ IsFiniteSet(Slots(vidx + 1))
             /\ Cardinality(Slots(vidx)) \in Nat
             /\ Cardinality(Slots(vidx + 1)) = Cardinality(Slots(vidx))
                  + (IF IsGadget(n) THEN GadgetComs[n] ELSE 0)
  <2>1. SlotsCounted(vnext, vidx)
    BY <1>2, <1>4 DEF VerifierCounts
  <2> QED BY <1>2, <2>1, BaseNat, SlotsStep DEF SlotsCounted, GadgetId, Ranges
<1>5. ~verr' => SlotsCounted(vnext, vidx)'
  <2> SUFFICES ASSUME ~verr' PROVE SlotsCounted(vnext, vidx)'
    OBVIOUS
  <2>1. ~verr /\ Base' = Base
    BY <1>2, ClosedFormsStable DEF Verify
  <2>2. CASE IsGadget(n)
    <3>1. vnext' = vnext + GadgetComs[n]
      BY <2>1, <2>2 DEF Verify, VerifySkips
    <3>2. GadgetComs[n] \in Nat
      BY <1>2, ArenaNodes, CountAssumption
    <3> QED BY <1>2, <1>4, <2>1, <2>2, <3>1, <3>2 DEF SlotsCounted, Slots
  <2>3. CASE ~IsGadget(n)
    <3>1. vnext' = vnext
      BY <2>3 DEF Verify, VerifySkips
    <3> QED BY <1>2, <1>4, <2>1, <2>3, <3>1 DEF SlotsCounted, Slots
  <2> QED BY <2>2, <2>3
<1>6. \A m \in DOMAIN vgids' : \E j \in 1..Len(Arena) :
        m = Arena[j] /\ IsGadget(m) /\ vgids'[m] = GadgetId(j)
  <2> SUFFICES ASSUME NEW m \in DOMAIN vgids'
               PROVE  \E j \in 1..Len(Arena) :
                        m = Arena[j] /\ IsGadget(m) /\ vgids'[m] = GadgetId(j)
    OBVIOUS
  <2>1. CASE vgids' = vgids
    BY <2>1 DEF VerifierCounts
  <2>2. CASE /\ ~verr /\ IsGadget(n)
             /\ vgids' = Merge(vgids, [x \in {n} |-> vnext])
    <3>1. CASE m = n
      <4>1. vgids'[m] = GadgetId(vidx + 1)
        BY <1>4, <2>2, <3>1 DEF Merge
      <4> QED BY <1>2, <2>2, <3>1, <4>1, LenNat
    <3>2. CASE m # n
      BY <2>2, <3>2 DEF VerifierCounts, Merge
    <3> QED BY <3>1, <3>2
  <2> QED BY <2>1, <2>2 DEF Verify, VerifySkips
<1>7. VerifierCounts'
  BY <1>2, <1>5, <1>6, ClosedFormsStable DEF VerifierCounts
<1> QED BY <1>1, <1>3, <1>7

LEMMA ConcludeInv == ASSUME Inv, Conclude PROVE Inv'
<1>1. NoneSkipped' /\ ProverCounts'
  BY ProverKept DEF Conclude
<1> USE DEF Inv, Conclude, dbVars, hintVars, proverVars
<1>2. Ranges'
  BY DEF Ranges
<1>3. VerifierCounts'
  BY ClosedFormsStable DEF VerifierCounts
<1> QED BY <1>1, <1>2, <1>3

LEMMA StutterInv == ASSUME Inv, UNCHANGED vars PROVE Inv'
<1> USE DEF vars, dbVars, hintVars, proverVars, verifierVars
<1>1. NoneSkipped' /\ ProverCounts'
  BY ProverKept
<1>2. Ranges'
  BY DEF Inv, Ranges
<1>3. VerifierCounts'
  BY ClosedFormsStable DEF Inv, VerifierCounts, SlotsCounted
<1> QED BY <1>1, <1>2, <1>3 DEF Inv

LEMMA StepInv == Inv /\ [Next]_vars => Inv'
<1> SUFFICES ASSUME Inv, [Next]_vars PROVE Inv'
  OBVIOUS
<1>1. CASE \E b \in BaseTable : UpdateTable(b) \/ CommitTable(b)
  BY <1>1, DatabaseInv
<1>2. CASE ProverStep
  BY <1>2, EarlyPassesInv, TrackInv, FinishInv, ProveInv, BuildInv
     DEF ProverStep
<1>3. CASE \E r \in Result : StartVerify(r)
  BY <1>3, StartVerifyInv
<1>4. CASE VerifierStep
  BY <1>4, VTrackInv, VFinishInv, VerifyInv, ConcludeInv DEF VerifierStep
<1>5. CASE UNCHANGED vars
  BY <1>5, StutterInv
<1> QED BY <1>1, <1>2, <1>3, <1>4, <1>5 DEF Next

LEMMA InvInStep == Inv => TrackersInStep
<1> SUFFICES ASSUME Inv PROVE TrackersInStep
  OBVIOUS
<1> USE DEF Inv
<1>1. ASSUME NEW c \in DOMAIN vids
      PROVE  c \in DOMAIN pids /\ pids[c] = vids[c].id
  <2>1. ColumnsTracked(Len(Arena))
    BY DEF VerifierCounts, ProverCounts
  <2>2. PICK j \in 1..Len(Arena) :
               c \in MatCols(Arena[j]) /\ vids[c].id = IdOf(j, c)
    BY DEF VerifierCounts
  <2> QED BY <2>1, <2>2 DEF ColumnsTracked
<1>2. ASSUME NEW n \in DOMAIN vgids
      PROVE  n \in DOMAIN pgids /\ pgids[n] = vgids[n]
  <2>1. GadgetsProved(Len(Arena))
    BY DEF VerifierCounts, ProverCounts
  <2>2. PICK j \in 1..Len(Arena) :
               n = Arena[j] /\ IsGadget(n) /\ vgids[n] = GadgetId(j)
    BY DEF VerifierCounts
  <2> QED BY <2>1, <2>2 DEF GadgetsProved
<1> QED BY <1>1, <1>2 DEF TrackersInStep

-----------------------------------------------------------------------------
\* Whatever arena, flags, row counts and gadget sizes: every id the verifier's
\* passes hand out is the id the prover's passes handed out for the same
\* column or gadget, at every moment of every verification.
THEOREM InStep == Spec => []TrackersInStep
  BY InitInv, StepInv, InvInStep, PTL DEF Spec

-----------------------------------------------------------------------------
(***************************************************************************)
(* What a verdict is worth, for every arena, every choice of materialized  *)
(* columns, every number of rows, updates and verifications: only the      *)
(* result that was proved, over data that satisfies every gadget and       *)
(* oracle files of the tables the prover read, is accepted; nothing in the *)
(* proof is left unread; a verification never asks for a commitment the    *)
(* proof lacks; nothing is committed or consumed after the first error.    *)
(*                                                                         *)
(* The part above says which id belongs to whom.  The invariant below adds *)
(* to it which of those ids the proof holds, which the verifier has taken, *)
(* and what it knows of the gadgets behind it.                             *)
(***************************************************************************)

OracleFile ==
  {NoOracle} \cup [log : { Log2(PadRows(r)) : r \in 0..MaxRows }, version : 0..MaxVersion]
Verdict == [result : Result, oracle : [BaseTable -> OracleFile], accept : BOOLEAN]

Types ==
  /\ version \in [BaseTable -> 0..MaxVersion] /\ oracle \in [BaseTable -> OracleFile]
  /\ faulty \subseteq { n \in Node : IsGadget(n) }
  /\ vresult \in Result /\ verdicts \in Seq(Verdict)

\* Errors and verdicts come late.
Late ==
  /\ perr => pphase \in {"prove", "error"}
  /\ verr => vphase \in {"verify", "idle"}
  /\ verr \/ verdicts # <<>> => pphase = "proved"

\* What ends the prover early is an oracle file, not a size.
Sizes ==
  /\ pphase = "arithmetize" => \A c \in mat : mtab[c] \in Pow2
  /\ pphase = "panic" => \E c \in mat : IsScan(NodeOf(c)) /\ ~OracleFits(c)

\* Past its commitment pass the prover has met an oracle file of every scan,
\* and a file is never taken away.
ScansCommitted ==
  pphase \in {"track", "prove", "proved"} =>
    \A c \in mat : /\ IsScan(NodeOf(c)) => oracle[BaseOf[NodeOf(c)]] # NoOracle
                   /\ com[c].external <=> IsScan(NodeOf(c))

\* The proof holds the ids of all other columns, and those of the gadgets.
IsColumnId(i, k) ==
  \E j \in 1..k : \E c \in MatCols(Arena[j]) : ~IsScan(Arena[j]) /\ i = IdOf(j, c)
GadgetIds(j) == GadgetId(j) .. (GadgetId(j) + GadgetComs[Arena[j]] - 1)
IsGadgetId(i, k) == \E j \in 1..k : IsGadget(Arena[j]) /\ i \in GadgetIds(j)
Emitted(columns, gadgets) ==
  \A i : i \in DOMAIN proofComs <=> IsColumnId(i, columns) \/ IsGadgetId(i, gadgets)
Emission ==
  /\ pphase \in {"idle", "arithmetize", "commit"} => Emitted(0, 0)
  /\ pphase = "track" => Emitted(pidx, 0)
  /\ pphase = "prove" /\ ~perr => Emitted(Len(Arena), pidx)
  /\ pphase = "proved" => Emitted(Len(Arena), Len(Arena))

\* The verifier has taken every column up to where it is, those of the scans
\* from their files, and run every gadget, none with a false claim it missed.
Tracked(k) == \A j \in 1..k : MatCols(Arena[j]) \subseteq DOMAIN vids
Taken ==
  \A c \in DOMAIN vids : IsScan(NodeOf(c)) =>
    vids[c].poly = <<c, oracle[BaseOf[NodeOf(c)]].version>>
Ran(k) == \A j \in 1..k : IsGadget(Arena[j]) => Arena[j] \in DOMAIN vgids
NoneRefuted(k) == \A j \in 1..k : IsGadget(Arena[j]) => ~Refuted(Arena[j])
Consumption ==
  /\ vphase # "panic"
  /\ vphase = "track" => Tracked(vidx) /\ Taken
  /\ vphase = "verify" => Tracked(Len(Arena)) /\ Taken
  /\ vphase = "verify" /\ ~verr => Ran(vidx)
  /\ vphase = "verify" /\ ~verr /\ ~vbad => NoneRefuted(vidx)

SInv ==
  Types /\ Late /\ Sizes /\ ScansCommitted /\ Emission /\ Consumption /\ AcceptMeansProved

-----------------------------------------------------------------------------
(* Columns, sizes, and what does not change.                               *)

LEMMA OwnerOf == ASSUME NEW n \in Node, NEW c \in ColSet(n) PROVE NodeOf(c) = n
<1>1. NodeOf(c) \in Node /\ c \in ColSet(NodeOf(c))
  BY DEF NodeOf
<1> QED BY <1>1, ColumnAssumption

LEMMA MatColOwner ==
  ASSUME NEW j \in 1..Len(Arena), NEW c \in MatCols(Arena[j])
  PROVE  c \in mat /\ NodeOf(c) = Arena[j]
  BY OwnerOf, ArenaNodes DEF MatCols

\* Every flagged column has a place in the arena.
LEMMA PlaceOf ==
  ASSUME mat \subseteq Column, NEW c \in mat
  PROVE  /\ NodeOf(c) \in Node /\ BaseOf[NodeOf(c)] \in BaseTable
         /\ \E j \in 1..Len(Arena) : NodeOf(c) = Arena[j] /\ c \in MatCols(Arena[j])
<1>1. NodeOf(c) \in Node /\ c \in ColSet(NodeOf(c))
  BY ColumnAssumption DEF NodeOf
<1>2. PICK j \in DOMAIN Arena : Arena[j] = NodeOf(c)
  BY <1>1, ArenaAssumption
<1>3. j \in 1..Len(Arena) /\ c \in MatCols(Arena[j])
  BY <1>1, <1>2, ArenaAssumption DEF MatCols
<1> QED BY <1>1, <1>2, <1>3, ColumnAssumption

\* Padded sizes are powers of two.
LEMMA PaddedInRange == ASSUME NEW r \in 0..MaxRows PROVE PadRows(r) \in Pow2
<1>1. CASE r = 0
  BY <1>1, SizeAssumption DEF PadRows, Pow2
<1>2. CASE r # 0
  <2>1. r \in 1..MaxRows
    BY <1>2, CountAssumption
  <2>2. \E p \in Pow2 : r <= p /\ p < 2 * r
    BY <2>1, SizeAssumption DEF Pow2
  <2>3. NextPow2(r) \in Pow2
    BY <2>2 DEF NextPow2
  <2> QED BY <1>2, <2>3 DEF PadRows
<1> QED BY <1>1, <1>2

LEMMA EmittedStable ==
  ASSUME UNCHANGED <<mat, proofComs>>, NEW k, NEW l, Emitted(k, l)
  PROVE  Emitted(k, l)'
  BY ClosedFormsStable DEF Emitted, IsColumnId, IsGadgetId, GadgetIds

LEMMA VerdictsStable ==
  ASSUME UNCHANGED <<mat, read, faulty, verdicts>>, AcceptMeansProved
  PROVE  AcceptMeansProved'
  BY ClosedFormsStable DEF AcceptMeansProved, FreshScans

LEMMA InitSInv == Init => SInv
<1> SUFFICES ASSUME Init PROVE SInv
  OBVIOUS
<1>1. Types
  <2>1. verdicts = <<>> /\ vresult \in Result /\ faulty \subseteq { n \in Node : IsGadget(n) }
    BY DEF Init, Result
  <2>2. version \in [BaseTable -> 0..MaxVersion]
    BY CountAssumption DEF Init
  <2>3. oracle \in [BaseTable -> OracleFile]
    BY DEF Init, OracleFile
  <2> QED BY <2>1, <2>2, <2>3 DEF Types
<1>2. Late /\ Sizes /\ ScansCommitted
  BY DEF Init, Late, Sizes, ScansCommitted
<1>3. Emission
  BY DEF Init, Emission, Emitted, IsColumnId, IsGadgetId, Empty
<1>4. Consumption
  BY DEF Init, Consumption
<1>5. AcceptMeansProved
  BY DEF Init, AcceptMeansProved
<1> QED BY <1>1, <1>2, <1>3, <1>4, <1>5 DEF SInv

-----------------------------------------------------------------------------
(* Each action keeps the invariant.                                        *)

\* A file that is committed anew is still one.
LEMMA DatabaseSInv ==
  ASSUME Inv, SInv, NEW b \in BaseTable, UpdateTable(b) \/ CommitTable(b) PROVE SInv'
<1>1. /\ UNCHANGED <<hintVars, proverVars, verifierVars>> /\ vphase = "idle"
      /\ pphase \in {"idle", "proved"}
  BY DEF UpdateTable, CommitTable, BetweenRoles
<1> USE DEF hintVars, proverVars, verifierVars
<1>2. Types' /\ \A a \in BaseTable : oracle[a] # NoOracle => oracle'[a] # NoOracle
  <2>1. CASE UpdateTable(b)
    <3>1. oracle' = oracle /\ version[b] + 1 \in 0..MaxVersion
      BY <2>1, CountAssumption DEF UpdateTable, SInv, Types
    <3>2. version' \in [BaseTable -> 0..MaxVersion]
      BY <2>1, <3>1 DEF UpdateTable, SInv, Types
    <3> QED BY <1>1, <3>1, <3>2 DEF SInv, Types
  <2>2. CASE CommitTable(b)
    <3> DEFINE file == [log |-> Log2(PadRows(baseRows[b])), version |-> version[b]]
    <3>1. file \in OracleFile
      <4>1. baseRows[b] \in 0..MaxRows /\ version[b] \in 0..MaxVersion
        BY DEF Inv, Ranges, SInv, Types
      <4> QED BY <4>1 DEF OracleFile
    <3>2. file # NoOracle
      <4>1. file.version # NoOracle.version
        BY CountAssumption DEF NoOracle, SInv, Types
      <4> HIDE DEF file
      <4> QED BY <4>1
    <3>3. oracle' = [oracle EXCEPT ![b] = file] /\ version' = version
      BY <2>2 DEF CommitTable
    <3> HIDE DEF file
    <3> QED BY <1>1, <3>1, <3>2, <3>3 DEF SInv, Types
  <2> QED BY <2>1, <2>2
<1>3. Late' /\ Sizes'
  BY <1>1 DEF SInv, Late, Sizes
<1>4. ScansCommitted'
  <2> SUFFICES ASSUME pphase = "proved", NEW c \in mat
               PROVE  /\ IsScan(NodeOf(c)) => oracle'[BaseOf[NodeOf(c)]] # NoOracle
                      /\ com[c].external <=> IsScan(NodeOf(c))
    BY <1>1 DEF ScansCommitted
  <2>1. BaseOf[NodeOf(c)] \in BaseTable
    BY PlaceOf DEF Inv, Ranges
  <2> QED BY <1>2, <2>1 DEF SInv, ScansCommitted
<1>5. Emission'
  BY <1>1, EmittedStable DEF SInv, Emission
<1>6. Consumption'
  BY <1>1 DEF Consumption
<1>7. AcceptMeansProved'
  BY <1>1, VerdictsStable DEF SInv
<1> QED BY <1>2, <1>3, <1>4, <1>5, <1>6, <1>7 DEF SInv

\* Before the proof is there, no verification runs or has run.
LEMMA ProverAlone ==
  ASSUME SInv, Inv, pphase # "proved", UNCHANGED <<dbVars, hintVars, verifierVars>>
  PROVE  Types' /\ Consumption' /\ AcceptMeansProved' /\ verdicts' = <<>> /\ ~verr'
<1> USE DEF SInv, dbVars, hintVars, verifierVars
<1>1. Types' /\ verdicts = <<>>
  BY DEF Types, Late
<1>2. vphase = "idle"
  BY DEF Inv, VerifierCounts
<1>3. Consumption' /\ AcceptMeansProved'
  BY <1>1, <1>2 DEF Consumption, AcceptMeansProved
<1> QED BY <1>1, <1>2, <1>3 DEF Late

\* Padding makes every size a power of two, so that only an oracle file is left
\* to panic about, and every scan's is there when the commitments are made.
LEMMA EarlyPassesSInv ==
  ASSUME Inv, SInv, Materialize \/ Arithmetize \/ Commit PROVE SInv'
<1>1. /\ pphase \in {"idle", "arithmetize", "commit"}
      /\ UNCHANGED <<dbVars, hintVars, pidx, perr, proofComs, verifierVars>>
      /\ ~perr
  BY DEF Materialize, Arithmetize, Commit, SInv, Late
<1>2. Types' /\ Consumption' /\ AcceptMeansProved' /\ verdicts' = <<>> /\ ~verr'
  BY <1>1, ProverAlone
<1>3. Late'
  BY <1>1, <1>2 DEF Late
<1> USE DEF Inv, SInv, dbVars, hintVars
<1>4. Sizes'
  <2>1. CASE Materialize
    <3>1. \A c \in mat : PadRows(RowsOf(c)) \in Pow2
      BY RowsInRange, PaddedInRange DEF Ranges
    <3> QED BY <2>1, <3>1 DEF Materialize, Sizes, Pow2
  <2>2. CASE Arithmetize
    <3>1. \A c \in arith' : mtab[c] \in Pow2
      BY <2>2 DEF Arithmetize, NoneSkipped, Sizes
    <3>2. pphase' = "commit"
      BY <2>2, <3>1 DEF Arithmetize, Pow2
    <3> QED BY <3>2 DEF Sizes
  <2>3. CASE Commit
    <3>1. pphase' = "panic" => \E c \in mat : IsScan(NodeOf(c)) /\ ~OracleFits(c)
      BY <2>3 DEF Commit, NoneSkipped
    <3>2. \A c : (IsScan(NodeOf(c)) /\ ~OracleFits(c))' <=> IsScan(NodeOf(c)) /\ ~OracleFits(c)
      BY <2>3 DEF Commit, OracleFits
    <3>3. pphase' \in {"track", "panic"} /\ mat' = mat
      BY <2>3 DEF Commit
    <3> QED BY <3>1, <3>2, <3>3 DEF Sizes
  <2> QED BY <2>1, <2>2, <2>3
<1>5. ScansCommitted'
  <2>1. CASE Materialize \/ Arithmetize
    BY <2>1 DEF Materialize, Arithmetize, ScansCommitted
  <2>2. CASE Commit
    <3> SUFFICES ASSUME pphase' = "track", NEW c \in mat
                 PROVE  /\ IsScan(NodeOf(c)) => oracle[BaseOf[NodeOf(c)]] # NoOracle
                        /\ com'[c].external <=> IsScan(NodeOf(c))
      BY <2>2 DEF Commit, ScansCommitted
    <3>1. com'[c] = CommitColumn(c) /\ (IsScan(NodeOf(c)) => OracleFits(c))
      BY <2>2 DEF Commit, NoneSkipped
    <3> QED BY <3>1 DEF CommitColumn, OracleFits
  <2> QED BY <2>1, <2>2
<1>6. Emission'
  <2>1. Emitted(0, 0)'
    BY <1>1, EmittedStable DEF Emission
  <2>2. pphase' \in {"arithmetize", "commit", "track", "panic"} /\ (pphase' = "track" => pidx' = 0)
    BY DEF Materialize, Arithmetize, Commit, NoneSkipped
  <2> QED BY <2>1, <2>2 DEF Emission
<1> QED BY <1>2, <1>3, <1>4, <1>5, <1>6

\* The ids a node's columns get join those that are emitted, unless it is a scan.
LEMMA TrackSInv == ASSUME Inv, SInv, Track PROVE SInv'
<1> DEFINE n == Arena[pidx + 1]
           S == TrackedCols(n)
           id == [c \in S |-> pnext + Rank(n, S, c)]
<1>0. /\ pidx \in 0..(Len(Arena) - 1) /\ pphase = "track" /\ pphase' = "track"
      /\ pidx' = pidx + 1 /\ ~perr /\ pnext = Start(pidx)
      /\ UNCHANGED <<dbVars, hintVars, com, perr, verifierVars>>
  BY LenNat DEF Track, Inv, Ranges, ProverCounts, SInv, Late
<1>1. DOMAIN proofComs' = DOMAIN proofComs \cup { id[c] : c \in EmittedCols(n) }
  BY DEF Track, Merge
<1>2. S = MatCols(n)
  BY <1>0 DEF Inv, NoneSkipped, TrackedCols, MatCols
<1>3. Types' /\ Consumption' /\ AcceptMeansProved' /\ verdicts' = <<>> /\ ~verr'
  BY <1>0, ProverAlone
<1>4. Late' /\ Sizes'
  BY <1>0, <1>3 DEF Late, Sizes
<1> USE DEF Inv, SInv, dbVars, hintVars
<1>5. ScansCommitted'
  BY <1>0 DEF ScansCommitted
<1>6. pidx + 1 \in 1..Len(Arena)
  BY <1>0, LenNat
<1>7. EmittedCols(n) = { c \in MatCols(n) : ~IsScan(n) }
  <2>1. \A c \in MatCols(n) : com[c].external <=> IsScan(n)
    BY <1>0, <1>6, MatColOwner DEF ScansCommitted
  <2> QED BY <1>2, <2>1 DEF EmittedCols
<1>8. \A c \in MatCols(n) : id[c] = IdOf(pidx + 1, c)
  BY <1>0, <1>2 DEF IdOf
<1> HIDE DEF id, S
<1>9. ASSUME NEW i
      PROVE  i \in DOMAIN proofComs' <=> IsColumnId(i, pidx + 1) \/ IsGadgetId(i, 0)
  <2>1. i \in DOMAIN proofComs <=> IsColumnId(i, pidx) \/ IsGadgetId(i, 0)
    BY <1>0 DEF Emission, Emitted
  <2>2. i \in { id[c] : c \in EmittedCols(n) }
          <=> \E c \in MatCols(n) : ~IsScan(n) /\ i = IdOf(pidx + 1, c)
    BY <1>7, <1>8
  <2>3. \A j : j \in 1..(pidx + 1) <=> j \in 1..pidx \/ j = pidx + 1
    BY <1>0
  <2>4. IsColumnId(i, pidx + 1) <=> IsColumnId(i, pidx)
          \/ \E c \in MatCols(n) : ~IsScan(n) /\ i = IdOf(pidx + 1, c)
    BY <2>3 DEF IsColumnId
  <2> QED BY <1>1, <2>1, <2>2, <2>4
<1>10. Emitted(pidx, 0)'
  BY <1>0, <1>9, ClosedFormsStable DEF Emitted, IsColumnId, IsGadgetId, GadgetIds
<1>11. Emission'
  BY <1>0, <1>10 DEF Emission
<1> QED BY <1>3, <1>4, <1>5, <1>11

LEMMA FinishSInv == ASSUME Inv, SInv, Finish PROVE SInv'
<1>1. /\ pphase = "track" /\ pphase' = "prove" /\ pidx = Len(Arena) /\ pidx' = 0 /\ ~perr
      /\ UNCHANGED <<dbVars, hintVars, com, perr, proofComs, verifierVars>>
  BY DEF Finish, SInv, Late
<1>2. Types' /\ Consumption' /\ AcceptMeansProved' /\ verdicts' = <<>> /\ ~verr'
  BY <1>1, ProverAlone
<1>3. Late' /\ Sizes'
  BY <1>1, <1>2 DEF Late, Sizes
<1> USE DEF SInv, dbVars, hintVars
<1>4. ScansCommitted'
  BY <1>1 DEF ScansCommitted
<1>5. Emitted(Len(Arena), 0)'
  BY <1>1, EmittedStable DEF Emission
<1>6. Emission'
  BY <1>1, <1>5 DEF Emission
<1> QED BY <1>2, <1>3, <1>4, <1>6

\* A gadget's ids join them, one after the other from the gadget's first.
LEMMA ProveSInv == ASSUME Inv, SInv, Prove PROVE SInv'
<1> DEFINE n == Arena[pidx + 1]
<1>0. /\ pidx \in 0..(Len(Arena) - 1) /\ pphase = "prove" /\ pphase' = "prove"
      /\ pidx' = pidx + 1
      /\ UNCHANGED <<dbVars, hintVars, com, verifierVars>>
  BY LenNat DEF Prove, Inv, Ranges
<1>1. Types' /\ Consumption' /\ AcceptMeansProved' /\ verdicts' = <<>> /\ ~verr'
  BY <1>0, ProverAlone
<1>2. Late' /\ Sizes'
  BY <1>0, <1>1 DEF Late, Sizes
<1> USE DEF Inv, SInv, dbVars, hintVars
<1>3. ScansCommitted'
  BY <1>0 DEF ScansCommitted
<1>4. ASSUME ~perr' PROVE Emitted(Len(Arena), pidx)'
  <2>1. ~perr /\ SlotsCounted(pnext, pidx) /\ Emitted(Len(Arena), pidx)
    BY <1>0, <1>4 DEF Prove, ProverCounts, Emission
  <2>2. GadgetIds(pidx + 1) = pnext .. (pnext + GadgetComs[n] - 1)
    BY <1>0, <2>1 DEF SlotsCounted, GadgetId, GadgetIds
  <2>3. \A j : j \in 1..(pidx + 1) <=> j \in 1..pidx \/ j = pidx + 1
    BY <1>0
  <2>4. ASSUME NEW i
        PROVE  IsGadgetId(i, pidx + 1) <=> IsGadgetId(i, pidx)
                 \/ (IsGadget(n) /\ i \in GadgetIds(pidx + 1))
    BY <2>3 DEF IsGadgetId
  <2>5. ASSUME NEW i
        PROVE  i \in DOMAIN proofComs' <=> IsColumnId(i, Len(Arena)) \/ IsGadgetId(i, pidx + 1)
    <3>1. i \in DOMAIN proofComs <=> IsColumnId(i, Len(Arena)) \/ IsGadgetId(i, pidx)
      BY <2>1 DEF Emitted
    <3>2. CASE ~IsGadget(n)
      <4>1. proofComs' = proofComs
        BY <2>1, <3>2 DEF Prove, ProveSkips
      <4> QED BY <2>4, <3>1, <3>2, <4>1
    <3>3. CASE IsGadget(n)
      <4>1. proofComs' = Merge(proofComs,
              [k \in pnext .. (pnext + GadgetComs[n] - 1) |-> GadgetPoly(n, k - pnext)])
        BY <1>4, <2>1, <3>3 DEF Prove, ProveSkips
      <4>2. DOMAIN proofComs' = DOMAIN proofComs \cup GadgetIds(pidx + 1)
        BY <2>2, <4>1 DEF Merge
      <4> QED BY <2>4, <3>1, <3>3, <4>2
    <3> QED BY <3>2, <3>3
  <2> QED BY <1>0, <2>5, ClosedFormsStable DEF Emitted, IsColumnId, IsGadgetId, GadgetIds
<1>5. Emission'
  BY <1>0, <1>4 DEF Emission
<1> QED BY <1>1, <1>2, <1>3, <1>5

LEMMA BuildSInv == ASSUME Inv, SInv, Build PROVE SInv'
<1>1. /\ pphase = "prove" /\ pphase' = IF perr THEN "error" ELSE "proved"
      /\ pidx = Len(Arena)
      /\ UNCHANGED <<dbVars, hintVars, com, perr, proofComs, verifierVars>>
  BY DEF Build
<1>2. Types' /\ Consumption' /\ AcceptMeansProved' /\ verdicts' = <<>> /\ ~verr'
  BY <1>1, ProverAlone
<1>3. Late' /\ Sizes'
  BY <1>1, <1>2 DEF Late, Sizes
<1> USE DEF SInv, dbVars, hintVars
<1>4. ScansCommitted'
  BY <1>1 DEF ScansCommitted
<1>5. ~perr => Emitted(Len(Arena), Len(Arena))'
  BY <1>1, EmittedStable DEF Emission
<1>6. Emission'
  BY <1>1, <1>5 DEF Emission
<1> QED BY <1>2, <1>3, <1>4, <1>6

-----------------------------------------------------------------------------
(* The verifier's steps leave the prover's part as it is.                  *)

LEMMA ProverSettled ==
  ASSUME SInv, UNCHANGED <<dbVars, hintVars, proverVars>>
  PROVE  Sizes' /\ ScansCommitted' /\ Emission'
<1> USE DEF SInv, dbVars, hintVars, proverVars
<1>1. Sizes'
  BY DEF Sizes, OracleFits
<1>2. ScansCommitted'
  BY DEF ScansCommitted
<1>3. Emission'
  BY EmittedStable DEF Emission
<1> QED BY <1>1, <1>2, <1>3

LEMMA StartVerifySInv ==
  ASSUME Inv, SInv, NEW r \in Result, StartVerify(r) PROVE SInv'
<1>1. /\ pphase = "proved" /\ vphase' = "track" /\ vidx' = 0 /\ ~verr'
      /\ vresult' = r /\ DOMAIN vids' = {}
      /\ UNCHANGED <<dbVars, hintVars, proverVars, verdicts>>
  BY DEF StartVerify, Fork, Empty
<1>2. Sizes' /\ ScansCommitted' /\ Emission'
  BY <1>1, ProverSettled
<1> USE DEF SInv, dbVars, hintVars, proverVars
<1>3. Types' /\ Late'
  BY <1>1 DEF Types, Late
<1>4. Consumption'
  BY <1>1 DEF Consumption, Tracked, Taken
<1>5. AcceptMeansProved'
  BY <1>1, VerdictsStable
<1> QED BY <1>2, <1>3, <1>4, <1>5

\* Whatever column comes next, the proof has its id or a file has it.
LEMMA VTrackSInv == ASSUME Inv, SInv, VTrack PROVE SInv'
<1> DEFINE n == Arena[vidx + 1]
           S == MatCols(n)
           id == [c \in S |-> vnext + Rank(n, S, c)]
           taken == [c \in S |->
                       [id |-> id[c],
                        poly |-> IF FromOracle(n)
                                 THEN <<c, oracle[BaseOf[n]].version>>
                                 ELSE proofComs[id[c]]]]
<1>0. /\ vidx \in 0..(Len(Arena) - 1) /\ vphase = "track"
      /\ vidx + 1 \in 1..Len(Arena)
      /\ UNCHANGED <<dbVars, hintVars, proverVars, verr, vgids, vresult, verdicts>>
  BY LenNat DEF VTrack, Inv, Ranges
<1>1. Sizes' /\ ScansCommitted' /\ Emission'
  BY <1>0, ProverSettled
<1> USE DEF Inv, SInv, dbVars, hintVars, proverVars
<1>2. pphase = "proved" /\ vnext = Start(vidx) /\ ~verr
  BY <1>0 DEF VerifierCounts, Late
<1>3. \A c \in S : c \in mat /\ NodeOf(c) = n
  BY <1>0, MatColOwner
<1>4. IsScan(n) /\ S # {} => FromOracle(n)
  BY <1>2, <1>3 DEF ScansCommitted, FromOracle
<1>5. ~IsScan(n) => \A c \in S : id[c] \in DOMAIN proofComs
  <2> SUFFICES ASSUME ~IsScan(n), NEW c \in S PROVE id[c] \in DOMAIN proofComs
    OBVIOUS
  <2>1. id[c] = IdOf(vidx + 1, c)
    BY <1>0, <1>2 DEF IdOf
  <2> HIDE DEF id
  <2>2. IsColumnId(id[c], Len(Arena))
    BY <1>0, <2>1 DEF IsColumnId
  <2> QED BY <1>2, <2>2 DEF Emission, Emitted
<1>6. /\ vids' = Merge(vids, taken) /\ vphase' = "track" /\ vidx' = vidx + 1
  <2>1. FromOracle(n) \/ \A c \in S : id[c] \in DOMAIN proofComs
    BY <1>4, <1>5
  <2> QED BY <2>1 DEF VTrack
<1>7. Tracked(vidx)' /\ Taken'
  <2>1. DOMAIN vids' = DOMAIN vids \cup S
    BY <1>6 DEF Merge
  <2>2. \A j \in 1..(vidx + 1) : MatCols(Arena[j]) \subseteq DOMAIN vids'
    <3>1. \A j \in 1..(vidx + 1) : j \in 1..vidx \/ j = vidx + 1
      BY <1>0
    <3> QED BY <1>0, <2>1, <3>1 DEF Consumption, Tracked
  <2>3. Tracked(vidx)'
    BY <1>0, <1>6, <2>2, ClosedFormsStable DEF Tracked
  <2>4. ASSUME NEW c \in DOMAIN vids', IsScan(NodeOf(c))
        PROVE  vids'[c].poly = <<c, oracle[BaseOf[NodeOf(c)]].version>>
    <3>1. CASE c \in S
      <4>1. FromOracle(n) /\ NodeOf(c) = n
        BY <1>3, <1>4, <2>4, <3>1
      <4>2. vids'[c].poly = <<c, oracle[BaseOf[n]].version>>
        BY <1>6, <3>1, <4>1 DEF Merge
      <4> QED BY <4>1, <4>2
    <3>2. CASE c \notin S
      BY <1>0, <1>6, <2>1, <2>4, <3>2 DEF Consumption, Taken, Merge
    <3> QED BY <3>1, <3>2
  <2>5. Taken'
    BY <1>0, <2>4 DEF Taken
  <2> QED BY <2>3, <2>5
<1>8. Types' /\ Late'
  BY <1>0, <1>2, <1>6 DEF Types, Late
<1>9. Consumption'
  BY <1>6, <1>7 DEF Consumption
<1>10. AcceptMeansProved'
  BY <1>0, VerdictsStable
<1> QED BY <1>1, <1>8, <1>9, <1>10

LEMMA VFinishSInv == ASSUME Inv, SInv, VFinish PROVE SInv'
<1>1. /\ vphase = "track" /\ vphase' = "verify" /\ vidx = Len(Arena) /\ vidx' = 0
      /\ UNCHANGED <<dbVars, hintVars, proverVars, vids, vgids, verr, vbad, vresult, verdicts>>
  BY DEF VFinish
<1>2. Sizes' /\ ScansCommitted' /\ Emission'
  BY <1>1, ProverSettled
<1> USE DEF SInv, dbVars, hintVars, proverVars
<1>3. Types' /\ Late'
  BY <1>1 DEF Types, Late
<1>4. Tracked(Len(Arena))' /\ Taken'
  BY <1>1, ClosedFormsStable DEF Consumption, Tracked, Taken
<1>5. Consumption'
  BY <1>1, <1>4 DEF Consumption, Ran, NoneRefuted
<1>6. AcceptMeansProved'
  BY <1>1, VerdictsStable
<1> QED BY <1>2, <1>3, <1>5, <1>6

\* A gadget that is passed over makes an error, one whose claim is false makes
\* an error or a claim the final check refutes.
LEMMA VerifySInv == ASSUME Inv, SInv, Verify PROVE SInv'
<1> DEFINE n == Arena[vidx + 1]
<1>1. /\ vphase = "verify" /\ vphase' = "verify" /\ vidx \in 0..(Len(Arena) - 1)
      /\ vidx' = vidx + 1
      /\ UNCHANGED <<dbVars, hintVars, proverVars, vids, vresult, verdicts>>
  BY LenNat DEF Verify, Inv, Ranges
<1>2. Sizes' /\ ScansCommitted' /\ Emission'
  BY <1>1, ProverSettled
<1> USE DEF Inv, SInv, dbVars, hintVars, proverVars
<1>3. pphase = "proved"
  BY <1>1 DEF VerifierCounts
<1>4. Types' /\ Late'
  BY <1>1, <1>3 DEF Types, Late
<1>5. Tracked(Len(Arena))' /\ Taken'
  BY <1>1, ClosedFormsStable DEF Consumption, Tracked, Taken
<1>6. \A j \in 1..(vidx + 1) : j \in 1..vidx \/ j = vidx + 1
  BY <1>1
<1>7. \A m : Refuted(m)' <=> Refuted(m)
  BY <1>1 DEF Refuted
<1>8. ASSUME ~verr' PROVE Ran(vidx)'
  <2>1. ~verr /\ Ran(vidx)
    BY <1>1, <1>8 DEF Verify, VerifySkips, Consumption
  <2>2. /\ DOMAIN vgids \subseteq DOMAIN vgids'
        /\ IsGadget(n) => n \in DOMAIN vgids'
    BY <1>8, <2>1 DEF Verify, VerifySkips, Merge
  <2>3. \A j \in 1..(vidx + 1) : IsGadget(Arena[j]) => Arena[j] \in DOMAIN vgids'
    BY <1>6, <2>1, <2>2 DEF Ran
  <2> QED BY <1>1, <2>3 DEF Ran
<1>9. ASSUME ~verr', ~vbad' PROVE NoneRefuted(vidx)'
  <2>1. ~verr /\ ~vbad /\ NoneRefuted(vidx)
    <3>1. ~verr
      BY <1>9 DEF Verify, VerifySkips
    <3>2. ~vbad
      BY <1>9, <3>1 DEF Verify
    <3> QED BY <1>1, <3>1, <3>2 DEF Consumption
  <2>2. IsGadget(n) => ~Refuted(n)
    BY <1>9, <2>1 DEF Verify, VerifySkips
  <2>3. \A j \in 1..(vidx + 1) : IsGadget(Arena[j]) => ~Refuted(Arena[j])'
    BY <1>6, <1>7, <2>1, <2>2 DEF NoneRefuted
  <2> QED BY <1>1, <2>3 DEF NoneRefuted
<1>10. Consumption'
  BY <1>1, <1>5, <1>8, <1>9 DEF Consumption
<1>11. AcceptMeansProved'
  BY <1>1, VerdictsStable
<1> QED BY <1>2, <1>4, <1>10, <1>11

\* At the end of a verification that accepts, no gadget's claim was false, the
\* result's among them, and each scan's column opens to what the prover read.
LEMMA AcceptsProved ==
  ASSUME Inv, SInv, vphase = "verify", vidx = Len(Arena), Accepts
  PROVE  vresult = "proved" /\ faulty = {} /\ FreshScans(oracle)
<1> USE DEF Inv, SInv
<1>1. ~verr /\ ~vbad /\ Opens
  BY DEF Accepts
<1>2. NoneRefuted(Len(Arena))
  BY <1>1 DEF Consumption
<1>3. \A n \in Node : IsGadget(n) => ~Refuted(n)
  <2> SUFFICES ASSUME NEW n \in Node, IsGadget(n) PROVE ~Refuted(n)
    OBVIOUS
  <2>1. PICK j \in 1..Len(Arena) : Arena[j] = n
    BY ArenaAssumption
  <2> QED BY <1>2, <2>1 DEF NoneRefuted
<1>4. faulty = {}
  BY <1>3 DEF Types, Refuted
<1>5. vresult = "proved"
  BY <1>3, ArenaAssumption DEF Refuted, IsGadget
<1>6. ASSUME NEW n \in Node, IsScan(n), MatCols(n) # {}
      PROVE  oracle[BaseOf[n]].version = read[BaseOf[n]]
  <2>1. PICK j \in 1..Len(Arena) : Arena[j] = n
    BY ArenaAssumption
  <2>2. PICK c : c \in MatCols(n)
    BY <1>6
  <2>3. NodeOf(c) = n
    BY <2>1, <2>2, MatColOwner
  <2>4. c \in DOMAIN vids
    BY <2>1, <2>2 DEF Consumption, Tracked
  <2>5. vids[c].poly = <<c, oracle[BaseOf[n]].version>>
    BY <1>6, <2>3, <2>4 DEF Consumption, Taken
  <2>6. vids[c].poly = <<c, read[BaseOf[n]]>>
    BY <1>1, <1>6, <2>3, <2>4 DEF Opens, Poly
  <2> QED BY <2>5, <2>6
<1> QED BY <1>4, <1>5, <1>6 DEF FreshScans

LEMMA ConcludeSInv == ASSUME Inv, SInv, Conclude PROVE SInv'
<1> DEFINE v == [result |-> vresult, oracle |-> oracle, accept |-> Accepts]
<1>1. /\ vphase = "verify" /\ vphase' = "idle" /\ vidx = Len(Arena)
      /\ verdicts' = Append(verdicts, v)
      /\ UNCHANGED <<dbVars, hintVars, proverVars, verr, vresult>>
  BY DEF Conclude
<1>2. Sizes' /\ ScansCommitted' /\ Emission'
  BY <1>1, ProverSettled
<1>3. Accepts => vresult = "proved" /\ faulty = {} /\ FreshScans(oracle)
  BY <1>1, AcceptsProved
<1> USE DEF Inv, SInv, dbVars, hintVars, proverVars
<1>4. pphase = "proved"
  BY <1>1 DEF VerifierCounts
<1>5. v \in Verdict /\ v.result = vresult /\ v.oracle = oracle /\ v.accept = Accepts
  BY DEF Types, Verdict, Accepts, Opens
<1> HIDE DEF v
<1>6. Types'
  BY <1>1, <1>5 DEF Types
<1>7. Late' /\ Consumption'
  BY <1>1, <1>4 DEF Late, Consumption
<1>8. AcceptMeansProved'
  <2>1. /\ DOMAIN verdicts' = DOMAIN verdicts \cup {Len(verdicts) + 1}
        /\ \A i \in DOMAIN verdicts : verdicts'[i] = verdicts[i]
        /\ verdicts'[Len(verdicts) + 1] = v
    BY <1>1 DEF Types
  <2>2. \A o : FreshScans(o)' <=> FreshScans(o)
    BY <1>1, ClosedFormsStable DEF FreshScans
  <2>3. \A i \in DOMAIN verdicts' : verdicts'[i].accept =>
          verdicts'[i].result = "proved" /\ faulty = {}
            /\ FreshScans(verdicts'[i].oracle)
    BY <1>3, <1>5, <2>1 DEF AcceptMeansProved
  <2> QED BY <1>1, <2>2, <2>3 DEF AcceptMeansProved
<1> QED BY <1>2, <1>6, <1>7, <1>8

LEMMA StutterSInv == ASSUME SInv, UNCHANGED vars PROVE SInv'
<1> USE DEF vars, verifierVars, SInv
<1>1. Sizes' /\ ScansCommitted' /\ Emission'
  BY ProverSettled
<1> USE DEF dbVars, hintVars, proverVars
<1>2. Types' /\ Late'
  BY DEF Types, Late
<1>3. Consumption'
  BY ClosedFormsStable DEF Consumption, Tracked, Taken, Ran, NoneRefuted, Refuted
<1>4. AcceptMeansProved'
  BY VerdictsStable
<1> QED BY <1>1, <1>2, <1>3, <1>4

LEMMA StepSInv == Inv /\ SInv /\ [Next]_vars => SInv'
<1> SUFFICES ASSUME Inv, SInv, [Next]_vars PROVE SInv'
  OBVIOUS
<1>1. CASE \E b \in BaseTable : UpdateTable(b) \/ CommitTable(b)
  BY <1>1, DatabaseSInv
<1>2. CASE ProverStep
  BY <1>2, EarlyPassesSInv, TrackSInv, FinishSInv, ProveSInv, BuildSInv DEF ProverStep
<1>3. CASE \E r \in Result : StartVerify(r)
  BY <1>3, StartVerifySInv
<1>4. CASE VerifierStep
  BY <1>4, VTrackSInv, VFinishSInv, VerifySInv, ConcludeSInv DEF VerifierStep
<1>5. CASE UNCHANGED vars
  BY <1>5, StutterSInv
<1> QED BY <1>1, <1>2, <1>3, <1>4, <1>5 DEF Next

-----------------------------------------------------------------------------
(* What follows of the two invariants.                                     *)

LEMMA InvConsumed == Inv /\ SInv => EverythingConsumed
<1> SUFFICES ASSUME Inv, SInv, vphase = "verify", vidx = Len(Arena), ~verr
             PROVE  DOMAIN proofComs =
                      { vids[c].id : c \in { d \in DOMAIN vids : ~FromOracle(NodeOf(d)) } }
                      \cup UNION { vgids[n] .. (vgids[n] + GadgetComs[n] - 1) :
                                     n \in DOMAIN vgids }
  BY DEF EverythingConsumed
<1> USE DEF Inv, SInv
<1>1. pphase = "proved"
  BY DEF VerifierCounts
<1>2. \A c \in mat : IsScan(NodeOf(c)) <=> FromOracle(NodeOf(c))
  BY <1>1 DEF ScansCommitted, FromOracle
<1>3. \A j, k \in 1..Len(Arena) : Arena[j] = Arena[k] => j = k
  BY ArenaAssumption
<1>4. ASSUME NEW i
      PROVE  IsColumnId(i, Len(Arena))
               <=> \E c \in DOMAIN vids : ~FromOracle(NodeOf(c)) /\ i = vids[c].id
  <2>1. ASSUME NEW j \in 1..Len(Arena), NEW c \in MatCols(Arena[j]), ~IsScan(Arena[j]),
               i = IdOf(j, c)
        PROVE  c \in DOMAIN vids /\ ~FromOracle(NodeOf(c)) /\ i = vids[c].id
    <3>1. c \in DOMAIN vids /\ c \in mat /\ NodeOf(c) = Arena[j]
      BY MatColOwner DEF Consumption, Tracked
    <3>2. PICK k \in 1..Len(Arena) : c \in MatCols(Arena[k]) /\ vids[c].id = IdOf(k, c)
      BY <3>1 DEF VerifierCounts
    <3>3. k = j
      BY <1>3, <3>1, <3>2, MatColOwner
    <3> QED BY <1>2, <2>1, <3>1, <3>2, <3>3
  <2>2. ASSUME NEW c \in DOMAIN vids, ~FromOracle(NodeOf(c)), i = vids[c].id
        PROVE  IsColumnId(i, Len(Arena))
    <3>1. PICK k \in 1..Len(Arena) : c \in MatCols(Arena[k]) /\ vids[c].id = IdOf(k, c)
      BY DEF VerifierCounts
    <3>2. c \in mat /\ NodeOf(c) = Arena[k]
      BY <3>1, MatColOwner
    <3> QED BY <1>2, <2>2, <3>1, <3>2 DEF IsColumnId
  <2> QED BY <2>1, <2>2 DEF IsColumnId
<1>5. ASSUME NEW i
      PROVE  IsGadgetId(i, Len(Arena))
               <=> \E n \in DOMAIN vgids : i \in vgids[n] .. (vgids[n] + GadgetComs[n] - 1)
  <2>1. ASSUME NEW j \in 1..Len(Arena), IsGadget(Arena[j]), i \in GadgetIds(j)
        PROVE  /\ Arena[j] \in DOMAIN vgids
               /\ i \in vgids[Arena[j]] .. (vgids[Arena[j]] + GadgetComs[Arena[j]] - 1)
    <3>1. Arena[j] \in DOMAIN vgids
      BY <2>1 DEF Consumption, Ran
    <3>2. PICK k \in 1..Len(Arena) : Arena[j] = Arena[k] /\ vgids[Arena[j]] = GadgetId(k)
      BY <3>1 DEF VerifierCounts
    <3>3. k = j
      BY <1>3, <3>2
    <3> QED BY <2>1, <3>1, <3>2, <3>3 DEF GadgetIds
  <2>2. ASSUME NEW n \in DOMAIN vgids, i \in vgids[n] .. (vgids[n] + GadgetComs[n] - 1)
        PROVE  IsGadgetId(i, Len(Arena))
    <3>1. PICK k \in 1..Len(Arena) : n = Arena[k] /\ IsGadget(n) /\ vgids[n] = GadgetId(k)
      BY DEF VerifierCounts
    <3> QED BY <2>2, <3>1 DEF IsGadgetId, GadgetIds
  <2> QED BY <2>1, <2>2 DEF IsGadgetId
<1>6. \A i : i \in DOMAIN proofComs
        <=> IsColumnId(i, Len(Arena)) \/ IsGadgetId(i, Len(Arena))
  BY <1>1 DEF Emission, Emitted
<1> QED BY <1>4, <1>5, <1>6

\* Errors are stored where nothing but the pass that skips goes on.
LEMMA LateStops ==
  Inv /\ SInv /\ [Next]_vars =>
    /\ perr => UNCHANGED <<pnext, proofComs, pgids>>
    /\ verr /\ verr' => UNCHANGED <<vnext, vgids, vbad>>
<1> SUFFICES ASSUME Inv, SInv, [Next]_vars
             PROVE  /\ perr => UNCHANGED <<pnext, proofComs, pgids>>
                    /\ verr /\ verr' => UNCHANGED <<vnext, vgids, vbad>>
  OBVIOUS
<1> USE DEF SInv, Late, proverVars, verifierVars
<1>1. CASE \E b \in BaseTable : UpdateTable(b) \/ CommitTable(b)
  BY <1>1 DEF UpdateTable, CommitTable
<1>2. CASE ProverStep
  BY <1>2 DEF ProverStep, Materialize, Arithmetize, Commit, Track, Finish, Prove,
              ProveSkips, Build
<1>3. CASE \E r \in Result : StartVerify(r)
  BY <1>3 DEF StartVerify
<1>4. CASE VerifierStep
  BY <1>4 DEF VerifierStep, VTrack, VFinish, Verify, VerifySkips, Conclude
<1>5. CASE UNCHANGED vars
  BY <1>5 DEF vars
<1> QED BY <1>1, <1>2, <1>3, <1>4, <1>5 DEF Next

-----------------------------------------------------------------------------
\* Whatever arena, data and history of updates, commitments and verifications:
\* the verifier accepts only the result that was proved, over data that
\* satisfies every gadget, with files of the tables the prover read.
THEOREM VerdictsSound == Spec => []AcceptMeansProved
<1>1. SInv => AcceptMeansProved
  BY DEF SInv
<1> QED BY <1>1, InitInv, StepInv, InitSInv, StepSInv, PTL DEF Spec

\* Only an oracle file stops either role short; a verification finds every
\* commitment it asks for, whichever tables were empty.
THEOREM OracleAloneStops == Spec => []PanicOnlyOnOracle
<1>1. SInv => PanicOnlyOnOracle
  BY DEF SInv, Sizes, Consumption, PanicOnlyOnOracle
<1> QED BY <1>1, InitInv, StepInv, InitSInv, StepSInv, PTL DEF Spec

\* A verify pass that ends without error has read the whole proof.
THEOREM ProofConsumed == Spec => []EverythingConsumed
  BY InvConsumed, InitInv, StepInv, InitSInv, StepSInv, PTL DEF Spec

\* After the first error nothing more is committed, and nothing consumed.
THEOREM FirstErrorStops == Spec => StopAtFirstError
<1> DEFINE Stops == /\ perr => UNCHANGED <<pnext, proofComs, pgids>>
                    /\ verr /\ verr' => UNCHANGED <<vnext, vgids, vbad>>
<1>1. Inv /\ SInv /\ [Next]_vars => [Stops]_vars
  BY LateStops
<1>2. Spec => [][Stops]_vars
  BY <1>1, InitInv, StepInv, InitSInv, StepSInv, PTL DEF Spec
<1> QED BY <1>2 DEF StopAtFirstError

-----------------------------------------------------------------------------
(***************************************************************************)
(* Which verdict a verification ends with, for every instance: it accepts  *)
(* exactly the result that was proved, over data without faults, with      *)
(* files of the tables the prover read.  So two verifications that are     *)
(* given the same end the same, whatever came between them.                *)
(* What is missing for that is that nothing else is refused: under each    *)
(* column's id the proof carries that column's polynomial, no gadget's id  *)
(* is a column's, and an error is stored for a false claim only.           *)
(***************************************************************************)

\* What the prover commits to is its own polynomial, and what the proof carries
\* under a column's id is that column's.
Bound ==
  pphase \in {"track", "prove", "proved"} =>
    \A c \in mat : ~IsScan(NodeOf(c)) => com[c].poly = Poly(c)
Carried ==
  \A j \in 1..Len(Arena) : \A c \in MatCols(Arena[j]) :
    IdOf(j, c) \in DOMAIN proofComs => proofComs[IdOf(j, c)] = Poly(c)
\* The verifier has taken the prover's polynomials, but for the scans'.
VCarried == \A c \in DOMAIN vids : ~IsScan(NodeOf(c)) => vids[c].poly = Poly(c)
\* It errs, or records a claim that is refuted, for a reason.
Justified ==
  vphase \in {"track", "verify"} /\ (verr \/ vbad) => \E n \in Node : IsGadget(n) /\ Refuted(n)
Exact(v) == v.accept <=> v.result = "proved" /\ faulty = {} /\ FreshScans(v.oracle)
VerdictsExact == \A i \in DOMAIN verdicts : Exact(verdicts[i])

RInv == Bound /\ Carried /\ VCarried /\ Justified /\ VerdictsExact

-----------------------------------------------------------------------------
(* Ids of different columns differ, and are below those of the gadgets.    *)

LEMMA IndexApart ==
  ASSUME NEW n \in Node, NEW c \in ColSet(n), NEW d \in ColSet(n), c # d
  PROVE  /\ Index(n, c) \in Int /\ Index(n, d) \in Int
         /\ Index(n, c) # Index(n, d)
<1>1. \A e \in ColSet(n) : Index(n, e) \in DOMAIN Cols[n] /\ Cols[n][Index(n, e)] = e
  BY DEF ColSet, Index
<1>2. DOMAIN Cols[n] \subseteq Int
  BY ColumnAssumption
<1> QED BY <1>1, <1>2

\* A column further on in the payload has the higher rank, and no rank reaches
\* the number of columns.
LEMMA RankAbove ==
  ASSUME NEW n \in Node, NEW S \in SUBSET ColSet(n), IsFiniteSet(S),
         NEW c \in S, NEW T \in SUBSET S, c \in T,
         \A d \in S : Index(n, d) < Index(n, c) => d \in T
  PROVE  Rank(n, S, c) \in Nat /\ Rank(n, S, c) < Cardinality(T) /\ Cardinality(T) \in Nat
<1> DEFINE R == { d \in S : Index(n, d) < Index(n, c) }
<1>1. Index(n, c) \in Int
  <2>1. Index(n, c) \in DOMAIN Cols[n]
    BY DEF ColSet, Index
  <2> QED BY <2>1, ColumnAssumption
<1>2. c \notin R /\ R \in SUBSET T
  BY <1>1
<1>3. IsFiniteSet(T)
  BY FS_Subset
<1> HIDE DEF R
<1>4. /\ IsFiniteSet(R) /\ Cardinality(R) <= Cardinality(T)
      /\ Cardinality(T) = Cardinality(R) => T = R
  BY <1>2, <1>3, FS_Subset
<1>5. Cardinality(R) \in Nat /\ Cardinality(T) \in Nat
  BY <1>3, <1>4, FS_CardinalityType
<1>6. Cardinality(R) < Cardinality(T)
  BY <1>2, <1>4, <1>5
<1> QED BY <1>5, <1>6 DEF Rank, R

LEMMA MatFinite ==
  ASSUME mat \subseteq Column, NEW n \in Node
  PROVE  MatCols(n) \subseteq ColSet(n) /\ IsFiniteSet(MatCols(n))
<1>1. MatCols(n) \in SUBSET Column
  BY DEF MatCols
<1> QED BY <1>1, FS_Subset, ColumnAssumption DEF MatCols

LEMMA RankApart ==
  ASSUME mat \subseteq Column, NEW n \in Node,
         NEW c \in MatCols(n), NEW d \in MatCols(n), c # d
  PROVE  Rank(n, MatCols(n), c) # Rank(n, MatCols(n), d)
<1> DEFINE S == MatCols(n)
<1>1. S \in SUBSET ColSet(n) /\ IsFiniteSet(S)
  BY MatFinite
<1>2. ASSUME NEW a \in S, NEW b \in S, Index(n, a) < Index(n, b)
      PROVE  Rank(n, S, a) # Rank(n, S, b)
  <2> DEFINE T == { e \in S : Index(n, e) < Index(n, b) }
  <2>1. T \in SUBSET S /\ a \in T
    BY <1>2
  <2>2. \A e \in S : Index(n, e) \in Int
    <3>1. \A e \in S : Index(n, e) \in DOMAIN Cols[n]
      BY <1>1 DEF ColSet, Index
    <3> QED BY <3>1, ColumnAssumption
  <2>3. \A e \in S : Index(n, e) < Index(n, a) => e \in T
    BY <1>2, <2>2
  <2>4. Rank(n, S, b) = Cardinality(T)
    BY DEF Rank
  <2> HIDE DEF T, S
  <2>5. Rank(n, S, a) < Cardinality(T) /\ Rank(n, S, a) \in Nat /\ Cardinality(T) \in Nat
    BY <1>1, <2>1, <2>3, RankAbove
  <2> QED BY <2>4, <2>5
<1>3. /\ Index(n, c) \in Int /\ Index(n, d) \in Int
      /\ Index(n, c) < Index(n, d) \/ Index(n, d) < Index(n, c)
  BY <1>1, IndexApart
<1> QED BY <1>2, <1>3

LEMMA StartMonotone ==
  ASSUME mat \subseteq Column, NEW k \in 0..Len(Arena), NEW l \in 0..Len(Arena), k <= l
  PROVE  Start(k) \in Nat /\ Start(l) \in Nat /\ Start(k) <= Start(l)
<1>1. Owned(k) \in SUBSET Owned(l)
  BY LenNat DEF Owned
<1>2. Owned(l) \in SUBSET Column
  BY DEF Owned
<1>3. IsFiniteSet(Owned(l))
  BY <1>2, FS_Subset, ColumnAssumption
<1> QED BY <1>1, <1>3, FS_Subset, FS_CardinalityType DEF Start

\* A node's ids lie between its start and the next one's.
LEMMA IdInNode ==
  ASSUME mat \subseteq Column, NEW j \in 1..Len(Arena), NEW c \in MatCols(Arena[j])
  PROVE  /\ IdOf(j, c) \in Nat /\ Start(j - 1) \in Nat /\ Start(j) \in Nat
         /\ Start(j - 1) <= IdOf(j, c) /\ IdOf(j, c) < Start(j)
<1> DEFINE S == MatCols(Arena[j])
<1>1. Arena[j] \in Node
  BY ArenaNodes
<1>2. S \in SUBSET ColSet(Arena[j]) /\ IsFiniteSet(S)
  BY <1>1, MatFinite
<1> HIDE DEF S
<1>3. c \in S
  BY DEF S
<1>4. /\ Rank(Arena[j], S, c) \in Nat /\ Rank(Arena[j], S, c) < Cardinality(S)
      /\ Cardinality(S) \in Nat
  BY <1>1, <1>2, <1>3, RankAbove
<1>5. j - 1 \in 0..(Len(Arena) - 1) /\ (j - 1) + 1 = j
  BY LenNat
<1>6. Start(j - 1) \in Nat /\ Start((j - 1) + 1) = Start(j - 1) + Cardinality(MatCols(Arena[(j - 1) + 1]))
  BY <1>5, StartStep
<1>7. Start(j) = Start(j - 1) + Cardinality(S)
  BY <1>5, <1>6 DEF S
<1> QED BY <1>4, <1>6, <1>7 DEF IdOf, S

LEMMA IdsApart ==
  ASSUME mat \subseteq Column,
         NEW j \in 1..Len(Arena), NEW c \in MatCols(Arena[j]),
         NEW k \in 1..Len(Arena), NEW d \in MatCols(Arena[k]), IdOf(j, c) = IdOf(k, d)
  PROVE  c = d
<1>1. \A a, b \in 1..Len(Arena) : a < b => a <= b - 1 /\ a \in 0..Len(Arena) /\ b - 1 \in 0..Len(Arena)
  BY LenNat
<1>2. j \in Int /\ k \in Int
  BY LenNat
<1>3. ~(j < k)
  <2> SUFFICES ASSUME j < k PROVE FALSE
    OBVIOUS
  <2>1. Start(j) <= Start(k - 1)
    BY <1>1, StartMonotone
  <2> QED BY <2>1, IdInNode
<1>4. ~(k < j)
  <2> SUFFICES ASSUME k < j PROVE FALSE
    OBVIOUS
  <2>1. Start(k) <= Start(j - 1)
    BY <1>1, StartMonotone
  <2> QED BY <2>1, IdInNode
<1>5. j = k
  BY <1>2, <1>3, <1>4
<1>6. ASSUME c # d PROVE FALSE
  <2>1. /\ Rank(Arena[j], MatCols(Arena[j]), c) # Rank(Arena[j], MatCols(Arena[j]), d)
    BY <1>5, <1>6, ArenaNodes, RankApart
  <2>2. /\ IdOf(j, c) \in Nat /\ IdOf(j, d) \in Nat /\ Start(j - 1) \in Nat
    BY <1>5, IdInNode
  <2>3. \A e \in MatCols(Arena[j]) : Rank(Arena[j], MatCols(Arena[j]), e) \in Nat
    BY ArenaNodes, MatFinite, RankAbove
  <2> QED BY <1>5, <2>1, <2>2, <2>3 DEF IdOf
<1> QED BY <1>6

\* No gadget's id is a column's.
LEMMA GadgetsAbove ==
  ASSUME mat \subseteq Column, NEW j \in 1..Len(Arena), NEW c \in MatCols(Arena[j]),
         NEW i \in Int, i >= Base
  PROVE  i # IdOf(j, c)
<1>1. Start(j) <= Start(Len(Arena)) /\ Start(Len(Arena)) \in Nat
  BY StartMonotone, LenNat
<1>2. Base >= Start(Len(Arena)) /\ Base \in Nat
  BY <1>1, CountAssumption DEF Base
<1> QED BY <1>1, <1>2, IdInNode

-----------------------------------------------------------------------------
(* Each step keeps the invariant.                                          *)

LEMMA InitRInv == Init => RInv
  BY DEF Init, RInv, Bound, Carried, VCarried, Justified, VerdictsExact, Empty

\* What the prover leaves for the verifier is not touched again.
LEMMA CarriedStable ==
  ASSUME UNCHANGED <<mat, read, com, proofComs>>, Carried
  PROVE  Carried' /\ \A c : Poly(c)' = Poly(c)
  BY ClosedFormsStable DEF Carried, Poly

LEMMA FreshStable == ASSUME UNCHANGED <<mat, read>> PROVE \A o : FreshScans(o)' <=> FreshScans(o)
  BY ClosedFormsStable DEF FreshScans

\* While the prover works there is neither a verification nor a verdict.
LEMMA VerifierAbsent ==
  ASSUME Inv, SInv, pphase # "proved", UNCHANGED verifierVars
  PROVE  VCarried' /\ Justified' /\ VerdictsExact'
<1>1. DOMAIN vids = {} /\ vphase = "idle" /\ verdicts = <<>>
  BY DEF Inv, VerifierCounts, SInv, Late
<1> QED BY <1>1 DEF VCarried, Justified, VerdictsExact, verifierVars

LEMMA EarlyPassesRInv ==
  ASSUME Inv, SInv, RInv, Materialize \/ Arithmetize \/ Commit \/ Finish \/ Build
  PROVE  RInv'
<1>1. /\ pphase # "proved"
      /\ UNCHANGED <<hintVars, proofComs, verifierVars>>
  BY DEF Materialize, Arithmetize, Commit, Finish, Build
<1>2. VCarried' /\ Justified' /\ VerdictsExact'
  BY <1>1, VerifierAbsent
<1> USE DEF RInv, hintVars
<1>3. Carried'
  <2>1. CASE Materialize
    <3>1. DOMAIN proofComs = {}
      <4>1. Emitted(0, 0)
        BY <2>1 DEF Materialize, SInv, Emission
      <4>2. \A i : i \notin DOMAIN proofComs
        BY <4>1 DEF Emitted, IsColumnId, IsGadgetId
      <4> QED BY <4>2
    <3> QED BY <1>1, <3>1 DEF Carried
  <2>2. CASE ~Materialize
    <3>1. read' = read
      BY <2>2 DEF Arithmetize, Commit, Finish, Build
    <3> QED BY <1>1, <3>1, ClosedFormsStable DEF Carried, Poly
  <2> QED BY <2>1, <2>2
<1>4. Bound'
  <2>1. CASE Commit
    <3> SUFFICES ASSUME NEW c \in mat, ~IsScan(NodeOf(c)), pphase' = "track"
                 PROVE  com'[c].poly = Poly(c)'
      BY <1>1, <2>1 DEF Commit, Bound
    <3>1. arith = mat /\ com'[c] = CommitColumn(c)
      BY <2>1 DEF Commit, Inv, NoneSkipped
    <3>2. read' = read
      BY <2>1 DEF Commit
    <3> QED BY <3>1, <3>2 DEF CommitColumn, Poly
  <2>2. CASE Finish \/ Build
    <3>1. pphase \in {"track", "prove"} /\ com' = com /\ read' = read
      BY <2>2 DEF Finish, Build
    <3> QED BY <1>1, <3>1 DEF Bound, Poly
  <2>3. CASE Materialize \/ Arithmetize
    BY <2>3 DEF Materialize, Arithmetize, Bound
  <2> QED BY <2>1, <2>2, <2>3
<1> QED BY <1>2, <1>3, <1>4

\* A node's columns go under ids that no other column has.
LEMMA TrackRInv == ASSUME Inv, SInv, RInv, Track PROVE RInv'
<1> DEFINE n == Arena[pidx + 1]
           S == TrackedCols(n)
           id == [c \in S |-> pnext + Rank(n, S, c)]
           new == { id[c] : c \in EmittedCols(n) }
<1>0. /\ pidx \in 0..(Len(Arena) - 1) /\ pidx + 1 \in 1..Len(Arena) /\ pphase = "track" /\ pphase' = "track"
      /\ pnext = Start(pidx) /\ mat \subseteq Column
      /\ UNCHANGED <<hintVars, read, com, verifierVars>>
  BY LenNat DEF Track, Inv, Ranges, ProverCounts
<1>1. proofComs' = Merge(proofComs,
                     [i \in new |-> com[CHOOSE c \in S : id[c] = i].poly])
  BY DEF Track
<1>2. S = MatCols(n)
  BY <1>0 DEF Inv, NoneSkipped, TrackedCols, MatCols
<1>3. VCarried' /\ Justified' /\ VerdictsExact'
  BY <1>0, VerifierAbsent
<1> USE DEF RInv, hintVars
<1>4. Bound' /\ \A c : Poly(c)' = Poly(c)
  BY <1>0 DEF Bound, Poly
<1>5. \A c \in S : id[c] = IdOf(pidx + 1, c)
  BY <1>0, <1>2 DEF IdOf
<1> HIDE DEF id, S
<1>6. ASSUME NEW j \in 1..Len(Arena), NEW c \in MatCols(Arena[j]),
             IdOf(j, c) \in DOMAIN proofComs'
      PROVE  proofComs'[IdOf(j, c)] = Poly(c)
  <2>1. CASE IdOf(j, c) \in new
    <3>1. PICK d \in EmittedCols(n) : IdOf(j, c) = id[d]
      BY <2>1
    <3>2. d \in S /\ ~com[d].external
      BY <3>1 DEF EmittedCols, S
    <3>3. \A e \in S : id[e] = IdOf(j, c) => e = c
      <4> SUFFICES ASSUME NEW e \in S, id[e] = IdOf(j, c) PROVE e = c
        OBVIOUS
      <4>1. IdOf(pidx + 1, e) = IdOf(j, c) /\ e \in MatCols(n)
        BY <1>2, <1>5
      <4> HIDE DEF n
      <4> QED BY <1>0, <4>1, IdsApart DEF n
    <3>4. (CHOOSE e \in S : id[e] = IdOf(j, c)) = c /\ d = c
      BY <3>1, <3>2, <3>3
    <3>5. proofComs'[IdOf(j, c)] = com[c].poly
      BY <1>1, <2>1, <3>4 DEF Merge
    <3>6. c \in mat /\ ~IsScan(NodeOf(c))
      BY <1>0, <3>2, <3>4, MatColOwner DEF SInv, ScansCommitted
    <3> QED BY <1>0, <3>5, <3>6 DEF Bound
  <2>2. CASE IdOf(j, c) \notin new
    BY <1>1, <1>6, <2>2 DEF Merge, Carried
  <2> QED BY <2>1, <2>2
<1>7. Carried'
  BY <1>0, <1>4, <1>6, ClosedFormsStable DEF Carried
<1> QED BY <1>3, <1>4, <1>7

\* A gadget commits under ids that are no column's.
LEMMA ProveRInv == ASSUME Inv, SInv, RInv, Prove PROVE RInv'
<1> DEFINE n == Arena[pidx + 1]
           new == pnext .. (pnext + GadgetComs[n] - 1)
<1>0. /\ pidx \in 0..(Len(Arena) - 1) /\ pphase = "prove" /\ pphase' = "prove"
      /\ mat \subseteq Column
      /\ UNCHANGED <<hintVars, read, com, verifierVars>>
  BY LenNat DEF Prove, Inv, Ranges
<1>1. VCarried' /\ Justified' /\ VerdictsExact'
  BY <1>0, VerifierAbsent
<1> USE DEF RInv, hintVars
<1>2. Bound' /\ \A c : Poly(c)' = Poly(c)
  BY <1>0 DEF Bound, Poly
<1>3. CASE proofComs' = proofComs
  <2>1. Carried'
    BY <1>0, <1>2, <1>3, ClosedFormsStable DEF Carried
  <2> QED BY <1>1, <1>2, <2>1
<1>4. CASE proofComs' # proofComs
  <2>1. ~perr /\ proofComs' = Merge(proofComs, [i \in new |-> GadgetPoly(n, i - pnext)])
    BY <1>4 DEF Prove, ProveSkips
  <2>2. pnext = Base + Cardinality(Slots(pidx)) /\ IsFiniteSet(Slots(pidx))
    BY <1>0, <2>1 DEF Inv, ProverCounts, SlotsCounted
  <2>3. pnext \in Int /\ pnext >= Base
    BY <1>0, <2>2, BaseNat, FS_CardinalityType
  <2>4. \A j \in 1..Len(Arena) : \A c \in MatCols(Arena[j]) : IdOf(j, c) \notin new
    <3> SUFFICES ASSUME NEW j \in 1..Len(Arena), NEW c \in MatCols(Arena[j]), IdOf(j, c) \in new
                 PROVE  FALSE
      OBVIOUS
    <3>1. IdOf(j, c) \in Int /\ IdOf(j, c) >= Base
      BY <1>0, <2>3, BaseNat, IdInNode
    <3> QED BY <1>0, <3>1, GadgetsAbove
  <2>5. \A j \in 1..Len(Arena) : \A c \in MatCols(Arena[j]) :
          IdOf(j, c) \in DOMAIN proofComs' => proofComs'[IdOf(j, c)] = Poly(c)
    BY <2>1, <2>4 DEF Merge, Carried
  <2>6. Carried'
    BY <1>0, <1>2, <2>5, ClosedFormsStable DEF Carried
  <2> QED BY <1>1, <1>2, <2>6
<1> QED BY <1>1, <1>2, <1>3, <1>4

\* The other roles leave the prover's part alone, and keep its verdicts.
LEMMA ProverKeptR ==
  ASSUME RInv, UNCHANGED <<hintVars, proverVars>>
  PROVE  Bound' /\ Carried' /\ (\A c : Poly(c)' = Poly(c)) /\ \A v : Exact(v)' <=> Exact(v)
<1> USE DEF RInv, hintVars, proverVars
<1>1. Bound' /\ Carried' /\ \A c : Poly(c)' = Poly(c)
  BY CarriedStable DEF Bound, Poly
<1> QED BY <1>1, FreshStable DEF Exact

LEMMA BetweenRolesRInv ==
  ASSUME Inv, SInv, RInv,
         \/ \E b \in BaseTable : UpdateTable(b) \/ CommitTable(b)
         \/ \E r \in Result : StartVerify(r)
         \/ UNCHANGED vars
  PROVE  RInv'
<1>1. UNCHANGED <<hintVars, proverVars, verdicts>>
  BY DEF UpdateTable, CommitTable, StartVerify, vars, verifierVars
<1>2. Bound' /\ Carried' /\ (\A c : Poly(c)' = Poly(c)) /\ \A v : Exact(v)' <=> Exact(v)
  BY <1>1, ProverKeptR
<1> USE DEF RInv, hintVars, proverVars
<1>3. VerdictsExact'
  BY <1>1, <1>2 DEF VerdictsExact
<1>4. CASE UNCHANGED verifierVars
  <2>1. VCarried'
    BY <1>2, <1>4 DEF VCarried, verifierVars
  <2>2. Justified'
    BY <1>1, <1>4 DEF Justified, Refuted, verifierVars
  <2> QED BY <1>2, <1>3, <2>1, <2>2
<1>5. CASE \E r \in Result : StartVerify(r)
  <2>1. DOMAIN vids' = {} /\ ~verr' /\ ~vbad'
    BY <1>5 DEF StartVerify, Fork, Empty
  <2> QED BY <1>2, <1>3, <2>1 DEF VCarried, Justified
<1> QED BY <1>4, <1>5 DEF UpdateTable, CommitTable, vars

LEMMA VTrackRInv == ASSUME Inv, SInv, RInv, VTrack, SInv' PROVE RInv'
<1> DEFINE n == Arena[vidx + 1]
           S == MatCols(n)
           id == [c \in S |-> vnext + Rank(n, S, c)]
           taken == [c \in S |->
                       [id |-> id[c],
                        poly |-> IF FromOracle(n)
                                 THEN <<c, oracle[BaseOf[n]].version>>
                                 ELSE proofComs[id[c]]]]
<1>0. /\ vidx \in 0..(Len(Arena) - 1) /\ vidx + 1 \in 1..Len(Arena) /\ vphase = "track" /\ vnext = Start(vidx)
      /\ UNCHANGED <<hintVars, proverVars, verr, vbad, vresult, verdicts>>
  BY LenNat DEF VTrack, Inv, Ranges, VerifierCounts
<1>1. Bound' /\ Carried' /\ (\A c : Poly(c)' = Poly(c)) /\ \A v : Exact(v)' <=> Exact(v)
  BY <1>0, ProverKeptR
<1> USE DEF RInv
<1>2. VerdictsExact'
  BY <1>0, <1>1 DEF VerdictsExact
<1>3. Justified'
  BY <1>0 DEF Justified, Refuted, hintVars
<1>4. /\ FromOracle(n) \/ \A c \in S : id[c] \in DOMAIN proofComs
      /\ vids' = Merge(vids, taken)
  <2>1. vphase' # "panic"
    BY DEF SInv, Consumption
  <2> QED BY <2>1 DEF VTrack
<1>5. ASSUME NEW c \in DOMAIN vids', ~IsScan(NodeOf(c)) PROVE vids'[c].poly = Poly(c)
  <2>1. CASE c \in S
    <3>1. NodeOf(c) = n
      BY <1>0, <2>1, MatColOwner
    <3>2. ~FromOracle(n)
      BY <1>5, <3>1 DEF FromOracle
    <3>3. id[c] = IdOf(vidx + 1, c)
      BY <1>0, <2>1 DEF IdOf
    <3>4. vids'[c].poly = proofComs[id[c]]
      BY <1>4, <2>1, <3>2 DEF Merge
    <3> HIDE DEF id
    <3> QED BY <1>0, <1>4, <2>1, <3>2, <3>3, <3>4 DEF Carried
  <2>2. CASE c \notin S
    <3>1. c \in DOMAIN vids /\ vids'[c] = vids[c]
      BY <1>4, <1>5, <2>2 DEF Merge
    <3> QED BY <1>5, <3>1 DEF VCarried
  <2> QED BY <2>1, <2>2
<1>6. VCarried'
  BY <1>1, <1>5 DEF VCarried
<1> QED BY <1>1, <1>2, <1>3, <1>6

LEMMA VFinishRInv == ASSUME RInv, VFinish PROVE RInv'
<1>1. /\ vphase = "track"
      /\ UNCHANGED <<hintVars, proverVars, vids, verr, vbad, vresult, verdicts>>
  BY DEF VFinish
<1>2. Bound' /\ Carried' /\ (\A c : Poly(c)' = Poly(c)) /\ \A v : Exact(v)' <=> Exact(v)
  BY <1>1, ProverKeptR
<1> USE DEF RInv
<1>3. VCarried' /\ VerdictsExact'
  BY <1>1, <1>2 DEF VCarried, VerdictsExact
<1>4. Justified'
  BY <1>1 DEF Justified, Refuted, hintVars
<1> QED BY <1>2, <1>3, <1>4

\* The proof has every commitment a gadget asks for, so only a false claim is
\* an error.
LEMMA VerifyRInv == ASSUME Inv, SInv, RInv, Verify PROVE RInv'
<1> DEFINE n == Arena[vidx + 1]
           ids == vnext .. (vnext + GadgetComs[n] - 1)
<1>1. /\ vphase = "verify" /\ vphase' = "verify" /\ vidx + 1 \in 1..Len(Arena) /\ n \in Node
      /\ UNCHANGED <<hintVars, proverVars, vids, vresult, verdicts>>
  BY LenNat, ArenaNodes DEF Verify, Inv, Ranges
<1>2. Bound' /\ Carried' /\ (\A c : Poly(c)' = Poly(c)) /\ \A v : Exact(v)' <=> Exact(v)
  BY <1>1, ProverKeptR
<1> USE DEF RInv
<1>3. VCarried' /\ VerdictsExact'
  BY <1>1, <1>2 DEF VCarried, VerdictsExact
<1>4. \A m : Refuted(m)' <=> Refuted(m)
  BY <1>1 DEF Refuted, hintVars
<1>5. ~verr /\ IsGadget(n) => ids \subseteq DOMAIN proofComs
  <2> SUFFICES ASSUME ~verr, IsGadget(n) PROVE ids \subseteq DOMAIN proofComs
    OBVIOUS
  <2>1. vnext = Base + Cardinality(Slots(vidx)) /\ (vidx + 1) - 1 = vidx
    BY <1>1, LenNat DEF Inv, Ranges, VerifierCounts, SlotsCounted
  <2>2. ids = GadgetIds(vidx + 1)
    BY <2>1 DEF GadgetIds, GadgetId
  <2>3. pphase = "proved"
    BY <1>1 DEF Inv, VerifierCounts
  <2>4. \A i \in GadgetIds(vidx + 1) : IsGadgetId(i, Len(Arena))
    BY <1>1 DEF IsGadgetId
  <2> HIDE DEF ids
  <2> QED BY <2>2, <2>3, <2>4 DEF SInv, Emission, Emitted
<1>6. verr' => verr \/ (IsGadget(n) /\ Refuted(n))
  BY <1>5 DEF Verify, VerifySkips
<1>7. vbad' => vbad \/ (IsGadget(n) /\ Refuted(n))
  BY DEF Verify, VerifySkips
<1>8. Justified'
  BY <1>1, <1>4, <1>6, <1>7 DEF Justified
<1> QED BY <1>2, <1>3, <1>8

\* Nothing stands against the proved result over sound data and fresh files.
LEMMA HonestAccepts ==
  ASSUME Inv, SInv, RInv, vphase = "verify", vresult = "proved", faulty = {}, FreshScans(oracle)
  PROVE  Accepts
<1>1. ~verr /\ ~vbad
  BY DEF RInv, Justified, Refuted
<1>2. TrackersInStep
  BY InvInStep
<1>3. ASSUME NEW c \in DOMAIN vids PROVE vids[c].poly = Poly(c)
  <2>1. CASE IsScan(NodeOf(c))
    <3>1. PICK j \in 1..Len(Arena) : c \in MatCols(Arena[j])
      BY DEF Inv, VerifierCounts
    <3>2. NodeOf(c) = Arena[j] /\ Arena[j] \in Node
      BY <3>1, MatColOwner, ArenaNodes
    <3>3. oracle[BaseOf[NodeOf(c)]].version = read[BaseOf[NodeOf(c)]]
      BY <2>1, <3>1, <3>2 DEF FreshScans
    <3> QED BY <2>1, <3>3 DEF SInv, Consumption, Taken, Poly
  <2>2. CASE ~IsScan(NodeOf(c))
    BY <2>2 DEF RInv, VCarried
  <2> QED BY <2>1, <2>2
<1> QED BY <1>1, <1>2, <1>3 DEF Accepts, Opens, TrackersInStep

LEMMA ConcludeRInv == ASSUME Inv, SInv, RInv, Conclude PROVE RInv'
<1> DEFINE v == [result |-> vresult, oracle |-> oracle, accept |-> Accepts]
<1>1. /\ vphase = "verify" /\ vphase' = "idle" /\ vidx = Len(Arena)
      /\ verdicts' = Append(verdicts, v)
      /\ UNCHANGED <<hintVars, proverVars, vids>>
  BY DEF Conclude
<1>2. Bound' /\ Carried' /\ (\A c : Poly(c)' = Poly(c)) /\ \A w : Exact(w)' <=> Exact(w)
  BY <1>1, ProverKeptR
<1>3. Accepts <=> vresult = "proved" /\ faulty = {} /\ FreshScans(oracle)
  BY <1>1, AcceptsProved, HonestAccepts
<1>4. Exact(v)
  <2>1. v.result = vresult /\ v.oracle = oracle /\ v.accept = Accepts
    OBVIOUS
  <2> HIDE DEF v
  <2> QED BY <1>3, <2>1 DEF Exact
<1> HIDE DEF v
<1>5. /\ DOMAIN verdicts' = DOMAIN verdicts \cup {Len(verdicts) + 1}
      /\ \A i \in DOMAIN verdicts : verdicts'[i] = verdicts[i]
      /\ verdicts'[Len(verdicts) + 1] = v
  BY <1>1 DEF SInv, Types
<1> USE DEF RInv
<1>6. VerdictsExact'
  BY <1>2, <1>4, <1>5 DEF VerdictsExact
<1>7. VCarried' /\ Justified'
  BY <1>1, <1>2 DEF VCarried, Justified
<1> QED BY <1>2, <1>6, <1>7

LEMMA StepRInv == Inv /\ SInv /\ RInv /\ [Next]_vars => RInv'
<1> SUFFICES ASSUME Inv, SInv, RInv, [Next]_vars PROVE RInv'
  OBVIOUS
<1>1. CASE \/ \E b \in BaseTable : UpdateTable(b) \/ CommitTable(b)
           \/ \E r \in Result : StartVerify(r)
           \/ UNCHANGED vars
  BY <1>1, BetweenRolesRInv
<1>2. CASE ProverStep
  BY <1>2, EarlyPassesRInv, TrackRInv, ProveRInv DEF ProverStep
<1>3. CASE VerifierStep
  BY <1>3, StepSInv, VTrackRInv, VFinishRInv, VerifyRInv, ConcludeRInv DEF VerifierStep
<1> QED BY <1>1, <1>2, <1>3 DEF Next

-----------------------------------------------------------------------------
\* A verdict depends on what the verification was given and on nothing else:
\* for every instance and history, the same result and the same oracle files
\* end in the same verdict.
THEOREM ReplayStable == Spec => []SameVerdict
<1>1. SInv /\ RInv => SameVerdict
  <2> SUFFICES ASSUME SInv, RInv, NEW i \in DOMAIN verdicts, NEW j \in DOMAIN verdicts,
                      verdicts[i].result = verdicts[j].result,
                      verdicts[i].oracle = verdicts[j].oracle
               PROVE  verdicts[i].accept = verdicts[j].accept
    BY DEF SameVerdict
  <2>1. verdicts[i] \in Verdict /\ verdicts[j] \in Verdict
    BY DEF SInv, Types
  <2>2. verdicts[i].accept \in BOOLEAN /\ verdicts[j].accept \in BOOLEAN
    BY <2>1 DEF Verdict
  <2>3. verdicts[i].accept <=> verdicts[j].accept
    BY DEF RInv, VerdictsExact, Exact
  <2> QED BY <2>2, <2>3
<1> QED BY <1>1, InitInv, StepInv, InitSInv, StepSInv, InitRInv, StepRInv, PTL DEF Spec

\* Which one it is: the proved result is accepted whenever the data is sound and
\* the files are those of the tables the prover read, and nothing else is.
THEOREM VerdictDecided == Spec => []VerdictsExact
<1>1. RInv => VerdictsExact
  BY DEF RInv
<1> QED BY <1>1, InitInv, StepInv, InitSInv, StepSInv, InitRInv, StepRInv, PTL DEF Spec
=============================================================================
