--------------------------- MODULE SortHints_proofs ---------------------------
(***************************************************************************)
(* What the hint tables of sorts are for tables of any length: sorting     *)
(* moves rows into the one order there is, padding keeps them there, and a *)
(* committed column is found again by its place; of lists put one behind   *)
(* the other, and of the sign gadget over the rows of a table.             *)
(***************************************************************************)
EXTENDS TableClaims, FiniteSetTheorems, SequenceTheorems, WellFoundedInduction, TLAPS

-----------------------------------------------------------------------------
(* Numbers.                                                                *)

\* A set of numbers that is not empty has a least one.
LEMMA Least ==
  ASSUME NEW S \in SUBSET Nat, S # {}
  PROVE  \E m \in S : \A k \in S : m <= k
<1>1. PICK m \in S : \A k \in S : ~(<<k, m>> \in OpToRel(<, Nat))
  BY NatLessThanWellFounded, WFMin
<1>2. ASSUME NEW k \in S, k < m PROVE FALSE
  <2>1. <<k, m>> \in OpToRel(<, Nat)
    BY <1>2 DEF OpToRel
  <2> QED BY <1>1, <2>1
<1>3. \A k \in S : m <= k
  <2> TAKE k \in S
  <2>1. k \in Nat /\ m \in Nat /\ ~(k < m)
    BY <1>2
  <2> QED BY <2>1
<1> QED BY <1>3

\* Powers of two up to the n-th.
UpTo(f, n) == f = [k \in 0..n |-> IF k = 0 THEN 1 ELSE 2 * f[k - 1]]

LEMMA UpToUnique ==
  ASSUME NEW m \in Nat, NEW n \in Nat, m <= n, NEW f, NEW g, UpTo(f, m), UpTo(g, n)
  PROVE  \A k \in 0..m : f[k] = g[k]
<1>1. f[0] = 1 /\ \A k \in 1..m : f[k] = 2 * f[k - 1]
  BY DEF UpTo
<1>2. g[0] = 1 /\ \A k \in 1..n : g[k] = 2 * g[k - 1]
  BY DEF UpTo
<1> DEFINE D == { k \in 0..m : f[k] # g[k] }
<1> SUFFICES ASSUME D # {} PROVE FALSE
  OBVIOUS
<1>3. D \in SUBSET Nat /\ \A k : k \in D <=> k \in 0..m /\ f[k] # g[k]
  OBVIOUS
<1> HIDE DEF D
<1>4. PICK k \in D : \A l \in D : k <= l
  BY <1>3, Least
<1>5. k \in 1..m /\ k \in 1..n /\ k - 1 \in 0..m
  BY <1>1, <1>2, <1>3
<1>6. k - 1 \notin D
  BY <1>4, <1>5
<1> QED BY <1>1, <1>2, <1>3, <1>5, <1>6

LEMMA UpToExists == \A n \in Nat : \E f : UpTo(f, n)
<1> DEFINE D == { n \in Nat : ~ \E f : UpTo(f, n) }
<1> SUFFICES ASSUME D # {} PROVE FALSE
  OBVIOUS
<1>1. D \in SUBSET Nat /\ \A n : n \in D <=> n \in Nat /\ ~ \E f : UpTo(f, n)
  OBVIOUS
<1> HIDE DEF D
<1>2. PICK n \in D : \A l \in D : n <= l
  BY <1>1, Least
<1>3. CASE n = 0
  <2> DEFINE f == [k \in 0..0 |-> 1]
  <2>1. f = [k \in 0..0 |-> IF k = 0 THEN 1 ELSE 2 * f[k - 1]]
    OBVIOUS
  <2> QED BY <1>1, <1>3, <2>1 DEF UpTo
<1>4. CASE n # 0
  <2>1. n - 1 \in Nat /\ n - 1 \notin D
    BY <1>1, <1>2, <1>4
  <2>2. PICK f : UpTo(f, n - 1)
    BY <1>1, <2>1
  <2>3. f[0] = 1 /\ \A k \in 1..(n - 1) : f[k] = 2 * f[k - 1]
    BY <2>1, <2>2 DEF UpTo
  <2> DEFINE g == [k \in 0..n |-> IF k = n THEN 2 * f[n - 1] ELSE f[k]]
  <2>4. g[0] = 1 /\ \A k \in 1..n : g[k] = 2 * g[k - 1]
    BY <1>1, <1>4, <2>1, <2>3
  <2>5. g = [k \in 0..n |-> g[k]]
    OBVIOUS
  <2> HIDE DEF g
  <2>6. \A k \in 0..n : g[k] = IF k = 0 THEN 1 ELSE 2 * g[k - 1]
    BY <1>1, <2>4
  <2>7. g = [k \in 0..n |-> IF k = 0 THEN 1 ELSE 2 * g[k - 1]]
    BY <2>5, <2>6
  <2> QED BY <1>1, <2>7 DEF UpTo
<1> QED BY <1>3, <1>4

\* The powers of two exist, and are the only function of their kind.
LEMMA Doubling == TwoTo[0] = 1 /\ \A k \in Nat : TwoTo[k + 1] = 2 * TwoTo[k]
<1> DEFINE Is(f) == f = [k \in Nat |-> IF k = 0 THEN 1 ELSE 2 * f[k - 1]]
           to(n) == CHOOSE f : UpTo(f, n)
           g == [n \in Nat |-> to(n)[n]]
<1>1. \A n \in Nat : UpTo(to(n), n)
  BY UpToExists
<1> HIDE DEF to
<1>2. g[0] = 1
  BY <1>1 DEF UpTo
<1>3. \A k \in Nat : k # 0 => g[k] = 2 * g[k - 1]
  <2> SUFFICES ASSUME NEW k \in Nat, k # 0 PROVE g[k] = 2 * g[k - 1]
    OBVIOUS
  <2>1. k - 1 \in Nat /\ k - 1 \in 0..(k - 1) /\ k - 1 <= k
    OBVIOUS
  <2>2. to(k)[k] = 2 * to(k)[k - 1]
    BY <1>1 DEF UpTo
  <2>3. to(k - 1)[k - 1] = to(k)[k - 1]
    BY <1>1, <2>1, UpToUnique
  <2> QED BY <2>1, <2>2, <2>3
<1>4. g = [k \in Nat |-> g[k]]
  OBVIOUS
<1> HIDE DEF g
<1>5. Is(g)
  BY <1>2, <1>3, <1>4
<1>6. TwoTo = CHOOSE f : Is(f)
  BY DEF TwoTo
<1>7. Is(TwoTo)
  <2> HIDE DEF Is
  <2> QED BY <1>5, <1>6
<1>8. TwoTo[0] = 1 /\ \A k \in Nat : k # 0 => TwoTo[k] = 2 * TwoTo[k - 1]
  BY <1>7
<1>9. \A k \in Nat : k + 1 \in Nat /\ k + 1 # 0 /\ (k + 1) - 1 = k
  OBVIOUS
<1> QED BY <1>8, <1>9

\* A power of two is a number above its exponent.
LEMMA PowerAbove == \A k \in Nat : TwoTo[k] \in Nat /\ TwoTo[k] > k
<1> DEFINE D == { k \in Nat : ~(TwoTo[k] \in Nat /\ TwoTo[k] > k) }
<1> SUFFICES ASSUME D # {} PROVE FALSE
  OBVIOUS
<1>1. D \in SUBSET Nat /\ \A k : k \in D <=> k \in Nat /\ ~(TwoTo[k] \in Nat /\ TwoTo[k] > k)
  OBVIOUS
<1> HIDE DEF D
<1>2. PICK k \in D : \A l \in D : k <= l
  BY <1>1, Least
<1>3. k # 0
  BY <1>1, Doubling
<1>4. k \in Nat /\ k - 1 \in Nat /\ k - 1 \notin D /\ (k - 1) + 1 = k
  BY <1>1, <1>2, <1>3
<1>5. TwoTo[k - 1] \in Nat /\ TwoTo[k - 1] > k - 1 /\ TwoTo[k] = 2 * TwoTo[k - 1]
  BY <1>1, <1>4, Doubling
<1> QED BY <1>1, <1>4, <1>5

\* Greater exponents give greater powers.
LEMMA PowerRises == \A j, k \in Nat : j < k => 2 * TwoTo[j] <= TwoTo[k]
<1> SUFFICES ASSUME NEW j \in Nat PROVE \A k \in Nat : j < k => 2 * TwoTo[j] <= TwoTo[k]
  OBVIOUS
<1> DEFINE D == { k \in Nat : j < k /\ ~(2 * TwoTo[j] <= TwoTo[k]) }
<1> SUFFICES ASSUME D # {} PROVE FALSE
  OBVIOUS
<1>1. D \in SUBSET Nat /\ \A k : k \in D <=> k \in Nat /\ j < k /\ ~(2 * TwoTo[j] <= TwoTo[k])
  OBVIOUS
<1> HIDE DEF D
<1>2. PICK k \in D : \A l \in D : k <= l
  BY <1>1, Least
<1>3. k \in Nat /\ j < k /\ k - 1 \in Nat /\ k - 1 \notin D /\ (k - 1) + 1 = k
  BY <1>1, <1>2
<1>4. TwoTo[k] = 2 * TwoTo[k - 1] /\ TwoTo[j] \in Nat /\ TwoTo[k - 1] \in Nat
  BY <1>3, Doubling, PowerAbove
<1>5. k - 1 = j \/ (j < k - 1 /\ 2 * TwoTo[j] <= TwoTo[k - 1])
  BY <1>1, <1>3
<1> QED BY <1>1, <1>3, <1>4, <1>5

-----------------------------------------------------------------------------
(* Members of sets of numbers, in order.                                   *)

\* A list of the members of a set, in order and complete, has the n-th of
\* them at n.
LEMMA NthIs ==
  ASSUME NEW S \in SUBSET Nat, NEW m \in Nat, NEW e \in [1..m -> S],
         \A j, k \in 1..m : j < k => e[j] < e[k],
         \A i \in S : \E k \in 1..m : e[k] = i
  PROVE  Cardinality(S) = m /\ \A k \in 1..m : Nth(S, k) = e[k]
<1>1. \A j, k \in 1..m : (e[j] = e[k] => j = k) /\ (e[j] <= e[k] <=> j <= k)
  <2> TAKE j, k \in 1..m
  <2>1. j < k \/ k < j \/ j = k
    OBVIOUS
  <2>2. e[j] \in Nat /\ e[k] \in Nat
    OBVIOUS
  <2> QED BY <2>1, <2>2
<1>2. e \in Bijection(1..m, S)
  BY <1>1 DEF Bijection, Injection, Surjection, IsInjective
<1>3. IsFiniteSet(S) /\ Cardinality(S) = m
  <2>1. ExistsBijection(1..m, S)
    BY <1>2 DEF ExistsBijection
  <2> QED BY <2>1, FS_CountingElements, FS_NatBijection
<1>4. ASSUME NEW k \in 1..m PROVE Cardinality({ j \in S : j <= e[k] }) = k
  <2> DEFINE T == { j \in S : j <= e[k] }
             f == [l \in 1..k |-> e[l]]
  <2>1. f \in [1..k -> T]
    BY <1>1
  <2>2. \A i \in T : \E l \in 1..k : f[l] = i
    <3> TAKE i \in T
    <3>1. PICK l \in 1..m : e[l] = i
      OBVIOUS
    <3>2. l \in 1..k
      BY <1>1, <3>1
    <3> QED BY <3>1, <3>2
  <2>3. f \in Bijection(1..k, T)
    <3>1. \A i, j \in 1..k : f[i] = f[j] => i = j
      BY <1>1
    <3> HIDE DEF f, T
    <3> QED BY <2>1, <2>2, <3>1 DEF Bijection, Injection, Surjection, IsInjective
  <2>4. ExistsBijection(1..k, T) /\ k \in Nat
    <3> HIDE DEF f, T
    <3> QED BY <2>3 DEF ExistsBijection
  <2>5. Cardinality(T) = k
    <3> HIDE DEF T
    <3> QED BY <2>4, FS_CountingElements
  <2> QED BY <2>5
<1>5. ASSUME NEW k \in 1..m PROVE Nth(S, k) = e[k]
  <2> DEFINE C(i) == Cardinality({ j \in S : j <= i })
  <2>1. \A i \in S : C(i) = k => i = e[k]
    BY <1>4
  <2>2. C(e[k]) = k /\ e[k] \in S
    BY <1>4
  <2>3. Nth(S, k) = CHOOSE i \in S : C(i) = k
    BY DEF Nth
  <2> HIDE DEF C
  <2> QED BY <2>1, <2>2, <2>3
<1> QED BY <1>3, <1>5

\* The places of the members of a list that are in keep, and such members.
Places(list, keep) == { k \in DOMAIN list : list[k] \in keep }
Chosen(list, m, e) == [k \in 1..m |-> list[e[k]]]

\* What is kept of a list, given the places of what is.
LEMMA KeptIs ==
  ASSUME NEW list, NEW keep, DOMAIN list \in SUBSET Nat,
         NEW m \in Nat, NEW e \in [1..m -> Places(list, keep)],
         \A j, k \in 1..m : j < k => e[j] < e[k],
         \A i \in Places(list, keep) : \E k \in 1..m : e[k] = i
  PROVE  Kept(list, keep) = Chosen(list, m, e)
<1> DEFINE S == Places(list, keep)
<1>1. S \in SUBSET Nat
  BY DEF Places
<1> HIDE DEF S
<1>2. Cardinality(S) = m /\ \A k \in 1..m : Nth(S, k) = e[k]
  BY <1>1, NthIs DEF S
<1>3. Kept(list, keep) = [k \in 1..Cardinality(S) |-> list[Nth(S, k)]]
  BY DEF Kept, S, Places
<1>4. [k \in 1..m |-> list[Nth(S, k)]] = [k \in 1..m |-> list[e[k]]]
  BY <1>2
<1> QED BY <1>2, <1>3, <1>4 DEF Chosen

\* A part of a list.
Part(list, first, m) == [k \in 1..m |-> list[first + k]]

\* If a list's members from first + 1 to first + m are those that are in keep,
\* they are what is kept.
LEMMA KeptPart ==
  ASSUME NEW list, NEW keep, NEW n \in Nat, DOMAIN list = 1..n,
         NEW first \in Nat, NEW m \in Nat, first + m <= n,
         \A k \in 1..n : list[k] \in keep <=> k \in (first + 1)..(first + m)
  PROVE  Kept(list, keep) = Part(list, first, m)
<1> DEFINE e == [k \in 1..m |-> first + k]
<1>1. Places(list, keep) = (first + 1)..(first + m)
  BY DEF Places
<1>2. e \in [1..m -> Places(list, keep)] /\ \A j, k \in 1..m : j < k => e[j] < e[k]
  BY <1>1
<1>3. \A i \in Places(list, keep) : \E k \in 1..m : e[k] = i
  <2> TAKE i \in Places(list, keep)
  <2>1. i - first \in 1..m /\ first + (i - first) = i
    BY <1>1
  <2> QED BY <2>1
<1> HIDE DEF e
<1>4. DOMAIN list \in SUBSET Nat
  OBVIOUS
<1>5. Kept(list, keep) = Chosen(list, m, e)
  BY <1>2, <1>3, <1>4, KeptIs
<1>6. \A k \in 1..m : list[e[k]] = list[first + k]
  BY DEF e
<1> QED BY <1>5, <1>6 DEF Chosen, Part

-----------------------------------------------------------------------------
(* Lists.                                                                  *)

\* A function of 1..n is a list.
LEMMA ListOf ==
  ASSUME NEW n \in Nat, NEW S, NEW f \in [1..n -> S]
  PROVE  f \in Seq(S) /\ Len(f) = n
OBVIOUS

\* A list c is a list of m and a list of n members after it.
ConsistsOf(c, a, m, b, n) ==
  /\ m \in Nat /\ n \in Nat /\ Len(c) = m + n
  /\ \A i \in 1..m : c[i] = a[i]
  /\ \A i \in 1..n : c[m + i] = b[i]
  /\ SubSeq(c, m + 1, m + n) = b

LEMMA Joined ==
  ASSUME NEW S, NEW a, a \in Seq(S), NEW b, b \in Seq(S),
         NEW m, m = Len(a), NEW n, n = Len(b)
  PROVE  a \o b \in Seq(S) /\ ConsistsOf(a \o b, a, m, b, n)
<1>1. a \o b \in Seq(S) /\ Len(a \o b) = m + n /\ m \in Nat /\ n \in Nat
      /\ \A i \in 1..(m + n) : (a \o b)[i] = IF i <= m THEN a[i] ELSE b[i - m]
  BY ConcatProperties
<1> DEFINE c == a \o b
<1> HIDE DEF c
<1>2. c \in Seq(S) /\ Len(c) = m + n
  BY <1>1 DEF c
<1>3. \A i \in 1..m : c[i] = a[i]
  BY <1>1 DEF c
<1>4. \A i \in 1..n : c[m + i] = b[i]
  <2> TAKE i \in 1..n
  <2>1. m + i \in 1..(m + n) /\ ~(m + i <= m) /\ (m + i) - m = i
    BY <1>1
  <2> QED BY <1>1, <2>1 DEF c
<1>5. SubSeq(c, m + 1, m + n) = b
  <2> DEFINE s == SubSeq(c, m + 1, m + n)
  <2>1. m + 1 \in 1..(m + n + 1) /\ m + n \in (m + 1 - 1)..Len(c)
        /\ (m + n) - (m + 1) + 1 = n
    BY <1>1, <1>2
  <2>2. s \in Seq(S) /\ Len(s) = n /\ \A i \in 1..n : s[i] = c[m + 1 + i - 1]
    <3>1. s \in Seq(S)
          /\ Len(s) = (IF m + 1 <= m + n THEN (m + n) - (m + 1) + 1 ELSE 0)
          /\ \A i \in 1..((m + n) - (m + 1) + 1) : s[i] = c[m + 1 + i - 1]
      BY <1>1, <1>2, <2>1, SubSeqProperties
    <3> HIDE DEF s
    <3> QED BY <1>1, <2>1, <3>1
  <2> HIDE DEF s
  <2>3. \A i \in 1..n : s[i] = b[i]
    <3> TAKE i \in 1..n
    <3>1. m + 1 + i - 1 = m + i
      BY <1>1
    <3> QED BY <1>4, <2>2, <3>1
  <2>4. s = b
    BY <2>2, <2>3
  <2> QED BY <2>4 DEF s
<1> QED BY <1>1, <1>2, <1>3, <1>4, <1>5 DEF c, ConsistsOf

-----------------------------------------------------------------------------
(* Numbers 1..n in an order: lt[i][j] says that i comes before j.          *)

IsOrder(lt, n) ==
  /\ lt \in [1..n -> [1..n -> BOOLEAN]]
  /\ \A i \in 1..n : ~lt[i][i]
  /\ \A i, j \in 1..n : i # j => lt[i][j] \/ lt[j][i]
  /\ \A i, j, k \in 1..n : lt[i][j] /\ lt[j][k] => lt[i][k]
Below(lt, n, i) == { m \in 1..n : lt[m][i] }
Place(lt, n, i) == Cardinality(Below(lt, n, i)) + 1
\* What comes at place i.
Ranked(lt, n, i) == CHOOSE m \in 1..n : Cardinality(Below(lt, n, m)) = i - 1

\* Places are numbers up to n, and rise with the order.
LEMMA PlaceRises ==
  ASSUME NEW n \in Nat, NEW lt, IsOrder(lt, n)
  PROVE  /\ \A i \in 1..n : Place(lt, n, i) \in 1..n
         /\ \A i, j \in 1..n : lt[i][j] => Place(lt, n, i) < Place(lt, n, j)
<1>1. IsFiniteSet(1..n) /\ Cardinality(1..n) = n
  BY FS_Interval
<1>2. ASSUME NEW i \in 1..n
      PROVE  /\ IsFiniteSet(Below(lt, n, i)) /\ Cardinality(Below(lt, n, i)) \in Nat
             /\ Cardinality(Below(lt, n, i)) < n
  <2>1. Below(lt, n, i) \in SUBSET (1..n) /\ i \notin Below(lt, n, i)
    BY DEF IsOrder, Below
  <2>2. IsFiniteSet(Below(lt, n, i)) /\ Cardinality(Below(lt, n, i)) <= n
        /\ (Cardinality(Below(lt, n, i)) = n => Below(lt, n, i) = 1..n)
    BY <1>1, <2>1, FS_Subset
  <2>3. Cardinality(Below(lt, n, i)) \in Nat
    BY <2>2, FS_CardinalityType
  <2> QED BY <1>1, <2>1, <2>2, <2>3
<1>3. ASSUME NEW i \in 1..n, NEW j \in 1..n, lt[i][j]
      PROVE  Cardinality(Below(lt, n, i)) < Cardinality(Below(lt, n, j))
  <2>1. Below(lt, n, i) \in SUBSET Below(lt, n, j)
    BY <1>3 DEF IsOrder, Below
  <2>2. i \in Below(lt, n, j) /\ i \notin Below(lt, n, i)
    BY <1>3 DEF IsOrder, Below
  <2>3. Cardinality(Below(lt, n, i)) <= Cardinality(Below(lt, n, j))
        /\ Cardinality(Below(lt, n, i)) # Cardinality(Below(lt, n, j))
    BY <1>2, <2>1, <2>2, FS_Subset
  <2>4. Cardinality(Below(lt, n, i)) \in Nat /\ Cardinality(Below(lt, n, j)) \in Nat
    BY <1>2
  <2> QED BY <2>3, <2>4
<1>4. \A i \in 1..n : Cardinality(Below(lt, n, i)) + 1 \in 1..n
  BY <1>2
<1>5. \A i, j \in 1..n : lt[i][j] =>
        Cardinality(Below(lt, n, i)) + 1 < Cardinality(Below(lt, n, j)) + 1
  BY <1>2, <1>3
<1> QED BY <1>4, <1>5 DEF Place

\* Every place is taken by one number, and the order is the one of the places.
LEMMA RankedOrder ==
  ASSUME NEW n \in Nat, NEW lt, IsOrder(lt, n)
  PROVE  /\ \A i \in 1..n : Ranked(lt, n, i) \in 1..n /\ Place(lt, n, Ranked(lt, n, i)) = i
         /\ \A m \in 1..n : Place(lt, n, m) \in 1..n /\ Ranked(lt, n, Place(lt, n, m)) = m
         /\ \A i, j \in 1..n : i < j <=> lt[Ranked(lt, n, i)][Ranked(lt, n, j)]
<1> DEFINE pos == [i \in 1..n |-> Place(lt, n, i)]
<1>1. IsFiniteSet(1..n)
  BY FS_Interval
<1>2. pos \in [1..n -> 1..n]
  BY PlaceRises
<1>3. \A i, j \in 1..n : Place(lt, n, i) = Place(lt, n, j) => i = j
  <2> SUFFICES ASSUME NEW i \in 1..n, NEW j \in 1..n, i # j
               PROVE  Place(lt, n, i) # Place(lt, n, j)
    OBVIOUS
  <2>1. lt[i][j] \/ lt[j][i]
    BY DEF IsOrder
  <2>2. Place(lt, n, i) < Place(lt, n, j) \/ Place(lt, n, j) < Place(lt, n, i)
    BY <2>1, PlaceRises
  <2>3. Place(lt, n, i) \in Nat /\ Place(lt, n, j) \in Nat
    BY PlaceRises
  <2> QED BY <2>2, <2>3
<1>4. pos \in Injection(1..n, 1..n)
  BY <1>2, <1>3 DEF Injection, IsInjective
<1>5. pos \in Surjection(1..n, 1..n)
  BY <1>1, <1>4, FS_Injection
<1>6. \A k \in 1..n : \E i \in 1..n : Place(lt, n, i) = k
  BY <1>5 DEF Surjection
<1>7. ASSUME NEW i \in 1..n
      PROVE  Ranked(lt, n, i) \in 1..n /\ Place(lt, n, Ranked(lt, n, i)) = i
  <2>1. PICK m \in 1..n : Place(lt, n, m) = i
    BY <1>6
  <2>2. Cardinality(Below(lt, n, m)) = i - 1
    <3>1. IsFiniteSet(Below(lt, n, m))
      BY <1>1, FS_Subset DEF Below
    <3>2. Cardinality(Below(lt, n, m)) \in Nat
      BY <3>1, FS_CardinalityType
    <3> QED BY <2>1, <3>2 DEF Place
  <2>3. Ranked(lt, n, i) \in 1..n /\ Cardinality(Below(lt, n, Ranked(lt, n, i))) = i - 1
    BY <2>2 DEF Ranked
  <2> QED BY <2>3 DEF Place
<1>8. ASSUME NEW m \in 1..n
      PROVE  Place(lt, n, m) \in 1..n /\ Ranked(lt, n, Place(lt, n, m)) = m
  <2>1. Place(lt, n, m) \in 1..n
    BY PlaceRises
  <2>2. Ranked(lt, n, Place(lt, n, m)) \in 1..n
        /\ Place(lt, n, Ranked(lt, n, Place(lt, n, m))) = Place(lt, n, m)
    BY <1>7, <2>1
  <2> QED BY <1>3, <2>1, <2>2
<1>9. ASSUME NEW i \in 1..n, NEW j \in 1..n
      PROVE  i < j <=> lt[Ranked(lt, n, i)][Ranked(lt, n, j)]
  <2> DEFINE a == Ranked(lt, n, i)
             b == Ranked(lt, n, j)
  <2>1. a \in 1..n /\ b \in 1..n /\ Place(lt, n, a) = i /\ Place(lt, n, b) = j
    BY <1>7
  <2> HIDE DEF a, b
  <2>2. lt[a][b] => i < j
    BY <2>1, PlaceRises
  <2>3. lt[b][a] => j < i
    BY <2>1, PlaceRises
  <2>4. a # b => lt[a][b] \/ lt[b][a]
    BY <2>1 DEF IsOrder
  <2>5. i < j => lt[a][b]
    BY <2>1, <2>3, <2>4
  <2> QED BY <2>2, <2>5 DEF a, b
<1> QED BY <1>7, <1>8, <1>9

\* A list that rises in the order has at each place what comes there.
LEMMA RankedIs ==
  ASSUME NEW n \in Nat, NEW lt, IsOrder(lt, n), NEW p \in [1..n -> 1..n],
         \A i, j \in 1..n : i < j => lt[p[i]][p[j]]
  PROVE  \A i \in 1..n : Ranked(lt, n, i) = p[i]
<1> DEFINE q == [i \in 1..n |-> Place(lt, n, p[i])]
           D == { i \in 1..n : q[i] < i }
           U == { i \in 1..n : q[i] > i }
<1>1. \A i \in 1..n : q[i] \in 1..n
  BY PlaceRises
<1>2. \A i, j \in 1..n : i < j => q[i] < q[j]
  BY PlaceRises
<1>3. \A i \in 1..n : q[i] = Place(lt, n, p[i])
  OBVIOUS
<1> HIDE DEF q
<1>4. D = {}
  <2> SUFFICES ASSUME D # {} PROVE FALSE
    OBVIOUS
  <2>1. D \in SUBSET Nat /\ \A i : i \in D <=> i \in 1..n /\ q[i] < i
    OBVIOUS
  <2> HIDE DEF D
  <2>2. PICK i \in D : \A l \in D : i <= l
    BY <2>1, Least
  <2>3. q[i] \in 1..n /\ q[i] < i
    BY <1>1, <2>1
  <2>4. q[q[i]] < q[i]
    BY <1>2, <2>1, <2>3
  <2>5. q[i] \in D
    BY <2>1, <2>3, <2>4
  <2>6. i <= q[i]
    BY <2>2, <2>5
  <2>7. i \in Nat
    BY <2>1
  <2> QED BY <2>3, <2>6, <2>7
<1>5. U = {}
  <2> DEFINE V == { n - i : i \in U }
  <2> SUFFICES ASSUME U # {} PROVE FALSE
    OBVIOUS
  <2>1. \A i : i \in U <=> i \in 1..n /\ q[i] > i
    OBVIOUS
  <2> HIDE DEF U
  <2>2. V \in SUBSET Nat /\ V # {} /\ \A k : k \in V <=> \E i \in U : k = n - i
    <3>1. \A k : k \in V <=> \E i \in U : k = n - i
      OBVIOUS
    <3>2. PICK i : i \in U
      OBVIOUS
    <3>3. n - i \in V
      BY <3>1, <3>2
    <3>4. \A j \in U : n - j \in Nat
      <4> SUFFICES ASSUME NEW j \in U PROVE n - j \in Nat
        OBVIOUS
      <4>1. j \in 1..n
        BY <2>1
      <4> QED BY <4>1
    <3> HIDE DEF V
    <3> QED BY <3>1, <3>3, <3>4
  <2> HIDE DEF V
  <2>3. PICK k \in V : \A l \in V : k <= l
    BY <2>2, Least
  <2>4. PICK i \in U : k = n - i
    BY <2>2
  <2>5. q[i] \in 1..n /\ q[i] > i /\ i \in 1..n
    BY <1>1, <2>1
  <2>6. q[q[i]] > q[i]
    BY <1>1, <1>2, <2>5
  <2>7. q[i] \in U /\ n - q[i] \in V
    BY <2>1, <2>2, <2>5, <2>6
  <2>8. k <= n - q[i]
    BY <2>3, <2>7
  <2>9. n - i <= n - q[i]
    BY <2>4, <2>8
  <2>10. \A a, b, c \in Int : c > b => ~(a - b <= a - c)
    OBVIOUS
  <2>11. n \in Int /\ i \in Int /\ q[i] \in Int
    BY <2>5
  <2> QED BY <2>5, <2>9, <2>10, <2>11
<1>6. \A i \in 1..n : q[i] = i
  BY <1>1, <1>4, <1>5
<1> HIDE DEF D, U
<1>7. ASSUME NEW i \in 1..n PROVE Ranked(lt, n, i) = p[i]
  <2>1. Place(lt, n, p[i]) = i /\ p[i] \in 1..n
    BY <1>3, <1>6
  <2>2. Ranked(lt, n, Place(lt, n, p[i])) = p[i]
    BY <2>1, RankedOrder
  <2> QED BY <2>1, <2>2
<1> QED BY <1>7

-----------------------------------------------------------------------------
(* Tables padded and put in the order of their ids.                        *)

\* A table is padded to the least power of two that holds it, one without rows
\* to two.
LEMMA PaddedSize ==
  ASSUME NEW n \in Nat
  PROVE  /\ PowerOfTwo(n) \in Nat /\ PowerOfTwo(n) >= n /\ PowerOfTwo(n) > 0
         /\ \E k \in Nat : PowerOfTwo(n) = TwoTo[k]
<1>1. CASE n = 0
  <2>1. TwoTo[0] = 1 /\ TwoTo[0 + 1] = 2 * TwoTo[0] /\ 0 \in Nat /\ 1 \in Nat
    BY Doubling
  <2>2. TwoTo[1] = 2
    BY <2>1
  <2> QED BY <1>1, <2>1, <2>2 DEF PowerOfTwo
<1>2. CASE n # 0
  <2> DEFINE D == { k \in Nat : TwoTo[k] >= n }
  <2>1. D \in SUBSET Nat /\ (\A k : k \in D <=> k \in Nat /\ TwoTo[k] >= n) /\ n \in D
    BY PowerAbove
  <2> HIDE DEF D
  <2>2. PICK k \in D : \A l \in D : k <= l
    BY <2>1, Least
  <2>3. k \in Nat /\ k <= n /\ k \in 0..n /\ TwoTo[k] \in Nat /\ TwoTo[k] >= n
    BY <2>1, <2>2, PowerAbove
  <2>4. TwoTo[k] < 2 * n
    <3>1. CASE k = 0
      BY <1>2, <3>1, Doubling
    <3>2. CASE k # 0
      <4>1. k - 1 \in Nat /\ (k - 1) + 1 = k /\ k - 1 \notin D
        BY <2>2, <2>3, <3>2
      <4>2. TwoTo[k - 1] \in Nat /\ TwoTo[k - 1] < n
        BY <2>1, <4>1, PowerAbove
      <4>3. TwoTo[k] = 2 * TwoTo[k - 1]
        BY <4>1, Doubling
      <4> QED BY <4>2, <4>3
    <3> QED BY <3>1, <3>2
  <2> DEFINE P == {TwoTo[j] : j \in 0..n}
             p == CHOOSE x \in P : x >= n /\ x < 2 * n
  <2>5. PowerOfTwo(n) = p
    BY <1>2 DEF PowerOfTwo
  <2>6. TwoTo[k] \in P
    BY <2>3
  <2>7. \A x \in P : \E j \in Nat : x = TwoTo[j]
    OBVIOUS
  <2> HIDE DEF P
  <2>8. p \in P /\ p >= n /\ p < 2 * n
    BY <2>3, <2>4, <2>6
  <2>9. p \in Nat
    BY <2>7, <2>8, PowerAbove
  <2> HIDE DEF p
  <2> QED BY <1>2, <2>5, <2>7, <2>8, <2>9
<1> QED BY <1>1, <1>2

\* A power of two is padded to itself.
LEMMA PaddedOnce == \A k \in Nat : PowerOfTwo(TwoTo[k]) = TwoTo[k]
<1> TAKE k \in Nat
<1> DEFINE n == TwoTo[k]
           P == {TwoTo[j] : j \in 0..n}
<1>1. n \in Nat /\ n > k
  BY PowerAbove
<1>2. n \in P /\ n >= n /\ n < 2 * n
  BY <1>1
<1>3. ASSUME NEW x \in P, x >= n, x < 2 * n PROVE x = n
  <2>1. PICK j \in Nat : x = TwoTo[j]
    OBVIOUS
  <2>2. x \in Nat
    BY <2>1, PowerAbove
  <2>3. ~(j < k)
    <3>1. j < k => 2 * x <= n
      BY <2>1, PowerRises
    <3> QED BY <1>1, <1>3, <2>2, <3>1
  <2>4. ~(k < j)
    <3>1. k < j => 2 * n <= x
      BY <2>1, PowerRises
    <3> QED BY <1>1, <1>3, <2>2, <3>1
  <2>5. j = k
    BY <2>3, <2>4
  <2> QED BY <2>1, <2>5
<1>4. PowerOfTwo(n) = CHOOSE x \in P : x >= n /\ x < 2 * n
  BY <1>1 DEF PowerOfTwo
<1> HIDE DEF n, P
<1>5. PowerOfTwo(n) = n
  BY <1>2, <1>3, <1>4
<1> QED BY <1>5 DEF n

\* The columns rows have.
RowNames == -1..MaxCols

LEMMA NamesOfRows == Act \in RowNames /\ RowId \in RowNames /\ Act # RowId /\ Act = 0
  BY SortAssumption DEF Act, RowId, RowNames

\* The rows of a table stay where they are, and the others are not active.
LEMMA PaddedRows ==
  ASSUME NEW rows, NEW n \in Nat, Len(rows) = n, DOMAIN rows = 1..n,
         \A i \in 1..n : DOMAIN rows[i] = RowNames
  PROVE  /\ DOMAIN Padded(rows) = 1..PowerOfTwo(n)
         /\ \A i \in 1..n : i \in 1..PowerOfTwo(n) /\ Padded(rows)[i] = rows[i]
         /\ \A i \in 1..PowerOfTwo(n) : i > n => Padded(rows)[i][Act] = 0
<1>1. PowerOfTwo(n) \in Nat /\ PowerOfTwo(n) >= n
  BY PaddedSize
<1>2. \A i \in 1..PowerOfTwo(n) : Padded(rows)[i] =
        IF i <= n THEN rows[i]
        ELSE IF rows = <<>> THEN NullRow(i)
        ELSE [rows[n] EXCEPT ![Act] = 0, ![RowId] = @ + i - n]
  BY DEF Padded
<1>3. DOMAIN Padded(rows) = 1..PowerOfTwo(n)
  BY DEF Padded
<1>4. ASSUME NEW i \in 1..n PROVE i \in 1..PowerOfTwo(n) /\ Padded(rows)[i] = rows[i]
  <2>1. i \in 1..PowerOfTwo(n)
    BY <1>1
  <2>2. i <= n
    OBVIOUS
  <2>3. Padded(rows)[i] = rows[i]
    BY <1>2, <2>1, <2>2
  <2> QED BY <2>1, <2>3
<1>5. ASSUME NEW i \in 1..PowerOfTwo(n), i > n PROVE Padded(rows)[i][Act] = 0
  <2>1. NullRow(i)[Act] = 0
    BY NamesOfRows DEF NullRow, RowNames
  <2>2. rows # <<>> => n \in 1..n
    OBVIOUS
  <2>3. rows # <<>> => [rows[n] EXCEPT ![Act] = 0, ![RowId] = @ + i - n][Act] = 0
    BY <2>2, NamesOfRows
  <2>4. ~(i <= n)
    BY <1>1, <1>5
  <2>5. Padded(rows)[i] = IF rows = <<>> THEN NullRow(i)
                          ELSE [rows[n] EXCEPT ![Act] = 0, ![RowId] = @ + i - n]
    BY <1>2, <2>4
  <2> QED BY <2>1, <2>3, <2>5
<1> QED BY <1>3, <1>4, <1>5

\* Dense ids are distinct.
LEMMA DenseIds ==
  ASSUME NEW n \in Nat, NEW f, DOMAIN f = 1..n, f = [i \in DOMAIN f |-> f[i]],
         {f[i] : i \in DOMAIN f} = 0..(n - 1)
  PROVE  /\ \A i \in 1..n : f[i] \in 0..(n - 1)
         /\ \A i, j \in 1..n : f[i] = f[j] => i = j
<1>1. \A i \in 1..n : f[i] \in 0..(n - 1)
  OBVIOUS
<1>2. f \in Surjection(1..n, 0..(n - 1))
  <2>1. f \in [1..n -> 0..(n - 1)]
    BY <1>1
  <2>2. \A t \in 0..(n - 1) : \E s \in 1..n : f[s] = t
    OBVIOUS
  <2> QED BY <2>1, <2>2 DEF Surjection
<1>3. IsFiniteSet(1..n) /\ Cardinality(1..n) = n
  BY FS_Interval
<1>4. Cardinality(0..(n - 1)) = n
  <2>1. n - 1 \in Int /\ 0 \in Int
    OBVIOUS
  <2>2. Cardinality(0..(n - 1)) = IF 0 > n - 1 THEN 0 ELSE (n - 1) - 0 + 1
    BY <2>1, FS_Interval
  <2> QED BY <2>2
<1> DEFINE S == 1..n
           T == 0..(n - 1)
<1>5. f \in Surjection(S, T) /\ IsFiniteSet(S) /\ Cardinality(S) = n /\ Cardinality(T) = n
  BY <1>2, <1>3, <1>4
<1>6. f \in Injection(S, T)
  <2> HIDE DEF S, T
  <2> QED BY <1>5, FS_Surjection
<1>7. \A i, j \in S : f[i] = f[j] => i = j
  BY <1>6 DEF Injection, IsInjective
<1> QED BY <1>1, <1>7

\* The order of row ids, and of the rows as they are where ids agree.
IdOrder(rows, n) ==
  [i \in 1..n |-> [j \in 1..n |->
    rows[i][RowId] < rows[j][RowId] \/ (rows[i][RowId] = rows[j][RowId] /\ i < j)]]

\* Sorting by id puts the rows in that order.
LEMMA ByIdRows ==
  ASSUME NEW rows, NEW n \in Nat, DOMAIN rows = 1..n,
         \A i \in 1..n : rows[i][RowId] \in Int
  PROVE  /\ IsOrder(IdOrder(rows, n), n)
         /\ DOMAIN ById(rows) = 1..n
         /\ \A i \in 1..n : /\ Ranked(IdOrder(rows, n), n, i) \in 1..n
                            /\ ById(rows)[i] = rows[Ranked(IdOrder(rows, n), n, i)]
<1> DEFINE lt == IdOrder(rows, n)
<1>1. \A i, j \in 1..n : lt[i][j] <=>
        rows[i][RowId] < rows[j][RowId] \/ (rows[i][RowId] = rows[j][RowId] /\ i < j)
  BY DEF IdOrder
<1>2. lt \in [1..n -> [1..n -> BOOLEAN]]
  BY DEF IdOrder
<1> HIDE DEF lt
<1>3. IsOrder(lt, n)
  <2>1. \A i \in 1..n : ~lt[i][i]
    BY <1>1
  <2>2. \A i, j \in 1..n : i # j => lt[i][j] \/ lt[j][i]
    BY <1>1
  <2>3. \A i, j, k \in 1..n : lt[i][j] /\ lt[j][k] => lt[i][k]
    BY <1>1
  <2> QED BY <1>2, <2>1, <2>2, <2>3 DEF IsOrder
<1>4. \A m \in 1..n : Below(lt, n, m) =
        { l \in 1..n : rows[l][RowId] < rows[m][RowId]
                       \/ (rows[l][RowId] = rows[m][RowId] /\ l < m) }
  BY <1>1 DEF Below
<1>5. DOMAIN ById(rows) = 1..n
  BY DEF ById
<1>6. ASSUME NEW i \in 1..n PROVE ById(rows)[i] = rows[Ranked(lt, n, i)]
  <2> DEFINE c(m) == Cardinality({ l \in 1..n : rows[l][RowId] < rows[m][RowId]
                       \/ (rows[l][RowId] = rows[m][RowId] /\ l < m) })
  <2>1. ById(rows)[i] = rows[CHOOSE m \in 1..n : c(m) = i - 1]
    BY DEF ById
  <2>2. \A m \in 1..n : c(m) = Cardinality(Below(lt, n, m))
    BY <1>4
  <2> HIDE DEF c
  <2>3. (CHOOSE m \in 1..n : c(m) = i - 1) = Ranked(lt, n, i)
    BY <2>2 DEF Ranked
  <2> QED BY <2>1, <2>3
<1>7. \A i \in 1..n : Ranked(lt, n, i) \in 1..n
  BY <1>3, RankedOrder
<1> QED BY <1>3, <1>5, <1>6, <1>7 DEF lt

-----------------------------------------------------------------------------
(* Functions defined step by step.                                         *)

\* f[0] is first, and f[n] is made of n and f[n - 1].
Steps(f, N, first, step) == f = [n \in 0..N |-> IF n = 0 THEN first ELSE step[<<n, f[n - 1]>>]]

LEMMA StepsExist ==
  ASSUME NEW S, NEW first \in S, NEW step \in [Nat \X S -> S]
  PROVE  \A N \in Nat : \E f \in [0..N -> S] : Steps(f, N, first, step)
<1> DEFINE Some(N) == \E f \in [0..N -> S] : Steps(f, N, first, step)
           D == { N \in Nat : ~Some(N) }
<1> SUFFICES ASSUME D # {} PROVE FALSE
  OBVIOUS
<1>1. D \in SUBSET Nat /\ \A N : N \in D <=> N \in Nat /\ ~Some(N)
  OBVIOUS
<1> HIDE DEF D
<1>2. PICK N \in D : \A l \in D : N <= l
  BY <1>1, Least
<1>3. CASE N = 0
  <2> DEFINE g == [n \in 0..0 |-> first]
  <2>1. g \in [0..N -> S] /\ g = [n \in 0..N |-> IF n = 0 THEN first ELSE step[<<n, g[n - 1]>>]]
    BY <1>3
  <2>2. Some(N)
    BY <2>1 DEF Steps
  <2> QED BY <1>1, <2>2
<1>4. CASE N # 0
  <2>1. N \in Nat /\ N - 1 \in Nat /\ N - 1 \notin D
    BY <1>1, <1>2, <1>4
  <2>2. PICK f \in [0..(N - 1) -> S] : Steps(f, N - 1, first, step)
    BY <1>1, <2>1
  <2>3. f[0] = first /\ \A n \in 1..(N - 1) : f[n] = step[<<n, f[n - 1]>>]
    BY <2>1, <2>2 DEF Steps
  <2> DEFINE g == [n \in 0..N |-> IF n = N THEN step[<<N, f[N - 1]>>] ELSE f[n]]
  <2>4. f[N - 1] \in S /\ <<N, f[N - 1]>> \in Nat \X S
    BY <2>1
  <2>5. g[0] = first /\ \A n \in 1..N : g[n] = step[<<n, g[n - 1]>>]
    <3>1. g[0] = first
      BY <1>4, <2>1, <2>3
    <3>2. ASSUME NEW n \in 1..N PROVE g[n] = step[<<n, g[n - 1]>>]
      <4>1. n - 1 \in 0..N /\ n - 1 # N /\ n \in 0..N
        BY <2>1
      <4>2. g[n - 1] = f[n - 1]
        BY <4>1
      <4>3. g[n] = IF n = N THEN step[<<N, f[N - 1]>>] ELSE f[n]
        BY <4>1
      <4>4. n # N => n \in 1..(N - 1)
        BY <2>1
      <4> HIDE DEF g
      <4> QED BY <2>3, <4>2, <4>3, <4>4
    <3> QED BY <3>1, <3>2
  <2>6. g \in [0..N -> S]
    <3>1. step[<<N, f[N - 1]>>] \in S
      BY <2>4
    <3>2. \A n \in 0..N : n # N => n \in 0..(N - 1)
      BY <2>1
    <3>3. \A n \in 0..N : g[n] \in S
      BY <3>1, <3>2
    <3> QED BY <3>3
  <2>7. g = [n \in 0..N |-> g[n]]
    OBVIOUS
  <2> HIDE DEF g
  <2>8. \A n \in 0..N : g[n] = IF n = 0 THEN first ELSE step[<<n, g[n - 1]>>]
    BY <2>1, <2>5
  <2>9. g = [n \in 0..N |-> IF n = 0 THEN first ELSE step[<<n, g[n - 1]>>]]
    BY <2>7, <2>8
  <2>10. Some(N)
    BY <2>6, <2>9 DEF Steps
  <2> QED BY <1>1, <2>10
<1> QED BY <1>3, <1>4

-----------------------------------------------------------------------------
(* Rows in the order of some specs.                                        *)

\* n rows of k keys, told apart by their keys or ids, and specs of those keys.
RowsFor(rows, n, k) ==
  /\ n \in Nat /\ Len(rows) = n /\ DOMAIN rows = 1..n
  /\ \A i \in 1..n : /\ DOMAIN rows[i] = RowNames
                     /\ rows[i][Act] \in {0, 1} /\ rows[i][RowId] \in Int
                     /\ \A c \in 1..k : rows[i][c] \in Int \cup {Null}
  /\ \A i, j \in 1..n : rows[i][Act] = rows[j][Act] /\ SameUpTo(rows[i], rows[j], k)
                         /\ rows[i][RowId] = rows[j][RowId] => i = j
SpecsFor(specs, k) ==
  /\ k \in Nat /\ DOMAIN specs = 1..k /\ Len(specs) = k
  /\ \A c \in 1..k : specs[c] \in [asc : BOOLEAN, nullsFirst : BOOLEAN]
SpecOrder(rows, specs, n) ==
  [i \in 1..n |-> [j \in 1..n |-> RowBefore(specs, rows[i], rows[j])]]

LEMMA KeysOrdered ==
  ASSUME NEW spec, spec.asc \in BOOLEAN, spec.nullsFirst \in BOOLEAN,
         NEW a \in Int \cup {Null}, NEW b \in Int \cup {Null}
  PROVE  /\ ~KeyBefore(spec, a, a)
         /\ a # b => KeyBefore(spec, a, b) \/ KeyBefore(spec, b, a)
         /\ \A c \in Int \cup {Null} :
              KeyBefore(spec, a, b) /\ KeyBefore(spec, b, c) => KeyBefore(spec, a, c)
<1>1. Null \notin Int
  BY SortAssumption
<1>2. ~KeyBefore(spec, a, a)
  BY <1>1 DEF KeyBefore
<1>3. a # b => KeyBefore(spec, a, b) \/ KeyBefore(spec, b, a)
  BY <1>1 DEF KeyBefore
<1>4. ASSUME NEW c \in Int \cup {Null}, KeyBefore(spec, a, b), KeyBefore(spec, b, c)
      PROVE  KeyBefore(spec, a, c)
  BY <1>1, <1>4 DEF KeyBefore
<1> QED BY <1>2, <1>3, <1>4

LEMMA SpecOrdered ==
  ASSUME NEW rows, NEW n, NEW k, RowsFor(rows, n, k), NEW specs, SpecsFor(specs, k)
  PROVE  IsOrder(SpecOrder(rows, specs, n), n)
<1> DEFINE lt == SpecOrder(rows, specs, n)
           V == Int \cup {Null}
<1>1. n \in Nat /\ k \in Nat /\ DOMAIN specs = 1..k /\ Len(specs) = k
      /\ \A i \in 1..n : rows[i][Act] \in Int /\ rows[i][RowId] \in Int
                         /\ \A c \in 1..k : rows[i][c] \in V
  BY DEF RowsFor, SpecsFor
<1> DEFINE First(i, j, c) == SameUpTo(rows[i], rows[j], c - 1)
                               /\ KeyBefore(specs[c], rows[i][c], rows[j][c])
<1>2. \A i, j \in 1..n : lt[i][j] <=>
        \/ rows[i][Act] > rows[j][Act]
        \/ rows[i][Act] = rows[j][Act]
           /\ ((\E c \in 1..k : First(i, j, c))
               \/ (SameUpTo(rows[i], rows[j], k) /\ rows[i][RowId] < rows[j][RowId]))
  BY <1>1 DEF SpecOrder, RowBefore
<1>3. lt \in [1..n -> [1..n -> BOOLEAN]]
  BY DEF SpecOrder, RowBefore
<1> HIDE DEF lt
<1>4. ASSUME NEW c \in 1..k, NEW x \in V, NEW y \in V
      PROVE  /\ ~KeyBefore(specs[c], x, x)
             /\ x # y => KeyBefore(specs[c], x, y) \/ KeyBefore(specs[c], y, x)
             /\ \A z \in V : KeyBefore(specs[c], x, y) /\ KeyBefore(specs[c], y, z)
                               => KeyBefore(specs[c], x, z)
  <2>1. specs[c].asc \in BOOLEAN /\ specs[c].nullsFirst \in BOOLEAN
    BY DEF SpecsFor
  <2> DEFINE spec == specs[c]
  <2>2. spec.asc \in BOOLEAN /\ spec.nullsFirst \in BOOLEAN
    BY <2>1
  <2> HIDE DEF spec
  <2>3. /\ ~KeyBefore(spec, x, x)
        /\ x # y => KeyBefore(spec, x, y) \/ KeyBefore(spec, y, x)
        /\ \A z \in V : KeyBefore(spec, x, y) /\ KeyBefore(spec, y, z) => KeyBefore(spec, x, z)
    BY <2>2, KeysOrdered
  <2> QED BY <2>3 DEF spec
<1>5. \A i \in 1..n : ~lt[i][i]
  <2> SUFFICES ASSUME NEW i \in 1..n, lt[i][i] PROVE FALSE
    OBVIOUS
  <2>1. \A c \in 1..k : ~First(i, i, c)
    BY <1>1, <1>4
  <2> HIDE DEF First
  <2>2. rows[i][Act] > rows[i][Act] \/ rows[i][RowId] < rows[i][RowId]
    BY <1>2, <2>1
  <2> QED BY <1>1, <2>2
<1>6. \A i, j \in 1..n : i # j => lt[i][j] \/ lt[j][i]
  <2> SUFFICES ASSUME NEW i \in 1..n, NEW j \in 1..n, i # j, rows[i][Act] = rows[j][Act]
               PROVE  lt[i][j] \/ lt[j][i]
    BY <1>1, <1>2
  <2> DEFINE D == {c \in 1..k : rows[i][c] # rows[j][c]}
  <2>1. CASE D = {}
    <3>1. SameUpTo(rows[i], rows[j], k) /\ SameUpTo(rows[j], rows[i], k)
      BY <2>1 DEF SameUpTo
    <3>2. rows[i][RowId] # rows[j][RowId]
      BY <3>1 DEF RowsFor
    <3> QED BY <1>1, <1>2, <3>1, <3>2
  <2>2. CASE D # {}
    <3>1. D \in SUBSET Nat
      OBVIOUS
    <3>2. \E c \in D : \A d \in D : c <= d
      <4> HIDE DEF D
      <4> QED BY <2>2, <3>1, Least
    <3>3. PICK c \in D : \A d \in D : c <= d
      BY <3>2
    <3>4. c \in 1..k /\ rows[i][c] # rows[j][c] /\ \A d \in 1..(c - 1) : rows[i][d] = rows[j][d]
      BY <1>1, <3>3
    <3>5. SameUpTo(rows[i], rows[j], c - 1) /\ SameUpTo(rows[j], rows[i], c - 1)
      BY <3>4 DEF SameUpTo
    <3>6. KeyBefore(specs[c], rows[i][c], rows[j][c]) \/ KeyBefore(specs[c], rows[j][c], rows[i][c])
      BY <1>1, <1>4, <3>4
    <3>7. First(i, j, c) \/ First(j, i, c)
      BY <3>5, <3>6
    <3> HIDE DEF First
    <3> QED BY <1>2, <3>4, <3>7
  <2> QED BY <2>1, <2>2
<1>7. ASSUME NEW i \in 1..n, NEW j \in 1..n, NEW m \in 1..n, lt[i][j], lt[j][m]
      PROVE  lt[i][m]
  <2>1. CASE rows[i][Act] > rows[j][Act] \/ rows[j][Act] > rows[m][Act]
    <3>1. rows[i][Act] > rows[m][Act]
      BY <1>1, <1>2, <1>7, <2>1
    <3> QED BY <1>2, <3>1
  <2>2. CASE rows[i][Act] = rows[j][Act] /\ rows[j][Act] = rows[m][Act]
    <3>1. ASSUME NEW c \in 1..k, NEW d \in 1..k, First(i, j, c), First(j, m, d)
          PROVE  \E e \in 1..k : First(i, m, e)
      <4>1. CASE c < d
        <5>1. rows[j][c] = rows[m][c]
          BY <3>1, <4>1 DEF SameUpTo
        <5>2. SameUpTo(rows[i], rows[m], c - 1)
          BY <3>1, <4>1 DEF SameUpTo
        <5> QED BY <3>1, <5>1, <5>2
      <4>2. CASE d < c
        <5>1. rows[i][d] = rows[j][d]
          BY <3>1, <4>2 DEF SameUpTo
        <5>2. SameUpTo(rows[i], rows[m], d - 1)
          BY <3>1, <4>2 DEF SameUpTo
        <5> QED BY <3>1, <5>1, <5>2
      <4>3. CASE c = d
        <5>1. SameUpTo(rows[i], rows[m], c - 1)
          BY <3>1, <4>3 DEF SameUpTo
        <5>2. KeyBefore(specs[c], rows[i][c], rows[m][c])
          BY <1>1, <1>4, <3>1, <4>3
        <5> QED BY <5>1, <5>2
      <4> QED BY <4>1, <4>2, <4>3
    <3>2. ASSUME NEW c \in 1..k, First(i, j, c), SameUpTo(rows[j], rows[m], k)
          PROVE  First(i, m, c)
      <4>1. rows[j][c] = rows[m][c]
        BY <3>2 DEF SameUpTo
      <4>2. SameUpTo(rows[i], rows[m], c - 1)
        BY <1>1, <3>2 DEF SameUpTo
      <4> QED BY <3>2, <4>1, <4>2
    <3>3. ASSUME NEW c \in 1..k, First(j, m, c), SameUpTo(rows[i], rows[j], k)
          PROVE  First(i, m, c)
      <4>1. rows[i][c] = rows[j][c]
        BY <3>3 DEF SameUpTo
      <4>2. SameUpTo(rows[i], rows[m], c - 1)
        BY <1>1, <3>3 DEF SameUpTo
      <4> QED BY <3>3, <4>1, <4>2
    <3>4. SameUpTo(rows[i], rows[j], k) /\ SameUpTo(rows[j], rows[m], k)
            => SameUpTo(rows[i], rows[m], k)
      BY DEF SameUpTo
    <3>5. rows[i][RowId] < rows[j][RowId] /\ rows[j][RowId] < rows[m][RowId]
            => rows[i][RowId] < rows[m][RowId]
      BY <1>1
    <3> HIDE DEF First
    <3>6. ((\E c \in 1..k : First(i, j, c))
           \/ (SameUpTo(rows[i], rows[j], k) /\ rows[i][RowId] < rows[j][RowId]))
          /\ ((\E c \in 1..k : First(j, m, c))
              \/ (SameUpTo(rows[j], rows[m], k) /\ rows[j][RowId] < rows[m][RowId]))
      <4>1. ~(rows[i][Act] > rows[j][Act]) /\ ~(rows[j][Act] > rows[m][Act])
        BY <1>1, <2>2
      <4> QED BY <1>2, <1>7, <4>1
    <3>7. (\E c \in 1..k : First(i, m, c))
          \/ (SameUpTo(rows[i], rows[m], k) /\ rows[i][RowId] < rows[m][RowId])
      BY <3>1, <3>2, <3>3, <3>4, <3>5, <3>6
    <3> QED BY <1>2, <2>2, <3>7
  <2>3. rows[i][Act] >= rows[j][Act] /\ rows[j][Act] >= rows[m][Act]
    <3> HIDE DEF First
    <3>1. rows[i][Act] > rows[j][Act] \/ rows[i][Act] = rows[j][Act]
      BY <1>2, <1>7
    <3>2. rows[j][Act] > rows[m][Act] \/ rows[j][Act] = rows[m][Act]
      BY <1>2, <1>7
    <3> QED BY <1>1, <3>1, <3>2
  <2> QED BY <1>1, <2>1, <2>2, <2>3
<1> QED BY <1>3, <1>5, <1>6, <1>7 DEF IsOrder, lt

\* Sorting puts the rows in that order.
LEMMA SortedRows ==
  ASSUME NEW rows, NEW n, NEW k, RowsFor(rows, n, k), NEW specs, SpecsFor(specs, k)
  PROVE  /\ DOMAIN Sorted(rows, specs) = 1..n /\ Len(Sorted(rows, specs)) = n
         /\ \A i \in 1..n :
              Sorted(rows, specs)[i] = rows[Ranked(SpecOrder(rows, specs, n), n, i)]
<1> DEFINE lt == SpecOrder(rows, specs, n)
           s == Sorted(rows, specs)
           c(m) == Cardinality({ l \in 1..n : RowBefore(specs, rows[l], rows[m]) })
<1>1. n \in Nat /\ DOMAIN rows = 1..n
  BY DEF RowsFor
<1>2. s = [i \in 1..n |-> rows[CHOOSE m \in 1..n : c(m) = i - 1]]
  BY <1>1 DEF Sorted
<1>3. DOMAIN s = 1..n /\ Len(s) = n
  BY <1>1, <1>2
<1>4. \A m \in 1..n : c(m) = Cardinality(Below(lt, n, m))
  BY DEF Below, SpecOrder
<1>5. ASSUME NEW i \in 1..n PROVE s[i] = rows[Ranked(lt, n, i)]
  <2>1. s[i] = rows[CHOOSE m \in 1..n : c(m) = i - 1]
    BY <1>2
  <2> HIDE DEF c, lt, s
  <2>2. (CHOOSE m \in 1..n : c(m) = i - 1) = Ranked(lt, n, i)
    BY <1>4 DEF Ranked
  <2> QED BY <2>1, <2>2
<1> QED BY <1>3, <1>5

\* Rows that rise, and what sorting makes of rows: the same rows, rising.
MadeOf(s, rows, n) == \A i \in 1..n : \E m \in 1..n : s[i] = rows[m]
Rising(rows, specs, n) ==
  \A i, j \in 1..n : i < j => RowBefore(specs, rows[i], rows[j])

LEMMA SortedRises ==
  ASSUME NEW rows, NEW n, NEW k, RowsFor(rows, n, k), NEW specs, SpecsFor(specs, k)
  PROVE  /\ RowsFor(Sorted(rows, specs), n, k) /\ Rising(Sorted(rows, specs), specs, n)
         /\ \A m \in 1..n : \E i \in 1..n : Sorted(rows, specs)[i] = rows[m]
         /\ MadeOf(Sorted(rows, specs), rows, n)
         /\ \A i, j \in 1..n : RowBefore(specs, Sorted(rows, specs)[i], Sorted(rows, specs)[j]) => i < j
<1> DEFINE lt == SpecOrder(rows, specs, n)
           s == Sorted(rows, specs)
<1>1. n \in Nat
  BY DEF RowsFor
<1>2. \A i, j \in 1..n : lt[i][j] <=> RowBefore(specs, rows[i], rows[j])
  BY DEF SpecOrder
<1>3. IsOrder(lt, n)
  BY SpecOrdered
<1>4. DOMAIN s = 1..n /\ Len(s) = n /\ \A i \in 1..n : s[i] = rows[Ranked(lt, n, i)]
  BY SortedRows
<1> HIDE DEF lt, s
<1>5. /\ \A i \in 1..n : Ranked(lt, n, i) \in 1..n /\ Place(lt, n, Ranked(lt, n, i)) = i
      /\ \A m \in 1..n : Place(lt, n, m) \in 1..n /\ Ranked(lt, n, Place(lt, n, m)) = m
      /\ \A i, j \in 1..n : i < j <=> lt[Ranked(lt, n, i)][Ranked(lt, n, j)]
  BY <1>1, <1>3, RankedOrder
<1>6. \A i, j \in 1..n : i < j <=> RowBefore(specs, s[i], s[j])
  BY <1>2, <1>4, <1>5
<1>7. \A i \in 1..n : \E m \in 1..n : s[i] = rows[m]
  BY <1>4, <1>5
<1>8. \A m \in 1..n : \E i \in 1..n : s[i] = rows[m]
  BY <1>4, <1>5
<1>9. \A i, j \in 1..n : s[i][Act] = s[j][Act] /\ SameUpTo(s[i], s[j], k)
                         /\ s[i][RowId] = s[j][RowId] => i = j
  <2> TAKE i, j \in 1..n
  <2> DEFINE l == Ranked(lt, n, i)
             m == Ranked(lt, n, j)
  <2>1. l \in 1..n /\ m \in 1..n /\ s[i] = rows[l] /\ s[j] = rows[m]
        /\ Place(lt, n, l) = i /\ Place(lt, n, m) = j
    BY <1>4, <1>5
  <2> HIDE DEF l, m
  <2>2. rows[l][Act] = rows[m][Act] /\ SameUpTo(rows[l], rows[m], k)
        /\ rows[l][RowId] = rows[m][RowId] => l = m
    BY <2>1 DEF RowsFor
  <2> QED BY <2>1, <2>2
<1>10. \A i \in 1..n : /\ DOMAIN s[i] = RowNames
                       /\ s[i][Act] \in {0, 1} /\ s[i][RowId] \in Int
                       /\ \A c \in 1..k : s[i][c] \in Int \cup {Null}
  <2> TAKE i \in 1..n
  <2>1. PICK m \in 1..n : s[i] = rows[m]
    BY <1>7
  <2> QED BY <2>1 DEF RowsFor
<1>11. RowsFor(s, n, k)
  BY <1>1, <1>4, <1>9, <1>10 DEF RowsFor
<1> QED BY <1>6, <1>7, <1>8, <1>11 DEF Rising, MadeOf, s

\* Sorting leaves rows that rise as they are.
LEMMA SortedStays ==
  ASSUME NEW rows, NEW n, NEW k, RowsFor(rows, n, k), NEW specs, SpecsFor(specs, k),
         Rising(rows, specs, n)
  PROVE  \A i \in 1..n : Sorted(rows, specs)[i] = rows[i]
<1> DEFINE lt == SpecOrder(rows, specs, n)
           id == [i \in 1..n |-> i]
<1>1. n \in Nat
  BY DEF RowsFor
<1>2. \A i, j \in 1..n : i < j => lt[i][j]
  BY DEF SpecOrder, Rising
<1>3. IsOrder(lt, n)
  BY SpecOrdered
<1>4. \A i \in 1..n : Sorted(rows, specs)[i] = rows[Ranked(lt, n, i)]
  BY SortedRows
<1> HIDE DEF lt
<1>5. id \in [1..n -> 1..n] /\ (\A i \in 1..n : id[i] = i)
      /\ \A i, j \in 1..n : i < j => lt[id[i]][id[j]]
  BY <1>2
<1> HIDE DEF id
<1>6. \A i \in 1..n : Ranked(lt, n, i) = id[i]
  BY <1>1, <1>3, <1>5, RankedIs
<1> QED BY <1>4, <1>5, <1>6

\* A row between two rows of the same keys has these keys.
LEMMA Between ==
  ASSUME NEW specs, NEW k, SpecsFor(specs, k), NEW x, NEW y, NEW z,
         x[Act] \in Int, y[Act] \in Int, z[Act] \in Int,
         \A c \in 1..k : x[c] \in Int \cup {Null} /\ y[c] \in Int \cup {Null}
                         /\ z[c] \in Int \cup {Null},
         x[Act] = z[Act], SameUpTo(x, z, k), RowBefore(specs, x, y), RowBefore(specs, y, z)
  PROVE  y[Act] = x[Act] /\ SameUpTo(x, y, k)
<1> DEFINE First(u, v, c) == SameUpTo(u, v, c - 1) /\ KeyBefore(specs[c], u[c], v[c])
<1>1. k \in Nat /\ DOMAIN specs = 1..k /\ Len(specs) = k
  BY DEF SpecsFor
<1>2. \/ x[Act] > y[Act]
      \/ x[Act] = y[Act] /\ ((\E c \in 1..k : First(x, y, c)) \/ SameUpTo(x, y, k))
  BY <1>1 DEF RowBefore
<1>3. \/ y[Act] > z[Act]
      \/ y[Act] = z[Act] /\ ((\E c \in 1..k : First(y, z, c)) \/ SameUpTo(y, z, k))
  BY <1>1 DEF RowBefore
<1>4. \A c \in 1..k : x[c] = z[c]
  BY DEF SameUpTo
<1>5. ASSUME NEW c \in 1..k
      PROVE  ~KeyBefore(specs[c], x[c], x[c])
             /\ ~(KeyBefore(specs[c], x[c], y[c]) /\ KeyBefore(specs[c], y[c], x[c]))
  <2> DEFINE spec == specs[c]
             a == x[c]
             b == y[c]
  <2>1. spec.asc \in BOOLEAN /\ spec.nullsFirst \in BOOLEAN
    BY DEF SpecsFor
  <2>2. a \in Int \cup {Null} /\ b \in Int \cup {Null}
    OBVIOUS
  <2> HIDE DEF spec, a, b
  <2>3. /\ ~KeyBefore(spec, a, a)
        /\ KeyBefore(spec, a, b) /\ KeyBefore(spec, b, a) => KeyBefore(spec, a, a)
    BY <2>1, <2>2, KeysOrdered
  <2> QED BY <2>3 DEF spec, a, b
<1>6. ASSUME NEW c \in 1..k, First(x, y, c) PROVE FALSE
  <2>1. CASE SameUpTo(y, z, k)
    <3>1. y[c] = z[c]
      BY <2>1 DEF SameUpTo
    <3> QED BY <1>4, <1>5, <1>6, <3>1
  <2>2. ASSUME NEW d \in 1..k, First(y, z, d) PROVE FALSE
    <3>1. CASE c < d
      <4>1. y[c] = z[c]
        BY <2>2, <3>1 DEF SameUpTo
      <4> QED BY <1>4, <1>5, <1>6, <4>1
    <3>2. CASE d < c
      <4>1. x[d] = y[d]
        BY <1>6, <3>2 DEF SameUpTo
      <4> QED BY <1>4, <1>5, <2>2, <4>1
    <3>3. CASE c = d
      BY <1>4, <1>5, <1>6, <2>2, <3>3
    <3> QED BY <3>1, <3>2, <3>3
  <2>3. (\E d \in 1..k : First(y, z, d)) \/ SameUpTo(y, z, k)
    <3> HIDE DEF First
    <3>1. y[Act] = z[Act]
      BY <1>2, <1>3
    <3> QED BY <1>3, <3>1
  <2> HIDE DEF First
  <2> QED BY <2>1, <2>2, <2>3
<1> HIDE DEF First
<1> QED BY <1>2, <1>3, <1>6

\* Padding leaves rows that rise rising.
LEMMA PaddedRises ==
  ASSUME NEW rows, NEW n, NEW k, RowsFor(rows, n, k), k <= MaxCols,
         NEW specs, SpecsFor(specs, k), Rising(rows, specs, n)
  PROVE  /\ RowsFor(Padded(rows), PowerOfTwo(n), k)
         /\ Rising(Padded(rows), specs, PowerOfTwo(n))
<1> DEFINE s == Padded(rows)
           p == PowerOfTwo(n)
           V == Int \cup {Null}
           last == IF n = 0 THEN [c \in 1..k |-> Null] ELSE [c \in 1..k |-> rows[n][c]]
           base == IF n = 0 THEN -1 ELSE rows[n][RowId] - n
<1>1. n \in Nat /\ Len(rows) = n /\ DOMAIN rows = 1..n /\ k \in Nat
      /\ DOMAIN specs = 1..k /\ Len(specs) = k
      /\ \A i \in 1..n : DOMAIN rows[i] = RowNames
  BY DEF RowsFor, SpecsFor
<1>2. p \in Nat /\ p >= n
  BY <1>1, PaddedSize
<1>3. DOMAIN s = 1..p /\ \A i \in 1..n : i \in 1..p /\ s[i] = rows[i]
  BY <1>1, PaddedRows
<1>4. \A i \in 1..n : rows[i][Act] \in {0, 1} /\ rows[i][RowId] \in Int
                      /\ \A c \in 1..k : rows[i][c] \in V
  BY DEF RowsFor
<1>5. base \in Int /\ \A c \in 1..k : last[c] \in V
  <2>1. n # 0 => n \in 1..n
    BY <1>1
  <2> QED BY <1>1, <1>4, <2>1
<1>6. Len(s) = p
  <2>1. s = [i \in 1..p |-> s[i]]
    BY <1>3 DEF Padded
  <2> HIDE DEF s, p
  <2> QED BY <1>2, <2>1
<1>7. ASSUME NEW i \in 1..p, i > n
      PROVE  DOMAIN s[i] = RowNames /\ s[i][Act] = 0 /\ s[i][RowId] = base + i
             /\ \A c \in 1..k : s[i][c] = last[c]
  <2>1. \A c \in 1..k : c \in RowNames /\ c # Act /\ c # RowId
    BY <1>1, SortAssumption DEF RowNames, Act, RowId
  <2>2. i \in Int /\ ~(i <= n)
    BY <1>1, <1>2, <1>7
  <2>3. CASE n = 0
    <3>1. rows = <<>>
      BY <1>1, <2>3
    <3>2. s[i] = NullRow(i)
      BY <1>1, <2>2, <3>1 DEF Padded
    <3>3. DOMAIN NullRow(i) = RowNames
          /\ \A c \in RowNames : NullRow(i)[c] = CASE c = Act -> 0 [] c = RowId -> i - 1 [] OTHER -> Null
      BY DEF NullRow, RowNames
    <3>4. NullRow(i)[Act] = 0 /\ NullRow(i)[RowId] = i - 1
      BY <3>3, NamesOfRows
    <3>5. \A c \in 1..k : NullRow(i)[c] = Null
      BY <2>1, <3>3
    <3> QED BY <2>2, <2>3, <3>2, <3>3, <3>4, <3>5
  <2>4. CASE n # 0
    <3>1. rows # <<>> /\ n \in 1..n
      BY <1>1, <2>4
    <3>2. s[i] = [rows[n] EXCEPT ![Act] = 0, ![RowId] = @ + i - n]
      BY <1>1, <2>2, <3>1 DEF Padded
    <3>3. DOMAIN rows[n] = RowNames
      BY <1>1, <3>1
    <3>4. s[i][Act] = 0 /\ s[i][RowId] = rows[n][RowId] + i - n /\ DOMAIN s[i] = RowNames
      BY <3>2, <3>3, NamesOfRows
    <3>5. \A c \in 1..k : s[i][c] = rows[n][c]
      <4>1. \A c \in RowNames \ {Act, RowId} : s[i][c] = rows[n][c]
        BY <3>2, <3>3
      <4>2. \A c \in 1..k : c \in RowNames \ {Act, RowId}
        BY <2>1
      <4> QED BY <4>1, <4>2
    <3>6. rows[n][RowId] + i - n = base + i
      <4>1. base = rows[n][RowId] - n /\ rows[n][RowId] \in Int
        BY <1>4, <2>4, <3>1
      <4> HIDE DEF base
      <4> QED BY <1>1, <4>1
    <3> QED BY <2>4, <3>4, <3>5, <3>6
  <2> QED BY <2>3, <2>4
<1>8. n # 0 => n \in 1..n /\ rows[n][RowId] = base + n /\ \A c \in 1..k : rows[n][c] = last[c]
  <2>1. n # 0 => n \in 1..n
    BY <1>1
  <2> QED BY <1>1, <1>4, <2>1
<1> HIDE DEF last, base, s, p
<1>9. Rising(s, specs, p)
  <2> SUFFICES ASSUME NEW i \in 1..p, NEW j \in 1..p, i < j
               PROVE  RowBefore(specs, s[i], s[j])
    BY DEF Rising
  <2>1. CASE j <= n
    <3>1. i \in 1..n /\ j \in 1..n
      BY <1>1, <2>1
    <3> QED BY <1>3, <3>1 DEF Rising
  <2>2. CASE i > n
    <3>1. j > n
      BY <1>1, <1>2, <2>2
    <3>2. s[i][Act] = s[j][Act] /\ SameUpTo(s[i], s[j], k)
      BY <1>7, <2>2, <3>1 DEF SameUpTo
    <3>3. s[i][RowId] < s[j][RowId]
      BY <1>2, <1>5, <1>7, <2>2, <3>1
    <3> QED BY <1>1, <3>2, <3>3 DEF RowBefore
  <2>3. CASE i <= n /\ j > n
    <3>1. i \in 1..n /\ n # 0 /\ n \in 1..n
      BY <1>1, <2>3
    <3>2. s[i] = rows[i] /\ s[j][Act] = 0 /\ s[j][RowId] = base + j /\ \A c \in 1..k : s[j][c] = rows[n][c]
      BY <1>3, <1>7, <1>8, <2>3, <3>1
    <3>3. rows[n][RowId] < s[j][RowId]
      BY <1>1, <1>2, <1>5, <1>8, <2>3, <3>1, <3>2
    <3>4. CASE rows[i][Act] = 1
      BY <3>2, <3>4 DEF RowBefore
    <3>5. CASE rows[i][Act] = 0 /\ i = n
      <4>1. SameUpTo(s[i], s[j], k)
        BY <3>2, <3>5 DEF SameUpTo
      <4> QED BY <1>1, <3>2, <3>3, <3>5, <4>1 DEF RowBefore
    <3>6. CASE rows[i][Act] = 0 /\ i # n
      <4>1. i < n
        BY <1>1, <3>1, <3>6
      <4>2. RowBefore(specs, rows[i], rows[n])
        BY <3>1, <4>1 DEF Rising
      <4>3. ~(rows[i][Act] > rows[n][Act])
        BY <1>4, <3>1, <3>6
      <4>4. \/ \E c \in 1..k : SameUpTo(rows[i], rows[n], c - 1)
                                /\ KeyBefore(specs[c], rows[i][c], rows[n][c])
            \/ SameUpTo(rows[i], rows[n], k) /\ rows[i][RowId] < rows[n][RowId]
        BY <1>1, <4>2, <4>3 DEF RowBefore
      <4>5. ASSUME NEW c \in 1..k, SameUpTo(rows[i], rows[n], c - 1),
                   KeyBefore(specs[c], rows[i][c], rows[n][c])
            PROVE  RowBefore(specs, s[i], s[j])
        <5>1. SameUpTo(s[i], s[j], c - 1)
          BY <1>1, <3>2, <4>5 DEF SameUpTo
        <5>2. KeyBefore(specs[c], s[i][c], s[j][c])
          BY <3>2, <4>5
        <5> QED BY <1>1, <3>2, <3>6, <5>1, <5>2 DEF RowBefore
      <4>6. ASSUME SameUpTo(rows[i], rows[n], k), rows[i][RowId] < rows[n][RowId]
            PROVE  RowBefore(specs, s[i], s[j])
        <5>1. SameUpTo(s[i], s[j], k)
          BY <1>1, <3>2, <4>6 DEF SameUpTo
        <5>2. s[i][RowId] < s[j][RowId]
          <6>1. rows[i][RowId] \in Int /\ rows[n][RowId] \in Int /\ s[j][RowId] \in Int
            BY <1>2, <1>4, <1>5, <3>1, <3>2
          <6> QED BY <3>2, <3>3, <4>6, <6>1
        <5> QED BY <1>1, <3>2, <3>6, <5>1, <5>2 DEF RowBefore
      <4> QED BY <4>4, <4>5, <4>6
    <3> QED BY <1>4, <3>1, <3>4, <3>5, <3>6
  <2> QED BY <1>1, <1>2, <2>1, <2>2, <2>3
<1>10. \A i \in 1..p : /\ DOMAIN s[i] = RowNames
                       /\ s[i][Act] \in {0, 1} /\ s[i][RowId] \in Int
                       /\ \A c \in 1..k : s[i][c] \in V
  <2> TAKE i \in 1..p
  <2>1. CASE i <= n
    <3>1. i \in 1..n
      BY <1>1, <2>1
    <3> QED BY <1>1, <1>3, <1>4, <3>1
  <2>2. CASE i > n
    BY <1>2, <1>5, <1>7, <2>2
  <2> QED BY <1>1, <1>2, <2>1, <2>2
<1>11. ASSUME NEW i \in 1..p, NEW j \in 1..p, s[i][Act] = s[j][Act], SameUpTo(s[i], s[j], k),
              s[i][RowId] = s[j][RowId], i < j
       PROVE  FALSE
  <2>1. RowBefore(specs, s[i], s[j])
    BY <1>9, <1>11 DEF Rising
  <2>2. PICK c \in 1..k : KeyBefore(specs[c], s[i][c], s[j][c])
    BY <1>1, <1>10, <1>11, <2>1 DEF RowBefore
  <2>3. s[i][c] = s[j][c]
    BY <1>11 DEF SameUpTo
  <2> DEFINE spec == specs[c]
             a == s[i][c]
  <2>4. spec.asc \in BOOLEAN /\ spec.nullsFirst \in BOOLEAN /\ a \in Int \cup {Null}
    BY <1>10 DEF SpecsFor
  <2> HIDE DEF spec, a
  <2>5. ~KeyBefore(spec, a, a)
    BY <2>4, KeysOrdered
  <2> QED BY <2>2, <2>3, <2>5 DEF spec, a
<1>12. \A i, j \in 1..p : s[i][Act] = s[j][Act] /\ SameUpTo(s[i], s[j], k)
                          /\ s[i][RowId] = s[j][RowId] => i = j
  <2> SUFFICES ASSUME NEW i \in 1..p, NEW j \in 1..p, s[i][Act] = s[j][Act],
                      SameUpTo(s[i], s[j], k), s[i][RowId] = s[j][RowId], i # j
               PROVE  FALSE
    OBVIOUS
  <2>1. SameUpTo(s[j], s[i], k)
    BY DEF SameUpTo
  <2>2. i < j \/ j < i
    BY <1>2
  <2> QED BY <1>11, <2>1, <2>2
<1>13. RowsFor(s, p, k)
  BY <1>2, <1>3, <1>6, <1>10, <1>12 DEF RowsFor
<1> QED BY <1>9, <1>13 DEF s, p

-----------------------------------------------------------------------------
(* Lists one after the other.                                              *)

\* Behind how many members list k + 1 of n lists comes.
Starts(lists, n, at) ==
  /\ n \in Nat /\ at \in [0..n -> Nat] /\ at[0] = 0
  /\ \A k \in 1..n : at[k] = at[k - 1] + Len(lists[k]) /\ Len(lists[k]) \in Nat

LEMMA StartsRise ==
  ASSUME NEW lists, NEW n, NEW at, Starts(lists, n, at)
  PROVE  \A j, k \in 0..n : j <= k => at[j] <= at[k]
<1> SUFFICES ASSUME NEW j \in 0..n PROVE \A k \in 0..n : j <= k => at[j] <= at[k]
  OBVIOUS
<1> DEFINE D == {k \in 0..n : j <= k /\ ~(at[j] <= at[k])}
<1> SUFFICES ASSUME D # {} PROVE FALSE
  OBVIOUS
<1>1. D \in SUBSET Nat /\ \A k : k \in D <=> k \in 0..n /\ j <= k /\ ~(at[j] <= at[k])
  BY DEF Starts
<1> HIDE DEF D
<1>2. PICK k \in D : \A l \in D : k <= l
  BY <1>1, Least
<1>3. k \in 0..n /\ j <= k /\ k # j /\ n \in Nat
  BY <1>1, <1>2 DEF Starts
<1>4. k \in 1..n /\ k - 1 \in 0..n /\ j <= k - 1 /\ k - 1 \notin D
  BY <1>2, <1>3
<1>5. at[j] <= at[k - 1] /\ at[k] = at[k - 1] + Len(lists[k]) /\ Len(lists[k]) \in Nat
      /\ at[j] \in Nat /\ at[k - 1] \in Nat
  BY <1>1, <1>4 DEF Starts
<1> QED BY <1>1, <1>2, <1>5

\* Lists of the same lengths start at the same places.
LEMMA StartsAgree ==
  ASSUME NEW a, NEW b, NEW n, NEW at, NEW bt, Starts(a, n, at), Starts(b, n, bt),
         \A k \in 1..n : Len(a[k]) = Len(b[k])
  PROVE  at = bt
<1> DEFINE D == {k \in 0..n : at[k] # bt[k]}
<1>1. D \in SUBSET Nat /\ \A k : k \in D <=> k \in 0..n /\ at[k] # bt[k]
  BY DEF Starts
<1>2. D = {}
  <2> HIDE DEF D
  <2> SUFFICES ASSUME D # {} PROVE FALSE
    OBVIOUS
  <2>1. PICK k \in D : \A l \in D : k <= l
    BY <1>1, Least
  <2>2. k \in 1..n /\ k - 1 \in 0..n /\ k - 1 \notin D
    BY <1>1, <2>1 DEF Starts
  <2>3. at[k - 1] = bt[k - 1]
    BY <1>1, <2>2
  <2>4. at[k] = at[k - 1] + Len(a[k]) /\ bt[k] = bt[k - 1] + Len(b[k]) /\ Len(a[k]) = Len(b[k])
    BY <2>2 DEF Starts
  <2>5. at[k] # bt[k]
    BY <1>1, <2>1
  <2> QED BY <2>3, <2>4, <2>5
<1>3. \A k \in 0..n : at[k] = bt[k]
  BY <1>2
<1> QED BY <1>3 DEF Starts

\* Every place belongs to one member of one list.
LEMMA PlaceOf ==
  ASSUME NEW lists, NEW n, NEW at, Starts(lists, n, at)
  PROVE  /\ \A k \in 1..n : \A j \in 1..Len(lists[k]) : at[k - 1] + j \in 1..at[n]
         /\ \A p \in 1..at[n] : \E k \in 1..n : \E j \in 1..Len(lists[k]) : p = at[k - 1] + j
         /\ \A k, l \in 1..n : \A j \in 1..Len(lists[k]), i \in 1..Len(lists[l]) :
              at[k - 1] + j = at[l - 1] + i => k = l /\ j = i
<1>1. /\ n \in Nat /\ at[0] = 0 /\ \A k \in 0..n : at[k] \in Nat
      /\ \A k \in 1..n : at[k] = at[k - 1] + Len(lists[k]) /\ Len(lists[k]) \in Nat
  BY DEF Starts
<1>2. \A j, k \in 0..n : j <= k => at[j] <= at[k]
  BY StartsRise
<1>3. \A k \in 1..n : k - 1 \in 0..n /\ k \in 0..n /\ n \in 0..n
  BY <1>1
<1>4. ASSUME NEW k \in 1..n, NEW j \in 1..Len(lists[k]) PROVE at[k - 1] + j \in 1..at[n]
  <2>1. at[k - 1] \in Nat /\ at[k] \in Nat /\ at[n] \in Nat /\ at[k] <= at[n]
        /\ at[k] = at[k - 1] + Len(lists[k]) /\ Len(lists[k]) \in Nat
    BY <1>1, <1>2, <1>3
  <2> QED BY <2>1
<1>5. ASSUME NEW p \in 1..at[n]
      PROVE  \E k \in 1..n : \E j \in 1..Len(lists[k]) : p = at[k - 1] + j
  <2> DEFINE D == {k \in 0..n : p <= at[k]}
  <2>1. D \in SUBSET Nat /\ n \in D /\ \A k : k \in D <=> k \in 0..n /\ p <= at[k]
    BY <1>1
  <2> HIDE DEF D
  <2>2. PICK k \in D : \A l \in D : k <= l
    BY <2>1, Least
  <2>3. k # 0
    BY <1>1, <2>1
  <2>4. k \in 1..n /\ k - 1 \in 0..n /\ k - 1 \notin D
    BY <1>1, <2>1, <2>2, <2>3
  <2>5. at[k - 1] \in Nat /\ at[k - 1] < p /\ p <= at[k] /\ p \in Nat
        /\ at[k] = at[k - 1] + Len(lists[k]) /\ Len(lists[k]) \in Nat
    <3>1. at[k - 1] \in Nat /\ at[k] = at[k - 1] + Len(lists[k]) /\ Len(lists[k]) \in Nat
      BY <1>1, <2>4
    <3>2. p <= at[k] /\ ~(p <= at[k - 1]) /\ p \in Nat
      BY <2>1, <2>4
    <3> QED BY <3>1, <3>2
  <2>6. p - at[k - 1] \in 1..Len(lists[k]) /\ p = at[k - 1] + (p - at[k - 1])
    BY <2>5
  <2> QED BY <2>4, <2>6
<1>6. ASSUME NEW k \in 1..n, NEW l \in 1..n, NEW j \in 1..Len(lists[k]), NEW i \in 1..Len(lists[l]),
             at[k - 1] + j = at[l - 1] + i
      PROVE  k = l /\ j = i
  <2>1. at[k - 1] \in Nat /\ at[l - 1] \in Nat /\ at[k] = at[k - 1] + Len(lists[k])
        /\ at[l] = at[l - 1] + Len(lists[l]) /\ Len(lists[k]) \in Nat /\ Len(lists[l]) \in Nat
    BY <1>1, <1>3
  <2>2. ~(k < l)
    <3>1. k < l => k <= l - 1 /\ at[k] <= at[l - 1]
      BY <1>1, <1>2, <1>3
    <3>2. at[k - 1] + j <= at[k] /\ at[l - 1] + i > at[l - 1]
      <4> DEFINE x == Len(lists[k])
                 y == at[k - 1]
      <4>1. x \in Nat /\ y \in Nat /\ at[k] = y + x /\ j \in 1..x /\ i \in Nat /\ i > 0
        BY <2>1
      <4> HIDE DEF x, y
      <4>2. y + j <= at[k]
        BY <4>1
      <4> QED BY <2>1, <4>1, <4>2 DEF y
    <3>3. at[k] \in Nat
      BY <2>1
    <3> QED BY <1>6, <2>1, <3>1, <3>2, <3>3
  <2>3. ~(l < k)
    <3>1. l < k => l <= k - 1 /\ at[l] <= at[k - 1]
      BY <1>1, <1>2, <1>3
    <3>2. at[l - 1] + i <= at[l] /\ at[k - 1] + j > at[k - 1]
      <4> DEFINE x == Len(lists[l])
                 y == at[l - 1]
      <4>1. x \in Nat /\ y \in Nat /\ at[l] = y + x /\ i \in 1..x /\ j \in Nat /\ j > 0
        BY <2>1
      <4> HIDE DEF x, y
      <4>2. y + i <= at[l]
        BY <4>1
      <4> QED BY <2>1, <4>1, <4>2 DEF y
    <3>3. at[l] \in Nat
      BY <2>1
    <3> QED BY <1>6, <2>1, <3>1, <3>2, <3>3
  <2>4. k = l
    BY <2>2, <2>3
  <2> QED BY <1>6, <2>1, <2>4
<1> QED BY <1>4, <1>5, <1>6

\* all is made of n lists of members of S, one after the other.
Flat(all, S, lists, n, at) ==
  /\ Starts(lists, n, at) /\ all \in Seq(S) /\ Len(all) = at[n]
  /\ \A k \in 1..n : \A j \in 1..Len(lists[k]) : all[at[k - 1] + j] = lists[k][j]

LEMMA Flattened ==
  ASSUME NEW S, NEW n \in Nat, NEW lists, lists \in Seq(Seq(S)), Len(lists) = n
  PROVE  \E at : Flat(FlattenSeq(lists), S, lists, n, at)
<1> DEFINE T == Seq(S)
           step == [x \in Nat \X T |-> IF x[1] \in 1..n THEN x[2] \o lists[x[1]] ELSE x[2]]
           none == <<>>
           Is(f) == f = [i \in 1..n |-> IF i = 1 THEN lists[i] ELSE f[i - 1] \o lists[i]]
           h == CHOOSE f : Is(f)
<1>1. \A k \in 1..n : lists[k] \in T /\ Len(lists[k]) \in Nat
  BY LenProperties
<1>2. step \in [Nat \X T -> T]
  <2>1. \A x \in Nat \X T : x[1] \in 1..n => x[2] \o lists[x[1]] \in T
    BY <1>1, ConcatProperties
  <2> QED BY <2>1
<1>3. none \in T
  BY EmptySeq
<1>4. \A k \in 1..n, v \in T : step[<<k, v>>] = v \o lists[k]
  <2> TAKE k \in 1..n, v \in T
  <2>1. <<k, v>> \in Nat \X T /\ <<k, v>>[1] = k /\ <<k, v>>[2] = v
    OBVIOUS
  <2> QED BY <2>1
<1> HIDE DEF T, step, none
<1>5. PICK f \in [0..n -> T] : Steps(f, n, none, step)
  BY <1>2, <1>3, StepsExist
<1>6. f[0] = none /\ \A k \in 1..n : f[k] = f[k - 1] \o lists[k] /\ f[k - 1] \in T
  <2>1. \A k \in 1..n : k - 1 \in 0..n /\ k \in 0..n /\ k # 0
    OBVIOUS
  <2>2. \A k \in 0..n : f[k] = IF k = 0 THEN none ELSE step[<<k, f[k - 1]>>]
    BY <1>5 DEF Steps
  <2>3. f[0] = none
    <3>1. 0 \in 0..n
      OBVIOUS
    <3> QED BY <2>2, <3>1
  <2>4. ASSUME NEW k \in 1..n PROVE f[k] = f[k - 1] \o lists[k] /\ f[k - 1] \in T
    <3>1. f[k - 1] \in T /\ f[k] = step[<<k, f[k - 1]>>]
      BY <2>1, <2>2
    <3> QED BY <1>4, <3>1
  <2> QED BY <2>3, <2>4
<1>7. \E at : Flat(f[n], S, lists, n, at)
  <2> DEFINE at == [k \in 0..n |-> Len(f[k])]
  <2>1. \A k \in 0..n : f[k] \in Seq(S)
    BY DEF T
  <2>2. at \in [0..n -> Nat]
    BY <2>1, LenProperties
  <2>3. at[0] = 0
    BY <1>6, EmptySeq DEF none
  <2>4. ASSUME NEW k \in 1..n
        PROVE  k \in 0..n /\ k - 1 \in 0..n /\ at[k] = at[k - 1] + Len(lists[k])
               /\ (\A i \in 1..at[k - 1] : f[k][i] = f[k - 1][i])
               /\ \A i \in 1..Len(lists[k]) : f[k][at[k - 1] + i] = lists[k][i]
    <3>1. k \in 0..n /\ k - 1 \in 0..n /\ f[k] = f[k - 1] \o lists[k]
      BY <1>6
    <3> DEFINE a == f[k - 1]
               b == lists[k]
    <3>2. a \in Seq(S) /\ b \in Seq(S)
      BY <1>1, <2>1, <3>1 DEF T
    <3> HIDE DEF a, b
    <3>3. ConsistsOf(a \o b, a, Len(a), b, Len(b))
      BY <3>2, Joined
    <3>4. Len(a \o b) = Len(a) + Len(b) /\ (\A i \in 1..Len(a) : (a \o b)[i] = a[i])
          /\ \A i \in 1..Len(b) : (a \o b)[Len(a) + i] = b[i]
      BY <3>3 DEF ConsistsOf
    <3>5. f[k] = a \o b /\ at[k] = Len(f[k]) /\ at[k - 1] = Len(a)
      BY <3>1 DEF a, b
    <3> HIDE DEF at
    <3> QED BY <3>1, <3>4, <3>5 DEF a, b
  <2> HIDE DEF at
  <2>5. Starts(lists, n, at)
    BY <1>1, <2>2, <2>3, <2>4 DEF Starts
  <2> DEFINE Right(m) == \A k \in 1..m : \A j \in 1..Len(lists[k]) : f[m][at[k - 1] + j] = lists[k][j]
             D == {m \in 0..n : ~Right(m)}
  <2>6. D \in SUBSET Nat /\ \A m : m \in D <=> m \in 0..n /\ ~Right(m)
    OBVIOUS
  <2>7. Right(0)
    OBVIOUS
  <2>8. ASSUME NEW m \in 1..n, Right(m - 1) PROVE Right(m)
    <3> TAKE k \in 1..m
    <3> TAKE j \in 1..Len(lists[k])
    <3>1. CASE k = m
      <4>1. j \in 1..Len(lists[m])
        BY <3>1
      <4>2. f[m][at[m - 1] + j] = lists[m][j]
        BY <2>4, <4>1
      <4> QED BY <3>1, <4>2
    <3>2. CASE k # m
      <4>1. k \in 1..(m - 1) /\ k \in 1..n /\ k - 1 \in 0..n /\ k \in 0..n /\ m - 1 \in 0..n /\ k <= m - 1
        BY <3>2
      <4>2. at[k] <= at[m - 1]
        BY <2>5, <4>1, StartsRise
      <4>3. at[k] = at[k - 1] + Len(lists[k]) /\ at[k - 1] \in Nat /\ at[k] \in Nat /\ at[m - 1] \in Nat
            /\ Len(lists[k]) \in Nat
        BY <2>5, <4>1 DEF Starts
      <4>4. at[k - 1] + j \in 1..at[m - 1]
        <5> DEFINE x == Len(lists[k])
                   y == at[k - 1]
                   z == at[m - 1]
        <5>1. j \in 1..x /\ x \in Nat /\ y \in Nat /\ z \in Nat /\ y + x <= z
          BY <4>2, <4>3
        <5> HIDE DEF x, y, z
        <5>2. y + j \in 1..z
          BY <5>1
        <5> QED BY <5>2 DEF y, z
      <4>5. f[m][at[k - 1] + j] = f[m - 1][at[k - 1] + j]
        BY <2>4, <4>4
      <4> QED BY <2>8, <4>1, <4>5
    <3> QED BY <3>1, <3>2
  <2> HIDE DEF Right, D
  <2>9. D = {}
    <3> SUFFICES ASSUME D # {} PROVE FALSE
      OBVIOUS
    <3>1. PICK m \in D : \A l \in D : m <= l
      BY <2>6, Least
    <3>2. m \in 1..n /\ m - 1 \in 0..n /\ m - 1 \notin D
      BY <2>6, <2>7, <3>1
    <3> QED BY <2>6, <2>8, <3>1, <3>2
  <2>10. Right(n) /\ f[n] \in Seq(S) /\ Len(f[n]) = at[n]
    BY <2>1, <2>6, <2>9 DEF at
  <2> QED BY <2>5, <2>10 DEF Flat, Right
<1>8. CASE n = 0
  <2>1. FlattenSeq(lists) = lists /\ lists = <<>>
    BY <1>8 DEF FlattenSeq
  <2> QED BY <1>6, <1>7, <1>8, <2>1 DEF none
<1>9. CASE n # 0
  <2> DEFINE g == [k \in 1..n |-> f[k]]
  <2>1. f[1] = lists[1]
    <3>1. 1 \in 1..n /\ f[1] = none \o lists[1]
      <4>1. 1 \in 1..n /\ 1 - 1 = 0
        BY <1>9
      <4> QED BY <1>6, <4>1
    <3> QED BY <1>1, <3>1, ConcatEmptySeq DEF none, T
  <2>2. \A k \in 1..n : g[k] = IF k = 1 THEN lists[k] ELSE g[k - 1] \o lists[k]
    <3> TAKE k \in 1..n
    <3>1. k # 1 => k - 1 \in 1..n
      OBVIOUS
    <3> QED BY <1>6, <2>1, <3>1
  <2>3. g = [k \in 1..n |-> g[k]]
    OBVIOUS
  <2> HIDE DEF g
  <2>4. Is(g)
    BY <2>2, <2>3
  <2>5. Is(h)
    <3> HIDE DEF Is
    <3> QED BY <2>4
  <2>6. FlattenSeq(lists) = h[n]
    BY <1>9 DEF FlattenSeq
  <2> HIDE DEF h
  <2>7. \A k \in 1..n : h[k] = IF k = 1 THEN lists[k] ELSE h[k - 1] \o lists[k]
    BY <2>5
  <2> DEFINE D == {k \in 1..n : h[k] # f[k]}
  <2>8. D \in SUBSET Nat /\ \A k : k \in D <=> k \in 1..n /\ h[k] # f[k]
    OBVIOUS
  <2> HIDE DEF D
  <2>9. D = {}
    <3> SUFFICES ASSUME D # {} PROVE FALSE
      OBVIOUS
    <3>1. PICK k \in D : \A l \in D : k <= l
      BY <2>8, Least
    <3>2. k \in 1..n /\ k # 1
      BY <2>1, <2>7, <2>8, <3>1
    <3>3. k - 1 \in 1..n /\ k - 1 \notin D
      BY <3>1, <3>2
    <3>4. h[k] = h[k - 1] \o lists[k]
      BY <2>7, <3>2
    <3> QED BY <1>6, <2>8, <3>1, <3>2, <3>3, <3>4
  <2>10. FlattenSeq(lists) = f[n]
    BY <1>9, <2>6, <2>8, <2>9
  <2> QED BY <1>7, <2>10
<1> QED BY <1>8, <1>9

\* A bijection leaves a number of things as it is.
LEMMA CountMoved ==
  ASSUME NEW S, NEW T, IsFiniteSet(S), NEW f \in [S -> T],
         \A x, y \in S : f[x] = f[y] => x = y, \A t \in T : \E x \in S : f[x] = t
  PROVE  Cardinality(S) = Cardinality(T)
<1>1. f \in Injection(S, T)
  BY DEF Injection, IsInjective
<1>2. f \in Surjection(S, T)
  BY DEF Surjection
<1>3. f \in Bijection(S, T)
  BY <1>1, <1>2 DEF Bijection
<1>4. ExistsBijection(S, T)
  BY <1>3 DEF ExistsBijection
<1> QED BY <1>4, FS_Bijection

-----------------------------------------------------------------------------
(* The sign gadget over the rows of a table.  A theorem about one instance *)
(* of SignCheck says nothing of another, so what is needed of it is proved *)
(* for the columns over any set R of rows.                                 *)

\* A byte has an even number of values.
EvenByte == Byte % 2 = 0
\* All claims of a list hold.
ListHolds(R, list) == \A k \in DOMAIN list : Over(R)!Holds(list[k])

\* The sizes grow, and the field is larger than all of them.
LEMMA SignSizes ==
  ASSUME NEW R
  PROVE  /\ Byte \in Nat /\ Over(R)!Chunk \in Nat /\ Over(R)!Word \in Nat /\ Over(R)!Long \in Nat
         /\ 1 < Byte /\ Byte <= Over(R)!Chunk /\ Over(R)!Chunk <= Over(R)!Word
         /\ Over(R)!Word <= Over(R)!Long
         /\ Over(R)!Chunk * Over(R)!Chunk = Over(R)!Word
         /\ (Over(R)!Chunk * Over(R)!Chunk) * Over(R)!Chunk <= Over(R)!Long
         /\ ((Over(R)!Chunk * Over(R)!Chunk) * Over(R)!Chunk) * Over(R)!Chunk = Over(R)!Long
         /\ FieldSize \in Nat /\ FieldSize > 4 * Over(R)!Long
<1> DEFINE B == Byte
<1>1. B \in Nat /\ B > 1 /\ FieldSize \in Nat /\ FieldSize > 4 * Over(R)!Long
  BY SortAssumption DEF Over!Long, Over!Word, Over!Chunk
<1>2. Over(R)!Chunk \in Nat /\ B <= Over(R)!Chunk /\ Over(R)!Chunk > 1
  BY <1>1 DEF Over!Chunk
<1> DEFINE C == Over(R)!Chunk
<1>3. C \in Nat /\ C > 1
  BY <1>2
<1>4. Over(R)!Word = C * C /\ Over(R)!Long = (C * C) * (C * C)
  BY DEF Over!Word, Over!Long
<1> HIDE DEF C
<1>5. C * C \in Nat /\ C <= C * C
  BY <1>3
<1>6. (C * C) * C \in Nat /\ C * C <= (C * C) * C
  BY <1>3, <1>5
<1>7. ((C * C) * C) * C = (C * C) * (C * C)
  BY <1>3
<1>8. (C * C) * C <= ((C * C) * C) * C /\ ((C * C) * C) * C \in Nat
  BY <1>3, <1>6
<1> DEFINE long == Over(R)!Long
           square == C * C
           cube == square * C
           fourth == cube * C
<1>9. C * C <= Over(R)!Long /\ Over(R)!Long \in Nat
  <2>1. long = fourth
    BY <1>4, <1>7
  <2>2. square \in Nat /\ cube \in Nat /\ fourth \in Nat /\ square <= cube /\ cube <= fourth
    BY <1>5, <1>6, <1>8
  <2> HIDE DEF long, square, cube, fourth
  <2>3. square <= long /\ long \in Nat
    BY <2>1, <2>2
  <2> QED
    BY <2>3 DEF square, long
<1> QED
  BY <1>1, <1>2, <1>4, <1>5, <1>6, <1>7, <1>8, <1>9 DEF C

\* Sums, differences and products are field elements.
LEMMA SignClosed ==
  ASSUME NEW R
  PROVE  /\ \A a, b \in Int : Over(R)!Add(a, b) \in Over(R)!Field /\ Over(R)!Sub(a, b) \in Over(R)!Field
         /\ \A a, b \in Over(R)!Field : Over(R)!Near(a) \in Int /\ Over(R)!Mul(a, b) \in Over(R)!Field
<1>1. \A a, b \in Int : Over(R)!Add(a, b) \in Over(R)!Field /\ Over(R)!Sub(a, b) \in Over(R)!Field
  BY SignSizes DEF Over!Add, Over!Sub, Over!Field
<1>2. \A a \in Over(R)!Field : Over(R)!Near(a) \in Int
  <2>1. \A a \in Over(R)!Field : a \in Int /\ FieldSize \in Int
    BY SignSizes DEF Over!Field
  <2> QED
    BY <2>1 DEF Over!Near
<1>3. \A a, b \in Int : (a * b) % FieldSize \in Over(R)!Field
  BY SignSizes DEF Over!Field
<1> QED
  BY <1>1, <1>2, <1>3 DEF Over!Mul

\* So are those of whole columns.
LEMMA SignColumns ==
  ASSUME NEW R
  PROVE  /\ 0 \in Over(R)!Field /\ 1 \in Over(R)!Field /\ Over(R)!All(0) \in Over(R)!Column
         /\ Over(R)!All(1) \in Over(R)!Column
         /\ \A a, b \in Over(R)!Field : Over(R)!Sub(a, b) \in Over(R)!Field
         /\ \A a, b \in Over(R)!Column :
              Over(R)!ColSub(a, b) \in Over(R)!Column /\ Over(R)!ColMul(a, b) \in Over(R)!Column
<1>1. 0 \in Over(R)!Field /\ 1 \in Over(R)!Field
  BY SignSizes DEF Over!Field
<1>2. \A a, b \in Over(R)!Field : Over(R)!Sub(a, b) \in Over(R)!Field /\ Over(R)!Mul(a, b) \in Over(R)!Field
  <2>1. \A a \in Over(R)!Field : a \in Int
    BY DEF Over!Field
  <2> QED
    BY <2>1, SignClosed
<1> QED
  BY <1>1, <1>2 DEF Over!All, Over!ColSub, Over!ColMul, Over!Column

\* Small elements are their own nearest representatives, and so are the
\* differences of small integers.
LEMMA SmallNear == ASSUME NEW R PROVE \A x \in 0..(2 * Over(R)!Long) : Over(R)!Near(x) = x
<1> SUFFICES ASSUME NEW x \in 0..(2 * Over(R)!Long) PROVE Over(R)!Near(x) = x
  OBVIOUS
<1>1. CASE x = 0
  BY <1>1, SignSizes DEF Over!Near, Over!Sub
<1>2. CASE x # 0
  <2>1. Over(R)!Sub(0, x) = FieldSize - x
    BY <1>2, SignSizes DEF Over!Sub
  <2> QED
    BY <2>1, SignSizes DEF Over!Near
<1> QED
  BY <1>1, <1>2

LEMMA NearSmall == ASSUME NEW R PROVE \A x \in 0..Over(R)!Long : Over(R)!Near(x) = x
BY SmallNear, SignSizes

\* An activator of one leaves a value as it is.
LEMMA MulOne == ASSUME NEW R PROVE \A x \in Over(R)!Field : Over(R)!Mul(x, 1) = x
<1> SUFFICES ASSUME NEW x \in Over(R)!Field PROVE Over(R)!Mul(x, 1) = x
  OBVIOUS
<1>1. Over(R)!Near(1) = 1
  BY NearSmall, SignSizes
<1>2. Over(R)!Near(x) = x \/ Over(R)!Near(x) = x - FieldSize
  BY DEF Over!Near
<1>3. x % FieldSize = x /\ (x - FieldSize) % FieldSize = x
  BY SignSizes DEF Over!Field
<1> QED
  BY <1>1, <1>2, <1>3, SignSizes DEF Over!Mul, Over!Field

\* The differences the gadgets take of zero and one.
LEMMA SubValues ==
  ASSUME NEW R
  PROVE  /\ Over(R)!Sub(1, 0) = 1 /\ Over(R)!Sub(1, 1) = 0 /\ Over(R)!Sub(0, 1) # 0
         /\ \A x \in Over(R)!Field : Over(R)!Sub(0, x) = IF x = 0 THEN 0 ELSE FieldSize - x
         /\ \A x, y \in Over(R)!Field : Over(R)!Sub(x, y) = 0 => x = y
         /\ \A x \in Over(R)!Field : Over(R)!Sub(1, x) = 0 => x = 1
BY SignSizes DEF Over!Sub, Over!Field

\* Appending a chunk to a number below A makes one below E = A * Chunk: the
\* field does not wrap around.
LEMMA ShiftBound ==
  ASSUME NEW R, NEW A \in Nat, NEW E \in Nat, A * Over(R)!Chunk = E, E <= Over(R)!Long
  PROVE  \A acc \in 0..(A - 1), c \in 0..(Over(R)!Chunk - 1) :
           Over(R)!Shift(acc, c) = acc * Over(R)!Chunk + c /\ Over(R)!Shift(acc, c) \in 0..(E - 1)
<1> SUFFICES ASSUME NEW acc \in 0..(A - 1), NEW c \in 0..(Over(R)!Chunk - 1)
             PROVE  Over(R)!Shift(acc, c) = acc * Over(R)!Chunk + c
                    /\ Over(R)!Shift(acc, c) \in 0..(E - 1)
  OBVIOUS
<1>1. acc * Over(R)!Chunk \in Nat /\ acc * Over(R)!Chunk + c <= E - 1
  <2>1. acc + 1 <= A /\ Over(R)!Chunk \in Nat /\ Over(R)!Chunk > 0
    BY SignSizes
  <2>2. (acc + 1) * Over(R)!Chunk <= A * Over(R)!Chunk
    BY <2>1
  <2>3. (acc + 1) * Over(R)!Chunk = acc * Over(R)!Chunk + Over(R)!Chunk /\ acc * Over(R)!Chunk \in Nat
    BY <2>1
  <2> QED
    BY <2>1, <2>2, <2>3
<1>2. acc \in 0..Over(R)!Long /\ Over(R)!Chunk \in 0..Over(R)!Long
  <2>1. A <= A * Over(R)!Chunk
    BY SignSizes
  <2> QED
    BY <2>1, SignSizes
<1>3. Over(R)!Near(acc) = acc /\ Over(R)!Near(Over(R)!Chunk) = Over(R)!Chunk
  BY <1>2, NearSmall
<1>4. Over(R)!Mul(acc, Over(R)!Chunk) = acc * Over(R)!Chunk
  BY <1>1, <1>3, SignSizes DEF Over!Mul
<1>5. (acc * Over(R)!Chunk + c) % FieldSize = acc * Over(R)!Chunk + c
  BY <1>1, SignSizes
<1> QED
  BY <1>1, <1>4, <1>5 DEF Over!Shift, Over!Add

\* Four chunks make a number of 64 bits, and no larger field element.
Composed(R, a, b, c, d) == ((a * Over(R)!Chunk + b) * Over(R)!Chunk + c) * Over(R)!Chunk + d

LEMMA RecomposeBound ==
  ASSUME NEW R, NEW ch, NEW i,
         \A k \in 1..4 : ch[k][i] \in 0..(Over(R)!Chunk - 1), Len(ch) = 4
  PROVE  /\ Over(R)!RecomposeAt(ch, i) = Composed(R, ch[1][i], ch[2][i], ch[3][i], ch[4][i])
         /\ Over(R)!RecomposeAt(ch, i) \in 0..(Over(R)!Long - 1)
<1> DEFINE Cube == Over(R)!Word * Over(R)!Chunk
           Shifted(A, E) ==
             \A acc \in 0..(A - 1), c \in 0..(Over(R)!Chunk - 1) :
               Over(R)!Shift(acc, c) = acc * Over(R)!Chunk + c /\ Over(R)!Shift(acc, c) \in 0..(E - 1)
<1>1. /\ Over(R)!Chunk \in Nat /\ Over(R)!Word \in Nat /\ Cube \in Nat /\ Over(R)!Long \in Nat
      /\ 1 * Over(R)!Chunk = Over(R)!Chunk /\ Over(R)!Chunk * Over(R)!Chunk = Over(R)!Word
      /\ Over(R)!Word * Over(R)!Chunk = Cube
      /\ Cube * Over(R)!Chunk = Over(R)!Long
      /\ Over(R)!Chunk <= Over(R)!Long /\ Over(R)!Word <= Over(R)!Long /\ Cube <= Over(R)!Long
  <2>1. Over(R)!Word = Over(R)!Chunk * Over(R)!Chunk
    BY SignSizes
  <2>2. Cube = (Over(R)!Chunk * Over(R)!Chunk) * Over(R)!Chunk
    BY <2>1
  <2> HIDE DEF Cube
  <2>3. Cube * Over(R)!Chunk = Over(R)!Long /\ Cube <= Over(R)!Long
    BY <2>2, SignSizes
  <2>4. Cube \in Nat
    <3>1. \A x, y \in Nat : x * y \in Nat
      OBVIOUS
    <3> QED
      BY <3>1, SignSizes DEF Cube
  <2> QED
    BY <2>1, <2>3, <2>4, SignSizes DEF Cube
<1> HIDE DEF Cube
<1>2. Shifted(1, Over(R)!Chunk)
  BY <1>1, ShiftBound
<1>3. Shifted(Over(R)!Chunk, Over(R)!Word)
  BY <1>1, ShiftBound
<1>4. Shifted(Over(R)!Word, Cube)
  BY <1>1, ShiftBound
<1>5. Shifted(Cube, Over(R)!Long)
  <2>1. Over(R)!Long <= Over(R)!Long
    BY <1>1
  <2> QED
    BY <1>1, <2>1, ShiftBound
<1> DEFINE a == Over(R)!Shift(0, ch[1][i])
           b == Over(R)!Shift(a, ch[2][i])
           c == Over(R)!Shift(b, ch[3][i])
           d == Over(R)!Shift(c, ch[4][i])
<1>6. Over(R)!RecomposeAt(ch, i) = d
  BY DEF Over!RecomposeAt, Over!Four
<1> HIDE DEF a, b, c, d
<1>7. a = ch[1][i] /\ a \in 0..(Over(R)!Chunk - 1)
  <2>1. a = 0 * Over(R)!Chunk + ch[1][i] /\ a \in 0..(Over(R)!Chunk - 1)
    BY <1>2 DEF a
  <2>2. 0 * Over(R)!Chunk + ch[1][i] = ch[1][i]
    BY <1>1
  <2> QED
    BY <2>1, <2>2
<1>8. b = a * Over(R)!Chunk + ch[2][i] /\ b \in 0..(Over(R)!Word - 1)
  BY <1>3, <1>7 DEF b
<1>9. c = b * Over(R)!Chunk + ch[3][i] /\ c \in 0..(Cube - 1)
  BY <1>4, <1>8 DEF c
<1>10. d = c * Over(R)!Chunk + ch[4][i] /\ d \in 0..(Over(R)!Long - 1)
  BY <1>5, <1>9 DEF d
<1> QED
  BY <1>6, <1>7, <1>8, <1>9, <1>10 DEF Composed

\* Masking leaves an active row as it is.
LEMMA MaskedActive ==
  ASSUME NEW R, NEW col \in Over(R)!Column, NEW act \in Over(R)!Column,
         act # None, NEW i \in R, act[i] = 1
  PROVE  Over(R)!Masked(col, act)[i] = col[i]
<1>1. col[i] \in Over(R)!Field
  BY DEF Over!Column
<1> QED
  BY <1>1, MulOne DEF Over!Masked, Over!ColMul

\* A list of five: its first element, and the four behind it.
LEMMA PrependFour ==
  ASSUME NEW S, NEW z \in S, NEW f \in [1..4 -> S]
  PROVE  /\ DOMAIN (<<z>> \o f) = 1..5 /\ (<<z>> \o f)[1] = z
         /\ \A k \in 1..4 : (<<z>> \o f)[k + 1] = f[k]
<1>1. f \in Seq(S) /\ Len(f) = 4
  <2>1. f \in Seq(S)
    BY SeqDef
  <2>2. DOMAIN f = 1..Len(f) /\ DOMAIN f = 1..4 /\ Len(f) \in Nat
    BY <2>1, LenProperties
  <2> QED
    BY <2>1, <2>2
<1>2. <<z>> \in Seq(S) /\ Len(<<z>>) = 1 /\ <<z>>[1] = z
  OBVIOUS
<1> DEFINE g == <<z>> \o f
<1>3. /\ g \in Seq(S) /\ Len(g) = 5
      /\ \A i \in 1..5 : g[i] = IF i <= 1 THEN <<z>>[i] ELSE f[i - 1]
  <2>1. /\ g \in Seq(S) /\ Len(g) = Len(<<z>>) + Len(f)
        /\ \A i \in 1..(Len(<<z>>) + Len(f)) :
             g[i] = IF i <= Len(<<z>>) THEN <<z>>[i] ELSE f[i - Len(<<z>>)]
    <3> DEFINE u == <<z>>
    <3>1. u \in Seq(S)
      BY <1>2
    <3> HIDE DEF u
    <3>2. /\ u \o f \in Seq(S) /\ Len(u \o f) = Len(u) + Len(f)
          /\ \A i \in 1..(Len(u) + Len(f)) :
               (u \o f)[i] = IF i <= Len(u) THEN u[i] ELSE f[i - Len(u)]
      BY <1>1, <3>1, ConcatProperties
    <3> QED
      BY <3>2 DEF u
  <2> QED
    BY <1>1, <1>2, <2>1
<1> HIDE DEF g
<1>4. DOMAIN g = 1..5
  BY <1>3
<1>5. g[1] = z
  BY <1>3, <1>2
<1>6. \A k \in 1..4 : g[k + 1] = f[k]
  BY <1>3
<1> QED BY <1>4, <1>5, <1>6 DEF g

\* Sums and products of numbers, and of positive ones.
LEMMA NatClosed ==
  /\ \A a, b \in Nat : a * b \in Nat /\ a + b \in Nat
  /\ \A a, b \in Nat : a > 0 /\ b > 0 => a * b > 0
OBVIOUS

\* A digit below B behind a number below A.
LEMMA DigitBound ==
  ASSUME NEW A \in Nat, NEW B \in Nat, NEW a \in 0..(A - 1), NEW b \in 0..(B - 1)
  PROVE  a * B + b \in 0..(A * B - 1)
<1>1. a \in Nat /\ b \in Nat /\ a + 1 <= A
  OBVIOUS
<1>2. (a + 1) * B <= A * B
  BY <1>1
<1>3. (a + 1) * B = a * B + B /\ a * B \in Nat /\ A * B \in Nat
  BY <1>1
<1> QED
  BY <1>1, <1>2, <1>3

\* Division with remainder.
LEMMA DivMod ==
  ASSUME NEW n \in Nat, NEW d \in Nat, d > 0
  PROVE  n \div d \in Nat /\ n % d \in 0..(d - 1) /\ n = (n \div d) * d + (n % d)
<1>1. n \div d \in Int /\ n % d \in 0..(d - 1) /\ n = d * (n \div d) + (n % d)
  OBVIOUS
<1> DEFINE q == n \div d
           r == n % d
<1> HIDE DEF q, r
<1>2. q \in Int /\ r \in 0..(d - 1) /\ n = d * q + r
  BY <1>1 DEF q, r
<1>3. q >= 0
  <2> SUFFICES ASSUME q <= -1 PROVE FALSE
    BY <1>2
  <2>1. d * q <= d * (-1)
    BY <1>2
  <2> QED
    BY <1>2, <2>1
<1>4. d * q = q * d
  BY <1>2
<1> QED
  BY <1>2, <1>3, <1>4 DEF q, r

\* A quotient and a remainder are the only ones.
LEMMA DivUnique ==
  ASSUME NEW q \in Nat, NEW d \in Nat, NEW r \in 0..(d - 1), d > 0
  PROVE  (q * d + r) \div d = q /\ (q * d + r) % d = r
<1> DEFINE n == q * d + r
           p == n \div d
           s == n % d
<1>1. n \in Nat
  BY NatClosed
<1>2. p \in Nat /\ s \in 0..(d - 1) /\ n = p * d + s
  BY <1>1, DivMod
<1> HIDE DEF p, s
<1>3. p * d + s = q * d + r
  BY <1>2
<1>4. p = q
  <2>1. ASSUME p >= q + 1 PROVE FALSE
    <3>1. p * d >= (q + 1) * d /\ (q + 1) * d = q * d + d
      BY <1>2, <2>1
    <3> QED
      BY <1>2, <1>3, <3>1
  <2>2. ASSUME q >= p + 1 PROVE FALSE
    <3>1. q * d >= (p + 1) * d /\ (p + 1) * d = p * d + d
      BY <1>2, <2>2
    <3> QED
      BY <1>2, <1>3, <3>1
  <2> QED
    BY <1>2, <2>1, <2>2
<1>5. s = r
  BY <1>2, <1>3, <1>4
<1> QED
  BY <1>4, <1>5 DEF p, s

\* The four limbs of a number of 64 bits compose it; the top one is small if the
\* number is.
LEMMA Limbs ==
  ASSUME NEW R, NEW n \in 0..(Over(R)!Long - 1)
  PROVE  /\ \A k \in 0..3 : Over(R)!Limb(n, k) \in 0..(Over(R)!Chunk - 1)
         /\ Composed(R, Over(R)!Limb(n, 3), Over(R)!Limb(n, 2),
                        Over(R)!Limb(n, 1), Over(R)!Limb(n, 0)) = n
         /\ EvenByte /\ n < Over(R)!Half(Over(R)!Long) =>
              Over(R)!Limb(n, 3) < Over(R)!Half(Over(R)!Chunk)
<1> DEFINE C == Over(R)!Chunk
           q1 == n \div C
           l0 == n % C
           q2 == q1 \div C
           l1 == q1 % C
           q3 == q2 \div C
           l2 == q2 % C
           S == C * C
           T == S * C
<1>1. /\ n \in Nat /\ C \in Nat /\ C > 1 /\ S = Over(R)!Word /\ T * C = Over(R)!Long
      /\ S \in Nat /\ T \in Nat /\ Over(R)!Long \in Nat /\ n < Over(R)!Long
  <2>1. \A a, b \in Nat : a * b \in Nat
    OBVIOUS
  <2>2. C \in Nat /\ C > 1 /\ S = Over(R)!Word /\ T * C = Over(R)!Long /\ n \in Nat
        /\ n < Over(R)!Long /\ Over(R)!Long \in Nat
    BY SignSizes
  <2>3. S \in Nat /\ T \in Nat
    BY <2>1, <2>2
  <2> QED
    BY <2>2, <2>3
<1>2. q1 \in Nat /\ l0 \in 0..(C - 1) /\ n = q1 * C + l0
  BY <1>1, DivMod
<1>3. q2 \in Nat /\ l1 \in 0..(C - 1) /\ q1 = q2 * C + l1
  <2> HIDE DEF C, q1
  <2>1. C \in Nat /\ C > 0 /\ q1 \in Nat
    BY <1>1, <1>2
  <2> QED
    BY <2>1, DivMod
<1>4. q3 \in Nat /\ l2 \in 0..(C - 1) /\ q2 = q3 * C + l2
  <2> HIDE DEF C, q2
  <2>1. C \in Nat /\ C > 0 /\ q2 \in Nat
    BY <1>1, <1>3
  <2> QED
    BY <2>1, DivMod
<1>5. /\ Over(R)!Unit(0) = 1 /\ Over(R)!Unit(1) = C /\ Over(R)!Unit(2) = S /\ Over(R)!Unit(3) = T
  <2>1. /\ Over(R)!Unit(0) = 1 * 1 * 1 /\ Over(R)!Unit(1) = C * 1 * 1
        /\ Over(R)!Unit(2) = 1 * Over(R)!Word * 1
        /\ Over(R)!Unit(3) = C * Over(R)!Word * 1
    BY DEF Over!Unit
  <2>2. C * S * 1 = T /\ 1 * S * 1 = S /\ C * 1 * 1 = C
    BY <1>1
  <2> QED
    BY <1>1, <2>1, <2>2
<1> HIDE DEF C, q1, l0, q2, l1, q3, l2, S, T
<1>6. n \div 1 = n
  BY <1>1
<1>7. n \div S = q2
  <2> DEFINE r == l1 * C + l0
  <2>1. n = q2 * S + r
    <3>1. (q2 * C + l1) * C + l0 = q2 * (C * C) + (l1 * C + l0)
      BY <1>1, <1>2, <1>3
    <3> QED
      BY <1>2, <1>3, <3>1 DEF S
  <2>2. r \in 0..(S - 1)
    BY <1>1, <1>2, <1>3, DigitBound DEF S
  <2>3. S > 0
    BY <1>1, NatClosed DEF S
  <2> HIDE DEF r
  <2> QED
    BY <1>1, <1>3, <2>1, <2>2, <2>3, DivUnique
<1>8. n \div T = q3
  <2> DEFINE m == l1 * C + l0
             r == l2 * S + m
  <2>1. m \in 0..(S - 1)
    BY <1>1, <1>2, <1>3, DigitBound DEF S
  <2>2. n = q3 * T + r
    <3>1. (q2 * C + l1) * C + l0 = q2 * (C * C) + m
      BY <1>1, <1>2, <1>3
    <3> HIDE DEF m
    <3>2. (q3 * C + l2) * S + m = q3 * (S * C) + (l2 * S + m)
      BY <1>1, <1>4, <2>1
    <3> QED
      BY <1>2, <1>3, <1>4, <3>1, <3>2 DEF S, T
  <2> HIDE DEF m
  <2>3. r \in 0..(C * S - 1)
    BY <1>1, <1>4, <2>1, DigitBound
  <2>4. C * S = T /\ T > 0
    <3>1. C * S = S * C
      BY <1>1
    <3>2. S > 0
      BY <1>1, NatClosed DEF S
    <3> QED
      BY <1>1, <3>1, <3>2, NatClosed DEF T
  <2> HIDE DEF r
  <2> QED
    BY <1>1, <1>4, <2>2, <2>3, <2>4, DivUnique
<1>9. q3 * T <= n /\ n < T * C
  <2>1. T > 0
    BY <1>1, NatClosed DEF S, T
  <2> QED
    BY <1>1, <1>8, <2>1, DivMod
<1>10. \A h \in Nat : n < T * h => q3 < h
  <2> SUFFICES ASSUME NEW h \in Nat, n < T * h, q3 >= h PROVE FALSE
    BY <1>4
  <2>1. q3 * T >= h * T /\ h * T = T * h /\ h * T \in Nat /\ q3 * T \in Nat
    BY <1>1, <1>4
  <2> QED
    BY <1>1, <1>9, <2>1
<1>11. q3 \in 0..(C - 1)
  BY <1>1, <1>4, <1>9, <1>10
<1>12. \A x \in 0..(C - 1) : x % C = x
  BY <1>1
<1>13. Over(R)!Limb(n, 0) = l0 /\ Over(R)!Limb(n, 1) = l1 /\ Over(R)!Limb(n, 2) = l2
       /\ Over(R)!Limb(n, 3) = q3
  <2>1. /\ Over(R)!Limb(n, 0) = n % C /\ Over(R)!Limb(n, 1) = (n \div C) % C
        /\ Over(R)!Limb(n, 2) = (n \div S) % C /\ Over(R)!Limb(n, 3) = (n \div T) % C
    BY <1>5, <1>6 DEF Over!Limb, C
  <2> QED
    BY <1>7, <1>8, <1>11, <1>12, <2>1 DEF l0, l1, l2, q1
<1>14. Composed(R, q3, l2, l1, l0) = n
  BY <1>2, <1>3, <1>4 DEF Composed, C
<1>15. EvenByte /\ n < Over(R)!Half(Over(R)!Long) => q3 < Over(R)!Half(Over(R)!Chunk)
  <2> SUFFICES ASSUME EvenByte, n < Over(R)!Half(Over(R)!Long) PROVE q3 < Over(R)!Half(Over(R)!Chunk)
    OBVIOUS
  <2> DEFINE g == Byte \div 2
             h == g * Byte
  <2>1. Byte = g * 2 /\ g \in Nat /\ Byte \in Nat
    <3>1. Byte \in Nat
      BY SignSizes
    <3> QED
      BY <3>1 DEF EvenByte
  <2> HIDE DEF g
  <2>2. h \in Nat
    BY <2>1, NatClosed
  <2>3. C = h * 2
    <3>1. (g * 2) * Byte = (g * Byte) * 2
      BY <2>1
    <3> QED
      BY <2>1, <3>1 DEF C, Over!Chunk
  <2> HIDE DEF h
  <2>4. T * C = (T * h) * 2 /\ T * h \in Nat
    BY <1>1, <2>2, <2>3
  <2> DEFINE m == T * h
  <2> HIDE DEF m
  <2>5. Over(R)!Half(Over(R)!Long) = m /\ Over(R)!Half(Over(R)!Chunk) = h
    <3>1. Over(R)!Long = m * 2 /\ m \in Nat
      BY <1>1, <2>4 DEF m
    <3> QED
      BY <2>2, <2>3, <3>1 DEF Over!Half, C
  <2> QED
    BY <1>10, <2>2, <2>5 DEF m
<1>16. \A k \in 0..3 : Over(R)!Limb(n, k) \in 0..(C - 1)
  <2>1. \A k \in 0..3 : k = 0 \/ k = 1 \/ k = 2 \/ k = 3
    OBVIOUS
  <2> QED
    BY <1>2, <1>3, <1>4, <1>11, <1>13, <2>1
<1> QED
  BY <1>13, <1>14, <1>15, <1>16 DEF C

\* The greatest value the gadget can show to be non-negative.
Most(R, t) ==
  LET size == Over(R)!Size(Over(R)!Bytes[t])
  IN  IF Over(R)!Signed(t) THEN Over(R)!Half(size) - 1 ELSE size - 1

\* The types but the decimals, and what they hold.
LEMMA TypeSizes ==
  ASSUME NEW R, NEW t \in Over(R)!Type, t # "Decimal128"
  PROVE  /\ Over(R)!Bytes[t] \in {1, 2, 4, 8}
         /\ Over(R)!Size(Over(R)!Bytes[t]) \in Nat /\ Over(R)!Size(Over(R)!Bytes[t]) > 1
         /\ Over(R)!Size(Over(R)!Bytes[t]) <= Over(R)!Long
         /\ Over(R)!Half(Over(R)!Size(Over(R)!Bytes[t])) \in Nat
         /\ Over(R)!Half(Over(R)!Size(Over(R)!Bytes[t])) > 0
         /\ 2 * Over(R)!Half(Over(R)!Size(Over(R)!Bytes[t])) <= Over(R)!Size(Over(R)!Bytes[t])
         /\ Over(R)!Half(Over(R)!Size(Over(R)!Bytes[t])) <= Over(R)!Half(Over(R)!Long)
         /\ Most(R, t) \in Nat /\ Most(R, t) < Over(R)!Long
         /\ Over(R)!Signed(t) => Most(R, t) < Over(R)!Half(Over(R)!Long)
<1>1. Over(R)!Bytes[t] \in {1, 2, 4, 8}
  BY DEF Over!Type, Over!Bytes
<1>2. /\ Over(R)!Size(1) = Byte /\ Over(R)!Size(2) = Over(R)!Chunk
      /\ Over(R)!Size(4) = Over(R)!Word /\ Over(R)!Size(8) = Over(R)!Long
  BY DEF Over!Size
<1> DEFINE s == Over(R)!Size(Over(R)!Bytes[t])
<1>3. s \in Nat /\ s > 1 /\ s <= Over(R)!Long /\ Over(R)!Long \in Nat
  BY <1>1, <1>2, SignSizes
<1> HIDE DEF s
<1>4. \A a, b \in Nat : a <= b => a \div 2 \in Nat /\ b \div 2 \in Nat /\ a \div 2 <= b \div 2
  OBVIOUS
<1>5. Over(R)!Half(s) \in Nat /\ Over(R)!Half(s) > 0 /\ 2 * Over(R)!Half(s) <= s
      /\ Over(R)!Half(s) <= Over(R)!Half(Over(R)!Long)
      /\ Over(R)!Half(Over(R)!Long) \in Nat /\ Over(R)!Half(s) <= s
  BY <1>3, <1>4 DEF Over!Half
<1>6. Most(R, t) = IF Over(R)!Signed(t) THEN Over(R)!Half(s) - 1 ELSE s - 1
  BY DEF Most, s
<1> DEFINE h == Over(R)!Half(s)
           g == Over(R)!Half(Over(R)!Long)
<1> HIDE DEF h, g
<1>7. h \in Nat /\ h > 0 /\ h <= s /\ h <= g /\ g \in Nat
  BY <1>5 DEF h, g
<1>8. Most(R, t) \in Nat /\ Most(R, t) < Over(R)!Long /\ (Over(R)!Signed(t) => Most(R, t) < g)
  BY <1>3, <1>6, <1>7 DEF h
<1> QED
  BY <1>1, <1>3, <1>5, <1>8 DEF s, g

\* A value up to the greatest is read as itself.
LEMMA ReadingValue ==
  ASSUME NEW R, NEW t \in Over(R)!Type, t # "Decimal128", NEW x \in 0..Most(R, t)
  PROVE  Over(R)!Reading(t, x) = x
<1> DEFINE s == Over(R)!Size(Over(R)!Bytes[t])
           h == Over(R)!Half(s)
<1>1. /\ Over(R)!Bytes[t] # 16 /\ s \in Nat /\ s > 1 /\ s <= Over(R)!Long /\ h \in Nat /\ h > 0
      /\ 2 * h <= s
      /\ Most(R, t) \in Nat /\ Most(R, t) < Over(R)!Long
  BY TypeSizes
<1>2. Most(R, t) = IF Over(R)!Signed(t) THEN h - 1 ELSE s - 1
  BY DEF Most
<1>3. Over(R)!Near(x) = x /\ x \in Nat
  <2>1. x \in 0..Over(R)!Long
    BY <1>1, SignSizes
  <2> QED
    BY <2>1, NearSmall
<1> HIDE DEF h
<1>4. \A y \in 0..(s - 1) : y % s = y
  BY <1>1
<1>5. Over(R)!LowBits(x, Over(R)!Bytes[t]) = x
  <2>1. x \in 0..(s - 1)
    BY <1>1, <1>2
  <2> QED
    BY <1>4, <2>1 DEF Over!LowBits
<1>6. CASE ~Over(R)!Signed(t)
  BY <1>5, <1>6 DEF Over!Reading
<1>7. CASE Over(R)!Signed(t)
  <2>1. Over(R)!SignedFromEncoding(x, Over(R)!Bytes[t]) = x
    BY <1>1, <1>3, <1>5 DEF Over!SignedFromEncoding
  <2>2. x + h \in 0..(s - 1)
    BY <1>1, <1>2, <1>7
  <2>3. Over(R)!Wrap(x, Over(R)!Bytes[t]) = ((x + h) % s) - h
    BY DEF Over!Wrap, h
  <2>4. Over(R)!Wrap(x, Over(R)!Bytes[t]) = x
    <3>1. (x + h) % s = x + h
      BY <1>4, <2>2
    <3> QED
      BY <1>1, <1>3, <2>3, <3>1
  <2> QED
    BY <1>7, <2>1, <2>4 DEF Over!Reading
<1> QED
  BY <1>6, <1>7

\* Its chunks are below the sizes of their tables, and compose it.
LEMMA SplitValue ==
  ASSUME NEW R, EvenByte, NEW t \in Over(R)!Type, t # "Decimal128", Over(R)!ChunkCount(t) = 4,
         NEW x \in 0..Most(R, t)
  PROVE  /\ \A k \in 1..4 : Over(R)!Split(t, x)[k] \in 0..(Over(R)!Chunk - 1)
         /\ Over(R)!Split(t, x)[1] < Over(R)!TopSize(t)
         /\ Composed(R, Over(R)!Split(t, x)[1], Over(R)!Split(t, x)[2],
                        Over(R)!Split(t, x)[3], Over(R)!Split(t, x)[4]) = x
<1>1. Most(R, t) \in Nat /\ Most(R, t) < Over(R)!Long
      /\ (Over(R)!Signed(t) => Most(R, t) < Over(R)!Half(Over(R)!Long))
  BY TypeSizes
<1>2. x \in 0..(Over(R)!Long - 1) /\ (Over(R)!Signed(t) => x < Over(R)!Half(Over(R)!Long))
  <2>1. Over(R)!Half(Over(R)!Long) \in Nat
    BY SignSizes DEF Over!Half
  <2> QED
    BY <1>1, <2>1, SignSizes
<1>3. /\ \A k \in 0..3 : Over(R)!Limb(x, k) \in 0..(Over(R)!Chunk - 1)
      /\ Composed(R, Over(R)!Limb(x, 3), Over(R)!Limb(x, 2), Over(R)!Limb(x, 1), Over(R)!Limb(x, 0)) = x
      /\ Over(R)!Signed(t) => Over(R)!Limb(x, 3) < Over(R)!Half(Over(R)!Chunk)
  BY <1>2, Limbs
<1>4. Over(R)!Chunk \in Nat /\ Over(R)!Half(Over(R)!Chunk) \in Nat
      /\ 2 * Over(R)!Half(Over(R)!Chunk) <= Over(R)!Chunk
  BY SignSizes DEF Over!Half
<1> DEFINE top == Over(R)!Limb(x, 3)
           h == Over(R)!Half(Over(R)!Chunk)
<1> HIDE DEF h
<1>5. Over(R)!Signed(t) => Over(R)!Wrap(top, 2) % FieldSize = top
  <2> SUFFICES ASSUME Over(R)!Signed(t) PROVE Over(R)!Wrap(top, 2) % FieldSize = top
    OBVIOUS
  <2>1. top \in Nat /\ top < h /\ h \in Nat /\ 2 * h <= Over(R)!Chunk
    BY <1>3, <1>4 DEF h
  <2> HIDE DEF top
  <2>2. Over(R)!Wrap(top, 2) = ((top + h) % Over(R)!Chunk) - h
    BY DEF Over!Wrap, Over!Size, h
  <2>3. (top + h) % Over(R)!Chunk = top + h
    BY <1>4, <2>1
  <2>4. Over(R)!Wrap(top, 2) = top
    BY <2>1, <2>2, <2>3
  <2>5. top % FieldSize = top
    BY <1>4, <2>1, SignSizes
  <2> QED
    BY <2>4, <2>5
<1>6. \A k \in 1..4 : Over(R)!Split(t, x)[k] = Over(R)!Limb(x, 4 - k)
  <2> SUFFICES ASSUME NEW k \in 1..4 PROVE Over(R)!Split(t, x)[k] = Over(R)!Limb(x, 4 - k)
    OBVIOUS
  <2>1. Over(R)!Reading(t, x) = x
    BY ReadingValue
  <2>2. Over(R)!Split(t, x)[k] = LET limb == Over(R)!Limb(x, 4 - k)
                         IN  IF k = 1 /\ Over(R)!Signed(t) THEN Over(R)!Wrap(limb, 2) % FieldSize ELSE limb
    BY <2>1 DEF Over!Split
  <2>3. CASE k = 1
    <3>1. 4 - k = 3
      BY <2>3
    <3> QED
      BY <1>5, <2>2, <2>3, <3>1
  <2>4. CASE k # 1
    BY <2>2, <2>4
  <2> QED
    BY <2>3, <2>4
<1>7. /\ Over(R)!Split(t, x)[1] = top /\ Over(R)!Split(t, x)[2] = Over(R)!Limb(x, 2)
      /\ Over(R)!Split(t, x)[3] = Over(R)!Limb(x, 1) /\ Over(R)!Split(t, x)[4] = Over(R)!Limb(x, 0)
  <2>1. 4 - 1 = 3 /\ 4 - 2 = 2 /\ 4 - 3 = 1 /\ 4 - 4 = 0
    OBVIOUS
  <2> QED
    BY <1>6, <2>1
<1>8. top < Over(R)!TopSize(t)
  BY <1>3, <1>4 DEF Over!TopSize
<1>9. \A k \in 1..4 : 4 - k \in 0..3
  OBVIOUS
<1> QED
  BY <1>3, <1>6, <1>7, <1>8, <1>9

\* An activator of zero hides a value.
LEMMA MaskedInactive ==
  ASSUME NEW R, NEW col \in Over(R)!Column, NEW act \in Over(R)!Column,
         act # None, NEW i \in R, act[i] = 0
  PROVE  Over(R)!Masked(col, act)[i] = 0
<1>1. Over(R)!Near(0) = 0 /\ Over(R)!Near(col[i]) \in Int
  BY NearSmall, SignSizes, SignClosed DEF Over!Column
<1>2. Over(R)!Mul(col[i], 0) = 0
  BY <1>1, SignSizes DEF Over!Mul
<1> QED
  BY <1>2 DEF Over!Masked, Over!ColMul

\* A chunk has at least four values.
LEMMA ChunkHalf ==
  ASSUME NEW R
  PROVE  Over(R)!Half(Over(R)!Chunk) \in Nat /\ Over(R)!Half(Over(R)!Chunk) > 0
BY SignSizes DEF Over!Half

\* Zeros compose to zero.
LEMMA ZeroComposed == ASSUME NEW R PROVE Composed(R, 0, 0, 0, 0) = 0
BY SignSizes DEF Composed

\* The range claims about a column hold if its active values are in range: the
\* committed chunks are those of the values, and zero on the other rows.
LEMMA RangeHolds ==
  ASSUME NEW R, EvenByte, NEW t \in Over(R)!Type, t # "Decimal128",
         NEW col \in Over(R)!Column, NEW act \in [R -> {0, 1}], act # None,
         \A i \in R : act[i] = 1 => col[i] \in 0..Most(R, t)
  PROVE  ListHolds(R, Over(R)!RangeClaims(t, col, act, Over(R)!ChunkColumns(t, col, act)))
<1> DEFINE ch == Over(R)!ChunkColumns(t, col, act)
           list == Over(R)!RangeClaims(t, col, act, ch)
<1>0. act \in Over(R)!Column
  BY SignColumns DEF Over!Column
<1>1. Over(R)!ChunkCount(t) \in {0, 4}
  BY DEF Over!ChunkCount, Over!Bytes, Over!Type
<1>2. \A i \in R : Over(R)!Masked(col, act)[i] = IF act[i] = 1 THEN col[i] ELSE 0
  BY <1>0, MaskedActive, MaskedInactive
<1>3. CASE Over(R)!ChunkCount(t) = 0
  <2>1. list = <<Over(R)!Lookup(Over(R)!WholeSize(t), Over(R)!Masked(col, act))>>
    BY <1>3 DEF Over!RangeClaims
  <2>2. Most(R, t) + 1 = Over(R)!WholeSize(t) /\ Most(R, t) \in Nat
    <3>1. Over(R)!Bytes[t] \in {1, 2}
      BY <1>3 DEF Over!ChunkCount, Over!Bytes, Over!Type
    <3>2. Over(R)!WholeSize(t) = IF Over(R)!Signed(t) THEN Over(R)!Half(Over(R)!Size(Over(R)!Bytes[t]))
                                 ELSE Over(R)!Size(Over(R)!Bytes[t])
      BY <3>1 DEF Over!WholeSize, Over!Size
    <3> QED
      BY <3>2, TypeSizes DEF Most
  <2>3. \A i \in R : Over(R)!Masked(col, act)[i] < Over(R)!WholeSize(t)
    BY <1>2, <2>2
  <2>4. Over(R)!Holds(Over(R)!Lookup(Over(R)!WholeSize(t), Over(R)!Masked(col, act)))
    BY <2>3 DEF Over!Holds, Over!Lookup, Over!Claim
  <2> QED
    BY <2>1, <2>4 DEF ListHolds
<1>4. CASE Over(R)!ChunkCount(t) = 4
  <2> DEFINE sum == [i \in R |-> Over(R)!RecomposeAt(ch, i)]
             size(k) == IF k = 1 THEN Over(R)!TopSize(t) ELSE Over(R)!Chunk
             gap == Over(R)!ColSub(Over(R)!Masked(col, act), sum)
             looks == [k \in 1..4 |-> Over(R)!Lookup(size(k), Over(R)!Masked(ch[k], act))]
  <2>1. list = <<Over(R)!Zero(gap)>> \o looks
    BY <1>4 DEF Over!RangeClaims
  <2>2. \A i \in R, k \in 1..4 :
          ch[k][i] = IF act[i] = 1 THEN Over(R)!Split(t, col[i])[k] ELSE 0
    BY <1>0, <1>4 DEF Over!ChunkColumns
  <2>3. Len(ch) = 4 /\ \A k \in 1..4 : ch[k] = [i \in R |-> ch[k][i]]
    <3>1. ch = [k \in 1..4 |-> [i \in R |-> IF act # None /\ act[i] = 0 THEN 0
                                          ELSE Over(R)!Split(t, col[i])[k]]]
      BY <1>4 DEF Over!ChunkColumns
    <3> HIDE DEF ch
    <3>2. \A k \in 1..4 : ch[k] = [i \in R |-> ch[k][i]]
      BY <3>1
    <3>3. Len(ch) = 4
      BY <3>1
    <3> QED
      BY <3>2, <3>3
  <2> HIDE DEF ch, list
  <2>5. Over(R)!Chunk \in Nat /\ Over(R)!Chunk > 0 /\ Over(R)!TopSize(t) \in Nat
        /\ Over(R)!TopSize(t) > 0
    BY SignSizes, ChunkHalf DEF Over!TopSize
  <2>6. \A i \in R, k \in 1..4 : ch[k][i] \in 0..(Over(R)!Chunk - 1) /\ ch[k][i] < size(k)
    <3> SUFFICES ASSUME NEW i \in R, NEW k \in 1..4
                 PROVE  ch[k][i] \in 0..(Over(R)!Chunk - 1) /\ ch[k][i] < size(k)
      OBVIOUS
    <3>1. CASE act[i] = 1
      <4>1. col[i] \in 0..Most(R, t)
        BY <3>1
      <4>2. Over(R)!Split(t, col[i])[k] \in 0..(Over(R)!Chunk - 1)
            /\ Over(R)!Split(t, col[i])[1] < Over(R)!TopSize(t)
        BY <1>4, <4>1, SplitValue
      <4> QED
        BY <2>2, <2>5, <3>1, <4>2
    <3>2. CASE act[i] # 1
      BY <2>2, <2>5, <3>2
    <3> QED
      BY <3>1, <3>2
  <2>4. \A k \in 1..4 : ch[k] \in Over(R)!Column
    <3>1. \A c \in 0..(Over(R)!Chunk - 1) : c \in Over(R)!Field
      BY SignSizes DEF Over!Field
    <3> QED
      BY <2>3, <2>6, <3>1 DEF Over!Column
  <2>7. \A i \in R : sum[i] = Over(R)!Masked(col, act)[i]
    <3> SUFFICES ASSUME NEW i \in R PROVE Over(R)!RecomposeAt(ch, i) = Over(R)!Masked(col, act)[i]
      OBVIOUS
    <3>1. Over(R)!RecomposeAt(ch, i) = Composed(R, ch[1][i], ch[2][i], ch[3][i], ch[4][i])
      BY <2>3, <2>6, RecomposeBound
    <3>2. CASE act[i] = 1
      <4>1. col[i] \in 0..Most(R, t)
        BY <3>2
      <4> DEFINE x == col[i]
      <4>2. Composed(R, Over(R)!Split(t, x)[1], Over(R)!Split(t, x)[2],
                        Over(R)!Split(t, x)[3], Over(R)!Split(t, x)[4]) = x
        BY <1>4, <4>1, SplitValue
      <4> QED
        BY <1>2, <2>2, <3>1, <3>2, <4>2
    <3>3. CASE act[i] # 1
      BY <1>2, <2>2, <3>1, <3>3, ZeroComposed
    <3> QED
      BY <3>2, <3>3
  <2>8. Over(R)!Holds(Over(R)!Zero(gap))
    <3>1. \A i \in R : Over(R)!Masked(col, act)[i] \in Over(R)!Field
      BY <1>2, SignColumns DEF Over!Column
    <3>2. \A y \in Over(R)!Field : Over(R)!Sub(y, y) = 0
      BY SignSizes DEF Over!Sub, Over!Field
    <3>3. \A i \in R : gap[i] = 0
      BY <2>7, <3>1, <3>2 DEF Over!ColSub
    <3> QED
      BY <3>3 DEF Over!Holds, Over!Zero, Over!Claim
  <2>9. \A k \in 1..4 : Over(R)!Holds(looks[k])
    <3> SUFFICES ASSUME NEW k \in 1..4 PROVE Over(R)!Holds(Over(R)!Lookup(size(k), Over(R)!Masked(ch[k], act)))
      OBVIOUS
    <3>1. \A i \in R : Over(R)!Masked(ch[k], act)[i] = IF act[i] = 1 THEN ch[k][i] ELSE 0
      BY <1>0, <2>4, MaskedActive, MaskedInactive
    <3>2. \A i \in R : Over(R)!Masked(ch[k], act)[i] < size(k)
      BY <2>5, <2>6, <3>1
    <3> HIDE DEF size
    <3> QED
      BY <3>2 DEF Over!Holds, Over!Lookup, Over!Claim
  <2> HIDE DEF size, gap
  <2> DEFINE z == Over(R)!Zero(gap)
             S == {looks[k] : k \in 1..4} \cup {z}
  <2>10. z \in S /\ looks \in [1..4 -> S]
    OBVIOUS
  <2> HIDE DEF looks, S, z
  <2>11. /\ DOMAIN list = 1..5 /\ list[1] = z
         /\ \A k \in 1..4 : list[k + 1] = looks[k]
    BY <2>1, <2>10, PrependFour DEF z
  <2>12. \A k \in 1..5 : Over(R)!Holds(list[k])
    <3> SUFFICES ASSUME NEW k \in 1..5 PROVE Over(R)!Holds(list[k])
      OBVIOUS
    <3>1. CASE k = 1
      BY <2>8, <2>11, <3>1 DEF z
    <3>2. CASE k # 1
      <4>1. k - 1 \in 1..4 /\ (k - 1) + 1 = k
        BY <3>2
      <4> QED
        BY <2>9, <2>11, <4>1
    <3> QED
      BY <3>1, <3>2
  <2> QED
    BY <2>11, <2>12 DEF ListHolds, list, ch
<1> QED
  BY <1>1, <1>3, <1>4

\* Zero times anything.
LEMMA MulZero ==
  ASSUME NEW R
  PROVE  \A x \in Over(R)!Field : Over(R)!Mul(x, 0) = 0 /\ Over(R)!Mul(0, x) = 0
<1> SUFFICES ASSUME NEW x \in Over(R)!Field PROVE Over(R)!Mul(x, 0) = 0 /\ Over(R)!Mul(0, x) = 0
  OBVIOUS
<1>1. Over(R)!Near(0) = 0 /\ Over(R)!Near(x) \in Int
  BY NearSmall, SignSizes, SignClosed
<1> QED
  BY <1>1, SignSizes DEF Over!Mul

\* The codes of the activator's two values and of NULL.
LEMMA BitsStay ==
  FieldSize \in Nat /\ FieldSize > 1 /\ Enc(0) = 0 /\ Enc(1) = 1 /\ Enc(Null) = 0
<1>1. FieldSize \in Nat /\ FieldSize > 1 /\ Null \notin Int
  <2> DEFINE long == Over({})!Long
  <2>1. FieldSize \in Nat /\ FieldSize > 4 * long /\ Null \notin Int
    BY SortAssumption
  <2>2. Byte \in Nat /\ Byte > 1
    BY SortAssumption
  <2>3. Over({})!Chunk \in Nat /\ Over({})!Chunk > 1
    BY <2>2 DEF Over!Chunk
  <2>4. Over({})!Word \in Nat /\ Over({})!Word > 1
    BY <2>3 DEF Over!Word
  <2>5. long \in Nat /\ long > 1
    BY <2>4 DEF Over!Long
  <2> HIDE DEF long
  <2> QED BY <2>1, <2>5
<1>2. 0 % FieldSize = 0 /\ 1 % FieldSize = 1
  BY <1>1
<1> QED BY <1>1, <1>2 DEF Enc

\* Whatever the rows, types and their values are the same.
LEMMA SameTypes ==
  ASSUME NEW R
  PROVE  /\ Over(R)!Type = Over({})!Type /\ Over(R)!Field = Over({})!Field
         /\ Over(R)!Column = [R -> Over({})!Field]
         /\ \A t : Most(R, t) = Most({}, t) /\ (Over(R)!Signed(t) <=> Over({})!Signed(t))
<1>1. Over(R)!Bytes = Over({})!Bytes /\ Over(R)!Long = Over({})!Long /\ Over(R)!Wide = Over({})!Wide
      /\ Over(R)!Chunk = Over({})!Chunk /\ Over(R)!Word = Over({})!Word
  BY DEF Over!Bytes, Over!Long, Over!Wide, Over!Word, Over!Chunk
<1>2. \A n : Over(R)!Half(n) = Over({})!Half(n) /\ Over(R)!Size(n) = Over({})!Size(n)
  BY <1>1 DEF Over!Half, Over!Size
<1>3. \A t : Over(R)!Signed(t) <=> Over({})!Signed(t)
  BY DEF Over!Signed
<1>4. \A t : Most(R, t) = Most({}, t)
  BY <1>1, <1>2, <1>3 DEF Most
<1> QED BY <1>1, <1>3, <1>4 DEF Over!Type, Over!Field, Over!Column

\* A value up to the greatest is read back as itself.
LEMMA ReadAgain ==
  ASSUME NEW R, NEW t \in Over(R)!Type, t # "Decimal128", NEW x \in 0..Most(R, t)
  PROVE  Over(R)!SignedFromEncoding(x, Over(R)!Bytes[t]) = x
<1> DEFINE s == Over(R)!Size(Over(R)!Bytes[t])
<1>1. Over(R)!Bytes[t] # 16 /\ s \in Nat /\ s > 1 /\ s <= Over(R)!Long
      /\ Most(R, t) \in Nat /\ Most(R, t) < s /\ Most(R, t) < Over(R)!Long
  <2>1. Over(R)!Half(s) \in Nat /\ 2 * Over(R)!Half(s) <= s /\ s \in Nat /\ s > 1
    BY TypeSizes
  <2> HIDE DEF s
  <2>2. Over(R)!Half(s) - 1 < s /\ s - 1 < s
    BY <2>1
  <2> QED BY <2>2, TypeSizes DEF Most, s
<1> HIDE DEF s
<1>2. x \in Nat /\ x <= Over(R)!Long /\ x % s = x
  BY <1>1, SignSizes
<1>3. Over(R)!Near(x) = x
  BY <1>2, NearSmall, SignSizes
<1> QED BY <1>1, <1>2, <1>3 DEF Over!SignedFromEncoding, Over!LowBits, s

LEMMA EvenTimes == \A a, b \in Nat : a % 2 = 0 => (a * b) % 2 = 0
<1> TAKE a, b \in Nat
<1> HAVE a % 2 = 0
<1> DEFINE h == a \div 2
           q == h * b
<1>1. h \in Nat /\ a = 2 * h
  OBVIOUS
<1> HIDE DEF h
<1>2. q \in Nat
  BY <1>1
<1>3. a * b = 2 * q
  BY <1>1
<1> HIDE DEF q
<1> QED BY <1>2, <1>3

\* A number that wraps around to itself is at most the greatest.
LEMMA WrapsTo ==
  ASSUME EvenByte, NEW t \in Over({})!Type, t # "Decimal128"
  PROVE  /\ \A n \in Int : Over({})!Signed(t) => Over({})!Wrap(n, Over({})!Bytes[t]) <= Most({}, t)
         /\ \A n \in Int : ~Over({})!Signed(t) => n % Over({})!Size(Over({})!Bytes[t]) <= Most({}, t)
<1> DEFINE s == Over({})!Size(Over({})!Bytes[t])
           h == Over({})!Half(s)
           c == Over({})!Chunk
           w == Over({})!Word
           l == Over({})!Long
<1>1. Over({})!Bytes[t] \in {1, 2, 4, 8} /\ s \in Nat /\ s > 1
  BY TypeSizes
<1>2. Byte \in Nat /\ c \in Nat /\ w \in Nat
  BY SignSizes
<1>3. c = Byte * Byte /\ w = c * c /\ l = w * w
  BY DEF Over!Chunk, Over!Word, Over!Long
<1> HIDE DEF c, w, l
<1>4. Byte % 2 = 0 /\ c % 2 = 0 /\ w % 2 = 0 /\ l % 2 = 0
  <2>1. Byte % 2 = 0
    BY DEF EvenByte
  <2>2. c % 2 = 0
    BY <1>2, <1>3, <2>1, EvenTimes
  <2>3. w % 2 = 0
    BY <1>2, <1>3, <2>2, EvenTimes
  <2>4. l % 2 = 0
    BY <1>2, <1>3, <2>3, EvenTimes
  <2> QED BY <2>1, <2>2, <2>3, <2>4
<1>5. s % 2 = 0
  <2>1. s \in {Byte, c, w, l}
    BY <1>1 DEF Over!Size, c, w, l
  <2> HIDE DEF s
  <2> QED BY <1>4, <2>1
<1>6. h = s \div 2
  BY DEF Over!Half
<1>7. Most({}, t) = IF Over({})!Signed(t) THEN h - 1 ELSE s - 1
  BY DEF Most
<1>8. \A n \in Int : Over({})!Wrap(n, Over({})!Bytes[t]) = ((n + h) % s) - h
  BY DEF Over!Wrap
<1> HIDE DEF s, h
<1>9. h \in Nat /\ s = 2 * h
  BY <1>1, <1>5, <1>6
<1>10. \A n \in Int : n % s <= s - 1 /\ n % s \in Nat
  BY <1>1
<1>11. \A n \in Int : (n + h) % s <= s - 1 /\ (n + h) % s \in Nat
  BY <1>9, <1>10
<1>12. \A n \in Int : ((n + h) % s) - h <= h - 1
  BY <1>9, <1>11
<1> QED BY <1>7, <1>8, <1>10, <1>12 DEF s

\* A difference that is what it should be, and not negative, is encoded as itself.
LEMMA DiffValue ==
  ASSUME EvenByte, NEW t \in Over({})!Type, t # "Decimal128",
         NEW a \in Int, NEW b \in Int, a - b >= 0, Diff(t, a, b) = a - b
  PROVE  Enc(Diff(t, a, b)) = a - b /\ a - b \in 0..Most({}, t)
<1>2. Null \notin {a, b}
  BY SortAssumption
<1>3. Most({}, t) \in Nat /\ Most({}, t) < Over({})!Long
  BY TypeSizes
<1>4. FieldSize \in Nat /\ FieldSize > 4 * Over({})!Long /\ Over({})!Long \in Nat
  BY SignSizes
<1>5. a - b <= Most({}, t)
  <2>1. CASE Over({})!Signed(t)
    <3>1. Diff(t, a, b) = Over({})!Wrap(a - b, Over({})!Bytes[t])
      BY <1>2, <2>1 DEF Diff
    <3> QED BY <2>1, <3>1, WrapsTo
  <2>2. CASE ~Over({})!Signed(t)
    <3>1. Diff(t, a, b) = (a - b) % Over({})!Size(Over({})!Bytes[t])
      BY <1>2, <2>2 DEF Diff
    <3> QED BY <2>2, <3>1, WrapsTo
  <2> QED BY <2>1, <2>2
<1>6. a - b \in Nat /\ a - b < FieldSize
  BY <1>3, <1>4, <1>5
<1>7. (a - b) % FieldSize = a - b /\ a - b # Null
  BY <1>4, <1>6, SortAssumption
<1> QED BY <1>3, <1>5, <1>6, <1>7 DEF Enc

-----------------------------------------------------------------------------
(* Counting: columns that count add up, and lookups hold of honest         *)
(* multiplicities.                                                         *)

\* A column that counts, for each of its rows, the members of P that h sends there
\* adds up to the number of members of P, if that is an element of the field.
CountsInto(P, S, h, col) ==
  /\ IsFiniteSet(P) /\ IsFiniteSet(S) /\ Cardinality(P) < FieldSize
  /\ h \in [P -> S] /\ DOMAIN col = S
  /\ \A i \in S : col[i] = Cardinality({p \in P : h[p] = i})
SumIter(col, S, it) ==
  it = [s \in SUBSET S |->
         IF s = {} THEN 0
         ELSE (col[CHOOSE x \in s : TRUE] + it[s \ {CHOOSE x \in s : TRUE}]) % FieldSize]

LEMMA TotalIter ==
  ASSUME NEW col
  PROVE  Total(col) = (CHOOSE it : SumIter(col, DOMAIN col, it))[DOMAIN col]
BY DEF Total, FoldFunction, FoldFunctionOnSet, MapThenFoldSet, SumIter

LEMMA TotalCounts ==
  ASSUME NEW P, NEW S, NEW h, NEW col, CountsInto(P, S, h, col)
  PROVE  Total(col) = Cardinality(P)
<1> DEFINE On(s) == {p \in P : h[p] \in s}
           g == [s \in SUBSET S |-> Cardinality(On(s))]
           it == CHOOSE f : SumIter(col, S, f)
           c(s) == CHOOSE x \in s : TRUE
<1>1. /\ IsFiniteSet(P) /\ IsFiniteSet(S) /\ Cardinality(P) < FieldSize
      /\ h \in [P -> S] /\ DOMAIN col = S
      /\ \A i \in S : col[i] = Cardinality({p \in P : h[p] = i})
  BY DEF CountsInto
<1>2. FieldSize \in Nat /\ Cardinality(P) \in Nat
  BY <1>1, FS_CardinalityType, SortAssumption
<1>3. \A s : IsFiniteSet(On(s)) /\ Cardinality(On(s)) \in Nat /\ Cardinality(On(s)) < FieldSize
  <2> TAKE s
  <2>1. On(s) \in SUBSET P
    OBVIOUS
  <2> HIDE DEF On
  <2>2. IsFiniteSet(On(s)) /\ Cardinality(On(s)) <= Cardinality(P)
    BY <1>1, <2>1, FS_Subset
  <2>3. Cardinality(On(s)) \in Nat
    BY <2>2, FS_CardinalityType
  <2> QED BY <1>1, <1>2, <2>2, <2>3
<1>4. \A s : s # {} => c(s) \in s
  OBVIOUS
<1> HIDE DEF c
<1>5. ASSUME NEW s \in SUBSET S, s # {}
      PROVE  Cardinality(On(s)) = (col[c(s)] + Cardinality(On(s \ {c(s)}))) % FieldSize
  <2> DEFINE x == c(s)
             A == {p \in P : h[p] = x}
             B == On(s \ {x})
  <2>1. x \in s /\ x \in S
    BY <1>4, <1>5
  <2>2. col[x] = Cardinality(A)
    BY <1>1, <2>1
  <2>3. On(s) = A \cup B /\ A \cap B = {}
    <3> HIDE DEF x
    <3> QED BY <2>1
  <2>4. IsFiniteSet(A)
    <3>1. A \in SUBSET P
      OBVIOUS
    <3> HIDE DEF A
    <3> QED BY <1>1, <3>1, FS_Subset
  <2>5. IsFiniteSet(B)
    BY <1>3
  <2>6. Cardinality(On(s)) \in Nat /\ Cardinality(On(s)) < FieldSize
    BY <1>3
  <2> HIDE DEF A, B, On, x
  <2>7. Cardinality(A \cup B) = Cardinality(A) + Cardinality(B) - Cardinality(A \cap B)
    BY <2>4, <2>5, FS_Union
  <2>8. Cardinality({}) = 0 /\ Cardinality(A) \in Nat /\ Cardinality(B) \in Nat
    BY <2>4, <2>5, FS_EmptySet, FS_CardinalityType
  <2>9. Cardinality(On(s)) = Cardinality(A) + Cardinality(B)
    <3>1. Cardinality(On(s)) = Cardinality(A \cup B) /\ Cardinality(A \cap B) = Cardinality({})
      BY <2>3, Zenon
    <3> QED BY <2>7, <2>8, <3>1
  <2>10. (Cardinality(A) + Cardinality(B)) % FieldSize = Cardinality(On(s))
    <3>1. \A a, f \in Nat : a < f => a % f = a
      OBVIOUS
    <3>2. Cardinality(On(s)) % FieldSize = Cardinality(On(s))
      BY <1>2, <2>6, <3>1
    <3> QED BY <2>9, <3>2
  <2> QED BY <2>2, <2>10 DEF B, x
<1>6. Cardinality(On({})) = 0
  <2>1. On({}) = {}
    OBVIOUS
  <2> QED BY <2>1, FS_EmptySet
<1> HIDE DEF On
<1>7. SumIter(col, S, g)
  <2>1. \A s \in SUBSET S : s # {} => g[s \ {c(s)}] = Cardinality(On(s \ {c(s)}))
    OBVIOUS
  <2>2. \A s \in SUBSET S : g[s] = IF s = {} THEN 0 ELSE (col[c(s)] + g[s \ {c(s)}]) % FieldSize
    BY <1>5, <1>6, <2>1
  <2>3. g = [s \in SUBSET S |-> g[s]]
    OBVIOUS
  <2> HIDE DEF g
  <2>4. g = [s \in SUBSET S |-> IF s = {} THEN 0 ELSE (col[c(s)] + g[s \ {c(s)}]) % FieldSize]
    BY <2>2, <2>3
  <2> QED BY <2>4 DEF SumIter, c
<1>8. SumIter(col, S, it)
  <2> HIDE DEF g
  <2> QED BY <1>7
<1>9. Total(col) = it[S]
  BY <1>1, TotalIter
<1> HIDE DEF it
<1>10. \A s \in SUBSET S : it[s] = IF s = {} THEN 0 ELSE (col[c(s)] + it[s \ {c(s)}]) % FieldSize
  BY <1>8 DEF SumIter, c
<1> DEFINE D == {n \in Nat : \E s \in SUBSET S : Cardinality(s) = n /\ it[s] # Cardinality(On(s))}
<1>11. D = {}
  <2> SUFFICES ASSUME D # {} PROVE FALSE
    OBVIOUS
  <2>1. D \in SUBSET Nat
    OBVIOUS
  <2>2. \A n : n \in D <=> n \in Nat /\ \E s \in SUBSET S : Cardinality(s) = n /\ it[s] # Cardinality(On(s))
    OBVIOUS
  <2> HIDE DEF D
  <2>3. PICK n \in D : \A m \in D : n <= m
    BY <2>1, Least
  <2>4. PICK s \in SUBSET S : Cardinality(s) = n /\ it[s] # Cardinality(On(s))
    BY <2>2
  <2>5. s # {}
    BY <1>6, <1>10, <2>4
  <2> DEFINE x == c(s)
             t == s \ {x}
  <2>6. x \in s /\ t \in SUBSET S
    BY <1>4, <2>5
  <2>7. Cardinality(t) = n - 1 /\ Cardinality(t) \in Nat
    <3>1. IsFiniteSet(s)
      BY <1>1, FS_Subset
    <3>2. IsFiniteSet(t) /\ Cardinality(t) = Cardinality(s) - 1
      BY <2>6, <3>1, FS_RemoveElement
    <3> QED BY <2>4, <3>2, FS_CardinalityType
  <2> HIDE DEF t, x
  <2>8. it[t] = Cardinality(On(t))
    <3>1. Cardinality(t) \notin D
      BY <2>1, <2>3, <2>7
    <3> QED BY <2>2, <2>6, <2>7, <3>1
  <2>9. it[s] = (col[x] + it[t]) % FieldSize
    BY <1>10, <2>5 DEF x, t
  <2>10. Cardinality(On(s)) = (col[x] + Cardinality(On(t))) % FieldSize
    BY <1>5, <2>5 DEF x, t
  <2> QED BY <2>4, <2>8, <2>9, <2>10
<1>12. it[S] = Cardinality(On(S))
  <2>1. Cardinality(S) \in Nat /\ S \in SUBSET S
    BY <1>1, FS_CardinalityType
  <2> QED BY <1>11, <2>1
<1>13. On(S) = P
  BY <1>1 DEF On
<1> QED BY <1>9, <1>12, <1>13

\* A lookup holds of honest multiplicities, if no value is there more often than
\* the field can tell.
LEMMA LookupCounts ==
  ASSUME NEW included, NEW super, NEW m \in Nat, NEW n \in Nat,
         DOMAIN included = 1..m, DOMAIN super = 1..n, Among(included, super),
         \A v : TimesIn(included, v) < FieldSize
  PROVE  LookupHolds(LookupClaim(included, super, Multiplicities(included, super)))
<1> DEFINE mult == Multiplicities(included, super)
           Seen(j, v) == super[j].on /\ super[j].v = v
           P(v) == {i \in 1..m : included[i].on /\ included[i].v = v}
           First(v) == {j \in 1..n : Seen(j, v) /\ \A l \in 1..(j - 1) : ~Seen(l, v)}
           h(v) == [p \in P(v) |-> CHOOSE j \in First(v) : TRUE]
           col(v) == [i \in 1..n |-> IF Seen(i, v) THEN mult[i] ELSE 0]
<1>1. \A i \in 1..n : mult[i] = IF super[i].on /\ \A l \in 1..(i - 1) : ~Seen(l, super[i].v)
                                THEN TimesIn(included, super[i].v) ELSE 0
  BY DEF Multiplicities
<1> HIDE DEF mult
<1>2. \A v : TimesIn(included, v) = Cardinality(P(v)) /\ TotalOf(super, mult, v) = Total(col(v))
  BY DEF TimesIn, TotalOf
<1>3. ASSUME NEW v PROVE TimesIn(included, v) = TotalOf(super, mult, v)
  <2>1. P(v) # {} => First(v) # {}
    <3> SUFFICES ASSUME P(v) # {} PROVE First(v) # {}
      OBVIOUS
    <3>1. PICK i \in 1..m : included[i].on /\ included[i].v = v
      OBVIOUS
    <3> DEFINE D == {j \in 1..n : Seen(j, v)}
    <3>2. D # {}
      BY <3>1 DEF Among
    <3>3. D \in SUBSET Nat /\ \A j : j \in D <=> j \in 1..n /\ Seen(j, v)
      OBVIOUS
    <3> HIDE DEF D, Seen
    <3>4. PICK j \in D : \A l \in D : j <= l
      BY <3>2, <3>3, Least
    <3>5. j \in 1..n /\ Seen(j, v) /\ \A l \in 1..(j - 1) : l \in 1..n /\ ~(j <= l)
      BY <3>3, <3>4
    <3>6. \A l \in 1..(j - 1) : ~Seen(l, v)
      BY <3>3, <3>4, <3>5
    <3> QED BY <3>5, <3>6
  <2>2. \A j, l \in First(v) : j = l
    <3> SUFFICES ASSUME NEW j \in First(v), NEW l \in First(v) PROVE ~(j < l)
      <4>1. \A j, l \in First(v) : j \in Nat /\ l \in Nat
        OBVIOUS
      <4> HIDE DEF First
      <4> QED BY <4>1
    <3> HIDE DEF Seen
    <3> QED OBVIOUS
  <2>3. h(v) \in [P(v) -> 1..n] /\ \A p \in P(v) : h(v)[p] \in First(v)
    <3>1. First(v) \in SUBSET (1..n)
      OBVIOUS
    <3> HIDE DEF First, P
    <3>2. P(v) # {} => (CHOOSE j \in First(v) : TRUE) \in First(v)
      BY <2>1
    <3> QED BY <3>1, <3>2
  <2>4. ASSUME NEW i \in 1..n PROVE col(v)[i] = Cardinality({p \in P(v) : h(v)[p] = i})
    <3>1. {p \in P(v) : h(v)[p] = i} = IF i \in First(v) THEN P(v) ELSE {}
      <4> HIDE DEF First, P, h
      <4> QED BY <2>2, <2>3
    <3>2. i \in First(v) <=> Seen(i, v) /\ \A l \in 1..(i - 1) : ~Seen(l, v)
      OBVIOUS
    <3>3. col(v)[i] = IF Seen(i, v) THEN mult[i] ELSE 0
      OBVIOUS
    <3>4. Seen(i, v) => super[i].on /\ super[i].v = v
      OBVIOUS
    <3> HIDE DEF First, P, h, col, Seen
    <3>5. Cardinality({}) = 0
      BY FS_EmptySet
    <3>6. col(v)[i] = IF i \in First(v) THEN Cardinality(P(v)) ELSE 0
      BY <1>1, <1>2, <3>2, <3>3, <3>4
    <3> QED BY <3>1, <3>5, <3>6
  <2>5. IsFiniteSet(P(v))
    <3>1. P(v) \in SUBSET (1..m) /\ IsFiniteSet(1..m)
      BY FS_Interval
    <3> HIDE DEF P
    <3> QED BY <3>1, FS_Subset
  <2>6. DOMAIN col(v) = 1..n
    OBVIOUS
  <2>7. IsFiniteSet(1..n)
    BY FS_Interval
  <2>8. Cardinality(P(v)) < FieldSize
    BY <1>2
  <2> HIDE DEF P, h, col, First
  <2>9. CountsInto(P(v), 1..n, h(v), col(v))
    BY <2>3, <2>4, <2>5, <2>6, <2>7, <2>8 DEF CountsInto
  <2>10. Total(col(v)) = Cardinality(P(v))
    BY <2>9, TotalCounts
  <2> QED BY <1>2, <2>10
<1> QED BY <1>3 DEF LookupHolds, LookupClaim, mult

\* Only the first n rows of a table may count.
LEMMA FewTimes ==
  ASSUME NEW view, NEW n \in Nat, NEW N \in Nat, DOMAIN view = 1..N, n < FieldSize,
         \A i \in 1..N : view[i].on => i <= n
  PROVE  \A v : TimesIn(view, v) < FieldSize
<1> TAKE v
<1> DEFINE S == {i \in 1..N : view[i].on /\ view[i].v = v}
<1>1. TimesIn(view, v) = Cardinality(S)
  BY DEF TimesIn
<1>2. S \in SUBSET (1..n)
  OBVIOUS
<1>3. IsFiniteSet(1..n) /\ Cardinality(1..n) = n
  <2>1. IsFiniteSet(1..n) /\ Cardinality(1..n) = IF 1 > n THEN 0 ELSE n - 1 + 1
    BY FS_Interval
  <2> QED BY <2>1
<1> HIDE DEF S
<1>4. Cardinality(S) <= n /\ Cardinality(S) \in Nat
  <2>1. IsFiniteSet(S) /\ Cardinality(S) <= Cardinality(1..n)
    BY <1>2, <1>3, FS_Subset, Zenon
  <2>2. Cardinality(S) \in Nat
    BY <2>1, FS_CardinalityType
  <2> QED BY <1>3, <2>1, <2>2
<1>5. FieldSize \in Nat
  BY SortAssumption
<1> QED BY <1>1, <1>4, <1>5

-----------------------------------------------------------------------------
(* What is kept of a list.                                                 *)

\* e lists the members of S, m of them, in order.
Lists(e, m, S) ==
  /\ m \in Nat /\ e \in [1..m -> S]
  /\ \A j, k \in 1..m : j < k => e[j] < e[k]
  /\ \A i \in S : \E k \in 1..m : e[k] = i

LEMMA Listing == \A n \in Nat : \A S \in SUBSET (1..n) : \E m, e : Lists(e, m, S)
<1> DEFINE Listed(n) == \A S \in SUBSET (1..n) : \E m, e : Lists(e, m, S)
           D == {n \in Nat : ~Listed(n)}
<1> SUFFICES ASSUME D # {} PROVE FALSE
  OBVIOUS
<1>1. D \in SUBSET Nat /\ \A n : n \in D <=> n \in Nat /\ ~Listed(n)
  OBVIOUS
<1>2. Listed(0)
  <2> TAKE S \in SUBSET (1..0)
  <2> DEFINE e == [k \in 1..0 |-> k]
  <2>1. Lists(e, 0, S)
    BY DEF Lists
  <2> QED BY <2>1
<1>3. ASSUME NEW n \in Nat, n # 0, Listed(n - 1) PROVE Listed(n)
  <2> TAKE S \in SUBSET (1..n)
  <2>1. n - 1 \in Nat /\ S \ {n} \in SUBSET (1..(n - 1))
    BY <1>3
  <2>2. PICK m, e : Lists(e, m, S \ {n})
    BY <1>3, <2>1
  <2>3. /\ m \in Nat /\ e \in [1..m -> S \ {n}]
        /\ \A j, k \in 1..m : j < k => e[j] < e[k]
        /\ \A i \in S \ {n} : \E k \in 1..m : e[k] = i
    BY <2>2 DEF Lists
  <2>4. CASE n \notin S
    BY <2>2, <2>4
  <2>5. CASE n \in S
    <3> DEFINE g == [k \in 1..(m + 1) |-> IF k = m + 1 THEN n ELSE e[k]]
    <3>1. \A k \in 1..(m + 1) : k # m + 1 => k \in 1..m /\ e[k] \in S /\ e[k] < n
      <4> TAKE k \in 1..(m + 1)
      <4> HAVE k # m + 1
      <4>1. k \in 1..m
        BY <2>3
      <4>2. e[k] \in S \ {n}
        BY <2>3, <4>1
      <4>3. e[k] \in 1..(n - 1)
        BY <2>1, <4>2
      <4> QED BY <4>1, <4>2, <4>3
    <3>2. g \in [1..(m + 1) -> S]
      BY <2>5, <3>1
    <3>3. \A j, k \in 1..(m + 1) : j < k => g[j] < g[k]
      <4> TAKE j, k \in 1..(m + 1)
      <4> HAVE j < k
      <4>1. j # m + 1
        BY <2>3
      <4> QED BY <2>3, <3>1, <4>1
    <3>4. \A i \in S : \E k \in 1..(m + 1) : g[k] = i
      <4> TAKE i \in S
      <4>1. CASE i = n
        <5>1. m + 1 \in 1..(m + 1) /\ g[m + 1] = n
          BY <2>3
        <5> QED BY <4>1, <5>1
      <4>2. CASE i # n
        <5>1. PICK k \in 1..m : e[k] = i
          BY <2>3, <4>2
        <5>2. k \in 1..(m + 1) /\ k # m + 1
          BY <2>3
        <5>3. g[k] = i
          BY <5>1, <5>2
        <5> QED BY <5>2, <5>3
      <4> QED BY <4>1, <4>2
    <3> HIDE DEF g
    <3>5. Lists(g, m + 1, S)
      BY <2>3, <3>2, <3>3, <3>4 DEF Lists
    <3> QED BY <3>5
  <2> QED BY <2>4, <2>5
<1> HIDE DEF D, Listed
<1>4. PICK n \in D : \A l \in D : n <= l
  BY <1>1, Least
<1>5. n \in Nat /\ n # 0 /\ n - 1 \in Nat /\ n - 1 \notin D
  BY <1>1, <1>2, <1>4
<1> QED BY <1>1, <1>3, <1>4, <1>5

\* The members of a list that are kept are the ones at places e[1], .., e[m].
Keeps(list, n, keep, e, m) ==
  /\ m \in Nat /\ e \in [1..m -> 1..n]
  /\ \A j, k \in 1..m : j < k => e[j] < e[k]
  /\ \A i \in 1..n : list[i] \in keep <=> \E k \in 1..m : e[k] = i
  /\ DOMAIN Kept(list, keep) = 1..m /\ Len(Kept(list, keep)) = m
  /\ \A k \in 1..m : Kept(list, keep)[k] = list[e[k]]

LEMMA KeptMembers ==
  ASSUME NEW list, NEW keep, NEW n \in Nat, DOMAIN list = 1..n
  PROVE  \E e, m : Keeps(list, n, keep, e, m)
<1> DEFINE S == Places(list, keep)
<1>1. S \in SUBSET (1..n) /\ \A i \in 1..n : i \in S <=> list[i] \in keep
  BY DEF Places
<1>2. PICK m, e : Lists(e, m, S)
  BY <1>1, Listing
<1>3. /\ m \in Nat /\ e \in [1..m -> S]
      /\ \A j, k \in 1..m : j < k => e[j] < e[k]
      /\ \A i \in S : \E k \in 1..m : e[k] = i
  BY <1>2 DEF Lists
<1>4. Kept(list, keep) = Chosen(list, m, e)
  BY <1>3, KeptIs
<1>5. DOMAIN Kept(list, keep) = 1..m /\ Len(Kept(list, keep)) = m
      /\ \A k \in 1..m : Kept(list, keep)[k] = list[e[k]]
  BY <1>3, <1>4 DEF Chosen
<1>6. e \in [1..m -> 1..n] /\ \A i \in 1..n : list[i] \in keep <=> \E k \in 1..m : e[k] = i
  BY <1>1, <1>3
<1>7. Keeps(list, n, keep, e, m)
  BY <1>3, <1>5, <1>6 DEF Keeps
<1> QED BY <1>7
=============================================================================
