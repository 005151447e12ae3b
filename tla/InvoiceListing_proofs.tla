----------------------- MODULE InvoiceListing_proofs -----------------------
(***************************************************************************)
(* Proofs about InvoiceListing: a walk through the pages loses no row, for *)
(* any number of rows and creating requests, any limits, either store, and *)
(* restarts.  The order of a list is a strict total order, whatever the    *)
(* texts of the times are; the pages are cut at a row's rank in it; and an *)
(* insertion never lowers the rank of another row.  So the rows before the *)
(* offset were there at the beginning and have been given (Given), or were *)
(* inserted since (NewRows), and what is repeated can be counted.          *)
(***************************************************************************)
EXTENDS InvoiceListing, FiniteSetTheorems, WellFoundedInduction, TLAPS

\* The walk has been given every row of its beginning that the pages it has
\* fetched would show now.
Given ==
    walk.pc # "none" =>
        \A i \in asOf.rows \cap rows : Rank(i) < walk.offset => i \in seen

IInv == TypeOK /\ Given /\ WalkIsComplete

-----------------------------------------------------------------------------
(* The order of the texts.                                                 *)

LEMMA TextIsText ==
  ASSUME NEW t \in Moments
  PROVE  formatTime(t) \in [Cells -> Int]
<1> DEFINE f == Frac(t)
<1>1. Second(t) \in Int /\ f \in Int
  BY ListingAssumption DEF ListingAssumption, Moments, Second, Frac
<1>2. ASSUME NEW p \in 1..Width PROVE Digit(f, p) \in Int
  <2>1. Place[p] \in Nat \ {0}
    BY ListingAssumption DEF ListingAssumption
  <2>2. f \div Place[p] \in Int
    BY <1>1, <2>1
  <2>3. (f \div Place[p]) % Base \in Int
    BY <2>2, ListingAssumption DEF ListingAssumption
  <2> QED BY <2>3 DEF Digit
<1>3. Zed \in Int /\ Dot \in Int /\ Blank \in Int
  BY ListingAssumption DEF ListingAssumption, Zed, Dot, Blank
<1>4. Width \in Nat
  BY ListingAssumption DEF ListingAssumption
<1> HIDE DEF f
<1>5. ASSUME NEW k \in Cells
      PROVE  (CASE k = 0 -> Second(t)
                [] k = 1 -> IF f = 0 THEN Zed ELSE Dot
                [] k >= 2 -> IF f # 0 /\ k <= Width + 1 /\ Shown(f, k - 1) THEN Digit(f, k - 1)
                             ELSE IF f # 0 /\ (k = 2 \/ Shown(f, k - 2)) THEN Zed
                             ELSE Blank) \in Int
  <2>1. k \in Int /\ (k = 0 \/ k = 1 \/ k >= 2)
    BY <1>4 DEF Cells
  <2>2. CASE k = 0
    BY <2>2, <1>1
  <2>3. CASE k = 1
    BY <2>3, <1>3
  <2>4. CASE k >= 2
    <3>1. CASE f # 0 /\ k <= Width + 1 /\ Shown(f, k - 1)
      <4>1. k - 1 \in 1..Width
        BY <2>1, <2>4, <3>1, <1>4
      <4>2. Digit(f, k - 1) \in Int
        BY <4>1, <1>2
      <4> QED BY <2>1, <2>4, <3>1, <4>2
    <3>2. CASE ~(f # 0 /\ k <= Width + 1 /\ Shown(f, k - 1))
      BY <2>1, <2>4, <3>2, <1>3
    <3> QED BY <3>1, <3>2
  <2> QED BY <2>1, <2>2, <2>3, <2>4
<1> QED BY <1>5 DEF formatTime, f

LEMMA LeastDifference ==
  ASSUME NEW s \in [Cells -> Int], NEW t \in [Cells -> Int], s # t
  PROVE  \E k \in Cells : s[k] # t[k] /\ \A j \in 0..(k - 1) : s[j] = t[j]
<1>0. Width \in Nat
  BY ListingAssumption DEF ListingAssumption
<1> DEFINE Below(k) == 0..(k - 1)
           Bad == {k \in Cells : s[k] # t[k]}
           T == {Below(k) : k \in Bad}
<1>1. Bad # {}
  <2>1. SUFFICES ASSUME \A k \in Cells : s[k] = t[k] PROVE FALSE
    OBVIOUS
  <2> QED BY <2>1
<1>2. IsFiniteSet(Cells)
  BY <1>0, FS_Interval DEF Cells
<1>3. IsWellFoundedOn(StrictSubsetOrdering(Cells), SUBSET Cells)
  BY <1>2, FS_StrictSubsetOrderingWellFounded, FS_FiniteSubsetsOfFinite
<1>4. T \subseteq SUBSET Cells
  <2>1. ASSUME NEW k \in Bad, NEW j \in Below(k) PROVE j \in Cells
    <3>1. k \in 0..(Width + 2) /\ j \in 0..(k - 1)
      BY DEF Cells
    <3>2. j \in 0..(Width + 2)
      BY <3>1, <1>0
    <3> QED BY <3>2 DEF Cells
  <2> HIDE DEF Bad, Below
  <2> QED BY <2>1
<1>5. PICK x \in T : \A y \in T : ~(<<y, x>> \in StrictSubsetOrdering(Cells))
  <2>1. T # {}
    BY <1>1
  <2> HIDE DEF T
  <2> QED BY <1>3, <1>4, <2>1, WFMin
<1>6. PICK k \in Bad : x = Below(k)
  BY <1>5
<1>7. ASSUME NEW j \in 0..(k - 1), s[j] # t[j] PROVE FALSE
  <2>1. j \in Bad /\ j \in Int /\ k \in Int /\ j < k /\ j >= 0
    BY <1>0, <1>7, <1>6 DEF Cells
  <2>2. Below(j) \in T
    BY <2>1
  <2>3. Below(j) \subseteq Below(k) /\ j \in Below(k) /\ j \notin Below(j)
    BY <2>1
  <2>4. <<Below(j), Below(k)>> \in StrictSubsetOrdering(Cells)
    <3>1. Below(j) \in SUBSET Cells /\ Below(k) \in SUBSET Cells
      BY <1>4, <1>5, <1>6, <2>2
    <3>2. Below(j) # Below(k)
      BY <2>3
    <3> HIDE DEF Below
    <3> QED BY <3>1, <3>2, <2>3 DEF StrictSubsetOrdering
  <2> QED BY <1>5, <1>6, <2>2, <2>4
<1>8. k \in Cells /\ s[k] # t[k]
  BY <1>6
<1> QED BY <1>7, <1>8

LEMMA TextIsTotal ==
  ASSUME NEW s \in [Cells -> Int], NEW t \in [Cells -> Int], s # t
  PROVE  TextBefore(s, t) \/ TextBefore(t, s)
<1>1. PICK k \in Cells : s[k] # t[k] /\ \A j \in 0..(k - 1) : s[j] = t[j]
  BY LeastDifference
<1>2. s[k] \in Int /\ t[k] \in Int
  OBVIOUS
<1>3. s[k] < t[k] \/ t[k] < s[k]
  BY <1>1, <1>2
<1> QED BY <1>1, <1>3 DEF TextBefore

LEMMA TextIsAsymmetric ==
  ASSUME NEW s \in [Cells -> Int], NEW t \in [Cells -> Int], TextBefore(s, t)
  PROVE  ~TextBefore(t, s)
<1>1. SUFFICES ASSUME TextBefore(t, s) PROVE FALSE
  OBVIOUS
<1>2. PICK k \in Cells : s[k] < t[k] /\ \A j \in 0..(k - 1) : s[j] = t[j]
  BY DEF TextBefore
<1>3. PICK l \in Cells : t[l] < s[l] /\ \A j \in 0..(l - 1) : t[j] = s[j]
  BY <1>1 DEF TextBefore
<1>4. k \in Nat /\ l \in Nat
  BY ListingAssumption DEF ListingAssumption, Cells
<1>5. s[k] \in Int /\ t[k] \in Int /\ s[l] \in Int /\ t[l] \in Int
  OBVIOUS
<1>6. k < l \/ k = l \/ l < k
  BY <1>4
<1>7. CASE k < l
  <2>1. k \in 0..(l - 1) BY <1>4, <1>7
  <2> QED BY <1>2, <1>3, <1>5, <2>1
<1>8. CASE l < k
  <2>1. l \in 0..(k - 1) BY <1>4, <1>8
  <2> QED BY <1>2, <1>3, <1>5, <2>1
<1>9. CASE k = l
  BY <1>2, <1>3, <1>5, <1>9
<1> QED BY <1>6, <1>7, <1>8, <1>9

LEMMA TextIsTransitive ==
  ASSUME NEW s \in [Cells -> Int], NEW t \in [Cells -> Int], NEW u \in [Cells -> Int],
         TextBefore(s, t), TextBefore(t, u)
  PROVE  TextBefore(s, u)
<1>1. PICK k \in Cells : s[k] < t[k] /\ \A j \in 0..(k - 1) : s[j] = t[j]
  BY DEF TextBefore
<1>2. PICK l \in Cells : t[l] < u[l] /\ \A j \in 0..(l - 1) : t[j] = u[j]
  BY DEF TextBefore
<1>3. k \in Nat /\ l \in Nat
  BY ListingAssumption DEF ListingAssumption, Cells
<1>4. s[k] \in Int /\ t[k] \in Int /\ u[k] \in Int /\ s[l] \in Int /\ t[l] \in Int /\ u[l] \in Int
  OBVIOUS
<1>5. CASE k <= l
  <2>1. \A j \in 0..(k - 1) : j \in 0..(l - 1)
    BY <1>3, <1>5
  <2>2. k = l \/ k \in 0..(l - 1)
    BY <1>3, <1>5
  <2>3. s[k] < u[k]
    BY <1>1, <1>2, <1>4, <2>2
  <2> QED BY <1>1, <1>2, <2>1, <2>3 DEF TextBefore
<1>6. CASE l < k
  <2>1. \A j \in 0..(l - 1) : j \in 0..(k - 1)
    BY <1>3, <1>6
  <2>2. l \in 0..(k - 1)
    BY <1>3, <1>6
  <2>3. s[l] < u[l]
    BY <1>1, <1>2, <1>4, <2>2
  <2> QED BY <1>1, <1>2, <2>1, <2>3 DEF TextBefore
<1> QED BY <1>3, <1>5, <1>6

-----------------------------------------------------------------------------
(* The order of a list.                                                    *)

Engine == engine \in {"sqlite", "memory"}

\* Newer is a strict weak order of the moments, in both stores.
LEMMA NewerIsOrder ==
  ASSUME Engine, NEW t \in Moments, NEW u \in Moments, NEW v \in Moments
  PROVE  /\ Newer(t, u) => ~Newer(u, t)
         /\ Newer(t, u) /\ Newer(u, v) => Newer(t, v)
         /\ ~Newer(t, u) /\ ~Newer(u, v) => ~Newer(t, v)
<1> DEFINE a == formatTime(t)  b == formatTime(u)  c == formatTime(v)
<1>1. a \in [Cells -> Int] /\ b \in [Cells -> Int] /\ c \in [Cells -> Int]
  BY TextIsText
<1>2. CASE engine = "memory"
  <2>1. \A x, y : Newer(x, y) <=> y < x
    BY <1>2 DEF Newer
  <2>2. t \in Int /\ u \in Int /\ v \in Int
    BY DEF Moments
  <2> QED BY <2>1, <2>2
<1>3. CASE engine = "sqlite"
  <2>1. \A x, y \in Moments : Newer(x, y) <=> TextBefore(formatTime(y), formatTime(x))
    BY <1>3 DEF Newer, TextOrder
  <2>2. /\ Newer(t, u) <=> TextBefore(b, a)
        /\ Newer(u, t) <=> TextBefore(a, b)
        /\ Newer(u, v) <=> TextBefore(c, b)
        /\ Newer(t, v) <=> TextBefore(c, a)
    BY <2>1
  <2> HIDE DEF a, b, c
  <2>3. TextBefore(b, a) => ~TextBefore(a, b)
    BY <1>1, TextIsAsymmetric
  <2>4. TextBefore(c, b) /\ TextBefore(b, a) => TextBefore(c, a)
    BY <1>1, TextIsTransitive
  <2>5. ASSUME ~TextBefore(b, a), ~TextBefore(c, b) PROVE ~TextBefore(c, a)
    <3>1. SUFFICES ASSUME TextBefore(c, a) PROVE FALSE
      OBVIOUS
    <3>2. a = b \/ TextBefore(a, b)
      BY <1>1, <2>5, TextIsTotal
    <3>3. TextBefore(a, b) => TextBefore(c, b)
      BY <1>1, <3>1, TextIsTransitive
    <3> QED BY <2>5, <3>1, <3>2, <3>3
  <2> QED BY <2>2, <2>3, <2>4, <2>5
<1> QED BY <1>2, <1>3 DEF Engine

\* Precedes is a strict total order of the rows.
LEMMA PrecedesIsOrder ==
  ASSUME Engine, NEW R, R \subseteq Nat, \A i \in R : at[i] \in Moments,
         NEW i \in R, NEW j \in R, NEW k \in R
  PROVE  /\ ~Precedes(i, i)
         /\ Precedes(i, j) /\ Precedes(j, k) => Precedes(i, k)
         /\ i # j => Precedes(i, j) \/ Precedes(j, i)
<1>1. i \in Nat /\ j \in Nat /\ k \in Nat
  OBVIOUS
<1>2. at[i] \in Moments /\ at[j] \in Moments /\ at[k] \in Moments
  OBVIOUS
<1> DEFINE x == at[i]  y == at[j]  z == at[k]
<1> HIDE DEF x, y, z
<1>a. x \in Moments /\ y \in Moments /\ z \in Moments
  BY <1>2 DEF x, y, z
<1>3. ~Newer(x, x)
  BY <1>a, NewerIsOrder
<1>4. Newer(x, y) => ~Newer(y, x)
  BY <1>a, NewerIsOrder
<1>5. Newer(y, z) => ~Newer(z, y)
  BY <1>a, NewerIsOrder
<1>6. Newer(x, y) /\ Newer(y, z) => Newer(x, z)
  BY <1>a, NewerIsOrder
<1>7. ~Newer(x, z) /\ ~Newer(z, y) => ~Newer(x, y)
  BY <1>a, NewerIsOrder
<1>8. ~Newer(y, x) /\ ~Newer(x, z) => ~Newer(y, z)
  BY <1>a, NewerIsOrder
<1>9. ~Newer(z, y) /\ ~Newer(y, x) => ~Newer(z, x)
  BY <1>a, NewerIsOrder
<1>10. /\ Precedes(i, i) <=> Newer(x, x) \/ (~Newer(x, x) /\ i < i)
       /\ Precedes(i, j) <=> Newer(x, y) \/ (~Newer(y, x) /\ i < j)
       /\ Precedes(j, i) <=> Newer(y, x) \/ (~Newer(x, y) /\ j < i)
       /\ Precedes(j, k) <=> Newer(y, z) \/ (~Newer(z, y) /\ j < k)
       /\ Precedes(i, k) <=> Newer(x, z) \/ (~Newer(z, x) /\ i < k)
  BY DEF Precedes, x, y, z
<1>11. ~Precedes(i, i)
  BY <1>1, <1>3, <1>10
<1>12. ASSUME Precedes(i, j), Precedes(j, k) PROVE Precedes(i, k)
  BY <1>1, <1>4, <1>5, <1>6, <1>7, <1>8, <1>9, <1>10, <1>12
<1>13. i # j => Precedes(i, j) \/ Precedes(j, i)
  BY <1>1, <1>10
<1> QED BY <1>11, <1>12, <1>13

-----------------------------------------------------------------------------
(* Ranks and pages.                                                        *)

RowsOK == /\ Engine /\ rows \subseteq Nat /\ IsFiniteSet(rows)
          /\ \A i \in rows : at[i] \in Moments

Before(i) == {j \in rows : Precedes(j, i)}

LEMMA RankType ==
  ASSUME RowsOK, NEW i
  PROVE  IsFiniteSet(Before(i)) /\ Rank(i) = Cardinality(Before(i)) /\ Rank(i) \in Nat
<1>1. Before(i) \in SUBSET rows
  BY DEF Before
<1>2. IsFiniteSet(Before(i))
  BY <1>1, FS_Subset DEF RowsOK
<1> QED BY <1>2, FS_CardinalityType DEF Rank, Before

LEMMA RankIsMonotone ==
  ASSUME RowsOK, NEW i \in rows, NEW j \in rows, Precedes(i, j)
  PROVE  /\ Before(i) \subseteq Before(j) /\ i \in Before(j) /\ i \notin Before(i)
         /\ Rank(i) < Rank(j)
<1>1. \A x, y, z \in rows : /\ ~Precedes(x, x)
                            /\ Precedes(x, y) /\ Precedes(y, z) => Precedes(x, z)
  BY PrecedesIsOrder DEF RowsOK
<1>2. Before(i) \subseteq Before(j) /\ i \in Before(j) /\ i \notin Before(i)
  BY <1>1 DEF Before
<1>3. IsFiniteSet(Before(j))
  BY RankType
<1>4. /\ Cardinality(Before(i)) <= Cardinality(Before(j))
      /\ Cardinality(Before(i)) # Cardinality(Before(j))
  BY <1>2, <1>3, FS_Subset
<1> QED BY <1>2, <1>4, RankType

LEMMA RankIsInjective ==
  ASSUME RowsOK, NEW i \in rows, NEW j \in rows, i # j
  PROVE  Rank(i) # Rank(j)
<1>1. Precedes(i, j) \/ Precedes(j, i)
  BY PrecedesIsOrder DEF RowsOK
<1>2. Rank(i) \in Nat /\ Rank(j) \in Nat
  BY RankType
<1>3. Rank(i) < Rank(j) \/ Rank(j) < Rank(i)
  BY <1>1, RankIsMonotone
<1> QED BY <1>2, <1>3

\* Rows whose ranks lie in an interval are no more than its numbers.
LEMMA RanksFit ==
  ASSUME RowsOK, NEW lo \in Nat, NEW hi \in Nat, lo <= hi, NEW S \in SUBSET rows,
         \A i \in S : Rank(i) >= lo /\ Rank(i) < hi
  PROVE  IsFiniteSet(S) /\ Cardinality(S) \in Nat /\ Cardinality(S) <= hi - lo
<1>1. IsFiniteSet(S) /\ Cardinality(S) \in Nat
  BY FS_Subset, FS_CardinalityType DEF RowsOK
<1>2. lo \in Int /\ hi - 1 \in Int
  OBVIOUS
<1>3. IsFiniteSet(lo..(hi - 1)) /\ Cardinality(lo..(hi - 1)) = hi - lo
  <2>1. Cardinality(lo..(hi - 1)) = IF lo > hi - 1 THEN 0 ELSE (hi - 1) - lo + 1
    BY <1>2, FS_Interval
  <2>2. IsFiniteSet(lo..(hi - 1))
    BY <1>2, FS_Interval
  <2> QED BY <2>1, <2>2
<1> DEFINE f == [i \in S |-> Rank(i)]
<1>4. f \in [S -> lo..(hi - 1)]
  <2>1. ASSUME NEW i \in S PROVE Rank(i) \in lo..(hi - 1)
    <3>1. Rank(i) \in Nat
      BY RankType
    <3> QED BY <3>1
  <2> QED BY <2>1
<1>5. \A x, y \in S : x # y => f[x] # f[y]
  BY RankIsInjective
<1> HIDE DEF f
<1>6. ~(Cardinality(lo..(hi - 1)) < Cardinality(S))
  BY <1>1, <1>3, <1>4, <1>5, FS_PigeonHole
<1> QED BY <1>1, <1>3, <1>6

\* When a row has the rank off or a higher one, there is such a row behind
\* lower ranks only.
LEMMA LeastFrom ==
  ASSUME RowsOK, NEW off \in Nat, NEW r \in rows, Rank(r) >= off
  PROVE  \E m \in rows : Rank(m) >= off /\ \A j \in Before(m) : Rank(j) < off
<1> DEFINE Behind == {i \in rows : Rank(i) >= off}
           T == {Before(i) : i \in Behind}
<1>1. IsWellFoundedOn(StrictSubsetOrdering(rows), SUBSET rows)
  BY FS_StrictSubsetOrderingWellFounded, FS_FiniteSubsetsOfFinite DEF RowsOK
<1>2. T \subseteq SUBSET rows /\ T # {}
  BY DEF Before
<1>3. PICK x \in T : \A y \in T : ~(<<y, x>> \in StrictSubsetOrdering(rows))
  <2> HIDE DEF T
  <2> QED BY <1>1, <1>2, WFMin
<1>4. PICK m \in Behind : x = Before(m)
  BY <1>3
<1>5. ASSUME NEW j \in Before(m) PROVE Rank(j) < off
  <2>1. j \in rows /\ Precedes(j, m) /\ m \in rows
    BY <1>4 DEF Before
  <2>2. Rank(j) \in Nat
    BY RankType
  <2>3. ASSUME Rank(j) >= off PROVE FALSE
    <3>1. Before(j) \in T
      BY <2>1, <2>3
    <3>2. Before(j) \subseteq Before(m) /\ Before(j) # Before(m)
      BY <2>1, RankIsMonotone
    <3>3. Before(j) \in SUBSET rows /\ Before(m) \in SUBSET rows
      BY DEF Before
    <3>4. <<Before(j), Before(m)>> \in StrictSubsetOrdering(rows)
      BY <3>2, <3>3 DEF StrictSubsetOrdering
    <3> QED BY <1>3, <1>4, <3>1, <3>4
  <2> QED BY <2>2, <2>3
<1>6. m \in rows /\ Rank(m) >= off
  BY <1>4
<1> QED BY <1>5, <1>6

\* The ranks have no gap: as many rows as there are have the lowest ones.
LEMMA RanksFill ==
  ASSUME RowsOK, NEW k \in Nat, k <= Cardinality(rows)
  PROVE  Cardinality({i \in rows : Rank(i) < k}) >= k
<1> DEFINE B == {i \in rows : Rank(i) < k}
<1>1. B \in SUBSET rows /\ IsFiniteSet(B) /\ Cardinality(B) \in Nat /\ Cardinality(rows) \in Nat
  BY FS_Subset, FS_CardinalityType DEF RowsOK
<1>2. CASE B = rows
  BY <1>1, <1>2
<1>3. CASE B # rows
  <2>1. PICK r \in rows : Rank(r) >= k
    <3>1. PICK r \in rows : ~(Rank(r) < k)
      BY <1>3
    <3>2. Rank(r) \in Nat
      BY RankType
    <3> QED BY <3>1, <3>2
  <2>2. PICK m \in rows : Rank(m) >= k /\ \A j \in Before(m) : Rank(j) < k
    BY <2>1, LeastFrom
  <2>3. Before(m) \in SUBSET B
    BY <2>2 DEF Before
  <2>4. Rank(m) = Cardinality(Before(m)) /\ Rank(m) \in Nat
    BY RankType
  <2> HIDE DEF B
  <2>5. Cardinality(Before(m)) <= Cardinality(B)
    BY <1>1, <2>3, FS_Subset
  <2>6. Cardinality(B) >= k
    BY <1>1, <2>2, <2>4, <2>5
  <2> QED BY <2>6 DEF B
<1> QED BY <1>2, <1>3

\* An empty page is behind every row.
LEMMA EmptyPageIsTheEnd ==
  ASSUME RowsOK, NEW off \in Nat, NEW n \in Nat \ {0},
         {i \in rows : Rank(i) >= off /\ Rank(i) < off + n} = {}
  PROVE  \A i \in rows : Rank(i) < off
<1> SUFFICES ASSUME NEW r \in rows, Rank(r) >= off PROVE FALSE
  <2>1. \A i \in rows : Rank(i) \in Nat
    BY RankType
  <2> QED BY <2>1
<1>1. PICK m \in rows : Rank(m) >= off /\ \A j \in Before(m) : Rank(j) < off
  BY LeastFrom
<1>2. Rank(m) = Cardinality(Before(m)) /\ Rank(m) \in Nat
  BY RankType
<1>3. Cardinality(Before(m)) <= off - 0
  <2>1. Before(m) \in SUBSET rows /\ 0 \in Nat /\ 0 <= off
    BY DEF Before
  <2>2. \A j \in Before(m) : Rank(j) >= 0 /\ Rank(j) < off
    BY <1>1, <2>1, RankType
  <2> QED BY <2>1, <2>2, RanksFit
<1>4. Rank(m) < off + n
  BY <1>2, <1>3
<1> QED BY <1>1, <1>4

\* A page that is not empty ends within the list.
LEMMA PageEndsInList ==
  ASSUME RowsOK, NEW off \in Nat, NEW page \in SUBSET rows, page # {},
         \A i \in page : Rank(i) >= off
  PROVE  off + Cardinality(page) <= Cardinality(rows)
<1> DEFINE B == {i \in rows : Rank(i) < off}
<1>1. /\ B \in SUBSET rows /\ B \cap page = {}
      /\ IsFiniteSet(rows) /\ IsFiniteSet(B) /\ IsFiniteSet(page) /\ IsFiniteSet({})
  <2>1. \A i \in page : ~(Rank(i) < off)
    BY RankType
  <2> QED BY <2>1, FS_Subset, FS_EmptySet DEF RowsOK
<1>2. off <= Cardinality(rows) /\ Cardinality(rows) \in Nat
  <2>1. PICK m \in page : Rank(m) >= off
    OBVIOUS
  <2>2. Rank(m) \in Nat /\ Rank(m) = Cardinality(Before(m))
    BY RankType
  <2>3. Before(m) \in SUBSET rows
    BY DEF Before
  <2>4. Cardinality(Before(m)) <= Cardinality(rows) /\ Cardinality(rows) \in Nat
    BY <1>1, <2>3, FS_Subset, FS_CardinalityType
  <2> QED BY <2>1, <2>2, <2>4
<1>3. Cardinality(B) >= off
  BY <1>2, RanksFill
<1> HIDE DEF B
<1>4. Cardinality(B \cup page) = Cardinality(B) + Cardinality(page) - Cardinality({})
  BY <1>1, FS_Union
<1>5. Cardinality({}) = 0
  BY FS_EmptySet
<1>6. B \cup page \in SUBSET rows
  BY <1>1
<1>7. Cardinality(B \cup page) <= Cardinality(rows)
  BY <1>1, <1>6, FS_Subset
<1>8. Cardinality(B) \in Nat /\ Cardinality(page) \in Nat
  BY <1>1, FS_CardinalityType
<1> QED BY <1>2, <1>3, <1>4, <1>5, <1>7, <1>8

LEMMA RowsAreOK ==
  ASSUME TypeOK
  PROVE  RowsOK
<1>1. made \in Nat /\ rows \subseteq 1..made /\ 1..made \subseteq RowIds
  BY ListingAssumption DEF ListingAssumption, TypeOK, RowIds
<1>2. IsFiniteSet(rows)
  <2>1. made \in Int /\ 1 \in Int /\ rows \in SUBSET (1..made)
    BY <1>1
  <2>2. IsFiniteSet(1..made)
    BY <2>1, FS_Interval
  <2> QED BY <2>1, <2>2, FS_Subset
<1>3. \A i \in rows : at[i] \in Moments
  BY <1>1 DEF TypeOK
<1> QED BY <1>1, <1>2, <1>3 DEF TypeOK, RowsOK, Engine

LEMMA PageFacts ==
  ASSUME TypeOK
  PROVE  LET n    == RowLimit(HandlerLimit(walk.limit))
             page == ListByMerchant(HandlerLimit(walk.limit), walk.offset)
         IN  /\ n \in Nat /\ (n = 0 => rows = {})
             /\ page = {i \in rows : Rank(i) >= walk.offset /\ Rank(i) < walk.offset + n}
             /\ Cardinality(page) \in Nat /\ Cardinality(page) <= n
<1> DEFINE h    == HandlerLimit(walk.limit)
           n    == RowLimit(h)
           page == ListByMerchant(h, walk.offset)
<1>0. RowsOK /\ walk.limit \in Int /\ walk.offset \in Nat
  BY RowsAreOK DEF TypeOK, Walk
<1>1. h \in Nat
  BY <1>0, ListingAssumption DEF ListingAssumption, HandlerLimit, queryInt
<1>2. Cardinality(rows) \in Nat /\ (Cardinality(rows) = 0 => rows = {})
  BY <1>0, FS_CardinalityType, FS_EmptySet DEF RowsOK
<1>3. n \in Nat /\ (n = 0 => rows = {})
  <2> HIDE DEF h
  <2> QED BY <1>1, <1>2, ListingAssumption DEF ListingAssumption, RowLimit
<1>4. page = {i \in rows : Rank(i) >= walk.offset /\ Rank(i) < walk.offset + n}
  BY DEF ListByMerchant
<1>5. Cardinality(page) \in Nat /\ Cardinality(page) <= n
  <2> HIDE DEF n, page
  <2>1. page \in SUBSET rows /\ walk.offset + n \in Nat /\ walk.offset <= walk.offset + n
    BY <1>0, <1>3, <1>4
  <2>2. \A i \in page : Rank(i) >= walk.offset /\ Rank(i) < walk.offset + n
    BY <1>4
  <2>3. Cardinality(page) \in Nat /\ Cardinality(page) <= (walk.offset + n) - walk.offset
    BY <1>0, <2>1, <2>2, RanksFit
  <2> QED BY <1>0, <1>3, <2>3
<1> QED BY <1>3, <1>4, <1>5

-----------------------------------------------------------------------------
(* The invariant.                                                          *)

LEMMA InitIInv == Init => IInv
<1> SUFFICES ASSUME Init PROVE IInv
  OBVIOUS
<1>1. TypeOK
  BY ListingAssumption DEF ListingAssumption, Init, TypeOK, Moments, Walk, Request, Idle, RowIds
<1>2. Given /\ WalkIsComplete
  BY DEF Init, Given, WalkIsComplete
<1> QED BY <1>1, <1>2 DEF IInv

\* When neither the rows nor the walk change, nothing does that IInv relates.
LEMMA WalkUntouched ==
  ASSUME IInv, TypeOK', UNCHANGED <<engine, rows, at, walk, seen, asOf>>
  PROVE  IInv'
<1>1. \A i : Rank(i)' = Rank(i)
  BY DEF Rank, Precedes, Newer
<1> QED BY <1>1 DEF IInv, Given, WalkIsComplete

LEMMA InsertKeepsIInv ==
  ASSUME IInv, NEW c \in Creators, Insert(c)
  PROVE  IInv'
<1>0. TypeOK /\ Given /\ WalkIsComplete /\ RowsOK
  BY RowsAreOK DEF IInv
<1>1. /\ made \in Nat /\ made + 1 \in RowIds /\ rows \subseteq 1..made /\ MaxRows \in Nat
      /\ 1..made \subseteq 1..(made + 1) /\ made + 1 \in 1..(made + 1)
  BY <1>0, ListingAssumption DEF ListingAssumption, TypeOK, RowIds, Insert
<1>2. create[c].at \in Moments /\ made' = made + 1
  BY <1>0 DEF TypeOK, Request, Insert
<1>3. TypeOK'
  <2>1. at' \in [RowIds -> Moments]
    BY <1>0, <1>1, <1>2 DEF TypeOK, Insert
  <2>2. made' \in 0..MaxRows /\ rows' \subseteq 1..made' /\ seen' \subseteq 1..made'
    BY <1>0, <1>1, <1>2 DEF TypeOK, Insert
  <2>3. create' \in [Creators -> Request]
    BY <1>0, ListingAssumption DEF ListingAssumption, TypeOK, Insert, Idle, Request, Moments
  <2>4. asOf' \in [rows: SUBSET (1..made'), made: 0..made']
    <3>1. asOf.rows \subseteq 1..made /\ asOf.made \in 0..made /\ asOf' = asOf
          /\ asOf = [rows |-> asOf.rows, made |-> asOf.made]
      BY <1>0 DEF TypeOK, Insert
    <3>2. asOf.rows \in SUBSET (1..made') /\ asOf.made \in 0..made'
      BY <3>1, <1>1, <1>2
    <3> QED BY <3>1, <3>2
  <2> QED BY <1>0, <2>1, <2>2, <2>3, <2>4 DEF TypeOK, Insert
\* The rows before an old row stay before it.
<1>4. ASSUME NEW i \in rows PROVE Rank(i) <= Rank(i)' /\ Rank(i) \in Nat /\ Rank(i)' \in Nat
  <2>1. \A j \in rows : at'[j] = at[j]
    BY <1>0, <1>1 DEF TypeOK, Insert
  <2>2. rows \subseteq rows' /\ engine' = engine
    BY DEF Insert
  <2>3. Before(i) \subseteq {j \in rows' : Precedes(j, i)'}
    BY <2>1, <2>2 DEF Before, Precedes, Newer
  <2>4. IsFiniteSet({j \in rows' : Precedes(j, i)'})
    <3>1. IsFiniteSet(rows')
      BY <1>0, FS_AddElement DEF Insert, RowsOK
    <3> QED BY <3>1, FS_Subset
  <2>5. Rank(i)' = Cardinality({j \in rows' : Precedes(j, i)'})
    BY DEF Rank
  <2>6. Rank(i) = Cardinality(Before(i)) /\ Rank(i) \in Nat
    BY <1>0, RankType
  <2>7. Cardinality(Before(i)) <= Cardinality({j \in rows' : Precedes(j, i)'})
    BY <2>3, <2>4, FS_Subset
  <2> QED BY <2>4, <2>5, <2>6, <2>7, FS_CardinalityType
<1>6. asOf.rows \cap rows' = asOf.rows \cap rows
  <2>1. asOf.rows \subseteq 1..made
    BY <1>0 DEF TypeOK
  <2>2. made + 1 \notin asOf.rows
    BY <1>1, <2>1
  <2> QED BY <2>2 DEF Insert
<1>7. Given'
  <2>1. SUFFICES ASSUME walk.pc # "none", NEW i \in asOf.rows \cap rows, Rank(i)' < walk.offset
                 PROVE  i \in seen
    BY <1>6 DEF Given, Insert
  <2>2. Rank(i) < walk.offset
    <3>1. walk.offset \in Nat
      BY <1>0 DEF TypeOK, Walk
    <3> QED BY <3>1, <2>1, <1>4
  <2> QED BY <1>0, <2>1, <2>2 DEF Given
<1>8. WalkIsComplete'
  BY <1>0, <1>6 DEF WalkIsComplete, Insert
<1> QED BY <1>3, <1>7, <1>8 DEF IInv

LEMMA FetchKeepsIInv ==
  ASSUME IInv, Fetch
  PROVE  IInv'
<1> DEFINE n    == RowLimit(HandlerLimit(walk.limit))
           page == ListByMerchant(HandlerLimit(walk.limit), walk.offset)
<1>0. TypeOK /\ Given /\ RowsOK /\ walk.offset \in Nat /\ walk.limit \in Int
  BY RowsAreOK DEF IInv, TypeOK, Walk
<1>1. /\ n \in Nat /\ (n = 0 => rows = {})
      /\ page = {i \in rows : Rank(i) >= walk.offset /\ Rank(i) < walk.offset + n}
      /\ Cardinality(page) \in Nat /\ Cardinality(page) <= n
  BY <1>0, PageFacts
<1>2. /\ walk.pc = "walking" /\ seen' = seen \cup page
      /\ walk' = [pc |-> IF page = {} THEN "done" ELSE "walking", limit |-> walk.limit,
                  offset |-> walk.offset + Cardinality(page)]
      /\ UNCHANGED <<engine, clock, create, made, rows, at, restarts, asOf>>
  BY DEF Fetch
<1> HIDE DEF n, page
<1>3. \A i : Rank(i)' = Rank(i)
  BY <1>2 DEF Rank, Precedes, Newer
<1>4. TypeOK'
  <2>1. walk' \in Walk
    BY <1>0, <1>1, <1>2 DEF Walk
  <2>2. seen' \subseteq 1..made'
    BY <1>0, <1>1, <1>2 DEF TypeOK
  <2> QED BY <1>0, <1>2, <2>1, <2>2 DEF TypeOK
<1>5. Given'
  <2>1. SUFFICES ASSUME NEW i \in asOf.rows \cap rows, Rank(i) < walk.offset + Cardinality(page)
                 PROVE  i \in seen \cup page
    BY <1>2, <1>3 DEF Given
  <2>2. Rank(i) \in Nat
    BY <1>0, RankType
  <2>3. CASE Rank(i) < walk.offset
    BY <1>0, <1>2, <2>1, <2>3 DEF Given
  <2>4. CASE Rank(i) >= walk.offset
    <3>1. Rank(i) < walk.offset + n
      BY <1>0, <1>1, <2>1, <2>2
    <3> QED BY <1>1, <2>1, <2>4, <3>1
  <2> QED BY <1>0, <2>2, <2>3, <2>4
<1>6. WalkIsComplete'
  <2>1. SUFFICES ASSUME page = {}, NEW i \in asOf.rows \cap rows PROVE i \in seen
    BY <1>2 DEF WalkIsComplete
  <2>2. n # 0
    BY <1>1, <2>1
  <2>3. Rank(i) < walk.offset
    <3>1. n \in Nat \ {0} /\ {k \in rows : Rank(k) >= walk.offset /\ Rank(k) < walk.offset + n} = {}
      BY <1>1, <2>1, <2>2
    <3>2. \A k \in rows : Rank(k) < walk.offset
      BY <1>0, <3>1, EmptyPageIsTheEnd
    <3> QED BY <3>2
  <2> QED BY <1>0, <1>2, <2>3 DEF Given
<1> QED BY <1>4, <1>5, <1>6 DEF IInv

LEMMA NextKeepsIInv == IInv /\ [Next]_vars => IInv'
<1> SUFFICES ASSUME IInv, [Next]_vars PROVE IInv'
  OBVIOUS
<1>0. TypeOK
  BY DEF IInv
<1>1. CASE Tick
  <2>1. TypeOK'
    BY <1>0, <1>1, ListingAssumption DEF ListingAssumption, TypeOK, Tick, Moments
  <2> QED BY <1>1, <2>1, WalkUntouched DEF Tick
<1>2. ASSUME NEW c \in Creators, ReadClock(c) PROVE IInv'
  <2>1. TypeOK'
    BY <1>0, <1>2 DEF TypeOK, ReadClock, Request
  <2> QED BY <1>2, <2>1, WalkUntouched DEF ReadClock
<1>3. ASSUME NEW c \in Creators, Insert(c) PROVE IInv'
  BY <1>3, InsertKeepsIInv
<1>4. ASSUME NEW c \in Creators, InsertFails(c) PROVE IInv'
  <2>1. TypeOK'
    BY <1>0, <1>4, ListingAssumption
    DEF ListingAssumption, TypeOK, InsertFails, Request, Idle, Moments
  <2> QED BY <1>4, <2>1, WalkUntouched DEF InsertFails
<1>5. ASSUME NEW v \in Asked, BeginWalk(v) PROVE IInv'
  <2>1. TypeOK'
    BY <1>0, <1>5, ListingAssumption DEF ListingAssumption, TypeOK, BeginWalk, Walk
  <2>2. \A i \in rows : Rank(i)' = Rank(i) /\ Rank(i) \in Nat
    BY <1>0, <1>5, RowsAreOK, RankType DEF BeginWalk, Rank, Precedes, Newer
  <2>3. rows' = rows /\ walk'.offset = 0 /\ walk'.pc = "walking"
    BY <1>5 DEF BeginWalk
  <2>4. Given'
    <3>1. \A i \in rows : ~(Rank(i)' < 0)
      BY <2>2
    <3> QED BY <2>3, <3>1 DEF Given
  <2>5. WalkIsComplete'
    BY <2>3 DEF WalkIsComplete
  <2> QED BY <2>1, <2>4, <2>5 DEF IInv
<1>6. CASE Fetch
  BY <1>6, FetchKeepsIInv
<1>7. CASE Restart
  <2>1. TypeOK'
    <3>1. rows' \subseteq 1..made'
      BY <1>0, <1>7 DEF TypeOK, Restart
    <3>2. create' \in [Creators -> Request] /\ restarts' \in 0..MaxRestarts
      BY <1>0, <1>7, ListingAssumption
      DEF ListingAssumption, TypeOK, Restart, Request, Idle, Moments
    <3> QED BY <1>0, <1>7, <3>1, <3>2 DEF TypeOK, Restart
  <2>2. CASE engine = "memory"
    BY <1>7, <2>1, <2>2 DEF IInv, Given, WalkIsComplete, Restart
  <2>3. CASE engine # "memory"
    BY <1>7, <2>1, <2>3, WalkUntouched DEF Restart
  <2> QED BY <2>2, <2>3
<1>8. CASE UNCHANGED vars
  BY <1>0, <1>8, WalkUntouched DEF vars, TypeOK
<1> QED BY <1>1, <1>2, <1>3, <1>4, <1>5, <1>6, <1>7, <1>8 DEF Next

THEOREM Invariance == Spec => []IInv
BY InitIInv, NextKeepsIInv, PTL DEF Spec

\* The rows, the walk and its history have their types (InvoiceListing).
THEOREM TypeCorrect == Spec => []TypeOK
<1>1. IInv => TypeOK
  BY DEF IInv
<1> QED BY <1>1, Invariance, PTL

\* A merchant who pages until a page is empty has been given every invoice
\* that was there when it began, while others are inserted anywhere in the
\* list: ListByMerchant of either store, with any limit.
THEOREM NoRowIsSkipped == Spec => []WalkIsComplete
<1>1. IInv => WalkIsComplete
  BY DEF IInv
<1> QED BY <1>1, Invariance, PTL

-----------------------------------------------------------------------------
(* Repetitions.  The rows before the offset that were there at the         *)
(* beginning have been given, and the others were inserted since.          *)

NewRows == walk.pc # "none" => rows \ asOf.rows \subseteq (asOf.made + 1)..made
RepeatInv == NewRows /\ RepeatsAreInserts

LEMMA FetchedRowsAreCounted ==
  ASSUME IInv, IInv', NewRows, Fetch, walk'.offset # walk.offset
  PROVE  walk'.offset - Cardinality(seen') <= made - asOf.made
<1> DEFINE n    == RowLimit(HandlerLimit(walk.limit))
           page == ListByMerchant(HandlerLimit(walk.limit), walk.offset)
<1>1. /\ TypeOK /\ RowsOK /\ walk.offset \in Nat /\ walk'.offset \in Nat
      /\ made \in Nat /\ asOf.made \in 0..made
  BY RowsAreOK DEF IInv, TypeOK, Walk
<1>2. /\ page = {i \in rows : Rank(i) >= walk.offset /\ Rank(i) < walk.offset + n}
      /\ Cardinality(page) \in Nat
  BY <1>1, PageFacts
<1>3. /\ walk.pc = "walking" /\ walk'.pc # "none"
      /\ walk'.offset = walk.offset + Cardinality(page)
      /\ UNCHANGED <<engine, rows, at, asOf>>
  BY DEF Fetch
<1>4. page \in SUBSET rows /\ (\A i \in page : Rank(i) >= walk.offset)
  BY <1>2
<1> HIDE DEF n, page
<1>5. page # {}
  BY <1>1, <1>3, FS_EmptySet
<1>6. walk'.offset <= Cardinality(rows)
  BY <1>1, <1>3, <1>4, <1>5, PageEndsInList
<1> DEFINE B   == {i \in rows : Rank(i) < walk'.offset}
           old == B \cap asOf.rows
           new == B \ asOf.rows
<1>7. Cardinality(B) >= walk'.offset
  BY <1>1, <1>6, RanksFill
<1>8. old \in SUBSET seen'
  <2>1. \A i : Rank(i)' = Rank(i)
    BY <1>3 DEF Rank, Precedes, Newer
  <2> QED BY <1>3, <2>1 DEF IInv, Given
<1>9. new \in SUBSET ((asOf.made + 1)..made)
  BY <1>3 DEF NewRows
<1>10. IsFiniteSet(seen') /\ IsFiniteSet(B) /\ B \in SUBSET rows
  <2>1. seen' \in SUBSET (1..made') /\ made' \in Int
    BY <1>1 DEF IInv, TypeOK, Fetch
  <2> HIDE DEF IInv
  <2>2. IsFiniteSet(1..made')
    BY <2>1, FS_Interval
  <2>3. IsFiniteSet(seen')
    BY <2>1, <2>2, FS_Subset
  <2> QED BY <1>1, <2>3, FS_Subset DEF RowsOK
<1> HIDE DEF B
<1>11. /\ Cardinality(old) <= Cardinality(seen') /\ IsFiniteSet(old)
  BY <1>8, <1>10, FS_Subset
<1>12. Cardinality(new) <= made - asOf.made
  <2>1. asOf.made + 1 \in Int /\ made \in Int
    BY <1>1
  <2>2. /\ IsFiniteSet((asOf.made + 1)..made)
        /\ Cardinality((asOf.made + 1)..made) = IF asOf.made + 1 > made THEN 0
                                                 ELSE made - (asOf.made + 1) + 1
    BY <2>1, FS_Interval
  <2>3. Cardinality((asOf.made + 1)..made) = made - asOf.made
    BY <1>1, <2>2
  <2>4. Cardinality(new) <= Cardinality((asOf.made + 1)..made)
    <3> HIDE DEF new
    <3> QED BY <1>9, <2>2, FS_Subset
  <2> QED BY <2>3, <2>4
<1>13. Cardinality(new) = Cardinality(B) - Cardinality(old)
  BY <1>10, FS_Difference
<1>14. /\ Cardinality(B) \in Nat /\ Cardinality(old) \in Nat /\ Cardinality(seen') \in Nat
  BY <1>10, <1>11, FS_CardinalityType
<1> HIDE DEF old, new
<1> QED BY <1>1, <1>7, <1>11, <1>12, <1>13, <1>14

LEMMA RepeatsArePreserved == IInv /\ IInv' /\ RepeatInv /\ [Next]_vars => RepeatInv'
<1> SUFFICES ASSUME IInv, IInv', RepeatInv, [Next]_vars PROVE RepeatInv'
  OBVIOUS
<1>1. /\ made \in Nat /\ asOf.made \in 0..made /\ rows \subseteq 1..made /\ walk.offset \in Nat
      /\ Cardinality(seen) \in Nat
  <2>1. /\ made \in Nat /\ asOf.made \in 0..made /\ rows \subseteq 1..made /\ walk.offset \in Nat
        /\ seen \in SUBSET (1..made) /\ 1 \in Int /\ made \in Int
    BY ListingAssumption DEF ListingAssumption, IInv, TypeOK, Walk
  <2>2. IsFiniteSet(1..made)
    BY <2>1, FS_Interval
  <2>3. IsFiniteSet(seen)
    BY <2>1, <2>2, FS_Subset
  <2> QED BY <2>1, <2>3, FS_CardinalityType
<1>2. CASE Tick \/ (\E c \in Creators : ReadClock(c) \/ InsertFails(c)) \/ UNCHANGED vars
  BY <1>2 DEF Tick, ReadClock, InsertFails, vars, RepeatInv, NewRows, RepeatsAreInserts
<1>3. CASE \E c \in Creators : Insert(c)
  <2>1. /\ made' = made + 1 /\ rows' = rows \cup {made + 1}
        /\ UNCHANGED <<walk, seen, asOf>>
    BY <1>3 DEF Insert
  <2>2. NewRows'
    BY <1>1, <2>1 DEF RepeatInv, NewRows
  <2>3. RepeatsAreInserts'
    BY <1>1, <2>1 DEF RepeatInv, RepeatsAreInserts
  <2> QED BY <2>2, <2>3 DEF RepeatInv
<1>4. CASE \E v \in Asked : BeginWalk(v)
  <2>1. /\ walk'.offset = 0 /\ asOf'.rows = rows /\ asOf'.made = made
        /\ UNCHANGED <<made, rows, seen>>
    BY <1>4 DEF BeginWalk
  <2> QED BY <1>1, <2>1 DEF RepeatInv, NewRows, RepeatsAreInserts
<1>5. CASE Fetch
  <2>1. walk.pc # "none" /\ UNCHANGED <<made, rows, asOf>> /\ seen \subseteq seen'
    BY <1>5 DEF Fetch
  <2>2. NewRows'
    BY <2>1 DEF RepeatInv, NewRows
  <2>3. CASE walk'.offset = walk.offset
    <3>1. IsFiniteSet(seen')
      <4>1. seen' \in SUBSET (1..made) /\ 1 \in Int /\ made \in Int
        BY <1>1, <2>1 DEF IInv, TypeOK
      <4> QED BY <4>1, FS_Interval, FS_Subset
    <3>2. Cardinality(seen) <= Cardinality(seen') /\ Cardinality(seen') \in Nat
      BY <2>1, <3>1, FS_Subset, FS_CardinalityType
    <3> QED BY <1>1, <2>1, <2>2, <2>3, <3>2 DEF RepeatInv, RepeatsAreInserts
  <2>4. CASE walk'.offset # walk.offset
    <3>1. walk'.offset - Cardinality(seen') <= made - asOf.made
      BY <1>5, <2>4, FetchedRowsAreCounted DEF RepeatInv
    <3> QED BY <2>1, <2>2, <3>1 DEF RepeatInv, RepeatsAreInserts
  <2> QED BY <2>3, <2>4
<1>6. CASE Restart
  <2>1. rows' \subseteq rows /\ UNCHANGED <<made, walk, seen, asOf>>
    BY <1>6 DEF Restart
  <2> QED BY <2>1 DEF RepeatInv, NewRows, RepeatsAreInserts
<1> QED BY <1>2, <1>3, <1>4, <1>5, <1>6 DEF Next

\* A walk gives a merchant no row again but for the rows inserted while it
\* went on, one at most for each of them, in either store and over restarts
\* (ListByMerchant's OFFSET).
THEOREM RepeatsAreCounted == Spec => []RepeatsAreInserts
<1>1. Init => RepeatInv
  BY DEF Init, RepeatInv, NewRows, RepeatsAreInserts
<1>2. RepeatInv => RepeatsAreInserts
  BY DEF RepeatInv
<1> QED BY <1>1, <1>2, RepeatsArePreserved, Invariance, PTL DEF Spec

-----------------------------------------------------------------------------
(* What a page shows.                                                      *)

\* A page has at most MaxLimit rows, unless the merchant of a gateway with the
\* memory repository asks for 0 (listInvoices, ListByMerchant).
THEOREM PagesAreBounded == Spec => []PageIsBounded
<1>1. TypeOK => PageIsBounded
  <2>1. SUFFICES ASSUME TypeOK, walk.limit # 0 \/ engine = "sqlite"
                 PROVE  Cardinality(ListByMerchant(HandlerLimit(walk.limit), walk.offset)) <= MaxLimit
    BY DEF PageIsBounded
  <2> DEFINE h    == HandlerLimit(walk.limit)
             page == ListByMerchant(h, walk.offset)
  <2>2. /\ RowLimit(h) \in Nat
        /\ Cardinality(page) \in Nat /\ Cardinality(page) <= RowLimit(h)
    BY <2>1, PageFacts
  <2>3. walk.limit \in Int
    BY <2>1 DEF TypeOK, Walk
  <2>4. h \in Nat /\ h <= MaxLimit /\ (walk.limit # 0 => h # 0)
    BY <2>3, ListingAssumption DEF ListingAssumption, HandlerLimit, queryInt
  <2> HIDE DEF h
  <2>5. RowLimit(h) <= MaxLimit
    BY <2>1, <2>4, ListingAssumption DEF ListingAssumption, RowLimit
  <2> HIDE DEF page
  <2>6. Cardinality(page) <= MaxLimit
    BY <2>2, <2>5, ListingAssumption DEF ListingAssumption
  <2> QED BY <2>6 DEF page, h
<1> QED BY <1>1, TypeCorrect, PTL

\* The cell of the seconds is the first of a text.
LEMMA TextKeepsSeconds ==
  ASSUME NEW t \in Moments, NEW u \in Moments,
         ~TextBefore(formatTime(t), formatTime(u))
  PROVE  Second(t) >= Second(u)
<1> DEFINE a == formatTime(t)  b == formatTime(u)
<1>1. a \in [Cells -> Int] /\ b \in [Cells -> Int]
  BY TextIsText
<1>2. 0 \in Cells /\ a[0] = Second(t) /\ b[0] = Second(u)
  BY ListingAssumption DEF ListingAssumption, Cells, formatTime
<1> HIDE DEF a, b
<1>3. a[0] \in Int /\ b[0] \in Int
  BY <1>1, <1>2
<1>4. ~(a[0] < b[0])
  <2>1. SUFFICES ASSUME a[0] < b[0] PROVE FALSE
    OBVIOUS
  <2>2. \A j \in 0..(0 - 1) : a[j] = b[j]
    OBVIOUS
  <2>3. TextBefore(a, b)
    BY <1>2, <2>1, <2>2 DEF TextBefore
  <2> QED BY <2>3 DEF a, b
<1> QED BY <1>2, <1>3, <1>4

\* A list goes back in time by the second in SQLite, whatever the fractions
\* look like, and exactly in the memory repository.
THEOREM SecondsGoBack == Spec => []NewestSecondFirst
<1>1. TypeOK => NewestSecondFirst
  <2>1. SUFFICES ASSUME TypeOK, NEW i \in rows, NEW j \in rows, Precedes(i, j)
                 PROVE  /\ Second(at[i]) >= Second(at[j])
                        /\ engine = "memory" => at[i] >= at[j]
    BY DEF NewestSecondFirst
  <2>2. at[i] \in Moments /\ at[j] \in Moments /\ Engine
    BY <2>1, RowsAreOK DEF RowsOK
  <2> DEFINE t == at[i]  u == at[j]
  <2> HIDE DEF t, u
  <2>3. ~Newer(u, t)
    BY <2>1, <2>2, NewerIsOrder DEF Precedes, t, u
  <2>4. t \in Moments /\ u \in Moments
    BY <2>2 DEF t, u
  <2>5. CASE engine = "sqlite"
    <3>1. ~TextBefore(formatTime(t), formatTime(u))
      BY <2>3, <2>4, <2>5 DEF Newer, TextOrder
    <3>2. Second(t) >= Second(u)
      BY <2>4, <3>1, TextKeepsSeconds
    <3> QED BY <2>5, <3>2 DEF t, u
  <2>6. CASE engine = "memory"
    <3>1. t \in Nat /\ u \in Nat /\ u <= t
      BY <2>3, <2>4, <2>6, ListingAssumption DEF ListingAssumption, Newer, Moments
    <3>2. Second(u) <= Second(t)
      BY <3>1, ListingAssumption DEF ListingAssumption, Second
    <3>3. Second(u) \in Int /\ Second(t) \in Int
      BY <3>1, ListingAssumption DEF ListingAssumption, Second
    <3> QED BY <3>1, <3>2, <3>3 DEF t, u
  <2> QED BY <2>2, <2>5, <2>6 DEF Engine
<1> QED BY <1>1, TypeCorrect, PTL
=============================================================================
