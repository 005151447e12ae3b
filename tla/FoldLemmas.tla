----------------------------- MODULE FoldLemmas -----------------------------
(***************************************************************************)
(* Facts about the folds of the community modules that the proofs of the   *)
(* components need: that the recursion they are written with has one       *)
(* solution, what a sum over a finite set is, and what a fold over a       *)
(* sequence is.                                                            *)
(*                                                                         *)
(* The library states induction for a predicate, an operator no prover     *)
(* here instantiates.  It also states, without operators, that a           *)
(* well-founded order has minimal elements; induction for a set G of good  *)
(* elements, {n \in Nat : P(n)} say, follows from that.                    *)
(***************************************************************************)
EXTENDS FiniteSetsExt, FiniteSetTheorems, TLAPS

-----------------------------------------------------------------------------
(* Induction.                                                              *)

LEMMA NatSetInduction ==
  ASSUME NEW G, 0 \in G, \A n \in Nat : n \in G => n + 1 \in G
  PROVE  Nat \subseteq G
<1> DEFINE R == OpToRel(<, Nat)
           Bad == Nat \ G
<1> SUFFICES ASSUME Bad # {} PROVE FALSE
  OBVIOUS
<1>1. PICK x \in Bad : \A y \in Bad : <<y, x>> \notin R
  <2>1. IsWellFoundedOn(R, Nat)
    BY NatLessThanWellFounded
  <2>2. Bad \subseteq Nat
    OBVIOUS
  <2> HIDE DEF R, Bad
  <2> QED BY <2>1, <2>2, WFMin
<1>2. \A y \in Nat : y < x => <<y, x>> \in R
  BY DEF OpToRel
<1> HIDE DEF R
<1>3. x \in Nat /\ x # 0 /\ x \notin G
  OBVIOUS
<1>4. x - 1 \in Nat /\ x - 1 < x /\ (x - 1) + 1 = x
  BY <1>3
<1> QED BY <1>1, <1>2, <1>3, <1>4

LEMMA FiniteSetInduction ==
  ASSUME NEW S, IsFiniteSet(S), NEW G,
         \A T \in SUBSET S : (\A U \in SUBSET T : U # T => U \in G) => T \in G
  PROVE  SUBSET S \subseteq G
<1> DEFINE R == StrictSubsetOrdering(S)
           Bad == (SUBSET S) \ G
<1> SUFFICES ASSUME Bad # {} PROVE FALSE
  OBVIOUS
<1>1. PICK x \in Bad : \A y \in Bad : <<y, x>> \notin R
  <2>1. IsWellFoundedOn(R, SUBSET S)
    <3> HIDE DEF Bad
    <3>1. IsWellFoundedOn(R, FiniteSubsetsOf(S))
      BY FS_StrictSubsetOrderingWellFounded
    <3>2. FiniteSubsetsOf(S) = SUBSET S
      BY FS_FiniteSubsetsOfFinite
    <3> QED BY <3>1, <3>2
  <2>2. Bad \subseteq SUBSET S
    OBVIOUS
  <2> HIDE DEF R, Bad
  <2> QED BY <2>1, <2>2, WFMin
<1>2. \A y \in SUBSET S : y \subseteq x /\ y # x => <<y, x>> \in R
  BY DEF StrictSubsetOrdering
<1> HIDE DEF R
<1>3. x \in SUBSET S /\ x \notin G
  OBVIOUS
<1>4. \A U \in SUBSET x : U # x => U \in G
  <2> SUFFICES ASSUME NEW U \in SUBSET x, U # x PROVE U \in G
    OBVIOUS
  <2>1. <<U, x>> \in R
    BY <1>2, <1>3
  <2> QED BY <1>1, <1>3, <2>1
<1> QED BY <1>3, <1>4

-----------------------------------------------------------------------------
(* The recursion of MapThenFoldSet.  C[s] is the element it takes out of a *)
(* set s, G[s][v] the result for s when the rest of s gives v.             *)

Rest(s, C) == s \ {C[s]}

IsFold(f, D, b, C, G) ==
    /\ f[{}] = b
    /\ \A s \in SUBSET D : \A v \in Int :
          s # {} /\ f[Rest(s, C)] = v => f[s] = G[s][v]

IsPick(C, D)    == \A s \in SUBSET D : s # {} => C[s] \in s
IsStep(b, G, D) == b \in Int /\ \A s \in SUBSET D : \A v \in Int : G[s][v] \in Int
Ints(f, D)      == f \in [SUBSET D -> Int]
Agree(f, g, E)  == \A s \in SUBSET E : f[s] = g[s]

\* A solution in the integers is the only one.
LEMMA FoldsAgree ==
  ASSUME NEW D, NEW E, IsFiniteSet(D), E \subseteq D, NEW b, NEW C, IsPick(C, D), NEW G,
         NEW f, Ints(f, D), IsFold(f, D, b, C, G), NEW g, IsFold(g, E, b, C, G)
  PROVE  Agree(f, g, E)
<1> DEFINE Good == {s \in SUBSET E : f[s] = g[s]}
<1>1. ASSUME NEW T \in SUBSET E, \A U \in SUBSET T : U # T => U \in Good
      PROVE  T \in Good
  <2>1. CASE T = {}
    BY <2>1 DEF IsFold
  <2>2. CASE T # {}
    <3>1. C[T] \in T
      BY <2>2 DEF IsPick
    <3>2. Rest(T, C) \in SUBSET T /\ Rest(T, C) # T
      BY <3>1 DEF Rest
    <3>3. f[Rest(T, C)] = g[Rest(T, C)] /\ f[Rest(T, C)] \in Int
      BY <1>1, <3>2 DEF Ints
    <3>4. f[T] = G[T][f[Rest(T, C)]] /\ g[T] = G[T][f[Rest(T, C)]]
      BY <2>2, <3>3 DEF IsFold
    <3> QED BY <3>4
  <2> QED BY <2>1, <2>2
<1>2. IsFiniteSet(E)
  BY FS_Subset
<1>3. \A T \in SUBSET E : (\A U \in SUBSET T : U # T => U \in Good) => T \in Good
  BY <1>1
<1> HIDE DEF Good
<1>4. SUBSET E \subseteq Good
  BY <1>2, <1>3, FiniteSetInduction
<1> QED BY <1>4 DEF Good, Agree

\* There is a solution in the integers.
LEMMA FoldExists ==
  ASSUME NEW D, IsFiniteSet(D), NEW b, NEW C, IsPick(C, D), NEW G, IsStep(b, G, D)
  PROVE  \E f : Ints(f, D) /\ IsFold(f, D, b, C, G)
<1> DEFINE Solves(f, T) == Ints(f, T) /\ IsFold(f, T, b, C, G)
           Good == {T \in SUBSET D : \E f : Solves(f, T)}
<1>1. ASSUME NEW T \in SUBSET D, \A U \in SUBSET T : U # T => U \in Good
      PROVE  T \in Good
  <2> DEFINE h == [U \in SUBSET T |-> CHOOSE f : Solves(f, U)]
             last == G[T][h[Rest(T, C)][Rest(T, C)]]
             f == [s \in SUBSET T |-> IF s = {} THEN b
                                      ELSE IF s = T THEN last ELSE h[s][s]]
  <2>1. \A U \in SUBSET T : U # T => Solves(h[U], U)
    <3> HIDE DEF Solves
    <3> QED BY <1>1
  <2>2. \A s \in SUBSET T :
           s # {} => Rest(s, C) \in SUBSET T /\ Rest(s, C) # s /\ Rest(s, C) \in SUBSET s
    BY DEF IsPick, Rest
  <2> HIDE DEF h
  <2>3. \A U \in SUBSET T : U # T => h[U][U] \in Int
    BY <2>1 DEF Ints
  <2>4. \A s \in SUBSET T : s # {} /\ s # T => h[s][s] = G[s][f[Rest(s, C)]]
    <3> SUFFICES ASSUME NEW s \in SUBSET T, s # {}, s # T
                 PROVE  h[s][s] = G[s][f[Rest(s, C)]]
      OBVIOUS
    <3> DEFINE r == Rest(s, C)
    <3>1. r \in SUBSET s /\ r \in SUBSET T /\ r # T /\ r # s
      BY <2>2
    <3>2. Solves(h[s], s) /\ Solves(h[r], r)
      BY <2>1, <3>1
    <3>3. h[s][s] = G[s][h[s][r]]
      BY <3>1, <3>2 DEF Ints, IsFold
    <3>4. IsFiniteSet(s) /\ IsPick(C, s)
      BY FS_Subset DEF IsPick
    <3>5. h[s][r] = h[r][r]
      <4>1. r \subseteq s /\ r \in SUBSET r
        BY <3>1
      <4> HIDE DEF r, f, last, Good
      <4>2. Agree(h[s], h[r], r)
        BY <3>2, <3>4, <4>1, FoldsAgree
      <4> QED BY <4>1, <4>2 DEF Agree
    <3>6. f[r] = h[r][r]
      BY <3>1, <3>2 DEF IsFold
    <3> QED BY <3>3, <3>5, <3>6
  <2>5. T # {} => f[Rest(T, C)] = h[Rest(T, C)][Rest(T, C)] /\ last \in Int
    <3> SUFFICES ASSUME T # {}
                 PROVE  f[Rest(T, C)] = h[Rest(T, C)][Rest(T, C)] /\ last \in Int
      OBVIOUS
    <3> DEFINE r == Rest(T, C)
    <3>1. r \in SUBSET T /\ r # T
      BY <2>2
    <3>2. h[r][r] \in Int
      BY <2>3, <3>1
    <3>3. last \in Int
      BY <3>2 DEF IsStep
    <3>4. r = {} => h[r][r] = b
      BY <2>1, <3>1 DEF IsFold
    <3> QED BY <3>1, <3>3, <3>4
  <2>6. f \in [SUBSET T -> Int]
    BY <2>3, <2>5 DEF IsStep
  <2>7. f[{}] = b /\ (T # {} => f[T] = last)
    OBVIOUS
  <2>8. \A s \in SUBSET T : s # {} => f[s] = G[s][f[Rest(s, C)]]
    BY <2>4, <2>5, <2>7
  <2>9. Solves(f, T)
    <3> HIDE DEF f
    <3> QED BY <2>6, <2>7, <2>8 DEF IsFold, Ints
  <2> QED BY <2>9
<1>2. \A T \in SUBSET D : (\A U \in SUBSET T : U # T => U \in Good) => T \in Good
  BY <1>1
<1> HIDE DEF Good
<1>3. SUBSET D \subseteq Good
  BY <1>2, FiniteSetInduction
<1> QED BY <1>3 DEF Good

-----------------------------------------------------------------------------
(* Sums.                                                                   *)

SumOver(V, S) == MapThenSumSet(LAMBDA t : V[t], S)

AnyOf(s)    == CHOOSE x \in s : TRUE
AllInt(V, D) == \A t \in D : V[t] \in Int
AllNat(V, D) == \A t \in D : V[t] \in Nat

\* The recursion behind a sum, for all the parts of a set at once.
IsSum(f, V, D) ==
    /\ f \in [SUBSET D -> Int] /\ f[{}] = 0
    /\ \A s \in SUBSET D : s # {} => f[s] = V[AnyOf(s)] + f[s \ {AnyOf(s)}]
    /\ \A s \in SUBSET D : SumOver(V, s) = f[s]

LEMMA SumUnfolds ==
  ASSUME NEW D, IsFiniteSet(D), NEW V, AllInt(V, D)
  PROVE  \E f : IsSum(f, V, D)
<1> DEFINE C == [s \in SUBSET D |-> AnyOf(s)]
           G == [s \in SUBSET D |-> [v \in Int |-> IF s = {} THEN 0 ELSE V[AnyOf(s)] + v]]
           Solves(f, S) == Ints(f, S) /\ IsFold(f, S, 0, C, G)
           Equation(f, S) == f = [s \in SUBSET S |-> IF s = {} THEN 0
                                                ELSE V[AnyOf(s)] + f[s \ {AnyOf(s)}]]
<1>1. \A s \in SUBSET D : s # {} => AnyOf(s) \in s
  BY DEF AnyOf
<1>2. \A S \in SUBSET D : IsPick(C, S) /\ IsStep(0, G, S) /\ IsFiniteSet(S)
  <2> SUFFICES ASSUME NEW S \in SUBSET D PROVE IsPick(C, S) /\ IsStep(0, G, S) /\ IsFiniteSet(S)
    OBVIOUS
  <2>1. IsPick(C, S)
    BY <1>1 DEF IsPick
  <2>2. IsStep(0, G, S)
    BY <1>1 DEF IsStep, AllInt
  <2>3. IsFiniteSet(S)
    BY FS_Subset
  <2> QED BY <2>1, <2>2, <2>3
<1>3. \A S \in SUBSET D : \E f : Solves(f, S)
  <2> HIDE DEF C, G
  <2> QED BY <1>2, FoldExists
<1>4. ASSUME NEW S \in SUBSET D, NEW f, Solves(f, S) PROVE Equation(f, S)
  <2>1. \A s \in SUBSET S : s # {} => f[s] = V[AnyOf(s)] + f[s \ {AnyOf(s)}]
    BY <1>1, <1>4 DEF Ints, IsFold, Rest
  <2>2. f[{}] = 0 /\ f \in [SUBSET S -> Int]
    BY <1>4 DEF Ints, IsFold
  <2> QED BY <2>1, <2>2
<1>5. ASSUME NEW S \in SUBSET D, NEW f, Equation(f, S) PROVE IsFold(f, S, 0, C, G)
  BY <1>1, <1>5 DEF IsFold, Rest
<1>6. \A S \in SUBSET D : SumOver(V, S) = (CHOOSE f : Equation(f, S))[S]
  BY DEF SumOver, MapThenSumSet, MapThenFoldSet, AnyOf
<1>7. PICK f : Solves(f, D)
  BY <1>3
<1>8. \A S \in SUBSET D : SumOver(V, S) = f[S]
  <2> SUFFICES ASSUME NEW S \in SUBSET D PROVE SumOver(V, S) = f[S]
    OBVIOUS
  <2> DEFINE g == CHOOSE e : Equation(e, S)
  <2>1. Equation(g, S)
    <3> HIDE DEF Equation, Solves
    <3> QED BY <1>3, <1>4
  <2> HIDE DEF g
  <2>2. IsFold(g, S, 0, C, G)
    BY <1>5, <2>1
  <2>3. S \subseteq D /\ S \in SUBSET S
    OBVIOUS
  <2>4. Agree(f, g, S)
    <3> HIDE DEF C, G
    <3> QED BY <1>2, <1>7, <2>2, <2>3, FoldsAgree
  <2> QED BY <1>6, <2>3, <2>4 DEF Agree, g
<1>9. Equation(f, D)
  BY <1>4, <1>7
<1>10. IsSum(f, V, D)
  BY <1>1, <1>7, <1>8, <1>9 DEF IsSum, Ints, IsFold
<1> QED BY <1>10

LEMMA SumOfNothing ==
  ASSUME NEW V
  PROVE  SumOver(V, {}) = 0
<1>1. IsFiniteSet({}) /\ AllInt(V, {})
  BY FS_EmptySet DEF AllInt
<1>2. PICK f : IsSum(f, V, {})
  BY <1>1, SumUnfolds
<1> QED BY <1>2 DEF IsSum

\* Any element may be the one that is taken out.
LEMMA SumWithout ==
  ASSUME NEW D, IsFiniteSet(D), NEW V, AllInt(V, D), NEW t \in D
  PROVE  /\ SumOver(V, D) \in Int /\ SumOver(V, D \ {t}) \in Int
         /\ SumOver(V, D) = V[t] + SumOver(V, D \ {t})
<1>1. PICK f : IsSum(f, V, D)
  BY SumUnfolds
<1>2. /\ f \in [SUBSET D -> Int]
      /\ \A s \in SUBSET D : s # {} => f[s] = V[AnyOf(s)] + f[s \ {AnyOf(s)}]
      /\ \A s \in SUBSET D : SumOver(V, s) = f[s]
  BY <1>1 DEF IsSum
<1>3. \A s \in SUBSET D : s # {} => AnyOf(s) \in s
  BY DEF AnyOf
<1> DEFINE Good == {S \in SUBSET D : \A x \in S : f[S] = V[x] + f[S \ {x}]}
<1>4. ASSUME NEW T \in SUBSET D, \A U \in SUBSET T : U # T => U \in Good
      PROVE  T \in Good
  <2> SUFFICES ASSUME NEW x \in T, x # AnyOf(T) PROVE f[T] = V[x] + f[T \ {x}]
    BY <1>2
  <2> DEFINE c == AnyOf(T)
  <2>1. c \in T
    BY <1>3
  <2>2. T \ {c} \in Good /\ T \ {x} \in Good
    BY <1>4, <2>1
  <2>3. f[T \ {c}] = V[x] + f[(T \ {c}) \ {x}]
    BY <2>2
  <2>4. f[T \ {x}] = V[c] + f[(T \ {x}) \ {c}]
    BY <2>1, <2>2
  <2>5. f[T] = V[c] + f[T \ {c}]
    BY <1>2
  <2>6. (T \ {c}) \ {x} = (T \ {x}) \ {c}
    OBVIOUS
  <2> DEFINE r == f[(T \ {c}) \ {x}]
             v == V[c]
             w == V[x]
  <2>7. v \in Int /\ w \in Int /\ r \in Int
    BY <1>2, <2>1 DEF AllInt
  <2>8. f[T] = v + (w + r) /\ f[T \ {x}] = v + r
    BY <2>3, <2>4, <2>5, <2>6
  <2> HIDE DEF c, r, v, w
  <2>9. f[T] = w + (v + r)
    BY <2>7, <2>8
  <2> QED BY <2>8, <2>9 DEF w
<1>5. \A T \in SUBSET D : (\A U \in SUBSET T : U # T => U \in Good) => T \in Good
  BY <1>4
<1>6. SUBSET D \subseteq Good
  <2> HIDE DEF Good
  <2> QED BY <1>5, FiniteSetInduction
<1>7. D \in SUBSET D /\ D \ {t} \in SUBSET D
  OBVIOUS
<1>8. f[D] = V[t] + f[D \ {t}]
  BY <1>6, <1>7
<1> QED BY <1>2, <1>7, <1>8

\* A sum of what is not negative is not, and what more terms give is not less.
LEMMA SumGrows ==
  ASSUME NEW D, IsFiniteSet(D), NEW V, AllNat(V, D), NEW S, S \in SUBSET D
  PROVE  /\ SumOver(V, D) \in Nat /\ SumOver(V, S) \in Nat
         /\ SumOver(V, S) <= SumOver(V, D)
<1> DEFINE Good == {T \in SUBSET D : /\ SumOver(V, T) \in Nat
                                     /\ \A U \in SUBSET T : SumOver(V, U) \in Nat
                                           /\ SumOver(V, U) <= SumOver(V, T)}
<1>1. ASSUME NEW T \in SUBSET D, \A U \in SUBSET T : U # T => U \in Good
      PROVE  T \in Good
  <2>1. CASE T = {}
    BY <2>1, SumOfNothing
  <2>2. CASE T # {}
    <3>1. \A x \in T : /\ V[x] \in Nat /\ SumOver(V, T \ {x}) \in Nat
                       /\ SumOver(V, T) = V[x] + SumOver(V, T \ {x})
      <4> SUFFICES ASSUME NEW x \in T
                   PROVE  /\ V[x] \in Nat /\ SumOver(V, T \ {x}) \in Nat
                          /\ SumOver(V, T) = V[x] + SumOver(V, T \ {x})
        OBVIOUS
      <4>1. IsFiniteSet(T) /\ AllInt(V, T) /\ V[x] \in Nat
        BY FS_Subset DEF AllInt, AllNat
      <4>2. T \ {x} \in Good
        BY <1>1
      <4> QED BY <4>1, <4>2, SumWithout
    <3>2. SumOver(V, T) \in Nat
      <4> PICK x \in T : TRUE
        BY <2>2
      <4> DEFINE v == V[x]
                 r == SumOver(V, T \ {x})
      <4>1. v \in Nat /\ r \in Nat /\ SumOver(V, T) = v + r
        BY <3>1
      <4> HIDE DEF v, r
      <4> QED BY <4>1
    <3>3. ASSUME NEW U \in SUBSET T, U # T
          PROVE  SumOver(V, U) \in Nat /\ SumOver(V, U) <= SumOver(V, T)
      <4>1. PICK x \in T : x \notin U
        BY <3>3
      <4>2. U \in SUBSET (T \ {x}) /\ T \ {x} \in Good
        BY <1>1, <4>1
      <4>3. SumOver(V, U) \in Nat /\ SumOver(V, U) <= SumOver(V, T \ {x})
        BY <4>2
      <4> DEFINE v == V[x]
                 r == SumOver(V, T \ {x})
                 u == SumOver(V, U)
      <4>4. v \in Nat /\ r \in Nat /\ SumOver(V, T) = v + r /\ u \in Nat /\ u <= r
        BY <3>1, <4>3
      <4> HIDE DEF v, r, u
      <4>5. u \in Nat /\ u <= SumOver(V, T)
        BY <4>4
      <4> QED BY <4>5 DEF u
    <3> QED BY <3>2, <3>3
  <2> QED BY <2>1, <2>2
<1>2. \A T \in SUBSET D : (\A U \in SUBSET T : U # T => U \in Good) => T \in Good
  BY <1>1
<1>3. SUBSET D \subseteq Good
  <2> HIDE DEF Good
  <2> QED BY <1>2, FiniteSetInduction
<1>4. D \in Good
  BY <1>3
<1> QED BY <1>4

-----------------------------------------------------------------------------
(* Folds over sequences.  The one of the community modules is a fold over  *)
(* the set of places, the last one taken out first.                        *)

LEMMA MaxIsLast ==
  ASSUME NEW n \in Nat, NEW S \in SUBSET (1..n), S # {}
  PROVE  Max(S) \in S /\ \A y \in S : Max(S) >= y
<1> DEFINE T == {n - x : x \in S}
<1>1. T \subseteq Nat /\ T # {}
  <2>1. ASSUME NEW x \in S PROVE n - x \in Nat
    <3>1. x \in 1..n
      OBVIOUS
    <3> QED BY <3>1
  <2> QED BY <2>1
<1>2. PICK t \in T : \A u \in T : ~(<<u, t>> \in OpToRel(<, Nat))
  <2> HIDE DEF T
  <2> QED BY <1>1, NatLessThanWellFounded, WFMin
<1>3. \A u \in T : u >= t
  <2> HIDE DEF T
  <2>1. t \in Nat
    BY <1>1, <1>2
  <2>2. \A u \in Nat : u < t => <<u, t>> \in OpToRel(<, Nat)
    BY <2>1 DEF OpToRel
  <2>3. \A u \in T : u \in Nat /\ ~(u < t)
    BY <1>1, <1>2, <2>2
  <2> QED BY <2>1, <2>3
<1>4. PICK x \in S : t = n - x
  BY <1>2
<1>5. \A y \in S : n - y \in T
  OBVIOUS
<1>6. \A y \in S : n - y >= n - x
  BY <1>3, <1>4, <1>5
<1>7. \A y \in S : x >= y
  BY <1>6
<1> QED BY <1>7 DEF Max

LastOf(n) == [S \in SUBSET (1..n) |-> Max(S)]
StepOf(n, b, st) ==
    [S \in SUBSET (1..n) |-> [v \in Int |-> IF S = {} THEN b ELSE st[Max(S)][v]]]

\* The values of a fold after 0, 1, ... steps.
IsRun(g, n, b, st) ==
    /\ g \in [0..n -> Int] /\ g[0] = b
    /\ \A k \in 1..n : g[k] = st[k][g[k - 1]]

AreSteps(st, n) == st \in [1..n -> [Int -> Int]]

LEMMA RunExists ==
  ASSUME NEW n, n \in Nat, NEW b, b \in Int, NEW st, AreSteps(st, n)
  PROVE  \E f : /\ Ints(f, 1..n) /\ IsFold(f, 1..n, b, LastOf(n), StepOf(n, b, st))
                /\ IsRun([k \in 0..n |-> f[1..k]], n, b, st)
<1> DEFINE C == LastOf(n)
           G == StepOf(n, b, st)
<1>1. IsFiniteSet(1..n)
  BY FS_Interval
<1>2. IsPick(C, 1..n)
  BY MaxIsLast DEF IsPick, LastOf
<1>3. IsStep(b, G, 1..n)
  <2>1. ASSUME NEW S \in SUBSET (1..n), NEW v \in Int PROVE G[S][v] \in Int
    <3>1. S # {} => Max(S) \in 1..n
      BY MaxIsLast
    <3>2. S # {} => st[Max(S)][v] \in Int
      BY <3>1 DEF AreSteps
    <3> QED BY <3>2 DEF StepOf
  <2> QED BY <2>1 DEF IsStep
<1>4. PICK f : Ints(f, 1..n) /\ IsFold(f, 1..n, b, C, G)
  <2> HIDE DEF C, G
  <2> QED BY <1>1, <1>2, <1>3, FoldExists
<1> DEFINE g == [k \in 0..n |-> f[1..k]]
<1>5. \A k \in 0..n : 1..k \in SUBSET (1..n)
  OBVIOUS
<1>6. g \in [0..n -> Int]
  BY <1>4, <1>5 DEF Ints
<1>7. g[0] = b
  <2>1. 1..0 = {} /\ g[0] = f[1..0]
    OBVIOUS
  <2> QED BY <1>4, <2>1 DEF IsFold
<1>8. ASSUME NEW k \in 1..n PROVE g[k] = st[k][g[k - 1]]
  <2> DEFINE S == 1..k
  <2>1. S \in SUBSET (1..n) /\ S # {} /\ k \in S
    <3>1. \A j \in 1..k : j \in 1..n
      OBVIOUS
    <3>2. k \in 1..k
      OBVIOUS
    <3> QED BY <3>1, <3>2
  <2>2. Max(S) = k
    <3>1. Max(S) \in S /\ Max(S) >= k
      BY <2>1, MaxIsLast
    <3> QED BY <3>1
  <2>3. Rest(S, C) = 1..(k - 1)
    <3>1. C[S] = k
      BY <2>1, <2>2 DEF LastOf
    <3> DEFINE low == 1..(k - 1)
    <3>2. (\A j \in S : j # k => j \in low) /\ (\A j \in low : j \in S /\ j # k)
      OBVIOUS
    <3>3. S \ {k} = low
      <4> HIDE DEF S, low
      <4> QED BY <3>2
    <3> QED BY <3>1, <3>3 DEF Rest
  <2>4. g[k] = f[S] /\ g[k - 1] = f[1..(k - 1)] /\ g[k - 1] \in Int
    BY <1>6
  <2>5. f[S] = G[S][g[k - 1]]
    <3> HIDE DEF g, G, C
    <3> QED BY <1>4, <2>1, <2>3, <2>4 DEF IsFold
  <2>6. G[S][g[k - 1]] = st[k][g[k - 1]]
    <3> HIDE DEF g
    <3> QED BY <2>1, <2>2, <2>4 DEF StepOf
  <2> QED BY <2>4, <2>5, <2>6
<1>9. IsRun(g, n, b, st)
  <2> HIDE DEF g
  <2> QED BY <1>6, <1>7, <1>8 DEF IsRun
<1> QED BY <1>4, <1>9

=============================================================================
