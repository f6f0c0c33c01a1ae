---------------------------- MODULE SumTheorems ----------------------------
(***************************************************************************)
(* What SumFunctionOnSet and SumFunction (community module Functions)      *)
(* return.  The engines keep running totals (cash, deployed capital,       *)
(* exposure, realised PnL) that must stay equal to a sum over a map; these *)
(* lemmas are the facts about such sums that the proofs cite.              *)
(*                                                                         *)
(* SumFunctionOnSet is a fold, hence a recursive function.  The proofs     *)
(* below unfold it once and for all: the fold exists (FoldExists), has     *)
(* integer values (FoldType) and does not depend on the order in which     *)
(* elements are picked (FoldRemove).  Induction is used in its set form,   *)
(* a set of naturals or of subsets closed under the induction step.        *)
(***************************************************************************)
EXTENDS Integers, FiniteSets, Functions, FiniteSetTheorems,
        WellFoundedInduction, TLAPS

Pick(s) == CHOOSE x \in s : TRUE

\* One unfolding of the fold that defines SumFunctionOnSet.
Unfold(f, g, s) == IF s = {} THEN 0 ELSE f[Pick(s)] + g[s \ {Pick(s)}]

Fold(f, S) == CHOOSE g : g = [s \in SUBSET S |-> Unfold(f, g, s)]

(***************************************************************************)
(* Induction in set form.                                                  *)
(***************************************************************************)

\* A set of naturals that holds 0 and is closed under successor is Nat.
LEMMA NatSetInduction ==
  ASSUME NEW G \in SUBSET Nat, 0 \in G, \A n \in G : n + 1 \in G
  PROVE  G = Nat
<1> DEFINE Bad == Nat \ G
<1> SUFFICES ASSUME Bad # {} PROVE FALSE
  OBVIOUS
<1>1. PICK n \in Bad : \A k \in Bad : ~(<<k, n>> \in OpToRel(<, Nat))
  BY NatLessThanWellFounded, WFMin
<1>2. n # 0 /\ n - 1 \in Nat
  OBVIOUS
<1>3. n - 1 \in G
  <2>1. <<n - 1, n>> \in OpToRel(<, Nat)
    BY <1>2 DEF OpToRel
  <2> QED
    BY <1>1, <1>2, <2>1
<1> QED
  BY <1>2, <1>3

\* A family of subsets of a finite set S that holds every subset all of
\* whose strict subsets it holds is SUBSET S.
LEMMA SubsetInduction ==
  ASSUME NEW S, IsFiniteSet(S), NEW G \in SUBSET (SUBSET S),
         \A T \in SUBSET S :
            (\A U \in SUBSET T : U # T => U \in G) => T \in G
  PROVE  G = SUBSET S
<1> DEFINE Bad == (SUBSET S) \ G
<1> SUFFICES ASSUME Bad # {} PROVE FALSE
  OBVIOUS
<1>1. IsWellFoundedOn(StrictSubsetOrdering(S), SUBSET S)
  <2>1. FiniteSubsetsOf(S) = SUBSET S
    BY FS_FiniteSubsetsOfFinite
  <2>2. IsWellFoundedOn(StrictSubsetOrdering(S), FiniteSubsetsOf(S))
    BY FS_StrictSubsetOrderingWellFounded
  <2> QED
    BY <2>1, <2>2
<1>2. PICK T \in Bad : \A U \in Bad : ~(<<U, T>> \in StrictSubsetOrdering(S))
  <2> Bad \subseteq SUBSET S
    OBVIOUS
  <2> HIDE DEF Bad
  <2> QED
    BY <1>1, WFMin
<1>3. ASSUME NEW U \in SUBSET T, U # T PROVE U \in G
  <2>1. <<U, T>> \in StrictSubsetOrdering(S)
    BY <1>3 DEF StrictSubsetOrdering
  <2> QED
    BY <1>2, <2>1
<1> QED
  BY <1>2, <1>3

(***************************************************************************)
(* The fold.                                                               *)
(***************************************************************************)

\* A non-empty set has a picked element.
LEMMA PickIn == ASSUME NEW s, s # {} PROVE Pick(s) \in s
  BY DEF Pick

\* The sum is the value of the fold at the whole set.
LEMMA SumIsFold ==
  ASSUME NEW f, NEW S
  PROVE  SumFunctionOnSet(f, S) = Fold(f, S)[S]
  BY DEF SumFunctionOnSet, FoldFunctionOnSet, MapThenFoldSet, Fold, Unfold, Pick

\* The recursive function exists.
LEMMA FoldExists ==
  ASSUME NEW S, IsFiniteSet(S), NEW f, \A x \in S : f[x] \in Int
  PROVE  \E g \in [SUBSET S -> Int] : g = [s \in SUBSET S |-> Unfold(f, g, s)]
<1> DEFINE Level(n) == {s \in SUBSET S : Cardinality(s) <= n}
           Partial(n) == {g \in [Level(n) -> Int] :
                             \A s \in Level(n) : g[s] = Unfold(f, g, s)}
           G == {n \in Nat : Partial(n) # {}}
<1>1. \A s \in SUBSET S : IsFiniteSet(s) /\ Cardinality(s) \in Nat
  BY FS_Subset, FS_CardinalityType
<1>2. \A s \in SUBSET S : s # {} =>
         /\ Pick(s) \in s /\ Pick(s) \in S
         /\ s \ {Pick(s)} \in SUBSET S
         /\ Cardinality(s \ {Pick(s)}) = Cardinality(s) - 1
  BY <1>1, PickIn, FS_RemoveElement
<1>3. 0 \in G
  <2> DEFINE g == [s \in Level(0) |-> 0]
  <2>1. \A s \in Level(0) : s = {}
    BY <1>1, FS_EmptySet
  <2>2. g \in Partial(0)
    BY <2>1 DEF Unfold
  <2> QED
    BY <2>2
<1>4. ASSUME NEW n \in G PROVE n + 1 \in G
  <2> n \in Nat
    OBVIOUS
  <2> PICK g \in Partial(n) : TRUE
    OBVIOUS
  <2> DEFINE h == [s \in Level(n + 1) |-> Unfold(f, g, s)]
  <2>1. \A s \in Level(n + 1) : s # {} => s \ {Pick(s)} \in Level(n)
    BY <1>1, <1>2
  <2>2. \A s \in Level(n + 1) : Unfold(f, g, s) \in Int
    BY <2>1, <1>2 DEF Unfold
  <2>3. h \in [Level(n + 1) -> Int]
    BY <2>2
  <2>4. \A s \in Level(n) : s \in Level(n + 1) /\ h[s] = g[s]
    BY <1>1
  <2>5. \A s \in Level(n + 1) : h[s] = Unfold(f, h, s)
    BY <2>1, <2>4 DEF Unfold
  <2>6. h \in Partial(n + 1)
    BY <2>3, <2>5
  <2>7. n + 1 \in Nat /\ Partial(n + 1) # {}
    <3> HIDE DEF Partial
    <3> QED
      BY <2>6
  <2> HIDE DEF Partial
  <2> QED
    BY <2>7
<1>5. Cardinality(S) \in G
  <2> HIDE DEF G
  <2>1. G \in SUBSET Nat
    BY DEF G
  <2> QED
    BY <1>1, <1>3, <1>4, <2>1, NatSetInduction
<1>6. Level(Cardinality(S)) = SUBSET S
  BY FS_Subset
<1>7. PICK g \in Partial(Cardinality(S)) : TRUE
  BY <1>5
<1> QED
  BY <1>6, <1>7

\* The fold satisfies its recursive equation and has integer values.
LEMMA FoldType ==
  ASSUME NEW S, IsFiniteSet(S), NEW f, \A x \in S : f[x] \in Int
  PROVE  /\ Fold(f, S) \in [SUBSET S -> Int]
         /\ \A s \in SUBSET S : Fold(f, S)[s] = Unfold(f, Fold(f, S), s)
<1> DEFINE g == Fold(f, S)
<1>1. g = [s \in SUBSET S |-> Unfold(f, g, s)]
  BY FoldExists DEF Fold
<1>2. \A s \in SUBSET S : g[s] = Unfold(f, g, s)
  <2> HIDE DEF g
  <2> QED
    BY <1>1
<1>3. DOMAIN g = SUBSET S /\ g = [s \in DOMAIN g |-> g[s]]
  <2> HIDE DEF g
  <2> QED
    BY <1>1
<1> DEFINE G == {s \in SUBSET S : g[s] \in Int}
<1>4. G = SUBSET S
  <2>1. ASSUME NEW T \in SUBSET S, \A U \in SUBSET T : U # T => U \in G
        PROVE  T \in G
    <3>1. CASE T = {}
      BY <1>2, <3>1 DEF Unfold
    <3>2. CASE T # {}
      <4>1. Pick(T) \in T /\ T \ {Pick(T)} \in G
        BY <2>1, <3>2, PickIn
      <4>2. g[T] = f[Pick(T)] + g[T \ {Pick(T)}]
        BY <1>2, <3>2 DEF Unfold
      <4> QED
        BY <4>1, <4>2
    <3> QED
      BY <3>1, <3>2
  <2> HIDE DEF g
  <2>2. G \in SUBSET (SUBSET S)
    OBVIOUS
  <2> HIDE DEF G
  <2> QED
    BY <2>1, <2>2, SubsetInduction
<1> HIDE DEF g
<1>5. g \in [SUBSET S -> Int]
  BY <1>3, <1>4
<1> QED
  BY <1>2, <1>5 DEF g
\* The value at s only depends on the terms of s, not on the enclosing set.
LEMMA FoldLocal ==
  ASSUME NEW S, IsFiniteSet(S), NEW f, \A x \in S : f[x] \in Int,
         NEW T, IsFiniteSet(T), NEW g, \A x \in T : g[x] \in Int,
         NEW W \in SUBSET (S \cap T), \A x \in W : f[x] = g[x]
  PROVE  Fold(f, S)[W] = Fold(g, T)[W]
<1> DEFINE F == Fold(f, S)
           H == Fold(g, T)
           G == {s \in SUBSET W : F[s] = H[s]}
<1>1. \A s \in SUBSET W : F[s] = Unfold(f, F, s) /\ H[s] = Unfold(g, H, s)
  BY FoldType
<1>2. IsFiniteSet(W)
  BY FS_Subset
<1> HIDE DEF F, H
<1>3. ASSUME NEW V \in SUBSET W, \A U \in SUBSET V : U # V => U \in G
      PROVE  V \in G
  <2>1. CASE V = {}
    BY <1>1, <2>1 DEF Unfold
  <2>2. CASE V # {}
    <3>1. Pick(V) \in V /\ V \ {Pick(V)} \in G
      BY <1>3, <2>2, PickIn
    <3> QED
      BY <1>1, <2>2, <3>1 DEF Unfold
  <2> QED
    BY <2>1, <2>2
<1>4. G = SUBSET W
  <2> G \in SUBSET (SUBSET W)
    OBVIOUS
  <2> HIDE DEF G
  <2> QED
    BY <1>2, <1>3, SubsetInduction
<1> QED
  BY <1>4 DEF F, H

\* The order in which elements are picked does not matter.
LEMMA FoldRemove ==
  ASSUME NEW S, IsFiniteSet(S), NEW f, \A x \in S : f[x] \in Int, NEW y \in S
  PROVE  Fold(f, S)[S] = f[y] + Fold(f, S)[S \ {y}]
<1> DEFINE F == Fold(f, S)
           G == {s \in SUBSET S : \A x \in s : F[s] = f[x] + F[s \ {x}]}
<1>1. /\ F \in [SUBSET S -> Int]
      /\ \A s \in SUBSET S : F[s] = Unfold(f, F, s)
  BY FoldType
<1> HIDE DEF F
<1>2. ASSUME NEW T \in SUBSET S, \A U \in SUBSET T : U # T => U \in G,
             NEW x \in T
      PROVE  F[T] = f[x] + F[T \ {x}]
  <2> DEFINE p == Pick(T)
  <2>1. p \in T /\ F[T] = f[p] + F[T \ {p}]
    BY <1>1, PickIn DEF Unfold
  <2> HIDE DEF p
  <2>2. CASE p = x
    BY <2>1, <2>2
  <2>3. CASE p # x
    <3> DEFINE R == T \ {p, x}
    <3>1. F[T \ {p}] = f[x] + F[R]
      <4>1. T \ {p} \in G /\ x \in T \ {p} /\ (T \ {p}) \ {x} = R
        BY <1>2, <2>1, <2>3
      <4> QED
        BY <4>1
    <3>2. F[T \ {x}] = f[p] + F[R]
      <4>1. T \ {x} \in G /\ p \in T \ {x} /\ (T \ {x}) \ {p} = R
        BY <1>2, <2>1, <2>3
      <4> QED
        BY <4>1
    <3>3. f[p] \in Int /\ f[x] \in Int /\ F[R] \in Int
      BY <1>1, <2>1
    <3> HIDE DEF R
    <3> QED
      BY <2>1, <3>1, <3>2, <3>3
  <2> QED
    BY <2>2, <2>3
<1>3. G = SUBSET S
  <2>1. \A T \in SUBSET S :
           (\A U \in SUBSET T : U # T => U \in G) => T \in G
    BY <1>2
  <2>2. G \in SUBSET (SUBSET S)
    OBVIOUS
  <2> HIDE DEF G
  <2> QED
    BY <2>1, <2>2, SubsetInduction
<1> QED
  BY <1>3 DEF F

(***************************************************************************)
(* The facts the engines' proofs cite.                                     *)
(***************************************************************************)

\* A sum of integers over a finite set is an integer, and that of no terms 0.
LEMMA SumType ==
  ASSUME NEW S, IsFiniteSet(S), NEW f, \A x \in S : f[x] \in Int
  PROVE  /\ SumFunctionOnSet(f, S) \in Int
         /\ S = {} => SumFunctionOnSet(f, S) = 0
<1>1. Fold(f, S) \in [SUBSET S -> Int] /\ Fold(f, S)[S] = Unfold(f, Fold(f, S), S)
  BY FoldType
<1> QED
  BY <1>1, SumIsFold DEF Unfold

\* Sums of functions that agree on S are equal.
LEMMA SumCong ==
  ASSUME NEW S, IsFiniteSet(S), NEW f, \A x \in S : f[x] \in Int,
         NEW g, \A x \in S : g[x] = f[x]
  PROVE  SumFunctionOnSet(g, S) = SumFunctionOnSet(f, S)
<1>1. Fold(f, S)[S] = Fold(g, S)[S]
  BY FoldLocal
<1> QED
  BY <1>1, SumIsFold

\* A term can be split off.
LEMMA SumRemove ==
  ASSUME NEW S, IsFiniteSet(S), NEW f, \A x \in S : f[x] \in Int, NEW y \in S
  PROVE  SumFunctionOnSet(f, S) = f[y] + SumFunctionOnSet(f, S \ {y})
<1>1. IsFiniteSet(S \ {y})
  BY FS_RemoveElement
<1>2. Fold(f, S)[S \ {y}] = Fold(f, S \ {y})[S \ {y}]
  <2> DEFINE R == S \ {y}
  <2>1. R \in SUBSET (S \cap R) /\ \A x \in R : f[x] \in Int
    OBVIOUS
  <2> HIDE DEF R
  <2>2. Fold(f, S)[R] = Fold(f, R)[R]
    BY <1>1, <2>1, FoldLocal DEF R
  <2> QED
    BY <2>2 DEF R
<1>3. Fold(f, S)[S] = f[y] + Fold(f, S)[S \ {y}]
  BY FoldRemove
<1> QED
  BY <1>2, <1>3, SumIsFold

\* Sums add pointwise.
LEMMA SumAdd ==
  ASSUME NEW S, IsFiniteSet(S),
         NEW f, \A x \in S : f[x] \in Int, NEW g, \A x \in S : g[x] \in Int,
         NEW h, \A x \in S : h[x] = f[x] + g[x]
  PROVE  SumFunctionOnSet(h, S) = SumFunctionOnSet(f, S) + SumFunctionOnSet(g, S)
<1> DEFINE Sm(k, s) == SumFunctionOnSet(k, s)
           G == {s \in SUBSET S : Sm(h, s) = Sm(f, s) + Sm(g, s)}
<1>1. \A s \in SUBSET S : IsFiniteSet(s)
  BY FS_Subset
<1>2. \A x \in S : h[x] \in Int
  OBVIOUS
<1>3. ASSUME NEW T \in SUBSET S, \A U \in SUBSET T : U # T => U \in G
      PROVE  T \in G
  <2>1. CASE T = {}
    <3>1. Sm(h, T) = 0 /\ Sm(f, T) = 0 /\ Sm(g, T) = 0
      BY <1>1, <1>2, <2>1, SumType
    <3> QED
      BY <3>1
  <2>2. CASE T # {}
    <3>1. PICK x \in T : TRUE
      BY <2>2
    <3> DEFINE R == T \ {x}
    <3>2. R \in G
      BY <1>3, <3>1
    <3>3. /\ Sm(h, T) = h[x] + Sm(h, R)
          /\ Sm(f, T) = f[x] + Sm(f, R)
          /\ Sm(g, T) = g[x] + Sm(g, R)
      BY <1>1, <1>2, <3>1, SumRemove
    <3>4. /\ Sm(h, R) \in Int /\ Sm(f, R) \in Int /\ Sm(g, R) \in Int
      BY <1>1, <1>2, SumType
    <3>5. Sm(h, R) = Sm(f, R) + Sm(g, R)
      BY <3>2
    <3>6. h[x] = f[x] + g[x] /\ f[x] \in Int /\ g[x] \in Int
      OBVIOUS
    <3> HIDE DEF Sm, R
    <3>7. Sm(h, T) = Sm(f, T) + Sm(g, T)
      BY <3>3, <3>4, <3>5, <3>6
    <3> QED
      BY <3>7
  <2> QED
    BY <2>1, <2>2
<1>4. G = SUBSET S
  <2> G \in SUBSET (SUBSET S)
    OBVIOUS
  <2> HIDE DEF G
  <2> QED
    BY <1>3, SubsetInduction
<1> QED
  BY <1>4

\* Changing one term changes the sum by the difference.
LEMMA SumUpdate ==
  ASSUME NEW S, IsFiniteSet(S), NEW f, \A x \in S : f[x] \in Int,
         NEW y \in S, NEW g, g[y] \in Int, \A x \in S \ {y} : g[x] = f[x]
  PROVE  SumFunctionOnSet(g, S) = SumFunctionOnSet(f, S) - f[y] + g[y]
<1> DEFINE R == S \ {y}
<1>1. IsFiniteSet(R) /\ \A x \in S : g[x] \in Int
  BY FS_RemoveElement
<1>2. /\ SumFunctionOnSet(f, S) = f[y] + SumFunctionOnSet(f, R)
      /\ SumFunctionOnSet(g, S) = g[y] + SumFunctionOnSet(g, R)
  BY <1>1, SumRemove
<1>3. SumFunctionOnSet(g, R) = SumFunctionOnSet(f, R)
  BY <1>1, SumCong
<1>4. SumFunctionOnSet(f, R) \in Int
  BY <1>1, SumType
<1> HIDE DEF R
<1> QED
  BY <1>2, <1>3, <1>4

\* A sum of naturals is a natural and at least each of its terms.
LEMMA SumNat ==
  ASSUME NEW S, IsFiniteSet(S), NEW f, \A x \in S : f[x] \in Nat
  PROVE  /\ SumFunctionOnSet(f, S) \in Nat
         /\ \A x \in S : f[x] <= SumFunctionOnSet(f, S)
<1> DEFINE G == {s \in SUBSET S : SumFunctionOnSet(f, s) \in Nat}
<1>1. \A s \in SUBSET S : IsFiniteSet(s)
  BY FS_Subset
<1>2. ASSUME NEW T \in SUBSET S, \A U \in SUBSET T : U # T => U \in G
      PROVE  T \in G
  <2>1. CASE T = {}
    BY <1>1, <2>1, SumType
  <2>2. CASE T # {}
    <3>1. PICK x \in T : TRUE
      BY <2>2
    <3>2. T \ {x} \in G
      BY <1>2, <3>1
    <3>3. SumFunctionOnSet(f, T) = f[x] + SumFunctionOnSet(f, T \ {x})
      BY <1>1, SumRemove
    <3> QED
      BY <3>2, <3>3
  <2> QED
    BY <2>1, <2>2
<1>3. G = SUBSET S
  <2> G \in SUBSET (SUBSET S)
    OBVIOUS
  <2> HIDE DEF G
  <2> QED
    BY <1>2, SubsetInduction
<1>4. ASSUME NEW x \in S PROVE f[x] <= SumFunctionOnSet(f, S)
  <2>1. SumFunctionOnSet(f, S) = f[x] + SumFunctionOnSet(f, S \ {x})
    BY SumRemove
  <2>2. SumFunctionOnSet(f, S \ {x}) \in Nat
    BY <1>3
  <2> QED
    BY <2>1, <2>2
<1> QED
  BY <1>3, <1>4

\* A sum splits along a subset.
LEMMA SumSplit ==
  ASSUME NEW S, IsFiniteSet(S), NEW f, \A x \in S : f[x] \in Int,
         NEW W \in SUBSET S
  PROVE  SumFunctionOnSet(f, S) = SumFunctionOnSet(f, W) + SumFunctionOnSet(f, S \ W)
<1> DEFINE Sm(s) == SumFunctionOnSet(f, s)
           G == {s \in SUBSET W : Sm(S) = Sm(s) + Sm(S \ s)}
<1>1. /\ IsFiniteSet(W)
      /\ \A s \in SUBSET S : IsFiniteSet(s)
  BY FS_Subset
<1>2. \A s \in SUBSET S : Sm(s) \in Int
  BY <1>1, SumType
<1>3. ASSUME NEW T \in SUBSET W, \A U \in SUBSET T : U # T => U \in G
      PROVE  T \in G
  <2>1. CASE T = {}
    <3>0. S \ T = S
      BY <2>1
    <3>1. Sm(T) = 0 /\ Sm(S \ T) = Sm(S)
      BY <1>1, <2>1, <3>0, SumType
    <3>2. Sm(S) \in Int
      BY <1>2
    <3> HIDE DEF Sm
    <3>3. Sm(S) = Sm(T) + Sm(S \ T)
      BY <3>1, <3>2
    <3> QED
      BY <3>3
  <2>2. CASE T # {}
    <3>1. PICK x \in T : TRUE
      BY <2>2
    <3> DEFINE R == T \ {x}
    <3>2. R \in G
      BY <1>3, <3>1
    <3>3. Sm(T) = f[x] + Sm(R)
      BY <1>1, <3>1, SumRemove
    <3>4. Sm(S \ R) = f[x] + Sm(S \ T)
      <4>1. (S \ R) \ {x} = S \ T /\ x \in S \ R /\ S \ R \in SUBSET S
        OBVIOUS
      <4>2. Sm(S \ R) = f[x] + Sm((S \ R) \ {x})
        BY <1>1, <4>1, SumRemove
      <4> QED
        BY <4>1, <4>2
    <3>5. /\ Sm(S) = Sm(R) + Sm(S \ R)
          /\ f[x] \in Int /\ Sm(R) \in Int /\ Sm(S \ T) \in Int
      BY <1>2, <3>2
    <3> HIDE DEF Sm, R
    <3>6. Sm(S) = Sm(T) + Sm(S \ T)
      BY <3>3, <3>4, <3>5
    <3> QED
      BY <3>6
  <2> QED
    BY <2>1, <2>2
<1>4. G = SUBSET W
  <2> G \in SUBSET (SUBSET W)
    OBVIOUS
  <2> HIDE DEF G
  <2> QED
    BY <1>1, <1>3, SubsetInduction
<1> QED
  BY <1>4

\* A sum is the sum over the classes of a partition: class[x] is the class of x,
\* part[t] the elements of class t and g[t] their sum.
LEMMA SumPartition ==
  ASSUME NEW S, IsFiniteSet(S), NEW f, \A x \in S : f[x] \in Int,
         NEW T, IsFiniteSet(T), NEW class, \A x \in S : class[x] \in T,
         NEW part, \A t \in T : part[t] \in SUBSET S /\ \A x \in S : x \in part[t] <=> class[x] = t,
         NEW g, \A t \in T : g[t] = SumFunctionOnSet(f, part[t])
  PROVE  SumFunctionOnSet(g, T) = SumFunctionOnSet(f, S)
<1> DEFINE Sm(k, s) == SumFunctionOnSet(k, s)
           In(W) == {x \in S : class[x] \in W}
           G == {W \in SUBSET T : Sm(g, W) = Sm(f, In(W))}
<1>1. /\ \A s \in SUBSET S : IsFiniteSet(s)
      /\ \A s \in SUBSET T : IsFiniteSet(s)
  BY FS_Subset
<1>2. \A s \in SUBSET S : Sm(f, s) \in Int
  BY <1>1, SumType
<1>3. \A t \in T : g[t] \in Int
  BY <1>2
<1>4. ASSUME NEW W \in SUBSET T, \A U \in SUBSET W : U # W => U \in G
      PROVE  W \in G
  <2>1. CASE W = {}
    <3>1. In(W) = {} /\ IsFiniteSet(In(W)) /\ \A x \in In(W) : f[x] \in Int
      BY <1>1, <2>1
    <3>2. Sm(g, W) = 0
      BY <1>1, <2>1, SumType
    <3>3. Sm(f, In(W)) = 0
      BY <3>1, SumType
    <3> QED
      BY <3>2, <3>3
  <2>2. CASE W # {}
    <3>1. PICK t \in W : TRUE
      BY <2>2
    <3> DEFINE R == W \ {t}
               C == part[t]
    <3>2. R \in G
      BY <1>4, <3>1
    <3>3. Sm(g, W) = g[t] + Sm(g, R)
      <4>1. IsFiniteSet(W) /\ t \in W /\ \A x \in W : g[x] \in Int
        BY <1>1, <1>3, <3>1
      <4>2. SumFunctionOnSet(g, W) = g[t] + SumFunctionOnSet(g, W \ {t})
        BY <4>1, SumRemove
      <4> QED
        BY <4>2
    <3>4. /\ C \in SUBSET In(W) /\ In(W) \in SUBSET S
          /\ In(W) \ C = In(R)
      BY <3>1
    <3>5. IsFiniteSet(In(W)) /\ \A x \in In(W) : f[x] \in Int
      BY <1>1
    <3> HIDE DEF In, C, R
    <3>6. Sm(f, In(W)) = Sm(f, C) + Sm(f, In(W) \ C)
      BY <3>4, <3>5, SumSplit
    <3>7. g[t] = Sm(f, C)
      BY <3>1 DEF C
    <3>8. Sm(g, R) = Sm(f, In(R))
      BY <3>2 DEF G
    <3>9. Sm(g, W) = Sm(f, In(W))
      BY <3>3, <3>4, <3>6, <3>7, <3>8
    <3> QED
      BY <3>9 DEF In
  <2> QED
    BY <2>1, <2>2
<1>5. G = SUBSET T
  <2> G \in SUBSET (SUBSET T)
    OBVIOUS
  <2> HIDE DEF G
  <2> QED
    BY <1>4, SubsetInduction
<1>6. In(T) = S
  OBVIOUS
<1> QED
  BY <1>5, <1>6

(***************************************************************************)
(* Beside sums: the least value.                                           *)
(***************************************************************************)

\* A finite map to the integers has a least value.
LEMMA HasLeast ==
  ASSUME NEW D, IsFiniteSet(D), NEW d \in D, NEW f, \A k \in D : f[k] \in Int
  PROVE  \E k \in D : \A j \in D : f[k] <= f[j]
<1> DEFINE below(k) == {j \in D : f[j] < f[k]}
           ranks == {Cardinality(below(k)) : k \in D}
           less == {p \in Nat \X Nat : p[1] < p[2]}
<1>1. \A k \in D : IsFiniteSet(below(k)) /\ Cardinality(below(k)) \in Nat
  BY FS_Subset, FS_CardinalityType
<1>2. IsWellFoundedOn(less, Nat)
  BY NatLessThanWellFounded DEF OpToRel
<1>3. ranks \subseteq Nat /\ ranks # {}
  BY <1>1
<1>4. PICK r \in ranks : \A s \in ranks : ~(<<s, r>> \in less)
  <2> HIDE DEF ranks, less
  <2> QED
    BY <1>2, <1>3, WFMin
<1>5. PICK k \in D : r = Cardinality(below(k))
  BY <1>4
<1>6. ASSUME NEW j \in D, f[j] < f[k]
      PROVE  FALSE
  <2>1. below(j) \subseteq below(k) /\ j \in below(k) /\ j \notin below(j)
    BY <1>6
  <2>2. Cardinality(below(j)) <= Cardinality(below(k)) /\ Cardinality(below(j)) # Cardinality(below(k))
    <3>1. IsFiniteSet(below(k)) /\ below(j) # below(k)
      BY <1>1, <2>1
    <3> HIDE DEF below
    <3> QED
      BY <2>1, <3>1, FS_Subset
  <2>3. Cardinality(below(j)) < Cardinality(below(k))
    BY <1>1, <2>2
  <2>4. <<Cardinality(below(j)), r>> \in less
    BY <1>1, <1>5, <2>3
  <2> QED
    BY <1>4, <2>4
<1> QED
  BY <1>6

=============================================================================
