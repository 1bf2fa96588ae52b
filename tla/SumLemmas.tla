------------------------------- MODULE SumLemmas -------------------------------
(***************************************************************************)
(* Sums over finite sets: SumFunction of the community modules, by which   *)
(* the models add up stakes, results and volumes, has the laws of a sum.   *)
(*                                                                         *)
(* SumFunction is a fold, and a fold is a recursive function that takes    *)
(* some element out at each step.  The recursion is unfolded by induction  *)
(* over subsets, stated with sets so that no operator is a parameter: the  *)
(* strict subsets of a finite set are well founded, so a least             *)
(* counterexample exists if any does.                                      *)
(***************************************************************************)
EXTENDS Integers, FiniteSets, Functions, FiniteSetTheorems, WellFoundedInduction, TLAPS

\* The sum of f over T.
SumOver(f, T) == SumFunction([x \in T |-> f[x]])

\* The step of SumFunction's recursion.
SumStep(f, g, s) ==
    IF s = {} THEN 0
    ELSE LET x == CHOOSE y \in s : TRUE IN f[x] + g[s \ {x}]

SumsUp(f, g, S) == g = [s \in SUBSET S |-> SumStep(f, g, s)]

-----------------------------------------------------------------------------

\* Induction over the subsets of a finite set: what holds of a set when it holds of all its
\* proper subsets holds of every subset.
LEMMA StrongSubsetInduction ==
    ASSUME NEW S, IsFiniteSet(S), NEW F,
           \A T \in SUBSET S : (\A U \in SUBSET T : U # T => U \in F) => T \in F
    PROVE  SUBSET S \subseteq F
  <1> SUFFICES ASSUME (SUBSET S) \ F # {} PROVE FALSE
    OBVIOUS
  <1> DEFINE bad == (SUBSET S) \ F
  <1>1. IsWellFoundedOn(StrictSubsetOrdering(S), SUBSET S)
    <2>1. FiniteSubsetsOf(S) = SUBSET S
      BY FS_FiniteSubsetsOfFinite
    <2>2. IsWellFoundedOn(StrictSubsetOrdering(S), FiniteSubsetsOf(S))
      BY FS_StrictSubsetOrderingWellFounded
    <2> QED
      BY <2>1, <2>2, Zenon
  <1>2. PICK T \in bad : \A U \in bad : ~(<<U, T>> \in StrictSubsetOrdering(S))
    <2> DEFINE below == StrictSubsetOrdering(S)
               all == SUBSET S
    <2>1. IsWellFoundedOn(below, all) /\ bad \subseteq all /\ bad # {}
      BY <1>1
    <2> HIDE DEF bad, below, all
    <2>2. \E T \in bad : \A U \in bad : ~(<<U, T>> \in below)
      BY <2>1, WFMin
    <2> QED
      BY <2>2 DEF below
  <1>3. \A U \in SUBSET T : U # T => U \in F
    BY <1>2 DEF StrictSubsetOrdering
  <1> QED
    BY <1>2, <1>3

\* The same one element at a time.
LEMMA SubsetInduction ==
    ASSUME NEW S, IsFiniteSet(S), NEW F, {} \in F,
           \A T \in SUBSET S : \A x \in T : T \ {x} \in F => T \in F
    PROVE  SUBSET S \subseteq F
  <1>1. ASSUME NEW T \in SUBSET S, \A U \in SUBSET T : U # T => U \in F
        PROVE  T \in F
    <2>1. CASE T = {}
      BY <2>1
    <2>2. CASE T # {}
      <3>1. PICK x \in T : TRUE
        BY <2>2
      <3>2. T \ {x} \in F
        BY <1>1, <3>1
      <3> QED
        BY <3>1, <3>2
    <2> QED
      BY <2>1, <2>2
  <1> QED
    BY <1>1, StrongSubsetInduction

\* What a recursive sum says of a set depends only on the amounts of its elements: not on the
\* larger set the recursion was set up over.
LEMMA SumsAgree ==
    ASSUME NEW S, IsFiniteSet(S), NEW U, NEW V, S \subseteq U, S \subseteq V, NEW f, NEW h,
           \A x \in S : f[x] = h[x],
           NEW g, NEW k, SumsUp(f, g, U), SumsUp(h, k, V)
    PROVE  g[S] = k[S]
  <1> DEFINE F == {T \in SUBSET S : g[T] = k[T]}
  <1>1. \A T \in SUBSET S : g[T] = SumStep(f, g, T) /\ k[T] = SumStep(h, k, T)
    BY DEF SumsUp
  <1>2. {} \in F
    BY <1>1 DEF SumStep
  <1>3. ASSUME NEW T \in SUBSET S, \A R \in SUBSET T : R # T => R \in F
        PROVE  T \in F
    <2>1. CASE T = {}
      BY <2>1, <1>2
    <2>2. CASE T # {}
      <3> DEFINE x == CHOOSE y \in T : TRUE
      <3>1. x \in T
        BY <2>2
      <3>2. T \ {x} \in F
        BY <1>3, <3>1
      <3>3. f[x] = h[x] /\ g[T \ {x}] = k[T \ {x}]
        BY <3>1, <3>2
      <3>4. g[T] = f[x] + g[T \ {x}] /\ k[T] = h[x] + k[T \ {x}]
        BY <1>1, <2>2 DEF SumStep
      <3> QED
        BY <3>3, <3>4
    <2> QED
      BY <2>1, <2>2
  <1> HIDE DEF F
  <1>4. SUBSET S \subseteq F
    BY <1>3, StrongSubsetInduction
  <1> QED
    BY <1>4 DEF F

\* SumFunction chooses a function that satisfies its recursion: there is one.
LEMMA SumsExists ==
    ASSUME NEW S, IsFiniteSet(S), NEW f
    PROVE  \E g : SumsUp(f, g, S)
  <1> DEFINE F == {T \in SUBSET S : \E g : SumsUp(f, g, T)}
             G(T) == (CHOOSE g : SumsUp(f, g, T))[T]
  <1>1. ASSUME NEW T \in SUBSET S, \A U \in SUBSET T : U # T => U \in F
        PROVE  T \in F
    <2> DEFINE G1(s) == IF s = {} THEN 0 ELSE LET x == CHOOSE y \in s : TRUE IN f[x] + G(s \ {x})
               h == [s \in SUBSET T |-> G1(s)]
    <2>1. ASSUME NEW s \in SUBSET T, s # T
          PROVE  G(s) = G1(s)
      <3> DEFINE g == CHOOSE k : SumsUp(f, k, s)
      <3>1. SumsUp(f, g, s)
        BY <1>1, <2>1
      <3>2. g[s] = SumStep(f, g, s)
        BY <3>1 DEF SumsUp
      <3>3. CASE s = {}
        BY <3>2, <3>3 DEF SumStep
      <3>4. CASE s # {}
        <4> DEFINE x == CHOOSE y \in s : TRUE
                   r == s \ {x}
                   k == CHOOSE l : SumsUp(f, l, r)
        <4>1. x \in s
          BY <3>4
        <4>2. r \in SUBSET T /\ r # T
          BY <2>1, <4>1
        <4>3. SumsUp(f, k, r)
          BY <1>1, <4>2
        <4>4. IsFiniteSet(r)
          BY <4>2, FS_Subset
        <4>5. g[r] = k[r]
          <5> HIDE DEF g, k, r, x
          <5> QED
          BY <3>1, <4>3, <4>4, SumsAgree, r \subseteq s, r \subseteq r DEF r
        <4>6. g[s] = f[x] + g[r]
          BY <3>2, <3>4 DEF SumStep
        <4> QED
          BY <4>5, <4>6, <3>4
      <3> QED
        BY <3>3, <3>4
    <2>2. ASSUME NEW s \in SUBSET T
          PROVE  G1(s) = SumStep(f, h, s)
      <3>1. CASE s = {}
        BY <3>1 DEF SumStep
      <3>2. CASE s # {}
        <4> DEFINE x == CHOOSE y \in s : TRUE
        <4>1. x \in s
          BY <3>2
        <4>2. s \ {x} \in SUBSET T /\ s \ {x} # T
          BY <4>1
        <4>3. h[s \ {x}] = G(s \ {x})
          BY <2>1, <4>2
        <4> QED
          BY <4>3, <3>2 DEF SumStep
      <3> QED
        BY <3>1, <3>2
    <2>3. SumsUp(f, h, T)
      BY <2>2 DEF SumsUp
    <2> QED
      BY <2>3
  <1> HIDE DEF F
  <1>2. SUBSET S \subseteq F
    BY <1>1, StrongSubsetInduction
  <1> QED
    BY <1>2 DEF F

-----------------------------------------------------------------------------

\* SumFunction is that function at the whole domain.
LEMMA SumUnfolds ==
    ASSUME NEW f
    PROVE  SumFunction(f) = (CHOOSE g : SumsUp(f, g, DOMAIN f))[DOMAIN f]
  BY DEF SumFunction, SumFunctionOnSet, FoldFunctionOnSet, MapThenFoldSet, SumsUp, SumStep

\* Nothing sums to 0.
LEMMA SumOverEmpty ==
    ASSUME NEW f
    PROVE  SumOver(f, {}) = 0
  <1> DEFINE r == [x \in {} |-> f[x]]
             g == CHOOSE k : SumsUp(r, k, {})
  <1>1. SumsUp(r, g, {})
    BY SumsExists, FS_EmptySet
  <1>2. g[{}] = 0
    BY <1>1 DEF SumsUp, SumStep
  <1>3. DOMAIN r = {}
    OBVIOUS
  <1> QED
    BY <1>2, <1>3, SumUnfolds DEF SumOver

\* A sum takes some element out first.
LEMMA SumOverPick ==
    ASSUME NEW S, IsFiniteSet(S), S # {}, NEW f
    PROVE  \E x \in S : SumOver(f, S) = f[x] + SumOver(f, S \ {x})
  <1> DEFINE x == CHOOSE y \in S : TRUE
             T == S \ {x}
             p == [y \in S |-> f[y]]
             q == [y \in T |-> f[y]]
             g == CHOOSE k : SumsUp(p, k, S)
             h == CHOOSE k : SumsUp(q, k, T)
  <1>1. x \in S
    OBVIOUS
  <1>2. IsFiniteSet(T)
    BY FS_RemoveElement
  <1>3. SumsUp(p, g, S)
    BY SumsExists
  <1>4. SumsUp(q, h, T)
    BY <1>2, SumsExists
  <1>5. SumOver(f, S) = g[S]
    <2>1. DOMAIN p = S
      OBVIOUS
    <2> QED
      BY <2>1, SumUnfolds DEF SumOver
  <1>6. SumOver(f, T) = h[T]
    <2>1. DOMAIN q = T
      OBVIOUS
    <2> QED
      BY <2>1, SumUnfolds DEF SumOver
  <1>7. g[T] = h[T]
    <2>1. \A y \in T : p[y] = q[y]
      OBVIOUS
    <2>2. T \subseteq S /\ T \subseteq T
      OBVIOUS
    <2> HIDE DEF g, h, p, q, T
    <2> QED
      BY <1>2, <1>3, <1>4, <2>1, <2>2, SumsAgree
  <1>8. g[S] = p[x] + g[T]
    BY <1>3 DEF SumsUp, SumStep
  <1>9. SumOver(f, S) = f[x] + SumOver(f, T)
    BY <1>1, <1>5, <1>6, <1>7, <1>8
  <1> QED
    BY <1>1, <1>9

\* Equal amounts have equal sums.
LEMMA SumOverEqual ==
    ASSUME NEW S, NEW f, NEW g, \A x \in S : f[x] = g[x]
    PROVE  SumOver(f, S) = SumOver(g, S)
  <1>1. [x \in S |-> f[x]] = [x \in S |-> g[x]]
    OBVIOUS
  <1> QED
    BY <1>1 DEF SumOver

\* Whole amounts have a whole sum.
LEMMA SumOverInt ==
    ASSUME NEW S, IsFiniteSet(S), NEW f, \A x \in S : f[x] \in Int
    PROVE  SumOver(f, S) \in Int
  <1> DEFINE F == {T \in SUBSET S : SumOver(f, T) \in Int}
  <1>1. ASSUME NEW T \in SUBSET S, \A U \in SUBSET T : U # T => U \in F
        PROVE  T \in F
    <2>1. CASE T = {}
      BY <2>1, SumOverEmpty
    <2>2. CASE T # {}
      <3>1. PICK x \in T : SumOver(f, T) = f[x] + SumOver(f, T \ {x})
        BY <2>2, SumOverPick, FS_Subset
      <3>2. SumOver(f, T \ {x}) \in Int /\ f[x] \in Int
        BY <1>1
      <3> QED
        BY <3>1, <3>2
    <2> QED
      BY <2>1, <2>2
  <1> HIDE DEF F
  <1>2. SUBSET S \subseteq F
    BY <1>1, StrongSubsetInduction
  <1> QED
    BY <1>2 DEF F

\* Any element can be taken out first.
LEMMA SumOverWithout ==
    ASSUME NEW S, IsFiniteSet(S), NEW f, \A x \in S : f[x] \in Int, NEW x \in S
    PROVE  SumOver(f, S) = f[x] + SumOver(f, S \ {x})
  <1> DEFINE F == {T \in SUBSET S : \A y \in T : SumOver(f, T) = f[y] + SumOver(f, T \ {y})}
  <1>1. ASSUME NEW T \in SUBSET S, \A U \in SUBSET T : U # T => U \in F
        PROVE  T \in F
    <2> SUFFICES ASSUME NEW y \in T PROVE SumOver(f, T) = f[y] + SumOver(f, T \ {y})
      OBVIOUS
    <2>1. PICK z \in T : SumOver(f, T) = f[z] + SumOver(f, T \ {z})
      BY SumOverPick, FS_Subset
    <2>2. CASE y = z
      BY <2>1, <2>2
    <2>3. CASE y # z
      <3> DEFINE R == (T \ {z}) \ {y}
      <3>1. SumOver(f, T \ {z}) = f[y] + SumOver(f, R)
        BY <1>1, <2>3
      <3>2. R = (T \ {y}) \ {z}
        OBVIOUS
      <3>3. SumOver(f, T \ {y}) = f[z] + SumOver(f, R)
        BY <1>1, <2>3, <3>2
      <3>4. f[y] \in Int /\ f[z] \in Int /\ SumOver(f, R) \in Int
        <4>1. R \in SUBSET S
          OBVIOUS
        <4>2. IsFiniteSet(R)
          BY <4>1, FS_Subset
        <4>3. \A w \in R : f[w] \in Int
          OBVIOUS
        <4> HIDE DEF R
        <4>4. SumOver(f, R) \in Int
          BY <4>2, <4>3, SumOverInt
        <4> QED
          BY <4>4
      <3> HIDE DEF R
      <3> QED
        BY <2>1, <3>1, <3>3, <3>4
    <2> QED
      BY <2>2, <2>3
  <1> HIDE DEF F
  <1>2. SUBSET S \subseteq F
    BY <1>1, StrongSubsetInduction
  <1> QED
    BY <1>2 DEF F

\* Smaller amounts have a smaller sum.
LEMMA SumOverMonotone ==
    ASSUME NEW S, IsFiniteSet(S), NEW f, NEW g,
           \A x \in S : f[x] \in Int /\ g[x] \in Int /\ f[x] <= g[x]
    PROVE  SumOver(f, S) <= SumOver(g, S)
  <1> DEFINE F == {T \in SUBSET S : SumOver(f, T) <= SumOver(g, T)}
  <1>1. {} \in F
    BY SumOverEmpty
  <1>2. ASSUME NEW T \in SUBSET S, NEW x \in T, T \ {x} \in F
        PROVE  T \in F
    <2>1. IsFiniteSet(T) /\ IsFiniteSet(T \ {x})
      BY FS_Subset
    <2>2. SumOver(f, T) = f[x] + SumOver(f, T \ {x}) /\ SumOver(g, T) = g[x] + SumOver(g, T \ {x})
      BY <2>1, SumOverWithout
    <2>3. SumOver(f, T \ {x}) \in Int /\ SumOver(g, T \ {x}) \in Int
      BY <2>1, SumOverInt
    <2>4. SumOver(f, T \ {x}) <= SumOver(g, T \ {x})
      BY <1>2
    <2>5. f[x] \in Int /\ g[x] \in Int /\ f[x] <= g[x]
      OBVIOUS
    <2>6. SumOver(f, T) <= SumOver(g, T)
      BY <2>2, <2>3, <2>4, <2>5
    <2> QED
      BY <2>6
  <1> HIDE DEF F
  <1>3. SUBSET S \subseteq F
    BY <1>1, <1>2, SubsetInduction
  <1> QED
    BY <1>3 DEF F

\* A sum over a part is the sum over the whole with nothing for the rest.
LEMMA SumOverPart ==
    ASSUME NEW S, IsFiniteSet(S), NEW U, U \subseteq S, NEW f, \A x \in U : f[x] \in Int
    PROVE  SumOver(f, U) = SumOver([x \in S |-> IF x \in U THEN f[x] ELSE 0], S)
  <1> DEFINE g == [x \in S |-> IF x \in U THEN f[x] ELSE 0]
             F == {T \in SUBSET S : SumOver(f, U \cap T) = SumOver(g, T)}
  <1>1. {} \in F
    <2>1. U \cap {} = {}
      OBVIOUS
    <2> QED
      BY <2>1, SumOverEmpty
  <1>2. ASSUME NEW T \in SUBSET S, NEW x \in T, T \ {x} \in F
        PROVE  T \in F
    <2> DEFINE R == T \ {x}
    <2>1. IsFiniteSet(T) /\ IsFiniteSet(U \cap T)
      BY FS_Subset
    <2>2. \A y \in T : g[y] \in Int
      OBVIOUS
    <2>3. g[x] = IF x \in U THEN f[x] ELSE 0
      OBVIOUS
    <2>4. SumOver(f, U \cap R) = SumOver(g, R)
      BY <1>2
    <2>5. SumOver(g, T) = g[x] + SumOver(g, R) /\ SumOver(g, R) \in Int
      <3> HIDE DEF g
      <3>1. IsFiniteSet(R)
        BY FS_Subset
      <3> QED
        BY <2>1, <2>2, <3>1, SumOverWithout, SumOverInt
    <2>6. CASE x \in U
      <3>1. (U \cap T) \ {x} = U \cap R
        OBVIOUS
      <3>2. SumOver(f, U \cap T) = f[x] + SumOver(f, U \cap R)
        <4>1. x \in U \cap T /\ \A y \in U \cap T : f[y] \in Int
          BY <2>6
        <4>2. SumOver(f, U \cap T) = f[x] + SumOver(f, (U \cap T) \ {x})
          BY <4>1, <2>1, SumOverWithout
        <4> QED
          BY <3>1, <4>2
      <3> QED
        BY <2>3, <2>4, <2>5, <2>6, <3>2
    <2>7. CASE x \notin U
      <3>1. U \cap T = U \cap R
        BY <2>7
      <3> QED
        BY <2>3, <2>4, <2>5, <2>7, <3>1
    <2> QED
      BY <2>6, <2>7
  <1> HIDE DEF F, g
  <1>3. SUBSET S \subseteq F
    BY <1>1, <1>2, SubsetInduction
  <1>4. U \cap S = U
    OBVIOUS
  <1>5. SumOver(f, U) = SumOver(g, S)
    BY <1>3, <1>4 DEF F
  <1> QED
    BY <1>5 DEF g

\* Amounts added element by element have the sum of the sums.
LEMMA SumOverPlus ==
    ASSUME NEW S, IsFiniteSet(S), NEW f, NEW g, NEW h,
           \A x \in S : f[x] \in Int /\ g[x] \in Int /\ h[x] = f[x] + g[x]
    PROVE  SumOver(h, S) = SumOver(f, S) + SumOver(g, S)
  <1> DEFINE F == {T \in SUBSET S : SumOver(h, T) = SumOver(f, T) + SumOver(g, T)}
  <1>1. {} \in F
    BY SumOverEmpty
  <1>2. ASSUME NEW T \in SUBSET S, NEW x \in T, T \ {x} \in F
        PROVE  T \in F
    <2> DEFINE R == T \ {x}
    <2>1. IsFiniteSet(T) /\ IsFiniteSet(R)
      BY FS_Subset
    <2>2. /\ SumOver(f, T) = f[x] + SumOver(f, R)
          /\ SumOver(g, T) = g[x] + SumOver(g, R)
          /\ SumOver(h, T) = h[x] + SumOver(h, R)
      BY <2>1, SumOverWithout
    <2>3. SumOver(f, R) \in Int /\ SumOver(g, R) \in Int
      <3> HIDE DEF R
      <3>1. \A y \in R : f[y] \in Int /\ g[y] \in Int
        BY DEF R
      <3> QED
        BY <2>1, <3>1, SumOverInt
    <2>4. SumOver(h, R) = SumOver(f, R) + SumOver(g, R)
      BY <1>2
    <2>5. f[x] \in Int /\ g[x] \in Int /\ h[x] = f[x] + g[x]
      OBVIOUS
    <2> HIDE DEF R
    <2>6. SumOver(h, T) = SumOver(f, T) + SumOver(g, T)
      BY <2>2, <2>3, <2>4, <2>5
    <2> QED
      BY <2>6
  <1> HIDE DEF F
  <1>3. SUBSET S \subseteq F
    BY <1>1, <1>2, SubsetInduction
  <1> QED
    BY <1>3 DEF F

\* Amounts that are not negative have a sum that is not.
LEMMA SumOverNat ==
    ASSUME NEW S, IsFiniteSet(S), NEW f, \A x \in S : f[x] \in Nat
    PROVE  SumOver(f, S) \in Nat
  <1> DEFINE F == {T \in SUBSET S : SumOver(f, T) \in Nat}
  <1>1. {} \in F
    BY SumOverEmpty
  <1>2. ASSUME NEW T \in SUBSET S, NEW x \in T, T \ {x} \in F
        PROVE  T \in F
    <2>1. SumOver(f, T) = f[x] + SumOver(f, T \ {x})
      BY FS_Subset, SumOverWithout
    <2>2. f[x] \in Nat /\ SumOver(f, T \ {x}) \in Nat
      BY <1>2
    <2>3. SumOver(f, T) \in Nat
      BY <2>1, <2>2
    <2> QED
      BY <2>3
  <1> HIDE DEF F
  <1>3. SUBSET S \subseteq F
    BY <1>1, <1>2, SubsetInduction
  <1> QED
    BY <1>3 DEF F

\* Amounts of which none, k times over, is more than c.
LEMMA SumOverBounded ==
    ASSUME NEW S, IsFiniteSet(S), NEW f, NEW k \in Nat, NEW c \in Nat,
           \A x \in S : f[x] \in Int /\ k * f[x] <= c
    PROVE  k * SumOver(f, S) <= Cardinality(S) * c
  <1> DEFINE F == {T \in SUBSET S : k * SumOver(f, T) <= Cardinality(T) * c}
  <1>1. {} \in F
    BY SumOverEmpty, FS_EmptySet
  <1>2. ASSUME NEW T \in SUBSET S, NEW x \in T, T \ {x} \in F
        PROVE  T \in F
    <2> DEFINE R == T \ {x}
               s == SumOver(f, R)
               n == Cardinality(R)
    <2>1. IsFiniteSet(T) /\ IsFiniteSet(R)
      BY FS_Subset
    <2>2. SumOver(f, T) = f[x] + s
      BY <2>1, SumOverWithout
    <2>3. s \in Int /\ f[x] \in Int /\ k * f[x] <= c
      <3> HIDE DEF R
      <3>1. \A y \in R : f[y] \in Int
        BY DEF R
      <3>2. s \in Int
        BY <2>1, <3>1, SumOverInt
      <3> QED
        BY <3>2
    <2>4. n \in Nat /\ Cardinality(T) = n + 1
      <3>1. T = R \union {x} /\ x \notin R
        OBVIOUS
      <3> HIDE DEF R
      <3> QED
        BY <2>1, <3>1, FS_AddElement, FS_CardinalityType
    <2>5. k * s <= n * c
      BY <1>2
    <2> HIDE DEF s, n, R
    <2>6. k * (f[x] + s) = k * f[x] + k * s /\ (n + 1) * c = n * c + c
      BY <2>3, <2>4
    <2>7. k * f[x] \in Int /\ k * s \in Int /\ n * c \in Int
      BY <2>3, <2>4
    <2>8. k * SumOver(f, T) <= Cardinality(T) * c
      BY <2>2, <2>3, <2>4, <2>5, <2>6, <2>7
    <2> QED
      BY <2>8
  <1> HIDE DEF F
  <1>3. SUBSET S \subseteq F
    BY <1>1, <1>2, SubsetInduction
  <1> QED
    BY <1>3 DEF F

\* One amount changed changes the sum by as much.
LEMMA SumOverChanged ==
    ASSUME NEW S, IsFiniteSet(S), NEW f, NEW g, NEW x \in S,
           \A y \in S : f[y] \in Int /\ g[y] \in Int /\ (y # x => g[y] = f[y])
    PROVE  SumOver(g, S) = SumOver(f, S) - f[x] + g[x]
  <1>1. SumOver(f, S) = f[x] + SumOver(f, S \ {x}) /\ SumOver(g, S) = g[x] + SumOver(g, S \ {x})
    BY SumOverWithout
  <1>2. SumOver(f, S \ {x}) = SumOver(g, S \ {x})
    BY SumOverEqual
  <1>3. SumOver(f, S \ {x}) \in Int
    <2> DEFINE R == S \ {x}
    <2>1. IsFiniteSet(R) /\ \A y \in R : f[y] \in Int
      BY FS_RemoveElement
    <2> HIDE DEF R
    <2>2. SumOver(f, R) \in Int
      BY <2>1, SumOverInt
    <2> QED
      BY <2>2 DEF R
  <1> QED
    BY <1>1, <1>2, <1>3

\* A part of amounts that are not negative has no larger sum.
LEMMA SumOverSubset ==
    ASSUME NEW S, IsFiniteSet(S), NEW U, U \subseteq S, NEW f, \A x \in S : f[x] \in Nat
    PROVE  SumOver(f, U) <= SumOver(f, S)
  <1> DEFINE g == [x \in S |-> IF x \in U THEN f[x] ELSE 0]
  <1>1. \A x \in S : f[x] \in Int /\ g[x] \in Int /\ g[x] <= f[x]
    OBVIOUS
  <1>2. SumOver(f, U) = SumOver(g, S)
    BY SumOverPart
  <1> HIDE DEF g
  <1>3. SumOver(g, S) <= SumOver(f, S)
    BY <1>1, SumOverMonotone
  <1> QED
    BY <1>2, <1>3
================================================================================
