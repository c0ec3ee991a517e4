-------------------------------- MODULE Sums --------------------------------
(***************************************************************************)
(* What the sums the models take are: SumFunctionOnSet of the community    *)
(* modules, over a finite set, for every size of it.  The totals of a      *)
(* payable, a receivable, a payroll are such sums, SUM() in the queries.   *)
(*                                                                         *)
(* A sum is defined by a recursive function over the subsets of a set.     *)
(* The induction is over those subsets: the strict subset ordering of a    *)
(* finite set is well founded, so among the subsets that break a claim one *)
(* is smallest, and the sum over it takes one step.                        *)
(***************************************************************************)
EXTENDS Integers, FiniteSets, Functions, FiniteSetTheorems, WellFoundedInduction, TLAPS

(* The element the community modules' fold takes next. *)
One(s) == CHOOSE x \in s : TRUE

(* The recursive function that adds f up. *)
Adds(f, S, g) ==
  g = [s \in SUBSET S |-> IF s = {} THEN 0 ELSE f[One(s)] + g[s \ {One(s)}]]

(* A sum is the value of the recursive function that adds up. *)
LEMMA SumUnfolds ==
  ASSUME NEW f, NEW S
  PROVE  SumFunctionOnSet(f, S) = (CHOOSE g : Adds(f, S, g))[S]
BY DEF SumFunctionOnSet, FoldFunctionOnSet, MapThenFoldSet, Adds, One

(* Among the subsets of a finite set that are in T one is smallest. *)
LEMMA Smallest ==
  ASSUME NEW S, IsFiniteSet(S), NEW T, T \subseteq SUBSET S, T # {}
  PROVE  \E U \in T : \A V \in T : ~(V \subseteq U /\ V # U)
<1>1. IsWellFoundedOn(StrictSubsetOrdering(S), SUBSET S)
  BY FS_StrictSubsetOrderingWellFounded, FS_FiniteSubsetsOfFinite
<1>2. PICK U \in T : \A V \in T : ~(<<V, U>> \in StrictSubsetOrdering(S))
  BY <1>1, WFMin
<1> QED BY <1>2 DEF StrictSubsetOrdering

(* The fold takes an element of the set. *)
LEMMA OneOf == ASSUME NEW s, s # {} PROVE One(s) \in s
BY DEF One

(* Two functions that add up agree where both are defined. *)
LEMMA AddsAgree ==
  ASSUME NEW f, NEW S, IsFiniteSet(S), NEW A \in SUBSET S, NEW B \in SUBSET S,
         NEW g, Adds(f, A, g), NEW h, Adds(f, B, h),
         NEW V, V \subseteq A, V \subseteq B
  PROVE  g[V] = h[V]
<1> DEFINE Bad == {W \in SUBSET S : W \subseteq A /\ W \subseteq B /\ g[W] # h[W]}
<1>1. ASSUME Bad # {} PROVE FALSE
  <2>1. PICK U \in Bad : \A W \in Bad : ~(W \subseteq U /\ W # U)
    <3>1. Bad \subseteq SUBSET S OBVIOUS
    <3> HIDE DEF Bad
    <3> QED BY <1>1, <3>1, Smallest
  <2>2. CASE U = {}
    <3>1. g[{}] = 0 /\ h[{}] = 0 BY DEF Adds
    <3> QED BY <2>2, <3>1
  <2>3. CASE U # {}
    <3> DEFINE W == U \ {One(U)}
    <3>1. One(U) \in U BY <2>3, OneOf
    <3>2. g[U] = f[One(U)] + g[W] /\ h[U] = f[One(U)] + h[W] BY <2>3 DEF Adds
    <3>3. W \notin Bad BY <2>1, <3>1
    <3> QED BY <3>2, <3>3
  <2> QED BY <2>2, <2>3
<1> QED BY <1>1

(* There is a function that adds up, on every finite set. *)
LEMMA AddsExists ==
  ASSUME NEW f, NEW S, IsFiniteSet(S)
  PROVE  \E g : Adds(f, S, g)
<1> DEFINE Bad == {W \in SUBSET S : ~ \E g : Adds(f, W, g)}
<1>1. ASSUME Bad # {} PROVE FALSE
  <2>1. PICK U \in Bad : \A W \in Bad : ~(W \subseteq U /\ W # U)
    <3>1. Bad \subseteq SUBSET S OBVIOUS
    <3> HIDE DEF Bad
    <3> QED BY <1>1, <3>1, Smallest
  <2> DEFINE G(W) == CHOOSE g : Adds(f, W, g)
             Step(W) == IF W = {} THEN 0
                        ELSE f[One(W)] + G(W \ {One(W)})[W \ {One(W)}]
             h == [W \in SUBSET U |-> Step(W)]
  <2>2. ASSUME NEW W \in SUBSET U, W # U PROVE Adds(f, W, G(W))
    <3>1. W \in SUBSET S /\ W \notin Bad BY <2>1, <2>2
    <3>2. \E g : Adds(f, W, g) BY <3>1
    <3> QED BY <3>2
  <2> HIDE DEF G
  <2>3. ASSUME NEW W \in SUBSET U, W # U PROVE h[W] = G(W)[W]
    <3>1. Adds(f, W, G(W)) BY <2>2, <2>3
    <3>2. CASE W = {} BY <3>1, <3>2 DEF Adds
    <3>3. CASE W # {}
      <4> DEFINE V == W \ {One(W)}
      <4>1. One(W) \in W BY <3>3, OneOf
      <4>2. V \in SUBSET U /\ V # U /\ V \subseteq W BY <2>3, <4>1
      <4>3. Adds(f, V, G(V)) BY <2>2, <4>2
      <4>4. W \in SUBSET S /\ V \in SUBSET S OBVIOUS
      <4>5. G(W)[W] = f[One(W)] + G(W)[V] BY <3>1, <3>3 DEF Adds
      <4>6. G(W)[V] = G(V)[V]
        <5> HIDE DEF V, Bad, h
        <5>1. V \subseteq V OBVIOUS
        <5> QED BY <3>1, <4>2, <4>3, <4>4, <5>1, AddsAgree
      <4> QED BY <3>3, <4>5, <4>6
    <3> QED BY <3>2, <3>3
  <2>4. Adds(f, U, h)
    <3>1. ASSUME NEW W \in SUBSET U, W # {}
          PROVE  h[W] = f[One(W)] + h[W \ {One(W)}]
      <4>1. One(W) \in W BY <3>1, OneOf
      <4>2. W \ {One(W)} \in SUBSET U /\ W \ {One(W)} # U BY <4>1
      <4>3. h[W \ {One(W)}] = G(W \ {One(W)})[W \ {One(W)}] BY <2>3, <4>2
      <4>4. h[W] = f[One(W)] + G(W \ {One(W)})[W \ {One(W)}] BY <3>1
      <4> QED BY <4>3, <4>4
    <3>2. h[{}] = 0 OBVIOUS
    <3>3. h = [W \in SUBSET U |-> IF W = {} THEN 0 ELSE f[One(W)] + h[W \ {One(W)}]]
      BY <3>1, <3>2
    <3> QED BY <3>3 DEF Adds
  <2> QED BY <2>1, <2>4
<1>2. S \notin Bad BY <1>1
<1> QED BY <1>2


(* Nothing adds up to zero. *)
LEMMA SumOfNone == ASSUME NEW f PROVE SumFunctionOnSet(f, {}) = 0
<1>1. PICK g : Adds(f, {}, g) BY AddsExists, FS_EmptySet
<1>2. Adds(f, {}, CHOOSE h : Adds(f, {}, h)) BY <1>1
<1> QED BY <1>2, SumUnfolds DEF Adds

(* A sum is the term the fold takes first, and the sum of the others. *)
LEMMA SumTakesOne ==
  ASSUME NEW f, NEW S, IsFiniteSet(S), S # {}
  PROVE  SumFunctionOnSet(f, S) = f[One(S)] + SumFunctionOnSet(f, S \ {One(S)})
<1> DEFINE R == S \ {One(S)}
           g == CHOOSE k : Adds(f, S, k)
           h == CHOOSE k : Adds(f, R, k)
<1>1. IsFiniteSet(R) BY FS_RemoveElement
<1>2. Adds(f, S, g)
  <2>1. \E k : Adds(f, S, k) BY AddsExists
  <2> QED BY <2>1
<1>3. Adds(f, R, h)
  <2> HIDE DEF R
  <2>1. \E k : Adds(f, R, k) BY <1>1, AddsExists
  <2> QED BY <2>1
<1>4. R \subseteq S OBVIOUS
<1>5. SumFunctionOnSet(f, S) = g[S] /\ SumFunctionOnSet(f, R) = h[R]
  <2> HIDE DEF R
  <2> QED BY SumUnfolds
<1>6. g[S] = f[One(S)] + g[R] BY <1>2 DEF Adds
<1>7. g[R] = h[R]
  <2> HIDE DEF R, g, h
  <2>1. S \in SUBSET S /\ R \in SUBSET S /\ R \subseteq R BY <1>4
  <2> QED BY <1>2, <1>3, <1>4, <2>1, AddsAgree
<1> QED BY <1>5, <1>6, <1>7

(* Integers add up to an integer. *)
LEMMA SumType ==
  ASSUME NEW S, IsFiniteSet(S), NEW f, \A x \in S : f[x] \in Int
  PROVE  SumFunctionOnSet(f, S) \in Int
<1> DEFINE Bad == {W \in SUBSET S : SumFunctionOnSet(f, W) \notin Int}
<1>1. ASSUME Bad # {} PROVE FALSE
  <2>1. PICK U \in Bad : \A W \in Bad : ~(W \subseteq U /\ W # U)
    <3>1. Bad \subseteq SUBSET S OBVIOUS
    <3> HIDE DEF Bad
    <3> QED BY <1>1, <3>1, Smallest
  <2>2. U # {} BY SumOfNone
  <2>3. One(U) \in U BY <2>2, OneOf
  <2>4. IsFiniteSet(U) BY FS_Subset
  <2>5. SumFunctionOnSet(f, U) = f[One(U)] + SumFunctionOnSet(f, U \ {One(U)})
    BY <2>2, <2>4, SumTakesOne
  <2>6. U \ {One(U)} \notin Bad BY <2>1, <2>3
  <2>7. SumFunctionOnSet(f, U \ {One(U)}) \in Int BY <2>6
  <2>8. f[One(U)] \in Int BY <2>3
  <2> QED BY <2>1, <2>5, <2>7, <2>8
<1>2. S \notin Bad BY <1>1
<1> QED BY <1>2

(* It does not matter which term is taken first. *)
LEMMA SumSplits ==
  ASSUME NEW S, IsFiniteSet(S), NEW f, \A x \in S : f[x] \in Int, NEW x \in S
  PROVE  SumFunctionOnSet(f, S) = f[x] + SumFunctionOnSet(f, S \ {x})
<1> DEFINE Splits(W, y) == SumFunctionOnSet(f, W) = f[y] + SumFunctionOnSet(f, W \ {y})
           Bad == {W \in SUBSET S : \E y \in W : ~ Splits(W, y)}
<1>1. ASSUME Bad # {} PROVE FALSE
  <2>1. PICK U \in Bad : \A W \in Bad : ~(W \subseteq U /\ W # U)
    <3>1. Bad \subseteq SUBSET S OBVIOUS
    <3> HIDE DEF Bad
    <3> QED BY <1>1, <3>1, Smallest
  <2>2. PICK y \in U : ~ Splits(U, y) OBVIOUS
  <2> DEFINE z == One(U)
  <2>3. z \in U BY OneOf
  <2>4. IsFiniteSet(U) BY FS_Subset
  <2>5. Splits(U, z) BY <2>4, <2>3, SumTakesOne
  <2>6. y # z BY <2>2, <2>5
  <2>7. Splits(U \ {z}, y)
    <3>1. U \ {z} \notin Bad BY <2>1, <2>3
    <3> QED BY <2>6, <3>1
  <2>8. Splits(U \ {y}, z)
    <3>1. U \ {y} \notin Bad BY <2>1
    <3> QED BY <2>3, <2>6, <3>1
  <2>9. (U \ {z}) \ {y} = (U \ {y}) \ {z} OBVIOUS
  <2>10. SumFunctionOnSet(f, (U \ {y}) \ {z}) \in Int
    <3> DEFINE V == (U \ {y}) \ {z}
    <3>1. V \subseteq S OBVIOUS
    <3>2. IsFiniteSet(V) BY <3>1, FS_Subset
    <3>3. \A w \in V : f[w] \in Int BY <3>1
    <3> HIDE DEF V
    <3>4. SumFunctionOnSet(f, V) \in Int BY <3>2, <3>3, SumType
    <3> QED BY <3>4 DEF V
  <2>11. f[y] \in Int /\ f[z] \in Int BY <2>3
  <2> HIDE DEF z
  <2>12. Splits(U, y)
    <3> DEFINE v == SumFunctionOnSet(f, (U \ {y}) \ {z})
    <3>1. SumFunctionOnSet(f, U) = f[z] + (f[y] + v) BY <2>5, <2>7, <2>9
    <3>2. SumFunctionOnSet(f, U \ {y}) = f[z] + v BY <2>8
    <3>3. v \in Int BY <2>10
    <3> HIDE DEF v
    <3>4. f[z] + (f[y] + v) = f[y] + (f[z] + v) BY <2>11, <3>3
    <3> QED BY <3>1, <3>2, <3>4
  <2> QED BY <2>2, <2>12
<1>2. S \notin Bad BY <1>1
<1> QED BY <1>2

(* Induction over a finite set, for a set of its subsets. *)
LEMMA SubsetInduction ==
  ASSUME NEW S, IsFiniteSet(S), NEW T, {} \in T,
         \A W \in SUBSET S : \A x \in S \ W : W \in T => W \cup {x} \in T
  PROVE  S \in T
<1> DEFINE Bad == {W \in SUBSET S : W \notin T}
<1>1. ASSUME Bad # {} PROVE FALSE
  <2>1. PICK U \in Bad : \A W \in Bad : ~(W \subseteq U /\ W # U)
    <3>1. Bad \subseteq SUBSET S OBVIOUS
    <3> HIDE DEF Bad
    <3> QED BY <1>1, <3>1, Smallest
  <2>2. PICK x \in U : TRUE OBVIOUS
  <2>3. U \ {x} \in T BY <2>1
  <2>4. (U \ {x}) \cup {x} = U OBVIOUS
  <2>5. U \ {x} \in SUBSET S /\ x \in S \ (U \ {x}) OBVIOUS
  <2>6. (U \ {x}) \cup {x} \in T BY <2>3, <2>5
  <2> QED BY <2>4, <2>6
<1>2. S \notin Bad BY <1>1
<1> QED BY <1>2

(* One more term makes the sum grow by it. *)
LEMMA SumGrows ==
  ASSUME NEW S, IsFiniteSet(S), NEW f, \A y \in S : f[y] \in Int,
         NEW W \in SUBSET S, NEW x \in S \ W
  PROVE  /\ SumFunctionOnSet(f, W) \in Int
         /\ SumFunctionOnSet(f, W \cup {x}) = f[x] + SumFunctionOnSet(f, W)
<1>1. IsFiniteSet(W) /\ IsFiniteSet(W \cup {x}) BY FS_Subset
<1>2. (W \cup {x}) \ {x} = W OBVIOUS
<1>3. SumFunctionOnSet(f, W) \in Int BY <1>1, SumType
<1> DEFINE V == W \cup {x}
<1>4. x \in V /\ \A y \in V : f[y] \in Int OBVIOUS
<1> HIDE DEF V
<1>5. SumFunctionOnSet(f, V) = f[x] + SumFunctionOnSet(f, V \ {x})
  BY <1>1, <1>4, SumSplits DEF V
<1> QED BY <1>2, <1>3, <1>5 DEF V

(* Greater terms do not have a lesser sum. *)
LEMMA SumMonotone ==
  ASSUME NEW S, IsFiniteSet(S), NEW f, NEW g,
         \A x \in S : f[x] \in Int /\ g[x] \in Int /\ f[x] <= g[x]
  PROVE  SumFunctionOnSet(f, S) <= SumFunctionOnSet(g, S)
<1> DEFINE T == {W \in SUBSET S : SumFunctionOnSet(f, W) <= SumFunctionOnSet(g, W)}
<1>1. {} \in T BY SumOfNone
<1>2. ASSUME NEW W \in SUBSET S, NEW x \in S \ W, W \in T PROVE W \cup {x} \in T
  <2>1. /\ SumFunctionOnSet(f, W) \in Int
        /\ SumFunctionOnSet(f, W \cup {x}) = f[x] + SumFunctionOnSet(f, W)
    BY SumGrows
  <2>2. /\ SumFunctionOnSet(g, W) \in Int
        /\ SumFunctionOnSet(g, W \cup {x}) = g[x] + SumFunctionOnSet(g, W)
    BY SumGrows
  <2> QED BY <1>2, <2>1, <2>2
<1> HIDE DEF T
<1>3. S \in T BY <1>1, <1>2, SubsetInduction
<1> QED BY <1>3 DEF T

(* Equal terms have the same sum. *)
LEMMA SumSame ==
  ASSUME NEW S, IsFiniteSet(S), NEW f, NEW g,
         \A x \in S : f[x] \in Int /\ f[x] = g[x]
  PROVE  SumFunctionOnSet(f, S) = SumFunctionOnSet(g, S)
<1>1. SumFunctionOnSet(f, S) <= SumFunctionOnSet(g, S) BY SumMonotone
<1>2. SumFunctionOnSet(g, S) <= SumFunctionOnSet(f, S) BY SumMonotone
<1>3. SumFunctionOnSet(f, S) \in Int /\ SumFunctionOnSet(g, S) \in Int BY SumType
<1> QED BY <1>1, <1>2, <1>3

(* The sum of sums, term by term, is the sum of both sums. *)
LEMMA SumAdds ==
  ASSUME NEW S, IsFiniteSet(S), NEW f, NEW g, NEW h,
         \A x \in S : f[x] \in Int /\ g[x] \in Int /\ h[x] = f[x] + g[x]
  PROVE  SumFunctionOnSet(h, S) = SumFunctionOnSet(f, S) + SumFunctionOnSet(g, S)
<1>0. \A x \in S : f[x] \in Int OBVIOUS
<1>A. \A x \in S : g[x] \in Int OBVIOUS
<1>B. \A x \in S : h[x] \in Int OBVIOUS
<1> DEFINE T == {W \in SUBSET S : SumFunctionOnSet(h, W) =
                                    SumFunctionOnSet(f, W) + SumFunctionOnSet(g, W)}
<1>1. {} \in T BY SumOfNone
<1>2. ASSUME NEW W \in SUBSET S, NEW x \in S \ W, W \in T PROVE W \cup {x} \in T
  <2>1. /\ SumFunctionOnSet(f, W) \in Int
        /\ SumFunctionOnSet(f, W \cup {x}) = f[x] + SumFunctionOnSet(f, W)
    BY ONLY <1>0, IsFiniteSet(S), W \in SUBSET S, x \in S \ W, SumGrows
  <2>2. /\ SumFunctionOnSet(g, W) \in Int
        /\ SumFunctionOnSet(g, W \cup {x}) = g[x] + SumFunctionOnSet(g, W)
    BY ONLY <1>A, IsFiniteSet(S), W \in SUBSET S, x \in S \ W, SumGrows
  <2>3. /\ SumFunctionOnSet(h, W) \in Int
        /\ SumFunctionOnSet(h, W \cup {x}) = h[x] + SumFunctionOnSet(h, W)
    BY ONLY <1>B, IsFiniteSet(S), W \in SUBSET S, x \in S \ W, SumGrows
  <2>4. SumFunctionOnSet(h, W) = SumFunctionOnSet(f, W) + SumFunctionOnSet(g, W)
    BY <1>2
  <2>5. f[x] \in Int /\ g[x] \in Int /\ h[x] = f[x] + g[x] OBVIOUS
  <2>6. SumFunctionOnSet(h, W \cup {x}) =
          SumFunctionOnSet(f, W \cup {x}) + SumFunctionOnSet(g, W \cup {x})
    BY <2>1, <2>2, <2>3, <2>4, <2>5
  <2> QED BY <2>6
<1> HIDE DEF T
<1>3. S \in T BY <1>1, <1>2, SubsetInduction
<1> QED BY <1>3 DEF T

(* One term changes, and the sum by as much. *)
LEMMA SumChanges ==
  ASSUME NEW S, IsFiniteSet(S), NEW f, NEW g, NEW x \in S,
         \A y \in S : f[y] \in Int /\ g[y] \in Int,
         \A y \in S \ {x} : g[y] = f[y]
  PROVE  SumFunctionOnSet(g, S) = SumFunctionOnSet(f, S) + (g[x] - f[x])
<1> DEFINE R == S \ {x}
<1>1. IsFiniteSet(R) BY FS_RemoveElement
<1>2. SumFunctionOnSet(f, S) = f[x] + SumFunctionOnSet(f, R) BY SumSplits
<1>3. SumFunctionOnSet(g, S) = g[x] + SumFunctionOnSet(g, R) BY SumSplits
<1>4. \A y \in R : f[y] \in Int /\ f[y] = g[y] OBVIOUS
<1> HIDE DEF R
<1>5. SumFunctionOnSet(f, R) = SumFunctionOnSet(g, R) BY <1>1, <1>4, SumSame
<1>6. SumFunctionOnSet(f, R) \in Int BY <1>1, <1>4, SumType
<1> QED BY <1>2, <1>3, <1>5, <1>6

(* What is never negative does not add up to less than nothing. *)
LEMMA SumNatural ==
  ASSUME NEW S, IsFiniteSet(S), NEW f, \A y \in S : f[y] \in Nat
  PROVE  SumFunctionOnSet(f, S) \in Nat
<1> DEFINE T == {W \in SUBSET S : SumFunctionOnSet(f, W) \in Nat}
<1>1. {} \in T BY SumOfNone
<1>2. ASSUME NEW W \in SUBSET S, NEW x \in S \ W, W \in T PROVE W \cup {x} \in T
  <2>1. SumFunctionOnSet(f, W \cup {x}) = f[x] + SumFunctionOnSet(f, W)
    BY SumGrows
  <2> QED BY <1>2, <2>1
<1> HIDE DEF T
<1>3. S \in T BY <1>1, <1>2, SubsetInduction
<1> QED BY <1>3 DEF T

(* What is never negative adds up to no less than any of it. *)
LEMMA SumCovers ==
  ASSUME NEW S, IsFiniteSet(S), NEW f, \A y \in S : f[y] \in Nat, NEW x \in S
  PROVE  f[x] <= SumFunctionOnSet(f, S)
<1> DEFINE R == S \ {x}
<1>1. IsFiniteSet(R) BY FS_RemoveElement
<1>2. SumFunctionOnSet(f, S) = f[x] + SumFunctionOnSet(f, R) BY SumSplits
<1>3. \A y \in R : f[y] \in Nat OBVIOUS
<1> HIDE DEF R
<1>4. SumFunctionOnSet(f, R) \in Nat BY <1>1, <1>3, SumNatural
<1> QED BY <1>2, <1>4

(* Zeros add up to zero. *)
LEMMA SumOfZeros ==
  ASSUME NEW S, IsFiniteSet(S), NEW f, \A y \in S : f[y] = 0
  PROVE  SumFunctionOnSet(f, S) = 0
<1> DEFINE T == {W \in SUBSET S : SumFunctionOnSet(f, W) = 0}
<1>1. {} \in T BY SumOfNone
<1>2. ASSUME NEW W \in SUBSET S, NEW x \in S \ W, W \in T PROVE W \cup {x} \in T
  <2>1. SumFunctionOnSet(f, W \cup {x}) = f[x] + SumFunctionOnSet(f, W)
    BY SumGrows
  <2> QED BY <1>2, <2>1
<1> HIDE DEF T
<1>3. S \in T BY <1>1, <1>2, SubsetInduction
<1> QED BY <1>3 DEF T

(* Naturals of which some are not zero add up to as many as those at least. *)
LEMMA SumCounts ==
  ASSUME NEW S, IsFiniteSet(S), NEW f, \A y \in S : f[y] \in Nat,
         NEW U \in SUBSET S, \A y \in U : f[y] >= 1
  PROVE  Cardinality(U) <= SumFunctionOnSet(f, S)
<1> DEFINE T == {W \in SUBSET S : Cardinality(U \cap W) <= SumFunctionOnSet(f, W)}
<1>1. {} \in T
  <2>1. U \cap {} = {} OBVIOUS
  <2> QED BY <2>1, SumOfNone, FS_EmptySet
<1>2. ASSUME NEW W \in SUBSET S, NEW x \in S \ W, W \in T PROVE W \cup {x} \in T
  <2>0. \A y \in S : f[y] \in Int OBVIOUS
  <2> HIDE DEF T
  <2>1. /\ SumFunctionOnSet(f, W \cup {x}) = f[x] + SumFunctionOnSet(f, W)
        /\ SumFunctionOnSet(f, W) \in Int
    BY <2>0, SumGrows
  <2>2. IsFiniteSet(U \cap W)
    <3>1. U \cap W \in SUBSET S OBVIOUS
    <3> QED BY <3>1, FS_Subset
  <2>3. Cardinality(U \cap W) \in Nat BY <2>2, FS_CardinalityType
  <2>4. Cardinality(U \cap W) <= SumFunctionOnSet(f, W) BY <1>2 DEF T
  <2>5. Cardinality(U \cap (W \cup {x})) <= SumFunctionOnSet(f, W \cup {x})
    <3>1. CASE x \in U
      <4>1. U \cap (W \cup {x}) = (U \cap W) \cup {x} BY <3>1
      <4>2. Cardinality((U \cap W) \cup {x}) = Cardinality(U \cap W) + 1
        BY <2>2, FS_AddElement
      <4>3. f[x] \in Nat /\ f[x] >= 1 BY <3>1
      <4> QED BY <2>1, <2>3, <2>4, <4>1, <4>2, <4>3
    <3>2. CASE x \notin U
      <4>1. U \cap (W \cup {x}) = U \cap W BY <3>2
      <4>2. f[x] \in Nat OBVIOUS
      <4> QED BY <2>1, <2>3, <2>4, <4>1, <4>2
    <3> QED BY <3>1, <3>2
  <2> QED BY <2>5 DEF T
<1> HIDE DEF T
<1>3. S \in T BY <1>1, <1>2, SubsetInduction
<1>4. U \cap S = U OBVIOUS
<1> QED BY <1>3, <1>4 DEF T

(* A sum of terms that are at most k is at most k times their number. *)
LEMMA SumBounded ==
  ASSUME NEW S, IsFiniteSet(S), NEW k \in Int, NEW f,
         \A y \in S : f[y] \in Int /\ f[y] <= k
  PROVE  SumFunctionOnSet(f, S) <= Cardinality(S) * k
<1> DEFINE T == {W \in SUBSET S : SumFunctionOnSet(f, W) <= Cardinality(W) * k}
<1>1. {} \in T
  <2>1. 0 * k = 0 OBVIOUS
  <2> QED BY <2>1, SumOfNone, FS_EmptySet
<1>2. ASSUME NEW W \in SUBSET S, NEW x \in S \ W, W \in T PROVE W \cup {x} \in T
  <2>0. \A y \in S : f[y] \in Int OBVIOUS
  <2> HIDE DEF T
  <2>1. /\ SumFunctionOnSet(f, W \cup {x}) = f[x] + SumFunctionOnSet(f, W)
        /\ SumFunctionOnSet(f, W) \in Int
    BY <2>0, SumGrows
  <2>2. IsFiniteSet(W) BY FS_Subset
  <2>3. Cardinality(W) \in Nat BY <2>2, FS_CardinalityType
  <2>4. Cardinality(W \cup {x}) = Cardinality(W) + 1 BY <2>2, FS_AddElement
  <2>5. \A n \in Nat : (n + 1) * k = n * k + k OBVIOUS
  <2>6. Cardinality(W \cup {x}) * k = Cardinality(W) * k + k BY <2>3, <2>4, <2>5
  <2>7. Cardinality(W) * k \in Int BY <2>3
  <2>8. SumFunctionOnSet(f, W) <= Cardinality(W) * k BY <1>2 DEF T
  <2>9. SumFunctionOnSet(f, W \cup {x}) <= Cardinality(W \cup {x}) * k
    BY <2>1, <2>6, <2>7, <2>8
  <2> QED BY <2>9 DEF T
<1> HIDE DEF T
<1>3. S \in T BY <1>1, <1>2, SubsetInduction
<1> QED BY <1>3 DEF T

(* A finite set of numbers has a greatest and a least. *)
LEMMA HasExtremes ==
  ASSUME NEW S, IsFiniteSet(S), S \subseteq Int, S # {}
  PROVE  /\ \E x \in S : \A y \in S : x >= y
         /\ \E x \in S : \A y \in S : x <= y
<1> DEFINE T == {W \in SUBSET S : W # {} => /\ \E x \in W : \A y \in W : x >= y
                                          /\ \E x \in W : \A y \in W : x <= y}
<1>1. {} \in T OBVIOUS
<1>2. ASSUME NEW W \in SUBSET S, NEW z \in S \ W, W \in T PROVE W \cup {z} \in T
  <2>1. CASE W = {} BY <2>1
  <2>2. CASE W # {}
    <3>1. PICK x \in W : \A y \in W : x >= y BY <1>2, <2>2
    <3>2. PICK n \in W : \A y \in W : n <= y BY <1>2, <2>2
    <3>3. x \in Int /\ n \in Int /\ z \in Int OBVIOUS
    <3>4. \E v \in W \cup {z} : \A y \in W \cup {z} : v >= y
      <4>1. CASE z >= x
        <5> WITNESS z \in W \cup {z}
        <5> QED BY <4>1, <3>1, <3>3
      <4>2. CASE x >= z
        <5> WITNESS x \in W \cup {z}
        <5> QED BY <4>2, <3>1, <3>3
      <4> QED BY <3>3, <4>1, <4>2
    <3>5. \E v \in W \cup {z} : \A y \in W \cup {z} : v <= y
      <4>1. CASE z <= n
        <5> WITNESS z \in W \cup {z}
        <5> QED BY <4>1, <3>2, <3>3
      <4>2. CASE n <= z
        <5> WITNESS n \in W \cup {z}
        <5> QED BY <4>2, <3>2, <3>3
      <4> QED BY <3>3, <4>1, <4>2
    <3> QED BY <3>4, <3>5
  <2> QED BY <2>1, <2>2
<1> HIDE DEF T
<1>3. S \in T BY <1>1, <1>2, SubsetInduction
<1> QED BY <1>3 DEF T

(* A sum of terms that are all k is k times their number. *)
LEMMA SumOfSame ==
  ASSUME NEW S, IsFiniteSet(S), NEW k \in Int, NEW f, \A y \in S : f[y] = k
  PROVE  SumFunctionOnSet(f, S) = Cardinality(S) * k
<1> DEFINE T == {W \in SUBSET S : SumFunctionOnSet(f, W) = Cardinality(W) * k}
<1>1. {} \in T
  <2>1. 0 * k = 0 OBVIOUS
  <2> QED BY <2>1, SumOfNone, FS_EmptySet
<1>2. ASSUME NEW W \in SUBSET S, NEW x \in S \ W, W \in T PROVE W \cup {x} \in T
  <2>1. SumFunctionOnSet(f, W \cup {x}) = f[x] + SumFunctionOnSet(f, W)
    BY SumGrows
  <2>2. IsFiniteSet(W) BY FS_Subset
  <2>3. Cardinality(W) \in Nat BY <2>2, FS_CardinalityType
  <2>4. Cardinality(W \cup {x}) = Cardinality(W) + 1 BY <2>2, FS_AddElement
  <2>5. \A n \in Nat : (n + 1) * k = k + n * k OBVIOUS
  <2>6. Cardinality(W \cup {x}) * k = k + Cardinality(W) * k BY <2>3, <2>4, <2>5
  <2> HIDE DEF T
  <2>7. SumFunctionOnSet(f, W) = Cardinality(W) * k BY <1>2 DEF T
  <2>8. SumFunctionOnSet(f, W \cup {x}) = Cardinality(W \cup {x}) * k
    BY <2>1, <2>6, <2>7
  <2> QED BY <2>8 DEF T
<1> HIDE DEF T
<1>3. S \in T BY <1>1, <1>2, SubsetInduction
<1> QED BY <1>3 DEF T

(* A sum over some is a sum over all in which the others are nothing. *)
LEMMA SumRestrict ==
  ASSUME NEW S, IsFiniteSet(S), NEW R \in SUBSET S, NEW f, NEW g,
         \A y \in R : f[y] \in Int /\ g[y] = f[y], \A y \in S \ R : g[y] = 0
  PROVE  SumFunctionOnSet(f, R) = SumFunctionOnSet(g, S)
<1> DEFINE T == {W \in SUBSET S : SumFunctionOnSet(f, R \cap W) = SumFunctionOnSet(g, W)}
<1>0. \A y \in S : g[y] \in Int OBVIOUS
<1>1. {} \in T
  <2>1. R \cap {} = {} OBVIOUS
  <2> QED BY <2>1, SumOfNone
<1>2. ASSUME NEW W \in SUBSET S, NEW x \in S \ W, W \in T PROVE W \cup {x} \in T
  <2>1. SumFunctionOnSet(g, W \cup {x}) = g[x] + SumFunctionOnSet(g, W)
    BY <1>0, SumGrows
  <2>2. SumFunctionOnSet(f, R \cap W) = SumFunctionOnSet(g, W) BY <1>2
  <2>3. SumFunctionOnSet(g, W) \in Int BY <1>0, SumGrows
  <2>4. SumFunctionOnSet(f, R \cap (W \cup {x})) = SumFunctionOnSet(g, W \cup {x})
    <3>1. CASE x \in R
      <4>1. R \cap (W \cup {x}) = (R \cap W) \cup {x} BY <3>1
      <4>2. R \cap W \in SUBSET R /\ x \in R \ (R \cap W) BY <1>2, <3>1
      <4>3. IsFiniteSet(R) BY FS_Subset
      <4>4. \A y \in R : f[y] \in Int OBVIOUS
      <4>5. SumFunctionOnSet(f, (R \cap W) \cup {x}) = f[x] + SumFunctionOnSet(f, R \cap W)
        BY ONLY <4>2, <4>3, <4>4, SumGrows
      <4> QED BY <2>1, <2>2, <3>1, <4>1, <4>5
    <3>2. CASE x \notin R
      <4>1. R \cap (W \cup {x}) = R \cap W BY <3>2
      <4>2. g[x] = 0 BY <3>2
      <4>3. SumFunctionOnSet(g, W \cup {x}) = SumFunctionOnSet(g, W) BY <2>1, <2>3, <4>2
      <4> QED BY <2>2, <4>1, <4>3
    <3> QED BY <3>1, <3>2
  <2> QED BY <2>4
<1> HIDE DEF T
<1>3. S \in T BY <1>1, <1>2, SubsetInduction
<1>4. R \cap S = R OBVIOUS
<1> QED BY <1>3, <1>4 DEF T

(* A factor of every term is one of the sum. *)
LEMMA SumScaled ==
  ASSUME NEW S, IsFiniteSet(S), NEW k \in Int, NEW f, NEW g,
         \A y \in S : f[y] \in Int /\ g[y] = k * f[y]
  PROVE  SumFunctionOnSet(g, S) = k * SumFunctionOnSet(f, S)
<1> DEFINE T == {W \in SUBSET S : SumFunctionOnSet(g, W) = k * SumFunctionOnSet(f, W)}
<1>0. (\A y \in S : g[y] \in Int) /\ \A y \in S : f[y] \in Int OBVIOUS
<1>1. {} \in T
  <2>1. k * 0 = 0 OBVIOUS
  <2> QED BY <2>1, SumOfNone
<1>2. ASSUME NEW W \in SUBSET S, NEW x \in S \ W, W \in T PROVE W \cup {x} \in T
  <2>1. /\ SumFunctionOnSet(f, W) \in Int
        /\ SumFunctionOnSet(f, W \cup {x}) = f[x] + SumFunctionOnSet(f, W)
    BY <1>0, SumGrows
  <2>2. SumFunctionOnSet(g, W \cup {x}) = g[x] + SumFunctionOnSet(g, W) BY <1>0, SumGrows
  <2>3. SumFunctionOnSet(g, W) = k * SumFunctionOnSet(f, W) BY <1>2
  <2>4. \A a, b \in Int : k * (a + b) = k * a + k * b OBVIOUS
  <2>5. k * SumFunctionOnSet(f, W \cup {x}) = k * f[x] + k * SumFunctionOnSet(f, W)
    BY <1>0, <2>1, <2>4
  <2>6. g[x] = k * f[x] OBVIOUS
  <2> QED BY <2>2, <2>3, <2>5, <2>6
<1> HIDE DEF T
<1>3. S \in T BY <1>1, <1>2, SubsetInduction
<1> QED BY <1>3 DEF T

=============================================================================
