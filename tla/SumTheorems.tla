---------------------------- MODULE SumTheorems ----------------------------
(***************************************************************************)
(* Induction over finite sets, and what the sums of the model (SumFunction *)
(* and SumFunctionOnSet of the community modules) are.  Both are folds     *)
(* that take the elements in an order nobody knows.                        *)
(*                                                                         *)
(* The induction theorems of the library take an operator and the provers  *)
(* cannot instantiate it; a proof by induction is therefore a proof that   *)
(* there is no least counterexample.                                       *)
(***************************************************************************)
EXTENDS FiniteSetsExt, FiniteSetTheorems, TLAPS

(* A set of subsets of a finite set, or of numbers, has a least element.   *)
LEMMA LeastSubset ==
  ASSUME NEW S, IsFiniteSet(S), NEW B, B \subseteq SUBSET S, B # {}
  PROVE  \E T \in B : \A U \in B : U \subseteq T => U = T
<1>1. IsWellFoundedOn(StrictSubsetOrdering(S), SUBSET S)
  BY FS_StrictSubsetOrderingWellFounded, FS_FiniteSubsetsOfFinite
<1>2. \E T \in B : \A U \in B : ~ (<<U, T>> \in StrictSubsetOrdering(S))
  BY <1>1, WFMin
<1> QED
  BY <1>2 DEF StrictSubsetOrdering

LEMMA LeastNumber ==
  ASSUME NEW B, B \subseteq Nat, B # {}
  PROVE  \E m \in B : \A n \in B : m <= n
<1>1. PICK m \in B : \A n \in B : ~ (<<n, m>> \in OpToRel(<, Nat))
  BY NatLessThanWellFounded, WFMin, Zenon
<1>2. ASSUME NEW n \in Nat, n < m PROVE <<n, m>> \in OpToRel(<, Nat)
  BY <1>2, SMT DEF OpToRel
<1> HIDE DEF OpToRel
<1>3. ASSUME NEW n \in B PROVE ~ (n < m)
  BY <1>1, <1>2, Zenon
<1> QED
  BY <1>3

(***************************************************************************)
(* A fold is a recursive function on the subsets of the set folded over;   *)
(* F[x][v] is the value v with the element x folded into it.               *)
(***************************************************************************)
Chosen(T) == CHOOSE x \in T : TRUE
FoldStep(F, base, g, T) == IF T = {} THEN base ELSE F[Chosen(T)][g[T \ {Chosen(T)}]]
IsFolds(F, base, S, g) == g = [T \in SUBSET S |-> FoldStep(F, base, g, T)]

LEMMA ChosenIn ==
  ASSUME NEW T, T # {}
  PROVE  Chosen(T) \in T
  BY DEF Chosen

LEMMA FoldsExist ==
  ASSUME NEW S, IsFiniteSet(S), NEW F, NEW base
  PROVE  \E g : IsFolds(F, base, S, g)
<1> DEFINE Upto(n) == {T \in SUBSET S : Cardinality(T) <= n}
           Good(n, g) == \A T \in Upto(n) : g[T] = FoldStep(F, base, g, T)
           Bad == {n \in Nat : ~ \E g : Good(n, g)}
           Next1(g) == [T \in SUBSET S |-> FoldStep(F, base, g, T)]
<1>1. \A T \in SUBSET S : IsFiniteSet(T) /\ Cardinality(T) \in Nat
  BY FS_Subset, FS_CardinalityType
<1>2. Bad = {}
  <2> SUFFICES ASSUME Bad # {} PROVE FALSE
    OBVIOUS
  <2>1. PICK n \in Bad : \A k \in Bad : n <= k
    <3> HIDE DEF Good
    <3> QED BY LeastNumber
  <2>2. CASE n = 0
    <3> DEFINE g == [T \in SUBSET S |-> base]
    <3>1. ASSUME NEW T \in Upto(0) PROVE T = {}
      BY <1>1, FS_EmptySet
    <3>2. Good(0, g)
      BY <3>1 DEF FoldStep
    <3> HIDE DEF Good, g
    <3> QED BY <2>1, <2>2, <3>2
  <2>3. CASE n # 0
    <3>1. n \in Nat /\ n - 1 \in Nat /\ n - 1 \notin Bad
      BY <2>1, <2>3
    <3>2. PICK g : Good(n - 1, g)
      BY <3>1
    <3>3. ASSUME NEW T \in Upto(n)
          PROVE  Next1(g)[T] = FoldStep(F, base, Next1(g), T)
      <4>1. Next1(g)[T] = FoldStep(F, base, g, T)
        OBVIOUS
      <4>2. CASE T = {}
        BY <4>1, <4>2 DEF FoldStep
      <4>3. CASE T # {}
        <5> DEFINE U == T \ {Chosen(T)}
        <5>1. Chosen(T) \in T
          BY <4>3, ChosenIn
        <5>2. U \in SUBSET S /\ Cardinality(U) = Cardinality(T) - 1
          BY <1>1, <5>1, FS_RemoveElement
        <5>3. U \in Upto(n - 1)
          BY <1>1, <3>1, <5>2
        <5>4. g[U] = FoldStep(F, base, g, U)
          BY <3>2, <5>3
        <5>5. Next1(g)[U] = g[U]
          BY <5>2, <5>4
        <5> HIDE DEF Next1
        <5> QED BY <4>1, <4>3, <5>5 DEF FoldStep
      <4> QED BY <4>2, <4>3
    <3>4. Good(n, Next1(g))
      BY <3>3
    <3> HIDE DEF Good, Next1
    <3> QED BY <2>1, <3>4
  <2> QED BY <2>2, <2>3
<1>3. PICK g : Good(Cardinality(S), g)
  BY <1>1, <1>2
<1>4. ASSUME NEW T \in SUBSET S
      PROVE  Next1(g)[T] = FoldStep(F, base, Next1(g), T)
  <2>1. \A U \in SUBSET S : U \in Upto(Cardinality(S))
    BY FS_Subset
  <2>2. \A U \in SUBSET S : Next1(g)[U] = g[U]
    BY <1>3, <2>1
  <2>3. Next1(g)[T] = FoldStep(F, base, g, T)
    OBVIOUS
  <2> HIDE DEF Next1
  <2>4. CASE T = {}
    BY <2>3, <2>4 DEF FoldStep
  <2>5. CASE T # {}
    <3>1. T \ {Chosen(T)} \in SUBSET S
      OBVIOUS
    <3> QED BY <2>2, <2>3, <2>5, <3>1 DEF FoldStep
  <2> QED BY <2>4, <2>5
<1>5. Next1(g) = [T \in SUBSET S |-> FoldStep(F, base, Next1(g), T)]
  BY <1>4
<1> HIDE DEF Next1
<1> QED
  BY <1>5 DEF IsFolds

(***************************************************************************)
(* Sums.                                                                   *)
(***************************************************************************)
Integral(f, S) == \A x \in S : f[x] \in Int
SumStep(f, g, T) == IF T = {} THEN 0 ELSE f[Chosen(T)] + g[T \ {Chosen(T)}]
IsSums(f, S, g) == g = [T \in SUBSET S |-> SumStep(f, g, T)]

LEMMA SumsExist ==
  ASSUME NEW S, IsFiniteSet(S), NEW f, Integral(f, S)
  PROVE  \E g : IsSums(f, S, g) /\ g \in [SUBSET S -> Int]
<1> DEFINE F == [x \in S |-> [v \in Int |-> f[x] + v]]
<1>1. PICK g : IsFolds(F, 0, S, g)
  BY FoldsExist
<1>2. \A T \in SUBSET S : g[T] = FoldStep(F, 0, g, T)
  BY <1>1 DEF IsFolds
<1> DEFINE Bad == {T \in SUBSET S : g[T] \notin Int}
<1>3. Bad = {}
  <2> SUFFICES ASSUME Bad # {} PROVE FALSE
    OBVIOUS
  <2>1. PICK T \in Bad : \A U \in Bad : U \subseteq T => U = T
    <3>1. Bad \subseteq SUBSET S
      OBVIOUS
    <3> HIDE DEF Bad
    <3> QED BY <3>1, LeastSubset
  <2>2. T \in SUBSET S /\ g[T] \notin Int
    OBVIOUS
  <2>3. \A U \in SUBSET S : U \subseteq T /\ U # T => g[U] \in Int
    BY <2>1
  <2> HIDE DEF Bad
  <2>4. T # {}
    <3> HIDE DEF F
    <3>1. g[{}] = 0
      BY <1>2, Zenon DEF FoldStep
    <3> QED BY <2>2, <3>1
  <2> DEFINE x == Chosen(T)
             U == T \ {x}
  <2>5. x \in T /\ U \in SUBSET S /\ U # T /\ U \subseteq T
    BY <2>2, <2>4, ChosenIn
  <2>6. g[U] \in Int /\ f[x] \in Int
    BY <2>2, <2>3, <2>5 DEF Integral
  <2>7. g[T] = F[x][g[U]]
    BY <1>2, <2>2, <2>4 DEF FoldStep
  <2> QED BY <2>2, <2>5, <2>6, <2>7
<1>4. ASSUME NEW T \in SUBSET S PROVE g[T] = SumStep(f, g, T)
  <2>1. CASE T = {}
    BY <1>2, <2>1 DEF FoldStep, SumStep
  <2>2. CASE T # {}
    <3>1. Chosen(T) \in S /\ T \ {Chosen(T)} \in SUBSET S
      BY <2>2, ChosenIn
    <3>2. g[T \ {Chosen(T)}] \in Int
      BY <1>3, <3>1
    <3> QED BY <1>2, <2>2, <3>1, <3>2 DEF FoldStep, SumStep
  <2> QED BY <2>1, <2>2
<1>5. IsSums(f, S, g)
  <2>1. g = [T \in SUBSET S |-> g[T]]
    BY <1>1 DEF IsFolds
  <2> QED BY <1>4, <2>1 DEF IsSums
<1>6. g \in [SUBSET S -> Int]
  BY <1>3, <1>5 DEF IsSums
<1> QED
  BY <1>5, <1>6

LEMMA SumsUnfold ==
  ASSUME NEW S, NEW f, NEW g, IsSums(f, S, g)
  PROVE  /\ g[{}] = 0
         /\ \A T \in SUBSET S : T # {} =>
              /\ Chosen(T) \in T /\ T \ {Chosen(T)} \in SUBSET S
              /\ g[T] = f[Chosen(T)] + g[T \ {Chosen(T)}]
<1>1. \A T \in SUBSET S : g[T] = SumStep(f, g, T)
  BY DEF IsSums
<1>2. g[{}] = 0
  BY <1>1 DEF SumStep
<1>3. \A T \in SUBSET S : T # {} => g[T] = f[Chosen(T)] + g[T \ {Chosen(T)}]
  BY <1>1 DEF SumStep
<1> QED
  BY <1>2, <1>3, ChosenIn

(* The sums over the subsets of a set are determined by f alone.           *)
LEMMA SumsAgree ==
  ASSUME NEW R, NEW S, IsFiniteSet(S), NEW f, NEW g, IsSums(f, R, g),
         NEW e, NEW h, IsSums(e, S, h), S \subseteq R, \A x \in S : e[x] = f[x]
  PROVE  \A T \in SUBSET S : h[T] = g[T]
<1> DEFINE Bad == {T \in SUBSET S : h[T] # g[T]}
<1> SUFFICES ASSUME Bad # {} PROVE FALSE
  OBVIOUS
<1>1. PICK T \in Bad : \A U \in Bad : U \subseteq T => U = T
  <2>1. Bad \subseteq SUBSET S
    OBVIOUS
  <2> HIDE DEF Bad
  <2> QED BY <2>1, LeastSubset
<1>2. T \in SUBSET S /\ h[T] # g[T]
  OBVIOUS
<1>3. \A U \in SUBSET S : U \subseteq T /\ U # T => h[U] = g[U]
  BY <1>1
<1> HIDE DEF Bad
<1>4. /\ h[{}] = 0 /\ g[{}] = 0
      /\ \A V \in SUBSET R : V # {} => g[V] = f[Chosen(V)] + g[V \ {Chosen(V)}]
      /\ \A V \in SUBSET S : V # {} => /\ Chosen(V) \in V
                                       /\ h[V] = e[Chosen(V)] + h[V \ {Chosen(V)}]
  <2>1. /\ h[{}] = 0
        /\ \A V \in SUBSET S : V # {} =>
             /\ Chosen(V) \in V /\ V \ {Chosen(V)} \in SUBSET S
             /\ h[V] = e[Chosen(V)] + h[V \ {Chosen(V)}]
    <3>1. IsSums(e, S, h)
      OBVIOUS
    <3> QED BY ONLY <3>1, SumsUnfold
  <2>2. /\ g[{}] = 0
        /\ \A V \in SUBSET R : V # {} =>
             /\ Chosen(V) \in V /\ V \ {Chosen(V)} \in SUBSET R
             /\ g[V] = f[Chosen(V)] + g[V \ {Chosen(V)}]
    <3>1. IsSums(f, R, g)
      OBVIOUS
    <3> QED BY ONLY <3>1, SumsUnfold
  <2> QED BY <2>1, <2>2
<1>5. T # {} /\ T \in SUBSET R
  BY <1>2, <1>4
<1> DEFINE x == Chosen(T)
           U == T \ {x}
<1>6. x \in T /\ U \in SUBSET S /\ h[T] = e[x] + h[U]
  BY <1>2, <1>4, <1>5
<1>7. g[T] = f[x] + g[U]
  BY <1>4, <1>5
<1>8. h[U] = g[U]
  BY <1>3, <1>6
<1> QED
  BY <1>2, <1>6, <1>7, <1>8

LEMMA SumIsSums ==
  ASSUME NEW S, IsFiniteSet(S), NEW f, Integral(f, S), NEW g, IsSums(f, S, g)
  PROVE  \A T \in SUBSET S : SumFunctionOnSet(f, T) = g[T]
<1> SUFFICES ASSUME NEW T \in SUBSET S PROVE SumFunctionOnSet(f, T) = g[T]
  OBVIOUS
<1>1. IsFiniteSet(T) /\ Integral(f, T)
  BY FS_Subset DEF Integral
<1> DEFINE h == CHOOSE x : IsSums(f, T, x)
<1>2. IsSums(f, T, h)
  BY <1>1, SumsExist, Zenon
<1>3. SumFunctionOnSet(f, T) = h[T]
  BY Zenon DEF IsSums, SumStep, Chosen, SumFunctionOnSet, FoldFunctionOnSet, MapThenFoldSet
<1> HIDE DEF h
<1>4. h[T] = g[T]
  BY <1>1, <1>2, SumsAgree
<1> QED
  BY <1>3, <1>4

(* Whichever element is taken first.                                       *)
LEMMA SumsRemove ==
  ASSUME NEW S, IsFiniteSet(S), NEW f, Integral(f, S), NEW g \in [SUBSET S -> Int],
         IsSums(f, S, g)
  PROVE  \A T \in SUBSET S : \A x \in T : g[T] = f[x] + g[T \ {x}]
<1> DEFINE Bad == {T \in SUBSET S : \E x \in T : g[T] # f[x] + g[T \ {x}]}
<1> SUFFICES ASSUME Bad # {} PROVE FALSE
  OBVIOUS
<1>1. PICK T \in Bad : \A U \in Bad : U \subseteq T => U = T
  <2>1. Bad \subseteq SUBSET S
    OBVIOUS
  <2> HIDE DEF Bad
  <2> QED BY <2>1, LeastSubset
<1>2. PICK x \in T : g[T] # f[x] + g[T \ {x}]
  BY <1>1
<1> DEFINE y == Chosen(T)
<1>3. y \in T /\ g[T] = f[y] + g[T \ {y}]
  BY <1>1, <1>2, SumsUnfold
<1> HIDE DEF y
<1>4. x # y
  BY <1>2, <1>3
<1> DEFINE V == (T \ {x}) \ {y}
<1>5. V = (T \ {y}) \ {x} /\ V \in SUBSET S
  OBVIOUS
<1> HIDE DEF V
<1>6. g[T \ {y}] = f[x] + g[V]
  <2>1. T \ {y} \in SUBSET S /\ T \ {y} \notin Bad /\ x \in T \ {y}
    BY <1>1, <1>3, <1>4
  <2> QED BY <1>5, <2>1
<1>7. g[T \ {x}] = f[y] + g[V]
  <2>1. T \ {x} \in SUBSET S /\ T \ {x} \notin Bad /\ y \in T \ {x}
    BY <1>1, <1>2, <1>3, <1>4
  <2> QED BY <2>1 DEF V
<1>8. f[x] \in Int /\ f[y] \in Int /\ g[V] \in Int
  BY <1>3, <1>5 DEF Integral
<1> QED
  BY <1>2, <1>3, <1>6, <1>7, <1>8

LEMMA SumEmpty ==
  ASSUME NEW f
  PROVE  SumFunctionOnSet(f, {}) = 0
<1>1. IsFiniteSet({}) /\ Integral(f, {})
  BY FS_EmptySet DEF Integral
<1>2. PICK g : IsSums(f, {}, g)
  BY <1>1, SumsExist
<1> QED
  BY <1>1, <1>2, SumIsSums, SumsUnfold

LEMMA SumRemove ==
  ASSUME NEW S, IsFiniteSet(S), NEW f, Integral(f, S), NEW x \in S
  PROVE  /\ SumFunctionOnSet(f, S) = f[x] + SumFunctionOnSet(f, S \ {x})
         /\ SumFunctionOnSet(f, S) \in Int /\ SumFunctionOnSet(f, S \ {x}) \in Int
<1>1. PICK g : IsSums(f, S, g) /\ g \in [SUBSET S -> Int]
  BY SumsExist
<1>2. S \in SUBSET S /\ S \ {x} \in SUBSET S
  OBVIOUS
<1>3. SumFunctionOnSet(f, S) = g[S] /\ SumFunctionOnSet(f, S \ {x}) = g[S \ {x}]
  BY <1>1, <1>2, SumIsSums
<1>4. g[S] = f[x] + g[S \ {x}]
  BY <1>1, <1>2, SumsRemove
<1> QED
  BY <1>1, <1>2, <1>3, <1>4

LEMMA SumType ==
  ASSUME NEW S, IsFiniteSet(S), NEW f, Integral(f, S)
  PROVE  SumFunctionOnSet(f, S) \in Int
<1>1. CASE S = {}
  BY <1>1, SumEmpty
<1>2. CASE S # {}
  BY <1>2, SumRemove
<1> QED
  BY <1>1, <1>2

(* What {} has, and a set has whenever it has it without one of its        *)
(* elements, every finite set has: G are the subsets that have it.         *)
LEMMA SubsetInduction ==
  ASSUME NEW S, IsFiniteSet(S), NEW G, {} \in G,
         \A T \in SUBSET S : \A x \in T : T \ {x} \in G => T \in G
  PROVE  S \in G
<1> DEFINE Bad == {T \in SUBSET S : T \notin G}
<1> SUFFICES ASSUME Bad # {} PROVE FALSE
  OBVIOUS
<1>1. PICK T \in Bad : \A U \in Bad : U \subseteq T => U = T
  <2>1. Bad \subseteq SUBSET S
    OBVIOUS
  <2> HIDE DEF Bad
  <2> QED BY <2>1, LeastSubset
<1>2. T \in SUBSET S /\ T \notin G /\ T # {}
  OBVIOUS
<1>3. PICK x \in T : TRUE
  BY <1>2
<1>4. T \ {x} \in SUBSET S /\ T \ {x} # T
  BY <1>2
<1>5. T \ {x} \in G
  BY <1>1, <1>4
<1> QED
  BY <1>2, <1>5

(* Linear combinations.                                                    *)
LEMMA TimesPlus ==
  ASSUME NEW k \in Int, NEW a \in Int, NEW b \in Int
  PROVE  k * (a + b) = k * a + k * b /\ k * a \in Int /\ k * b \in Int
OBVIOUS

LEMMA SumLinear ==
  ASSUME NEW S, IsFiniteSet(S), NEW f, Integral(f, S), NEW g, Integral(g, S),
         NEW k \in Int, NEW h, \A x \in S : h[x] = k * f[x] + g[x]
  PROVE  /\ Integral(h, S)
         /\ SumFunctionOnSet(h, S)
              = k * SumFunctionOnSet(f, S) + SumFunctionOnSet(g, S)
<1> DEFINE Holds(T) == SumFunctionOnSet(h, T)
                         = k * SumFunctionOnSet(f, T) + SumFunctionOnSet(g, T)
           G == {T \in SUBSET S : Holds(T)}
<1>1. Integral(h, S)
  <2> SUFFICES ASSUME NEW x \in S PROVE h[x] \in Int
    BY DEF Integral
  <2>1. f[x] \in Int /\ g[x] \in Int /\ h[x] = k * f[x] + g[x]
    BY DEF Integral
  <2> DEFINE kf == k * f[x]
  <2>2. kf \in Int /\ h[x] = kf + g[x]
    BY <2>1, TimesPlus
  <2> HIDE DEF kf
  <2> QED BY <2>1, <2>2
<1>2. {} \in G
  <2>1. Holds({})
    BY SumEmpty
  <2> QED BY <2>1
<1>3. ASSUME NEW T \in SUBSET S, NEW x \in T, T \ {x} \in G PROVE T \in G
  <2> DEFINE U == T \ {x}
             ft == SumFunctionOnSet(f, T)  fu == SumFunctionOnSet(f, U)
             gt == SumFunctionOnSet(g, T)  gu == SumFunctionOnSet(g, U)
             ht == SumFunctionOnSet(h, T)  hu == SumFunctionOnSet(h, U)
  <2>1. IsFiniteSet(T) /\ Integral(f, T) /\ Integral(g, T) /\ Integral(h, T)
    BY <1>1, FS_Subset DEF Integral
  <2>2. ft = f[x] + fu /\ fu \in Int
    BY <2>1, SumRemove
  <2>3. gt = g[x] + gu /\ gu \in Int
    BY <2>1, SumRemove
  <2>4. ht = h[x] + hu
    BY <2>1, SumRemove
  <2>5. hu = k * fu + gu /\ h[x] = k * f[x] + g[x] /\ f[x] \in Int /\ g[x] \in Int
    BY <1>3 DEF Integral
  <2> HIDE DEF ft, fu, gt, gu, ht, hu
  <2>6. k * (f[x] + fu) = k * f[x] + k * fu /\ k * f[x] \in Int /\ k * fu \in Int
    BY <2>2, <2>5, TimesPlus
  <2> DEFINE kf == k * f[x]  kfu == k * fu
  <2>7. k * ft = kf + kfu /\ kf \in Int /\ kfu \in Int
        /\ hu = kfu + gu /\ h[x] = kf + g[x]
    BY <2>2, <2>5, <2>6
  <2> HIDE DEF kf, kfu
  <2>8. ht = k * ft + gt
    <3>1. ht = (kf + g[x]) + (kfu + gu)
      BY <2>4, <2>7
    <3>2. k * ft + gt = (kf + kfu) + (g[x] + gu)
      BY <2>3, <2>7
    <3> QED BY <3>1, <3>2, <2>3, <2>5, <2>7
  <2>9. Holds(T)
    BY <2>8 DEF ft, gt, ht
  <2> QED BY <2>9
<1> HIDE DEF G
<1>4. S \in G
  BY <1>2, <1>3, SubsetInduction
<1> QED
  BY <1>1, <1>4 DEF G

LEMMA SumConstant ==
  ASSUME NEW S, IsFiniteSet(S), NEW k \in Int, NEW f, \A x \in S : f[x] = k
  PROVE  SumFunctionOnSet(f, S) = k * Cardinality(S)
<1> DEFINE Holds(T) == SumFunctionOnSet(f, T) = k * Cardinality(T)
           G == {T \in SUBSET S : Holds(T)}
<1>1. {} \in G
  <2>1. Holds({})
    BY SumEmpty, FS_EmptySet
  <2> QED BY <2>1
<1>2. ASSUME NEW T \in SUBSET S, NEW x \in T, T \ {x} \in G PROVE T \in G
  <2> DEFINE U == T \ {x}
             ft == SumFunctionOnSet(f, T)  fu == SumFunctionOnSet(f, U)
             nt == Cardinality(T)  nu == Cardinality(U)
  <2>1. IsFiniteSet(T) /\ Integral(f, T)
    BY FS_Subset DEF Integral
  <2>2. ft = f[x] + fu
    BY <2>1, SumRemove
  <2>3. nu = nt - 1 /\ nt \in Int
    BY <2>1, FS_RemoveElement, FS_CardinalityType
  <2>4. fu = k * nu /\ f[x] = k
    BY <1>2
  <2> HIDE DEF ft, fu, nt, nu
  <2>5. nt = 1 + nu /\ nu \in Int /\ k * (1 + nu) = k * 1 + k * nu /\ k * nu \in Int
    BY <2>3, TimesPlus
  <2>6. k * 1 = k
    OBVIOUS
  <2>7. ft = k * nt
    BY <2>2, <2>4, <2>5, <2>6
  <2>8. Holds(T)
    BY <2>7 DEF ft, nt
  <2> QED BY <2>8
<1> HIDE DEF G
<1>3. S \in G
  BY <1>1, <1>2, SubsetInduction
<1> QED
  BY <1>3 DEF G

LEMMA SumLocal ==
  ASSUME NEW S, IsFiniteSet(S), NEW f, Integral(f, S), NEW h, \A x \in S : h[x] = f[x]
  PROVE  SumFunctionOnSet(h, S) = SumFunctionOnSet(f, S)
<1> DEFINE zero == [x \in S |-> 0]
<1>1. Integral(zero, S) /\ SumFunctionOnSet(zero, S) = 0 * Cardinality(S)
  BY SumConstant DEF Integral
<1>2. 0 * Cardinality(S) = 0
  BY FS_CardinalityType
<1>3. \A x \in S : h[x] = 1 * f[x] + zero[x]
  BY DEF Integral
<1> HIDE DEF zero
<1>4. SumFunctionOnSet(h, S) = 1 * SumFunctionOnSet(f, S) + SumFunctionOnSet(zero, S)
  BY <1>1, <1>3, SumLinear
<1>5. SumFunctionOnSet(f, S) \in Int
  BY SumType
<1> QED
  BY <1>1, <1>2, <1>4, <1>5

(* Sums and order.                                                         *)
LEMMA SumMonotone ==
  ASSUME NEW S, IsFiniteSet(S), NEW f, Integral(f, S), NEW g, Integral(g, S),
         \A x \in S : f[x] <= g[x]
  PROVE  SumFunctionOnSet(f, S) <= SumFunctionOnSet(g, S)
<1> DEFINE Holds(T) == SumFunctionOnSet(f, T) <= SumFunctionOnSet(g, T)
           G == {T \in SUBSET S : Holds(T)}
<1>1. {} \in G
  <2>1. Holds({})
    BY SumEmpty
  <2> QED BY <2>1
<1>2. ASSUME NEW T \in SUBSET S, NEW x \in T, T \ {x} \in G PROVE T \in G
  <2> DEFINE U == T \ {x}
             ft == SumFunctionOnSet(f, T)  fu == SumFunctionOnSet(f, U)
             gt == SumFunctionOnSet(g, T)  gu == SumFunctionOnSet(g, U)
  <2>1. IsFiniteSet(T) /\ Integral(f, T) /\ Integral(g, T)
    BY FS_Subset DEF Integral
  <2>2. ft = f[x] + fu /\ fu \in Int
    BY <2>1, SumRemove
  <2>3. gt = g[x] + gu /\ gu \in Int
    BY <2>1, SumRemove
  <2>4. fu <= gu /\ f[x] <= g[x] /\ f[x] \in Int /\ g[x] \in Int
    BY <1>2 DEF Integral
  <2> HIDE DEF ft, fu, gt, gu
  <2>5. ft <= gt
    BY <2>2, <2>3, <2>4
  <2>6. Holds(T)
    BY <2>5 DEF ft, gt
  <2> QED BY <2>6
<1> HIDE DEF G
<1>3. S \in G
  BY <1>1, <1>2, SubsetInduction
<1> QED
  BY <1>3 DEF G

LEMMA SumStrict ==
  ASSUME NEW S, IsFiniteSet(S), NEW f, Integral(f, S), NEW g, Integral(g, S),
         \A x \in S : f[x] <= g[x], NEW y \in S, f[y] < g[y]
  PROVE  SumFunctionOnSet(f, S) < SumFunctionOnSet(g, S)
<1> DEFINE U == S \ {y}
<1>1. IsFiniteSet(U) /\ Integral(f, U) /\ Integral(g, U)
  BY FS_Subset DEF Integral
<1>2. SumFunctionOnSet(f, U) <= SumFunctionOnSet(g, U)
  <2> HIDE DEF U
  <2>1. U \subseteq S
    BY DEF U
  <2> QED BY <1>1, <2>1, SumMonotone
<1>3. /\ SumFunctionOnSet(f, S) = f[y] + SumFunctionOnSet(f, U)
      /\ SumFunctionOnSet(f, U) \in Int
  BY SumRemove
<1>4. /\ SumFunctionOnSet(g, S) = g[y] + SumFunctionOnSet(g, U)
      /\ SumFunctionOnSet(g, U) \in Int
  BY SumRemove
<1>5. f[y] \in Int /\ g[y] \in Int
  BY DEF Integral
<1> QED
  BY <1>2, <1>3, <1>4, <1>5

LEMMA SumNatural ==
  ASSUME NEW S, IsFiniteSet(S), NEW f, \A x \in S : f[x] \in Nat
  PROVE  /\ SumFunctionOnSet(f, S) \in Nat
         /\ \A x \in S : f[x] <= SumFunctionOnSet(f, S)
<1>1. ASSUME NEW T \in SUBSET S PROVE SumFunctionOnSet(f, T) \in Nat
  <2> DEFINE zero == [x \in T |-> 0]
  <2>1. IsFiniteSet(T) /\ Integral(f, T)
    BY FS_Subset DEF Integral
  <2>2. /\ Integral(zero, T) /\ \A x \in T : zero[x] <= f[x]
        /\ \A x \in T : zero[x] = 0
    BY DEF Integral
  <2> HIDE DEF zero
  <2>3. SumFunctionOnSet(zero, T) <= SumFunctionOnSet(f, T)
    BY <2>1, <2>2, SumMonotone
  <2>4. SumFunctionOnSet(zero, T) = 0 * Cardinality(T) /\ Cardinality(T) \in Nat
    BY <2>1, <2>2, SumConstant, FS_CardinalityType
  <2>5. SumFunctionOnSet(f, T) \in Int
    BY <2>1, SumType
  <2> QED BY <2>3, <2>4, <2>5
<1>2. ASSUME NEW x \in S PROVE f[x] <= SumFunctionOnSet(f, S)
  <2>1. Integral(f, S)
    BY DEF Integral
  <2>2. SumFunctionOnSet(f, S) = f[x] + SumFunctionOnSet(f, S \ {x})
    BY <2>1, SumRemove
  <2>3. SumFunctionOnSet(f, S \ {x}) \in Nat
    BY <1>1
  <2> QED BY <2>2, <2>3
<1> QED
  BY <1>1, <1>2

(* A sum of ones counts.                                                   *)
LEMMA SumCounts ==
  ASSUME NEW S, IsFiniteSet(S), NEW A \in SUBSET S,
         NEW f, \A x \in S : f[x] = IF x \in A THEN 1 ELSE 0
  PROVE  SumFunctionOnSet(f, S) = Cardinality(A)
<1> DEFINE Holds(T) == SumFunctionOnSet(f, T) = Cardinality(A \cap T)
           G == {T \in SUBSET S : Holds(T)}
<1>1. {} \in G
  <2>1. Holds({})
    <3>1. A \cap {} = {}
      OBVIOUS
    <3> QED BY <3>1, SumEmpty, FS_EmptySet
  <2> QED BY <2>1
<1>2. ASSUME NEW T \in SUBSET S, NEW x \in T, T \ {x} \in G PROVE T \in G
  <2> DEFINE U == T \ {x}
             ft == SumFunctionOnSet(f, T)  fu == SumFunctionOnSet(f, U)
  <2>1. IsFiniteSet(T) /\ IsFiniteSet(A \cap T) /\ Integral(f, T)
    BY FS_Subset DEF Integral
  <2>2. ft = f[x] + fu
    BY <2>1, SumRemove
  <2>3. fu = Cardinality(A \cap U)
    BY <1>2
  <2>4. A \cap U = (A \cap T) \ {x}
    OBVIOUS
  <2>5. Cardinality(A \cap U) = IF x \in A \cap T THEN Cardinality(A \cap T) - 1
                                                  ELSE Cardinality(A \cap T)
    BY <2>1, <2>4, FS_RemoveElement
  <2>6. Cardinality(A \cap T) \in Nat
    BY <2>1, FS_CardinalityType
  <2>7. f[x] = IF x \in A \cap T THEN 1 ELSE 0
    OBVIOUS
  <2> HIDE DEF ft, fu, U
  <2>8. ft = Cardinality(A \cap T)
    BY <2>2, <2>3, <2>5, <2>6, <2>7
  <2>9. Holds(T)
    BY <2>8 DEF ft
  <2> QED BY <2>9
<1> HIDE DEF G
<1>3. S \in G
  BY <1>1, <1>2, SubsetInduction
<1>4. A \cap S = A
  OBVIOUS
<1> QED
  BY <1>3, <1>4 DEF G

(* One unit more for each of some.                                         *)
OneMore(f, base, A, S) ==
  A \subseteq S /\ \A c \in S : f[c] = base[c] + (IF c \in A THEN 1 ELSE 0)

LEMMA SumOneMore ==
  ASSUME NEW S, IsFiniteSet(S), NEW base, Integral(base, S), NEW A,
         NEW f, OneMore(f, base, A, S)
  PROVE  SumFunctionOnSet(f, S) = SumFunctionOnSet(base, S) + Cardinality(A)
<1> DEFINE one == [c \in S |-> IF c \in A THEN 1 ELSE 0]
<1>1. A \in SUBSET S /\ \A c \in S : one[c] = IF c \in A THEN 1 ELSE 0
  BY DEF OneMore
<1> HIDE DEF one
<1>2. Integral(one, S) /\ SumFunctionOnSet(one, S) = Cardinality(A)
  BY <1>1, SumCounts DEF Integral
<1>3. \A c \in S : f[c] = 1 * one[c] + base[c]
  BY <1>1 DEF Integral, OneMore
<1>4. SumFunctionOnSet(f, S) = 1 * SumFunctionOnSet(one, S) + SumFunctionOnSet(base, S)
  BY <1>2, <1>3, SumLinear
<1>5. SumFunctionOnSet(base, S) \in Int /\ SumFunctionOnSet(one, S) \in Int
  BY <1>2, SumType
<1> QED
  BY <1>2, <1>4, <1>5

(* A sum over the image of an injection.                                   *)
LEMMA SumImage ==
  ASSUME NEW S, IsFiniteSet(S), NEW e, \A x, y \in S : e[x] = e[y] => x = y,
         NEW h, \A x \in S : h[e[x]] \in Int,
         NEW f, \A x \in S : f[x] = h[e[x]]
  PROVE  SumFunctionOnSet(f, S) = SumFunctionOnSet(h, {e[x] : x \in S})
<1> DEFINE Img(T) == {e[x] : x \in T}
           Holds(T) == /\ IsFiniteSet(Img(T))
                       /\ SumFunctionOnSet(f, T) = SumFunctionOnSet(h, Img(T))
           G == {T \in SUBSET S : Holds(T)}
<1>1. {} \in G
  <2>1. Img({}) = {}
    OBVIOUS
  <2>2. Holds({})
    BY <2>1, FS_EmptySet, SumEmpty
  <2> QED BY <2>2
<1>2. ASSUME NEW T \in SUBSET S, NEW x \in T, T \ {x} \in G PROVE T \in G
  <2> DEFINE U == T \ {x}
  <2>1. IsFiniteSet(T) /\ Integral(f, T) /\ Integral(h, Img(T))
    BY FS_Subset DEF Integral
  <2>2. SumFunctionOnSet(f, T) = f[x] + SumFunctionOnSet(f, U)
    BY <2>1, SumRemove
  <2>3. Img(U) = Img(T) \ {e[x]} /\ e[x] \in Img(T)
    OBVIOUS
  <2>4. IsFiniteSet(Img(U)) /\ SumFunctionOnSet(f, U) = SumFunctionOnSet(h, Img(U))
    BY <1>2
  <2>5. Img(T) = Img(U) \cup {e[x]}
    OBVIOUS
  <2> HIDE DEF Img, U
  <2>6. IsFiniteSet(Img(T))
    <3> HIDE DEF Holds, G
    <3> QED BY <2>4, <2>5, FS_AddElement
  <2>7. SumFunctionOnSet(h, Img(T)) = h[e[x]] + SumFunctionOnSet(h, Img(T) \ {e[x]})
    BY <2>1, <2>3, <2>6, SumRemove
  <2>8. f[x] = h[e[x]]
    OBVIOUS
  <2>9. Holds(T)
    BY <2>2, <2>3, <2>4, <2>6, <2>7, <2>8
  <2> QED BY <2>9
<1> HIDE DEF Holds
<1>3. S \in G
  <2> HIDE DEF G
  <2> QED BY <1>1, <1>2, SubsetInduction
<1>4. Holds(S)
  BY <1>3
<1> QED
  BY <1>4 DEF Holds

(* In a strict order of n elements, k have fewer than k ahead of them.     *)
Orders(R, P) ==
  /\ \A c \in P : <<c, c>> \notin R
  /\ \A a, b, c \in P : <<a, b>> \in R /\ <<b, c>> \in R => <<a, c>> \in R
  /\ \A a, b \in P : a # b => <<a, b>> \in R \/ <<b, a>> \in R

LEMMA RankCount ==
  ASSUME NEW P, IsFiniteSet(P), NEW R, Orders(R, P),
         NEW k \in Nat, k <= Cardinality(P)
  PROVE  Cardinality({c \in P : Cardinality({d \in P : <<d, c>> \in R}) < k}) = k
<1> DEFINE Ahead(c) == {d \in P : <<d, c>> \in R}
           n == Cardinality(P)
           rank == [c \in P |-> Cardinality(Ahead(c))]
           T == {c \in P : rank[c] < k}
           low == [c \in T |-> rank[c]]
<1>0. /\ \A c \in P : <<c, c>> \notin R
      /\ \A a, b, c \in P : <<a, b>> \in R /\ <<b, c>> \in R => <<a, c>> \in R
      /\ \A a, b \in P : a # b => <<a, b>> \in R \/ <<b, a>> \in R
  BY DEF Orders
<1>1. n \in Nat
  BY FS_CardinalityType
<1>2. ASSUME NEW c \in P PROVE rank[c] \in 0..(n - 1)
  <2>1. Ahead(c) \in SUBSET (P \ {c}) /\ IsFiniteSet(P \ {c})
    BY <1>0, FS_RemoveElement
  <2>2. IsFiniteSet(Ahead(c)) /\ Cardinality(Ahead(c)) <= Cardinality(P \ {c})
    BY <2>1, FS_Subset
  <2>3. Cardinality(P \ {c}) = n - 1 /\ Cardinality(Ahead(c)) \in Nat
    BY <2>2, FS_RemoveElement, FS_CardinalityType
  <2> HIDE DEF Ahead, n
  <2> QED BY <1>1, <2>2, <2>3
<1>3. ASSUME NEW c \in P, NEW d \in P, <<c, d>> \in R PROVE rank[c] < rank[d]
  <2>1. IsFiniteSet(Ahead(c)) /\ IsFiniteSet(Ahead(d))
    BY FS_Subset
  <2>2. Ahead(c) \cup {c} \in SUBSET Ahead(d) /\ c \notin Ahead(c)
    BY <1>0, <1>3
  <2> HIDE DEF Ahead
  <2>3. Cardinality(Ahead(c) \cup {c}) <= Cardinality(Ahead(d))
    BY <2>1, <2>2, FS_Subset
  <2>4. Cardinality(Ahead(c) \cup {c}) = Cardinality(Ahead(c)) + 1
    BY <2>1, <2>2, FS_AddElement
  <2>5. Cardinality(Ahead(c)) \in Nat /\ Cardinality(Ahead(d)) \in Nat
    BY <2>1, FS_CardinalityType
  <2> QED BY <2>3, <2>4, <2>5
<1> HIDE DEF rank
<1>4. rank \in Injection(P, 0..(n - 1))
  <2>1. rank \in [P -> 0..(n - 1)]
    BY <1>2 DEF rank
  <2>2. ASSUME NEW c \in P, NEW d \in P, c # d PROVE rank[c] # rank[d]
    <3>1. rank[c] \in Int /\ rank[d] \in Int
      BY <1>2
    <3>2. CASE <<c, d>> \in R
      BY <1>3, <3>1, <3>2
    <3>3. CASE <<d, c>> \in R
      BY <1>3, <3>1, <3>3
    <3> QED BY <1>0, <2>2, <3>2, <3>3
  <2> QED BY <2>1, <2>2 DEF Injection, IsInjective
<1>5. IsFiniteSet(0..(n - 1)) /\ Cardinality(0..(n - 1)) = n
  <2> HIDE DEF n
  <2>1. n - 1 \in Int /\ (0 > n - 1 => n = 0)
    BY <1>1
  <2> QED BY <1>1, <2>1, FS_Interval
<1>6. rank \in Surjection(P, 0..(n - 1))
  BY <1>4, <1>5, FS_Injection
<1>7. IsFiniteSet(0..(k - 1)) /\ Cardinality(0..(k - 1)) = k
  BY FS_Interval
<1>8. low \in Injection(T, 0..(k - 1))
  <2>1. low \in [T -> 0..(k - 1)]
    BY <1>2
  <2>2. \A c, d \in T : low[c] = low[d] => c = d
    BY <1>4 DEF Injection, IsInjective
  <2> HIDE DEF low, T
  <2> QED BY <2>1, <2>2 DEF Injection, IsInjective
<1>9. low \in Surjection(T, 0..(k - 1))
  <2>1. ASSUME NEW m \in 0..(k - 1) PROVE \E c \in T : low[c] = m
    <3>1. m \in 0..(n - 1)
      BY <1>1
    <3>2. PICK c \in P : rank[c] = m
      BY <1>6, <3>1 DEF Surjection
    <3> QED BY <3>2
  <2>2. low \in [T -> 0..(k - 1)]
    BY <1>8 DEF Injection
  <2> HIDE DEF low, T
  <2> QED BY <2>1, <2>2 DEF Surjection
<1>10. Cardinality(T) = k
  <2> HIDE DEF T, low
  <2> QED BY <1>7, <1>8, <1>9, FS_Injection
<1>11. T = {c \in P : Cardinality(Ahead(c)) < k}
  BY DEF rank
<1> QED
  BY <1>10, <1>11

(***************************************************************************)
(* Folding a sequence from the left: a fold over its positions that takes  *)
(* the greatest of them last.                                              *)
(***************************************************************************)
LEMMA GreatestOf ==
  ASSUME NEW n \in Nat, NEW T \in SUBSET (1..n), T # {}
  PROVE  /\ Max(T) \in T /\ \A x \in T : x <= Max(T)
<1> DEFINE B == {n - x : x \in T}
<1>0. \A x \in T : x \in Int /\ n - x \in Nat
  OBVIOUS
<1>1. B \subseteq Nat /\ B # {}
  BY <1>0
<1>2. PICK m \in B : \A k \in B : m <= k
  <2> HIDE DEF B
  <2> QED BY <1>1, LeastNumber
<1>3. PICK x \in T : m = n - x
  OBVIOUS
<1>4. \A y \in T : n - y \in B /\ y \in Int
  BY <1>0
<1> HIDE DEF B
<1>5. \A y \in T : x >= y
  BY <1>2, <1>3, <1>4
<1>6. Max(T) \in T /\ \A y \in T : Max(T) >= y
  BY <1>5 DEF Max
<1>7. \A y \in T : Max(T) \in Int /\ y \in Int
  BY <1>0, <1>6
<1> QED
  BY <1>6, <1>7

LEMMA LastOf ==
  ASSUME NEW k \in Nat, k > 0
  PROVE  Max(1..k) = k /\ (1..k) \ {k} = 1..(k - 1)
<1>1. k \in 1..k /\ 1..k # {} /\ (1..k) \in SUBSET (1..k)
  OBVIOUS
<1>2. Max(1..k) \in 1..k /\ \A x \in 1..k : x <= Max(1..k)
  BY <1>1, GreatestOf
<1>3. Max(1..k) = k
  BY <1>1, <1>2
<1>4. (1..k) \ {k} = 1..(k - 1)
  OBVIOUS
<1> QED
  BY <1>3, <1>4

(* F[i][v] is the value v with the i-th element folded into it; V holds    *)
(* all values the fold can take.                                           *)
LeftStep(F, base, g, T) == IF T = {} THEN base ELSE F[Max(T)][g[T \ {Max(T)}]]
IsLeftFolds(F, base, n, g) == g = [T \in SUBSET (1..n) |-> LeftStep(F, base, g, T)]

LEMMA LeftFoldsExist ==
  ASSUME NEW n \in Nat, NEW V, NEW base \in V, NEW F \in [1..n -> [V -> V]]
  PROVE  \E g : IsLeftFolds(F, base, n, g) /\ g \in [SUBSET (1..n) -> V]
<1> DEFINE S == SUBSET (1..n)
           Upto(k) == {T \in S : T \subseteq 1..k}
           Good(k, g) == \A T \in Upto(k) : g[T] = LeftStep(F, base, g, T)
           Bad == {k \in Nat : ~ \E g : Good(k, g)}
           Next1(g) == [T \in S |-> LeftStep(F, base, g, T)]
<1>1. Bad = {}
  <2> SUFFICES ASSUME Bad # {} PROVE FALSE
    OBVIOUS
  <2>1. PICK k \in Bad : \A j \in Bad : k <= j
    <3> HIDE DEF Good
    <3> QED BY LeastNumber
  <2>2. CASE k = 0
    <3> DEFINE g == [T \in S |-> base]
    <3>1. ASSUME NEW T \in Upto(0) PROVE T = {}
      OBVIOUS
    <3>2. Good(0, g)
      BY <3>1 DEF LeftStep
    <3> HIDE DEF Good, g
    <3> QED BY <2>1, <2>2, <3>2
  <2>3. CASE k # 0
    <3>1. k \in Nat /\ k - 1 \in Nat /\ k - 1 \notin Bad
      <4>1. k \in Nat /\ k - 1 \in Nat /\ ~ (k <= k - 1)
        BY <2>3
      <4> HIDE DEF Bad
      <4> QED BY <2>1, <4>1
    <3>2. PICK g : Good(k - 1, g)
      BY <3>1
    <3>3. ASSUME NEW T \in Upto(k)
          PROVE  Next1(g)[T] = LeftStep(F, base, Next1(g), T)
      <4>1. Next1(g)[T] = LeftStep(F, base, g, T)
        OBVIOUS
      <4>2. CASE T = {}
        BY <4>1, <4>2 DEF LeftStep
      <4>3. CASE T # {}
        <5> DEFINE U == T \ {Max(T)}
        <5>1. Max(T) \in T /\ \A x \in T : x <= Max(T)
          BY <4>3, GreatestOf
        <5>2. U \in S /\ U \subseteq 1..(k - 1)
          <6>1. T \in S /\ T \subseteq 1..k
            OBVIOUS
          <6>2. \A x \in U : x \in 1..k /\ x <= Max(T) /\ x # Max(T) /\ Max(T) \in 1..k
            BY <5>1, <6>1
          <6>3. \A x \in U : x \in 1..(k - 1)
            BY <3>1, <6>2
          <6> QED BY <6>1, <6>3
        <5>3. U \in Upto(k - 1)
          BY <5>2
        <5>4. g[U] = LeftStep(F, base, g, U)
          BY <3>2, <5>3
        <5>5. Next1(g)[U] = g[U]
          BY <5>2, <5>4
        <5> HIDE DEF Next1
        <5> QED BY <4>1, <4>3, <5>5 DEF LeftStep
      <4> QED BY <4>2, <4>3
    <3>4. Good(k, Next1(g))
      BY <3>3
    <3> HIDE DEF Good, Next1
    <3> QED BY <2>1, <3>4
  <2> QED BY <2>2, <2>3
<1>2. PICK g : Good(n, g)
  BY <1>1
<1> DEFINE h == Next1(g)
<1>3. ASSUME NEW T \in S PROVE h[T] = g[T]
  BY <1>2
<1>4. ASSUME NEW T \in S PROVE h[T] = LeftStep(F, base, h, T)
  <2>1. h[T] = LeftStep(F, base, g, T)
    OBVIOUS
  <2>2. T # {} => T \ {Max(T)} \in S
    OBVIOUS
  <2> HIDE DEF h
  <2> QED BY <1>3, <2>1, <2>2 DEF LeftStep
<1>5. h = [T \in S |-> h[T]]
  OBVIOUS
<1> HIDE DEF h
<1>6. h = [T \in S |-> LeftStep(F, base, h, T)]
  BY <1>4, <1>5
<1>7. {T \in S : h[T] \notin V} = {}
  <2> DEFINE Out == {T \in S : h[T] \notin V}
  <2> SUFFICES ASSUME Out # {} PROVE FALSE
    OBVIOUS
  <2>1. PICK T \in Out : \A U \in Out : U \subseteq T => U = T
    <3> DEFINE D == 1..n
    <3>1. Out \subseteq SUBSET D /\ IsFiniteSet(D)
      BY FS_Interval
    <3> HIDE DEF Out, D
    <3> QED BY <3>1, LeastSubset
  <2>2. T \in S /\ h[T] \notin V /\ \A U \in S : U \subseteq T /\ U # T => h[U] \in V
    BY <2>1
  <2> HIDE DEF Out
  <2>3. h[T] = LeftStep(F, base, h, T)
    BY <1>4, <2>2
  <2>4. T # {}
    BY <2>2, <2>3 DEF LeftStep
  <2>5. Max(T) \in T
    BY <2>2, <2>4, GreatestOf
  <2>6. T \ {Max(T)} \in S /\ h[T \ {Max(T)}] \in V
    BY <2>2, <2>5
  <2>7. h[T] = F[Max(T)][h[T \ {Max(T)}]]
    BY <2>3, <2>4 DEF LeftStep
  <2>8. Max(T) \in 1..n
    BY <2>2, <2>5
  <2> QED BY <2>2, <2>6, <2>7, <2>8
<1>8. h \in [SUBSET (1..n) -> V]
  BY <1>5, <1>7
<1> QED
  BY <1>6, <1>8 DEF IsLeftFolds

(* Prefix by prefix.                                                       *)
LEMMA LeftFoldsUnfold ==
  ASSUME NEW n \in Nat, NEW F, NEW base, NEW g, IsLeftFolds(F, base, n, g)
  PROVE  /\ g[1..0] = base
         /\ \A k \in 1..n : g[1..k] = F[k][g[1..(k - 1)]]
<1>1. \A T \in SUBSET (1..n) : g[T] = LeftStep(F, base, g, T)
  BY DEF IsLeftFolds
<1>2. 1..0 = {} /\ {} \in SUBSET (1..n)
  OBVIOUS
<1>3. g[1..0] = base
  BY <1>1, <1>2 DEF LeftStep
<1>4. ASSUME NEW k \in 1..n PROVE g[1..k] = F[k][g[1..(k - 1)]]
  <2>1. 1..k # {} /\ 1..k \in SUBSET (1..n) /\ k \in Nat /\ k > 0
    OBVIOUS
  <2>2. Max(1..k) = k /\ (1..k) \ {k} = 1..(k - 1)
    BY <2>1, LastOf
  <2> QED BY <1>1, <2>1, <2>2 DEF LeftStep
<1> QED
  BY <1>3, <1>4

(* What holds at 0 and is handed on holds for all.                         *)
LEMMA NatInductionOn ==
  ASSUME NEW n \in Nat, NEW G, 0 \in G, \A k \in 1..n : k - 1 \in G => k \in G
  PROVE  \A k \in 0..n : k \in G
<1> DEFINE Bad == {k \in 0..n : k \notin G}
<1> SUFFICES ASSUME Bad # {} PROVE FALSE
  OBVIOUS
<1>1. PICK k \in Bad : \A j \in Bad : k <= j
  <2>1. Bad \subseteq Nat
    OBVIOUS
  <2> HIDE DEF Bad
  <2> QED BY <2>1, LeastNumber
<1>2. k \in 0..n /\ k \notin G /\ k # 0
  OBVIOUS
<1>3. k \in 1..n /\ k - 1 \in 0..n /\ ~ (k <= k - 1)
  BY <1>2
<1>4. k - 1 \notin Bad
  <2> HIDE DEF Bad
  <2> QED BY <1>1, <1>3
<1>5. k - 1 \in G
  BY <1>3, <1>4
<1> QED
  BY <1>2, <1>3, <1>5

(* A set of the first positions.                                           *)
LEMMA InitialSegment ==
  ASSUME NEW n \in Nat, NEW A \in SUBSET (1..n),
         \A i, j \in 1..n : i <= j /\ j \in A => i \in A
  PROVE  Cardinality(A) \in 0..n /\ A = 1..Cardinality(A)
<1>1. CASE A = {}
  <2>1. Cardinality(A) = 0 /\ 1..0 = {}
    BY <1>1, FS_EmptySet
  <2> QED BY <1>1, <2>1
<1>2. CASE A # {}
  <2>1. Max(A) \in A /\ \A x \in A : x <= Max(A)
    BY <1>2, GreatestOf
  <2> DEFINE m == Max(A)
  <2>2. m \in 1..n /\ m \in A /\ \A x \in A : x <= m
    BY <2>1
  <2> HIDE DEF m
  <2>3. A = 1..m
    <3>1. ASSUME NEW x \in A PROVE x \in 1..m
      <4>1. x \in 1..n /\ x <= m
        BY <2>2
      <4> QED BY <2>2, <4>1
    <3>2. ASSUME NEW x \in 1..m PROVE x \in A
      <4>1. x \in 1..n /\ x <= m
        BY <2>2
      <4> QED BY <2>2, <4>1
    <3> QED BY <3>1, <3>2
  <2>4. Cardinality(A) = m
    BY <2>2, <2>3, FS_Interval
  <2> QED BY <2>2, <2>3, <2>4
<1> QED
  BY <1>1, <1>2

(* The ranks of a strict order: the i-th element has i - 1 ahead of it.    *)
RankOf(R, P, c) == Cardinality({d \in P : <<d, c>> \in R})

LEMMA RankBijection ==
  ASSUME NEW P, IsFiniteSet(P), NEW R, Orders(R, P), NEW k \in 1..Cardinality(P)
  PROVE  \E c \in P : /\ RankOf(R, P, c) = k - 1
                      /\ \A e \in P : RankOf(R, P, e) = k - 1 => e = c
<1> DEFINE Ahead(c) == {d \in P : <<d, c>> \in R}
           Below(j) == {c \in P : Cardinality(Ahead(c)) < j}
<1>1. Cardinality(P) \in Nat /\ k \in Nat /\ k - 1 \in Nat
      /\ k <= Cardinality(P) /\ k - 1 <= Cardinality(P)
  BY FS_CardinalityType
<1>2. Cardinality(Below(k)) = k
  BY <1>1, RankCount
<1>3. Cardinality(Below(k - 1)) = k - 1
  <2> DEFINE j == k - 1
  <2>1. j \in Nat /\ j <= Cardinality(P)
    BY <1>1
  <2> HIDE DEF j
  <2>2. Cardinality(Below(j)) = j
    BY <2>1, RankCount
  <2> QED BY <2>2 DEF j
<1>4. \A c \in P : Cardinality(Ahead(c)) \in Nat
  BY FS_Subset, FS_CardinalityType
<1>5. /\ Below(k) \in SUBSET P /\ Below(k - 1) \subseteq Below(k)
      /\ Below(k) \ Below(k - 1) = {c \in P : Cardinality(Ahead(c)) = k - 1}
  BY <1>1, <1>4
<1> DEFINE D == Below(k) \ Below(k - 1)
<1>6. Cardinality(D) = 1 /\ IsFiniteSet(D)
  <2>1. IsFiniteSet(Below(k))
    BY <1>5, FS_Subset
  <2>2. Below(k) \cap Below(k - 1) = Below(k - 1)
    BY <1>5
  <2> HIDE DEF Below
  <2>3. Cardinality(D) = Cardinality(Below(k)) - Cardinality(Below(k) \cap Below(k - 1))
    BY <2>1, FS_Difference
  <2>4. IsFiniteSet(D)
    BY <2>1, FS_Difference
  <2>5. Cardinality(D) = 1
    BY <1>1, <1>2, <1>3, <2>2, <2>3
  <2> QED BY <2>4, <2>5
<1>7. PICK c : D = {c}
  <2> HIDE DEF D
  <2> QED BY <1>6, FS_Singleton
<1>8. \A e \in P : e \in D <=> Cardinality(Ahead(e)) = k - 1
  BY <1>5
<1>9. c \in P /\ c \in D
  BY <1>7
<1>10. \A e \in P : RankOf(R, P, e) = Cardinality(Ahead(e))
  BY DEF RankOf
<1> HIDE DEF D, Ahead
<1> QED
  BY <1>7, <1>8, <1>9, <1>10
=============================================================================
