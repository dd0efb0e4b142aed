---------------------------- MODULE GraphProofs ----------------------------
(***************************************************************************)
(* The room graph, for every number of rooms, every cost and every order   *)
(* of calls: links and closures stay mutual, the matrix in use is never a  *)
(* stale one, the relaxation finds the shortest walks and no sum on its    *)
(* way exceeds FD_INF, closures only slow, and the graph implements        *)
(* WalkingCosts.                                                           *)
(*                                                                         *)
(* The relaxation is a fold over the rooms, so facts about it go by        *)
(* induction on the set of rooms relaxed so far; an induction is a proof   *)
(* that there is no least counterexample.                                  *)
(***************************************************************************)
EXTENDS GraphProps, SumTheorems

(* The fold is a recursive function on the sets of rooms already relaxed,  *)
(* and there is such a function.                                           *)
RoundStep(S, m, g, T) == IF T = {} THEN m ELSE Relax(S, Chosen(T))[g[T \ {Chosen(T)}]]
IsRounds(S, m, g) == g = [T \in SUBSET S |-> RoundStep(S, m, g, T)]

LEMMA RoundsExist ==
  ASSUME NEW S, IsFiniteSet(S), NEW m
  PROVE  \E g : IsRounds(S, m, g)
<1> DEFINE F == [x \in S |-> Relax(S, x)]
<1>1. PICK g : IsFolds(F, m, S, g)
  <2> HIDE DEF F
  <2> QED BY FoldsExist
<1>2. ASSUME NEW T \in SUBSET S
      PROVE  FoldStep(F, m, g, T) = RoundStep(S, m, g, T)
  <2>1. CASE T = {}
    BY <2>1 DEF FoldStep, RoundStep
  <2>2. CASE T # {}
    <3>1. Chosen(T) \in S
      BY <2>2, ChosenIn
    <3>2. F[Chosen(T)] = Relax(S, Chosen(T))
      BY <3>1
    <3> HIDE DEF F
    <3> QED BY <2>2, <3>2 DEF FoldStep, RoundStep
  <2> QED BY <2>1, <2>2
<1> HIDE DEF F
<1>3. g = [T \in SUBSET S |-> RoundStep(S, m, g, T)]
  BY <1>1, <1>2 DEF IsFolds
<1> QED
  BY <1>3 DEF IsRounds

LEMMA RelaxedIsRounds ==
  ASSUME NEW S, IsFiniteSet(S), NEW m
  PROVE  \E g : IsRounds(S, m, g) /\ Relaxed(S, m) = g[S]
<1> DEFINE h == CHOOSE g : IsRounds(S, m, g)
<1>1. IsRounds(S, m, h)
  BY RoundsExist, Zenon
<1>2. Relaxed(S, m) = h[S]
  BY Zenon DEF IsRounds, RoundStep, Chosen, Relaxed, FoldSet, MapThenFoldSet
<1> QED
  BY <1>1, <1>2

LEMMA RoundsUnfold ==
  ASSUME NEW S, NEW m, NEW g, IsRounds(S, m, g)
  PROVE  /\ g[{}] = m
         /\ \A T \in SUBSET S : T # {} =>
              /\ Chosen(T) \in T /\ T \ {Chosen(T)} \in SUBSET S
              /\ g[T] = Relax(S, Chosen(T))[g[T \ {Chosen(T)}]]
<1>1. \A T \in SUBSET S : g[T] = RoundStep(S, m, g, T)
  BY DEF IsRounds
<1>2. {} \in SUBSET S
  OBVIOUS
<1>3. g[{}] = m
  BY <1>1, <1>2 DEF RoundStep
<1>4. \A T \in SUBSET S : T # {} => g[T] = Relax(S, Chosen(T))[g[T \ {Chosen(T)}]]
  BY <1>1 DEF RoundStep
<1> QED
  BY <1>3, <1>4, ChosenIn

(***************************************************************************)
(* Floyd-Warshall.  With the rooms in T relaxed, no walk through one of    *)
(* them is shorter than the entry, and every entry is a link or starts     *)
(* with a link to one of them.                                             *)
(***************************************************************************)
Walks(S, O, T, d) ==
  /\ d \in Matrices(S)
  /\ \A a, b \in S : d[<<a, b>>] <= O[<<a, b>>]
  /\ \A k \in T : \A a, b \in S : d[<<a, b>>] <= d[<<a, k>>] + d[<<k, b>>]
  /\ \A a, b \in S :
       \/ d[<<a, b>>] = O[<<a, b>>]
       \/ \E k \in T : k # a /\ k # b /\ d[<<a, b>>] = O[<<a, k>>] + d[<<k, b>>]

LEMMA Entries ==
  ASSUME NEW S, NEW d \in Matrices(S), NEW a \in S, NEW b \in S
  PROVE  d[<<a, b>>] \in Int /\ 0 <= d[<<a, b>>] /\ d[<<a, b>>] <= Inf
<1>1. Inf \in Nat
  BY LimitsOK
<1>2. d[<<a, b>>] \in 0 .. Inf
  BY DEF Matrices, Costs, Pairs
<1> QED
  BY <1>1, <1>2

(* An infinite entry, or a sum beyond it, is never shorter.                *)
LEMMA RelaxedEntry ==
  ASSUME NEW S, NEW d \in Matrices(S), NEW k \in S, NEW a \in S, NEW b \in S
  PROVE  LET e == Relax(S, k)[d]
             via == d[<<a, k>>] + d[<<k, b>>]
         IN  /\ e[<<a, b>>] <= d[<<a, b>>] /\ e[<<a, b>>] <= via
             /\ e[<<a, b>>] = d[<<a, b>>] \/ e[<<a, b>>] = via
<1>1. Relax(S, k)[d][<<a, b>>] = Shorter(Via(d, k, <<a, b>>), d[<<a, b>>])
  BY DEF Relax, Pairs
<1>2. Via(d, k, <<a, b>>) = Sum(d[<<a, k>>], d[<<k, b>>])
  BY DEF Via
<1>3. /\ d[<<a, b>>] \in Int /\ d[<<a, k>>] \in Int /\ d[<<k, b>>] \in Int /\ Inf \in Int
      /\ 0 <= d[<<a, k>>] /\ 0 <= d[<<k, b>>] /\ d[<<a, b>>] <= Inf
  BY Entries, LimitsOK
<1> QED
  BY <1>1, <1>2, <1>3 DEF Shorter, Sum

LEMMA RelaxedMatrix ==
  ASSUME NEW S, NEW d \in Matrices(S), NEW k \in S
  PROVE  Relax(S, k)[d] \in Matrices(S)
<1> DEFINE e == Relax(S, k)[d]
<1>1. e = [p \in Pairs(S) |-> Shorter(Via(d, k, p), d[p])]
  BY DEF Relax
<1>2. ASSUME NEW p \in Pairs(S) PROVE e[p] \in Costs
  <2>1. PICK a \in S, b \in S : p = <<a, b>>
    BY DEF Pairs
  <2>2. /\ e[<<a, b>>] = d[<<a, b>>] \/ e[<<a, b>>] = d[<<a, k>>] + d[<<k, b>>]
        /\ e[<<a, b>>] <= d[<<a, b>>]
    BY RelaxedEntry
  <2>3. /\ d[<<a, b>>] \in Int /\ d[<<a, k>>] \in Int /\ d[<<k, b>>] \in Int /\ Inf \in Int
        /\ 0 <= d[<<a, k>>] /\ 0 <= d[<<k, b>>] /\ 0 <= d[<<a, b>>] /\ d[<<a, b>>] <= Inf
    BY Entries, LimitsOK
  <2> HIDE DEF e
  <2> QED BY <2>1, <2>2, <2>3 DEF Costs
<1> QED
  BY <1>1, <1>2 DEF Matrices

LEMMA RelaxKeepsWalks ==
  ASSUME NEW S, NEW O \in Matrices(S), NEW T \in SUBSET S, NEW d, Walks(S, O, T, d),
         NEW k \in S
  PROVE  Walks(S, O, T \cup {k}, Relax(S, k)[d])
<1> DEFINE e == Relax(S, k)[d]
           D(a, b) == d[<<a, b>>]
           E(a, b) == e[<<a, b>>]
           L(a, b) == O[<<a, b>>]
<1>1. d \in Matrices(S) /\ e \in Matrices(S)
  BY RelaxedMatrix DEF Walks
<1>2. \A a, b \in S : /\ D(a, b) \in Int /\ 0 <= D(a, b)
                      /\ E(a, b) \in Int /\ 0 <= E(a, b)
                      /\ L(a, b) \in Int /\ 0 <= L(a, b)
  <2> HIDE DEF e
  <2> QED BY <1>1, Entries
<1>3. \A a, b \in S : /\ E(a, b) <= D(a, b) /\ E(a, b) <= D(a, k) + D(k, b)
                      /\ E(a, b) = D(a, b) \/ E(a, b) = D(a, k) + D(k, b)
  <2> SUFFICES ASSUME NEW a \in S, NEW b \in S
               PROVE  /\ E(a, b) <= D(a, b) /\ E(a, b) <= D(a, k) + D(k, b)
                      /\ E(a, b) = D(a, b) \/ E(a, b) = D(a, k) + D(k, b)
    OBVIOUS
  <2> QED BY <1>1, RelaxedEntry
<1>4. /\ \A a, b \in S : D(a, b) <= L(a, b)
      /\ \A j \in T : \A a, b \in S : D(a, b) <= D(a, j) + D(j, b)
      /\ \A a, b \in S :
           \/ D(a, b) = L(a, b)
           \/ \E j \in T : j # a /\ j # b /\ D(a, b) = L(a, j) + D(j, b)
  BY DEF Walks
<1> HIDE DEF e, D, E, L
<1>5. \A a, b \in S : E(a, b) <= L(a, b)
  BY <1>2, <1>3, <1>4
<1>6. \A a \in S : E(a, k) = D(a, k) /\ E(k, a) = D(k, a)
  BY <1>2, <1>3
<1>7. ASSUME NEW j \in T \cup {k}, NEW a \in S, NEW b \in S
      PROVE  E(a, b) <= E(a, j) + E(j, b)
  <2>1. CASE j = k
    BY <1>3, <1>6, <2>1
  <2>2. CASE j \in T
    <3>1. j \in S
      BY <2>2
    <3>2. /\ D(a, b) <= D(a, j) + D(j, b) /\ D(a, k) <= D(a, j) + D(j, k)
          /\ D(k, b) <= D(k, j) + D(j, b)
      BY <1>4, <2>2
    <3>3. /\ E(a, b) <= D(a, b) /\ E(a, b) <= D(a, k) + D(k, b)
          /\ E(a, j) = D(a, j) \/ E(a, j) = D(a, k) + D(k, j)
          /\ E(j, b) = D(j, b) \/ E(j, b) = D(j, k) + D(k, b)
      BY <1>3, <3>1
    <3>4. /\ D(a, b) \in Int /\ D(a, j) \in Int /\ D(j, b) \in Int /\ D(a, k) \in Int
          /\ D(k, b) \in Int /\ D(j, k) \in Int /\ D(k, j) \in Int
          /\ 0 <= D(j, k) /\ 0 <= D(k, j) /\ E(a, b) \in Int
      BY <1>2, <3>1
    <3> QED BY <3>2, <3>3, <3>4
  <2> QED BY <2>1, <2>2
<1>8. ASSUME NEW a \in S, NEW b \in S, E(a, b) # L(a, b)
      PROVE  \E j \in T \cup {k} : j # a /\ j # b /\ E(a, b) = L(a, j) + E(j, b)
  <2>1. CASE E(a, b) = D(a, b)
    <3>1. PICK j \in T : j # a /\ j # b /\ D(a, b) = L(a, j) + D(j, b)
      BY <1>4, <1>8, <2>1
    <3>2. E(a, b) <= E(a, j) + E(j, b) /\ E(a, j) <= L(a, j) /\ E(j, b) <= D(j, b)
      BY <1>3, <1>5, <1>7
    <3>3. E(a, b) = L(a, j) + E(j, b)
      BY <1>2, <2>1, <3>1, <3>2
    <3> QED BY <3>1, <3>3
  <2>2. CASE E(a, b) # D(a, b)
    <3>1. E(a, b) = D(a, k) + D(k, b) /\ E(a, b) < D(a, b)
      BY <1>2, <1>3, <2>2
    <3>2. k # a /\ k # b
      BY <1>2, <3>1
    <3>3. CASE D(a, k) = L(a, k)
      BY <1>6, <3>1, <3>2, <3>3
    <3>4. CASE D(a, k) # L(a, k)
      <4>1. PICK j \in T : j # a /\ j # k /\ D(a, k) = L(a, j) + D(j, k)
        BY <1>4, <3>4
      <4>2. /\ E(j, b) <= D(j, k) + D(k, b) /\ E(a, j) <= L(a, j)
            /\ E(a, b) <= E(a, j) + E(j, b)
        BY <1>3, <1>5, <1>7, <4>1
      <4>3. /\ L(a, j) \in Int /\ D(j, k) \in Int /\ D(k, b) \in Int /\ E(j, b) \in Int
            /\ E(a, j) \in Int /\ E(a, b) \in Int /\ D(a, k) \in Int
            /\ 0 <= D(j, k) /\ 0 <= D(k, b)
        BY <1>2, <4>1
      <4>4. E(a, b) = L(a, j) + E(j, b)
        BY <3>1, <4>1, <4>2, <4>3
      <4>5. j # b
        BY <1>2, <1>4, <3>1, <4>1, <4>3
      <4> QED BY <4>1, <4>4, <4>5
    <3> QED BY <3>3, <3>4
  <2> QED BY <2>1, <2>2
<1>9. /\ \A a, b \in S : e[<<a, b>>] <= O[<<a, b>>]
      /\ \A j \in T \cup {k} : \A a, b \in S : e[<<a, b>>] <= e[<<a, j>>] + e[<<j, b>>]
      /\ \A a, b \in S :
           \/ e[<<a, b>>] = O[<<a, b>>]
           \/ \E j \in T \cup {k} : j # a /\ j # b
                                     /\ e[<<a, b>>] = O[<<a, j>>] + e[<<j, b>>]
  BY <1>5, <1>7, <1>8 DEF E, L
<1>10. Walks(S, O, T \cup {k}, e)
  BY <1>1, <1>9 DEF Walks
<1> QED
  BY <1>10 DEF e

LEMMA UnrelaxedWalks ==
  ASSUME NEW S, NEW O \in Matrices(S)
  PROVE  Walks(S, O, {}, O)
<1>1. \A a, b \in S : O[<<a, b>>] \in Int
  BY Entries
<1> QED
  BY <1>1 DEF Walks

(* However far the relaxation has got.                                     *)
LEMMA RoundsAreWalks ==
  ASSUME NEW S, IsFiniteSet(S), NEW O \in Matrices(S), NEW g, IsRounds(S, O, g)
  PROVE  \A T \in SUBSET S : Walks(S, O, T, g[T])
<1> DEFINE Bad == {T \in SUBSET S : ~ Walks(S, O, T, g[T])}
<1> SUFFICES ASSUME Bad # {} PROVE FALSE
  OBVIOUS
<1>1. PICK T \in Bad : \A U \in Bad : U \subseteq T => U = T
  <2> HIDE DEF Bad
  <2>1. Bad \subseteq SUBSET S
    BY DEF Bad
  <2> QED BY <2>1, LeastSubset
<1>2. CASE T = {}
  BY <1>1, <1>2, RoundsUnfold, UnrelaxedWalks
<1>3. CASE T # {}
  <2> DEFINE k == Chosen(T)
             U == T \ {k}
  <2>1. k \in T /\ U \in SUBSET S /\ g[T] = Relax(S, k)[g[U]]
    BY <1>3, RoundsUnfold
  <2>2. Walks(S, O, U, g[U])
    BY <1>1, <2>1
  <2>3. Walks(S, O, U \cup {k}, g[T])
    <3> HIDE DEF k, U
    <3> QED BY <2>1, <2>2, RelaxKeepsWalks
  <2>4. U \cup {k} = T
    BY <2>1
  <2> QED BY <1>1, <2>3, <2>4
<1> QED
  BY <1>2, <1>3

LEMMA RelaxedWalks ==
  ASSUME NEW S, IsFiniteSet(S), NEW O \in Matrices(S)
  PROVE  Walks(S, O, S, Relaxed(S, O))
<1>1. PICK g : IsRounds(S, O, g) /\ Relaxed(S, O) = g[S]
  BY RelaxedIsRounds
<1>2. S \in SUBSET S
  OBVIOUS
<1> QED
  BY <1>1, <1>2, RoundsAreWalks

(* Longer links, longer walks.                                             *)
Below(S, c, d) == \A a, b \in S : c[<<a, b>>] <= d[<<a, b>>]

LEMMA RelaxKeepsBelow ==
  ASSUME NEW S, NEW c \in Matrices(S), NEW d \in Matrices(S), Below(S, c, d), NEW k \in S
  PROVE  Below(S, Relax(S, k)[c], Relax(S, k)[d])
<1> SUFFICES ASSUME NEW a \in S, NEW b \in S
             PROVE  Relax(S, k)[c][<<a, b>>] <= Relax(S, k)[d][<<a, b>>]
  BY DEF Below
<1>1. /\ c[<<a, b>>] <= d[<<a, b>>] /\ c[<<a, k>>] <= d[<<a, k>>]
      /\ c[<<k, b>>] <= d[<<k, b>>]
  BY DEF Below
<1>2. /\ c[<<a, b>>] \in Int /\ c[<<a, k>>] \in Int /\ c[<<k, b>>] \in Int
      /\ d[<<a, b>>] \in Int /\ d[<<a, k>>] \in Int /\ d[<<k, b>>] \in Int
  BY Entries
<1>3. /\ Relax(S, k)[c][<<a, b>>] <= c[<<a, b>>]
      /\ Relax(S, k)[c][<<a, b>>] <= c[<<a, k>>] + c[<<k, b>>]
      /\ Relax(S, k)[c][<<a, b>>] \in Int
  BY RelaxedEntry, RelaxedMatrix, Entries
<1>4. \/ Relax(S, k)[d][<<a, b>>] = d[<<a, b>>]
      \/ Relax(S, k)[d][<<a, b>>] = d[<<a, k>>] + d[<<k, b>>]
  BY RelaxedEntry
<1> QED
  BY <1>1, <1>2, <1>3, <1>4

LEMMA RelaxedGrows ==
  ASSUME NEW S, IsFiniteSet(S), NEW O \in Matrices(S), NEW P \in Matrices(S),
         Below(S, O, P)
  PROVE  Below(S, Relaxed(S, O), Relaxed(S, P))
<1>1. PICK g : IsRounds(S, O, g) /\ Relaxed(S, O) = g[S]
  BY RelaxedIsRounds
<1>2. PICK h : IsRounds(S, P, h) /\ Relaxed(S, P) = h[S]
  BY RelaxedIsRounds
<1>3. \A T \in SUBSET S : g[T] \in Matrices(S) /\ h[T] \in Matrices(S)
  BY <1>1, <1>2, RoundsAreWalks DEF Walks
<1> DEFINE Bad == {T \in SUBSET S : ~ Below(S, g[T], h[T])}
<1>4. CASE Bad # {}
  <2>1. PICK T \in Bad : \A U \in Bad : U \subseteq T => U = T
    <3>1. Bad \subseteq SUBSET S
      OBVIOUS
    <3> HIDE DEF Bad
    <3> QED BY <1>4, <3>1, LeastSubset
  <2>2. CASE T = {}
    BY <1>1, <1>2, <2>1, <2>2, RoundsUnfold
  <2>3. CASE T # {}
    <3> DEFINE k == Chosen(T)
               U == T \ {k}
    <3>1. /\ k \in T /\ U \in SUBSET S
          /\ g[T] = Relax(S, k)[g[U]] /\ h[T] = Relax(S, k)[h[U]]
      BY <1>1, <1>2, <2>3, RoundsUnfold
    <3>2. Below(S, g[U], h[U])
      BY <2>1, <3>1
    <3>3. Below(S, g[T], h[T])
      <4> HIDE DEF k, U
      <4> QED BY <1>3, <3>1, <3>2, RelaxKeepsBelow
    <3> QED BY <2>1, <3>3
  <2> QED BY <2>2, <2>3
<1>5. CASE Bad = {}
  <2>1. S \in SUBSET S
    OBVIOUS
  <2> QED BY <1>1, <1>2, <1>5, <2>1
<1> QED
  BY <1>4, <1>5

(* A matrix of shortest walks solves Bellman's equations.                  *)
LEMMA MinIs ==
  ASSUME NEW X, X \subseteq Int, NEW m \in X, \A y \in X : m <= y
  PROVE  Min(X) = m
<1>1. Min(X) \in X /\ \A y \in X : Min(X) <= y
  BY Zenon DEF Min
<1>2. Min(X) \in Int /\ m \in Int
  BY <1>1
<1> QED
  BY <1>1, <1>2

Neighbours(S, a, b) == {x \in S \ {a} : x # b}
Bellman(S, O, d) ==
  \A a, b \in S :
    d[<<a, b>>] = Min({O[<<a, b>>]} \cup
                      {Sum(O[<<a, k>>], d[<<k, b>>]) : k \in Neighbours(S, a, b)})

LEMMA WalksSolveBellman ==
  ASSUME NEW S, NEW O \in Matrices(S), NEW d, Walks(S, O, S, d)
  PROVE  Bellman(S, O, d)
<1> SUFFICES ASSUME NEW a \in S, NEW b \in S
             PROVE  d[<<a, b>>] =
                      Min({O[<<a, b>>]} \cup
                          {Sum(O[<<a, k>>], d[<<k, b>>]) : k \in Neighbours(S, a, b)})
  BY DEF Bellman
<1> DEFINE Starts == {Sum(O[<<a, k>>], d[<<k, b>>]) : k \in Neighbours(S, a, b)}
<1>1. d \in Matrices(S)
  BY DEF Walks
<1>2. \A x, y \in S : /\ d[<<x, y>>] \in Int /\ 0 <= d[<<x, y>>] /\ d[<<x, y>>] <= Inf
                      /\ O[<<x, y>>] \in Int /\ 0 <= O[<<x, y>>] /\ O[<<x, y>>] <= Inf
  BY <1>1, Entries
<1>3. Inf \in Int
  BY LimitsOK
<1>4. d[<<a, b>>] <= O[<<a, b>>]
  BY DEF Walks
<1>5. ASSUME NEW k \in Neighbours(S, a, b)
      PROVE  /\ Sum(O[<<a, k>>], d[<<k, b>>]) \in Int
             /\ d[<<a, b>>] <= Sum(O[<<a, k>>], d[<<k, b>>])
  <2>1. k \in S
    BY DEF Neighbours
  <2>2. d[<<a, b>>] <= d[<<a, k>>] + d[<<k, b>>] /\ d[<<a, k>>] <= O[<<a, k>>]
    BY <2>1 DEF Walks
  <2>3. /\ d[<<a, k>>] \in Int /\ d[<<k, b>>] \in Int /\ O[<<a, k>>] \in Int
        /\ d[<<a, b>>] \in Int /\ d[<<a, b>>] <= Inf
    BY <1>2, <2>1
  <2> QED BY <1>3, <2>2, <2>3 DEF Sum
<1>6. d[<<a, b>>] \in {O[<<a, b>>]} \cup Starts
  <2>1. CASE d[<<a, b>>] = O[<<a, b>>]
    BY <2>1
  <2>2. CASE d[<<a, b>>] # O[<<a, b>>]
    <3>1. PICK k \in S : k # a /\ k # b /\ d[<<a, b>>] = O[<<a, k>>] + d[<<k, b>>]
      BY <2>2 DEF Walks
    <3>2. k \in Neighbours(S, a, b)
      BY <3>1 DEF Neighbours
    <3>3. /\ d[<<k, b>>] \in Int /\ O[<<a, k>>] \in Int /\ d[<<a, b>>] \in Int
          /\ 0 <= d[<<k, b>>] /\ 0 <= O[<<a, k>>] /\ d[<<a, b>>] <= Inf
      BY <1>2
    <3>4. d[<<a, b>>] = Sum(O[<<a, k>>], d[<<k, b>>])
      BY <1>3, <3>1, <3>3 DEF Sum
    <3> QED BY <3>2, <3>4
  <2> QED BY <2>1, <2>2
<1>7. \A y \in {O[<<a, b>>]} \cup Starts : y \in Int /\ d[<<a, b>>] <= y
  BY <1>2, <1>4, <1>5
<1> HIDE DEF Starts
<1>8. Min({O[<<a, b>>]} \cup Starts) = d[<<a, b>>]
  BY <1>6, <1>7, MinIs
<1> QED
  BY <1>8 DEF Starts

(***************************************************************************)
(* A walk between two rooms visits no room twice: the rooms on it are      *)
(* nearer and nearer to its end.                                           *)
(***************************************************************************)
OpenLinks(S, O) ==
  \A a, b \in S : a # b => \/ O[<<a, b>>] = Inf
                           \/ 1 <= O[<<a, b>>] /\ O[<<a, b>>] <= MaxLinkCost

LEMMA Times ==
  ASSUME NEW n \in Nat, NEW m \in Nat, m <= n
  PROVE  /\ MaxLinkCost * m \in Int /\ MaxLinkCost * n \in Int
         /\ 0 <= MaxLinkCost * m /\ MaxLinkCost * m <= MaxLinkCost * n
         /\ MaxLinkCost * (m + 1) = MaxLinkCost * m + MaxLinkCost
<1> DEFINE M == MaxLinkCost
<1>1. M \in Nat
  BY LimitsOK
<1> HIDE DEF M
<1>2. /\ M * m \in Int /\ M * n \in Int /\ 0 <= M * m /\ M * m <= M * n
      /\ M * (m + 1) = M * m + M
  BY <1>1
<1> QED
  BY <1>2 DEF M

Nearer(S, d, a, b) == {x \in S \ {b} : d[<<x, b>>] < d[<<a, b>>]}

LEMMA NearerCount ==
  ASSUME NEW S, IsFiniteSet(S), NEW d, NEW a, NEW b
  PROVE  IsFiniteSet(Nearer(S, d, a, b)) /\ Cardinality(Nearer(S, d, a, b)) \in Nat
<1>1. Nearer(S, d, a, b) \in SUBSET S
  BY DEF Nearer
<1> QED
  BY <1>1, FS_Subset, FS_CardinalityType

LEMMA WalkBound ==
  ASSUME NEW S, IsFiniteSet(S), NEW O \in Matrices(S), OpenLinks(S, O),
         NEW T \in SUBSET S, NEW d, Walks(S, O, T, d),
         NEW a \in S, NEW b \in S, a # b, d[<<a, b>>] # Inf
  PROVE  d[<<a, b>>] <= MaxLinkCost * (Cardinality(Nearer(S, d, a, b)) + 1)
<1> DEFINE M == MaxLinkCost
           Steps(x) == Cardinality(Nearer(S, d, x, b))
           Far(x) == x \in S /\ x # b /\ d[<<x, b>>] # Inf
                     /\ ~ (d[<<x, b>>] <= M * (Steps(x) + 1))
           Bad == {n \in Nat : \E x \in S : Far(x) /\ Steps(x) = n}
<1>1. d \in Matrices(S) /\ M \in Nat /\ Inf \in Nat
  BY LimitsOK DEF Walks
<1>2. \A x, y \in S : /\ d[<<x, y>>] \in Int /\ 0 <= d[<<x, y>>] /\ d[<<x, y>>] <= Inf
                      /\ O[<<x, y>>] \in Int /\ 0 <= O[<<x, y>>] /\ O[<<x, y>>] <= Inf
  BY <1>1, Entries
<1>3. \A x \in S : Steps(x) \in Nat
  BY NearerCount
<1> SUFFICES ASSUME Far(a) PROVE FALSE
  OBVIOUS
<1>4. Bad # {} /\ Bad \subseteq Nat
  <2>1. Steps(a) \in Bad
    BY <1>3
  <2> QED BY <2>1
<1>5. PICK n \in Bad : \A m \in Bad : n <= m
  <2> HIDE DEF Bad
  <2> QED BY <1>4, LeastNumber
<1>6. PICK x \in S : Far(x) /\ Steps(x) = n
  BY <1>5
<1>7. /\ n \in Nat /\ M * n \in Int /\ 0 <= M * n /\ M * (n + 1) = M * n + M
  BY <1>5, Times
<1>8. ~ (d[<<x, b>>] <= M * n + M) /\ d[<<x, b>>] # Inf /\ x # b
  BY <1>6, <1>7
<1> HIDE DEF Far
<1>9. CASE d[<<x, b>>] = O[<<x, b>>]
  <2>1. O[<<x, b>>] <= M
    BY <1>8, <1>9 DEF OpenLinks
  <2>2. M * n \in Int /\ M \in Int /\ d[<<x, b>>] \in Int
    BY <1>1, <1>2, <1>7
  <2> HIDE DEF M
  <2> QED BY <1>7, <1>8, <1>9, <2>1, <2>2
<1>10. CASE d[<<x, b>>] # O[<<x, b>>]
  <2>1. PICK k \in T : k # x /\ k # b /\ d[<<x, b>>] = O[<<x, k>>] + d[<<k, b>>]
    BY <1>10 DEF Walks
  <2>2. k \in S
    OBVIOUS
  <2>3. /\ d[<<x, b>>] \in Int /\ d[<<k, b>>] \in Int /\ O[<<x, k>>] \in Int
        /\ 0 <= d[<<k, b>>] /\ d[<<x, b>>] <= Inf /\ 0 <= O[<<x, k>>]
    BY <1>2, <2>2
  <2>4. O[<<x, k>>] # Inf
    BY <1>1, <1>8, <2>1, <2>3
  <2>5. 1 <= O[<<x, k>>] /\ O[<<x, k>>] <= M
    BY <2>1, <2>2, <2>4 DEF OpenLinks
  <2>6. d[<<k, b>>] < d[<<x, b>>] /\ d[<<k, b>>] # Inf
    BY <1>1, <1>8, <2>1, <2>3, <2>5
  <2>7. Steps(k) < n
    <3>1. k \in Nearer(S, d, x, b) /\ k \notin Nearer(S, d, k, b)
      BY <2>1, <2>2, <2>3, <2>6 DEF Nearer
    <3>2. Nearer(S, d, k, b) \in SUBSET Nearer(S, d, x, b)
      <4> SUFFICES ASSUME NEW y \in S \ {b}, d[<<y, b>>] < d[<<k, b>>]
                   PROVE  d[<<y, b>>] < d[<<x, b>>]
        BY DEF Nearer
      <4>1. d[<<y, b>>] \in Int
        BY <1>2
      <4> QED BY <2>3, <2>6, <4>1
    <3>3. /\ IsFiniteSet(Nearer(S, d, x, b)) /\ Steps(k) <= Steps(x) /\ Steps(k) # Steps(x)
      BY <3>1, <3>2, NearerCount, FS_Subset
    <3> QED BY <1>3, <1>6, <2>2, <3>3
  <2>8. ~ Far(k)
    BY <1>3, <1>5, <2>2, <2>7
  <2>9. d[<<k, b>>] <= M * (Steps(k) + 1)
    BY <2>1, <2>2, <2>6, <2>8 DEF Far
  <2>10. M * (Steps(k) + 1) <= M * n /\ M * (Steps(k) + 1) \in Int
    <3> DEFINE s == Steps(k) + 1
    <3>1. s \in Nat /\ s <= n
      BY <1>3, <1>7, <2>2, <2>7
    <3>2. M * s <= M * n /\ M * s \in Int
      <4> HIDE DEF s
      <4> QED BY <1>7, <3>1, Times
    <3> QED BY <3>2
  <2> DEFINE near == M * (Steps(k) + 1)
             far == M * n
  <2>11. near \in Int /\ far \in Int /\ M \in Int /\ near <= far /\ d[<<k, b>>] <= near
         /\ ~ (d[<<x, b>>] <= far + M)
    BY <1>1, <1>7, <1>8, <2>9, <2>10
  <2> HIDE DEF near, far, M
  <2> QED BY <2>1, <2>3, <2>5, <2>11
<1> QED
  BY <1>9, <1>10

(* So between rooms, and from a room back to itself, it is at most as many *)
(* links long as there are rooms, and one less between two rooms.          *)
LEMMA WalksAreShort ==
  ASSUME NEW S, IsFiniteSet(S), NEW O \in Matrices(S), OpenLinks(S, O),
         \A a \in S : O[<<a, a>>] \in {0, Inf},
         NEW T \in SUBSET S, NEW d, Walks(S, O, T, d),
         NEW a \in S, NEW b \in S, d[<<a, b>>] # Inf
  PROVE  /\ d[<<a, b>>] <= MaxLinkCost * Cardinality(S)
         /\ a # b => d[<<a, b>>] <= MaxLinkCost * (Cardinality(S) - 1)
<1> DEFINE M == MaxLinkCost
           n == Cardinality(S)
<1>1. d \in Matrices(S) /\ M \in Nat /\ Inf \in Nat /\ n \in Nat
  BY LimitsOK, FS_CardinalityType DEF Walks
<1>2. \A x, y \in S : /\ d[<<x, y>>] \in Int /\ 0 <= d[<<x, y>>] /\ d[<<x, y>>] <= Inf
                      /\ O[<<x, y>>] \in Int /\ 0 <= O[<<x, y>>] /\ O[<<x, y>>] <= Inf
  BY <1>1, Entries
<1>3. n - 1 \in Nat
  <2>1. n # 0
    BY FS_EmptySet
  <2> QED BY <1>1, <2>1
<1>4. M * (n - 1) \in Int /\ 0 <= M * (n - 1) /\ M * n = M * (n - 1) + M
  <2>1. (n - 1) + 1 = n
    BY <1>1
  <2> HIDE DEF n
  <2>2. M * ((n - 1) + 1) = M * (n - 1) + M /\ M * (n - 1) \in Int /\ 0 <= M * (n - 1)
    BY <1>3, Times
  <2> QED BY <2>1, <2>2
<1>5. ASSUME NEW x \in S, NEW y \in S, x # y, d[<<x, y>>] # Inf
      PROVE  d[<<x, y>>] <= M * (n - 1)
  <2> DEFINE c == Cardinality(Nearer(S, d, x, y)) + 1
  <2>1. d[<<x, y>>] <= M * c
    BY <1>5, WalkBound
  <2>2. c \in Nat /\ c <= n - 1
    <3>1. Nearer(S, d, x, y) \in SUBSET ((S \ {x}) \ {y})
      BY <1>2 DEF Nearer
    <3>2. IsFiniteSet(S \ {x}) /\ Cardinality(S \ {x}) = n - 1
      BY FS_RemoveElement
    <3>3. IsFiniteSet((S \ {x}) \ {y}) /\ Cardinality((S \ {x}) \ {y}) = n - 1 - 1
      BY <1>5, <3>2, FS_RemoveElement
    <3>4. Cardinality(Nearer(S, d, x, y)) <= n - 1 - 1
      BY <3>1, <3>3, FS_Subset
    <3> QED BY <1>1, <3>4, NearerCount
  <2>3. M * c <= M * (n - 1) /\ M * c \in Int
    <3> HIDE DEF n, c
    <3> QED BY <1>3, <2>2, Times
  <2> DEFINE p == M * c
             q == M * (n - 1)
  <2>4. p \in Int /\ q \in Int /\ p <= q /\ d[<<x, y>>] <= p /\ d[<<x, y>>] \in Int
    BY <1>2, <1>4, <2>1, <2>3
  <2>5. d[<<x, y>>] <= q
    <3> HIDE DEF p, q
    <3> QED BY <2>4
  <2> QED BY <2>5
<1> DEFINE p == M * (n - 1)
<1>6. p \in Int /\ 0 <= p /\ M * n = p + M
  BY <1>4
<1>7. CASE a # b
  <2>1. d[<<a, b>>] <= p /\ d[<<a, b>>] \in Int
    BY <1>2, <1>5, <1>7
  <2> HIDE DEF p
  <2>2. d[<<a, b>>] <= p + M
    BY <1>1, <1>6, <2>1
  <2> QED BY <1>6, <2>1, <2>2 DEF p
<1>8. CASE a = b
  <2>1. CASE d[<<a, b>>] = O[<<a, b>>]
    <3>1. d[<<a, b>>] = 0
      BY <1>8, <2>1
    <3>2. 0 <= p + M
      <4> HIDE DEF p, M
      <4> QED BY <1>1, <1>6
    <3> QED BY <1>6, <1>8, <3>1, <3>2
  <2>2. CASE d[<<a, b>>] # O[<<a, b>>]
    <3>1. PICK k \in T : k # a /\ k # b /\ d[<<a, b>>] = O[<<a, k>>] + d[<<k, b>>]
      BY <2>2 DEF Walks
    <3>2. /\ d[<<k, b>>] \in Int /\ O[<<a, k>>] \in Int /\ d[<<a, b>>] \in Int
          /\ 0 <= d[<<k, b>>] /\ 0 <= O[<<a, k>>] /\ d[<<a, b>>] <= Inf
      BY <1>2, <3>1
    <3>3. d[<<k, b>>] # Inf /\ O[<<a, k>>] # Inf
      BY <1>1, <3>1, <3>2
    <3>4. O[<<a, k>>] <= M
      BY <3>1, <3>3 DEF OpenLinks
    <3>5. d[<<k, b>>] <= p
      BY <1>5, <3>1, <3>3
    <3>6. d[<<a, b>>] <= p + M
      <4> HIDE DEF p, M
      <4> QED BY <1>1, <1>6, <3>1, <3>2, <3>4, <3>5
    <3> QED BY <1>6, <1>8, <3>6
  <2> QED BY <2>1, <2>2
<1> QED
  BY <1>7, <1>8

(***************************************************************************)
(* Bellman's equations have one solution where every link costs something. *)
(***************************************************************************)
LEMMA BellmanEntry ==
  ASSUME NEW S, NEW O \in Matrices(S), NEW d \in Matrices(S), Bellman(S, O, d),
         NEW a \in S, NEW b \in S
  PROVE  /\ d[<<a, b>>] <= O[<<a, b>>]
         /\ \A k \in Neighbours(S, a, b) : d[<<a, b>>] <= Sum(O[<<a, k>>], d[<<k, b>>])
         /\ \/ d[<<a, b>>] = O[<<a, b>>]
            \/ \E k \in Neighbours(S, a, b) : d[<<a, b>>] = Sum(O[<<a, k>>], d[<<k, b>>])
<1> DEFINE X == {O[<<a, b>>]} \cup
                {Sum(O[<<a, k>>], d[<<k, b>>]) : k \in Neighbours(S, a, b)}
<1>1. d[<<a, b>>] = Min(X)
  BY DEF Bellman
<1>2. X \subseteq Int
  <2>1. ASSUME NEW k \in Neighbours(S, a, b) PROVE Sum(O[<<a, k>>], d[<<k, b>>]) \in Int
    <3>1. k \in S /\ Inf \in Int
      BY LimitsOK DEF Neighbours
    <3>2. O[<<a, k>>] \in Int /\ d[<<k, b>>] \in Int
      BY <3>1, Entries
    <3> QED BY <3>1, <3>2 DEF Sum
  <2>2. O[<<a, b>>] \in Int
    BY Entries
  <2> QED BY <2>1, <2>2
<1>3. d[<<a, b>>] \in Int
  BY Entries
<1> HIDE DEF X
<1>4. \E m \in X : \A y \in X : m <= y
  <2> DEFINE Y == {y \in Nat : y \in X}
  <2>1. \A y \in X : y \in Nat
    <3>1. ASSUME NEW k \in Neighbours(S, a, b) PROVE Sum(O[<<a, k>>], d[<<k, b>>]) \in Nat
      <4>1. k \in S /\ Inf \in Nat
        BY LimitsOK DEF Neighbours
      <4>2. /\ O[<<a, k>>] \in Int /\ d[<<k, b>>] \in Int
            /\ 0 <= O[<<a, k>>] /\ 0 <= d[<<k, b>>]
        BY <4>1, Entries
      <4> QED BY <4>1, <4>2 DEF Sum
    <3>2. O[<<a, b>>] \in Nat
      BY Entries
    <3> QED BY <3>1, <3>2 DEF X
  <2>2. X # {} /\ X \subseteq Nat
    BY <2>1 DEF X
  <2> QED BY <2>2, LeastNumber
<1>5. d[<<a, b>>] \in X /\ \A y \in X : d[<<a, b>>] <= y
  BY <1>1, <1>4, Zenon DEF Min
<1> QED
  BY <1>5 DEF X

LEMMA BellmanAtMost ==
  ASSUME NEW S, NEW O \in Matrices(S), OpenLinks(S, O),
         NEW d \in Matrices(S), Bellman(S, O, d), NEW e \in Matrices(S), Bellman(S, O, e)
  PROVE  Below(S, e, d)
<1> DEFINE Bad == {n \in Nat : \E a, b \in S :
                     d[<<a, b>>] = n /\ d[<<a, b>>] < e[<<a, b>>]}
<1>0. \A x, y \in S : /\ d[<<x, y>>] \in Int /\ 0 <= d[<<x, y>>] /\ d[<<x, y>>] <= Inf
                      /\ e[<<x, y>>] \in Int /\ 0 <= e[<<x, y>>] /\ e[<<x, y>>] <= Inf
                      /\ O[<<x, y>>] \in Int /\ 0 <= O[<<x, y>>] /\ O[<<x, y>>] <= Inf
  BY Entries
<1>1. CASE Bad = {}
  <2> SUFFICES ASSUME NEW a \in S, NEW b \in S, ~ (e[<<a, b>>] <= d[<<a, b>>])
               PROVE  FALSE
    BY DEF Below
  <2>1. d[<<a, b>>] \in Nat /\ d[<<a, b>>] < e[<<a, b>>]
    BY <1>0
  <2>2. d[<<a, b>>] \in Bad
    BY <2>1
  <2> QED BY <1>1, <2>2
<1>2. CASE Bad # {}
  <2>1. PICK n \in Bad : \A m \in Bad : n <= m
    <3>1. Bad \subseteq Nat
      OBVIOUS
    <3> HIDE DEF Bad
    <3> QED BY <1>2, <3>1, LeastNumber
  <2>2. PICK a \in S, b \in S : d[<<a, b>>] = n /\ d[<<a, b>>] < e[<<a, b>>]
    BY <2>1
  <2>3. ASSUME NEW x \in S, NEW y \in S, d[<<x, y>>] < n
        PROVE  e[<<x, y>>] <= d[<<x, y>>]
    <3>1. d[<<x, y>>] \in Nat /\ n \in Nat
      BY <1>0, <2>1
    <3>2. d[<<x, y>>] \notin Bad
      <4> HIDE DEF Bad
      <4> QED BY <2>1, <2>3, <3>1
    <3>3. ~ (d[<<x, y>>] < e[<<x, y>>])
      BY <3>1, <3>2
    <3> QED BY <1>0, <3>3
  <2> HIDE DEF Bad
  <2>4. e[<<a, b>>] <= O[<<a, b>>]
    BY BellmanEntry
  <2>5. d[<<a, b>>] # O[<<a, b>>]
    BY <1>0, <2>2, <2>4
  <2>6. PICK k \in Neighbours(S, a, b) : d[<<a, b>>] = Sum(O[<<a, k>>], d[<<k, b>>])
    BY <2>5, BellmanEntry
  <2>7. k \in S /\ k # a /\ k # b
    BY DEF Neighbours
  <2>8. e[<<a, b>>] <= Sum(O[<<a, k>>], e[<<k, b>>])
    BY BellmanEntry
  <2>9. /\ d[<<a, b>>] \in Int /\ e[<<a, b>>] \in Int /\ O[<<a, k>>] \in Int
        /\ d[<<k, b>>] \in Int /\ e[<<k, b>>] \in Int /\ e[<<a, b>>] <= Inf
        /\ 0 <= d[<<k, b>>] /\ Inf \in Int
    BY <1>0, <2>7, LimitsOK
  <2>10. O[<<a, k>>] # Inf /\ d[<<k, b>>] # Inf /\ d[<<a, b>>] = O[<<a, k>>] + d[<<k, b>>]
    BY <2>2, <2>6, <2>9 DEF Sum
  <2>11. 1 <= O[<<a, k>>]
    BY <2>7, <2>10 DEF OpenLinks
  <2>12. e[<<k, b>>] <= d[<<k, b>>]
    BY <2>2, <2>3, <2>7, <2>9, <2>10, <2>11
  <2>13. e[<<k, b>>] # Inf
    BY <1>0, <2>7, <2>9, <2>10, <2>12
  <2>14. e[<<a, b>>] <= O[<<a, k>>] + e[<<k, b>>]
    BY <2>8, <2>10, <2>13 DEF Sum
  <2> QED BY <2>2, <2>9, <2>10, <2>12, <2>14
<1> QED
  BY <1>1, <1>2

LEMMA BellmanOnce ==
  ASSUME NEW S, NEW O \in Matrices(S), OpenLinks(S, O),
         NEW d \in Matrices(S), Bellman(S, O, d), NEW e \in Matrices(S), Bellman(S, O, e)
  PROVE  d = e
<1>1. Below(S, e, d) /\ Below(S, d, e)
  BY BellmanAtMost
<1>2. ASSUME NEW p \in Pairs(S) PROVE d[p] = e[p]
  <2>1. PICK a \in S, b \in S : p = <<a, b>>
    BY DEF Pairs
  <2>2. d[<<a, b>>] \in Int /\ e[<<a, b>>] \in Int
    BY Entries
  <2>3. d[<<a, b>>] <= e[<<a, b>>] /\ e[<<a, b>>] <= d[<<a, b>>]
    BY <1>1 DEF Below
  <2> QED BY <2>1, <2>2, <2>3
<1> QED
  BY <1>2 DEF Matrices

(* Rooms that no link reaches change no walk between the others.           *)
LEMMA UnlinkedRooms ==
  ASSUME NEW R, IsFiniteSet(R), NEW S \in SUBSET R,
         NEW O \in Matrices(S), OpenLinks(S, O), NEW P \in Matrices(R),
         \A p \in Pairs(S) : P[p] = O[p],
         \A a \in S, k \in R \ S : P[<<a, k>>] = Inf
  PROVE  \A p \in Pairs(S) : Relaxed(R, P)[p] = Relaxed(S, O)[p]
<1> DEFINE D == Relaxed(R, P)
           e == [p \in Pairs(S) |-> D[p]]
<1>1. Walks(R, P, R, D)
  BY RelaxedWalks
<1> HIDE DEF D
<1>2. D \in Matrices(R)
  BY <1>1 DEF Walks
<1>3. \A a, b \in R : /\ D[<<a, b>>] \in Int /\ 0 <= D[<<a, b>>] /\ D[<<a, b>>] <= Inf
                      /\ P[<<a, b>>] \in Int /\ 0 <= P[<<a, b>>] /\ P[<<a, b>>] <= Inf
  BY <1>2, Entries
<1>4. \A a, b \in S : e[<<a, b>>] = D[<<a, b>>] /\ O[<<a, b>>] = P[<<a, b>>]
  BY DEF Pairs
<1>5. e \in Matrices(S)
  BY <1>2 DEF Matrices, Pairs
<1> HIDE DEF e
<1>6. \A a, b \in S : e[<<a, b>>] <= O[<<a, b>>]
  BY <1>1, <1>4 DEF Walks
<1>7. \A k \in S : \A a, b \in S : e[<<a, b>>] <= e[<<a, k>>] + e[<<k, b>>]
  <2>1. \A k \in S : \A a, b \in S : D[<<a, b>>] <= D[<<a, k>>] + D[<<k, b>>]
    BY <1>1 DEF Walks
  <2> QED BY <1>4, <2>1
<1>8. ASSUME NEW a \in S, NEW b \in S, e[<<a, b>>] # O[<<a, b>>]
      PROVE  \E k \in S : k # a /\ k # b /\ e[<<a, b>>] = O[<<a, k>>] + e[<<k, b>>]
  <2>1. D[<<a, b>>] # P[<<a, b>>]
    BY <1>4, <1>8
  <2>2. PICK k \in R : k # a /\ k # b /\ D[<<a, b>>] = P[<<a, k>>] + D[<<k, b>>]
    BY <1>1, <2>1 DEF Walks
  <2>3. CASE k \in S
    BY <1>4, <2>2, <2>3
  <2>4. CASE k \notin S
    <3>1. P[<<a, k>>] = Inf
      BY <2>4
    <3>2. /\ D[<<k, b>>] \in Int /\ 0 <= D[<<k, b>>] /\ D[<<a, b>>] \in Int
          /\ P[<<a, b>>] \in Int /\ P[<<a, b>>] <= Inf /\ Inf \in Int
      BY <1>3, LimitsOK
    <3>3. D[<<a, b>>] <= P[<<a, b>>]
      BY <1>1 DEF Walks
    <3> QED BY <2>1, <2>2, <3>1, <3>2, <3>3
  <2> QED BY <2>3, <2>4
<1>9. Walks(S, O, S, e)
  BY <1>5, <1>6, <1>7, <1>8 DEF Walks
<1>10. IsFiniteSet(S)
  BY FS_Subset
<1>11. Walks(S, O, S, Relaxed(S, O))
  BY <1>10, RelaxedWalks
<1>12. Bellman(S, O, e) /\ Bellman(S, O, Relaxed(S, O)) /\ Relaxed(S, O) \in Matrices(S)
  <2>1. Relaxed(S, O) \in Matrices(S)
    BY <1>11 DEF Walks
  <2> QED BY <1>9, <1>11, <2>1, WalksSolveBellman
<1>13. e = Relaxed(S, O)
  BY <1>5, <1>12, BellmanOnce
<1> QED
  BY <1>4, <1>13 DEF e, D

(***************************************************************************)
(* The map: its rooms, its links, its closures.                            *)
(***************************************************************************)
GraphShape ==
  /\ rooms \subseteq RoomNames
  /\ IsFiniteSet(rooms) /\ Cardinality(rooms) <= MaxRooms
  /\ direct \in Matrices(rooms)
  /\ closed \subseteq Pairs(rooms)

(* A link costs 1 to MaxLinkCost and joins two rooms, and a room is at no  *)
(* distance from itself.                                                   *)
LinksAreLinks == OpenLinks(rooms, direct) /\ \A a \in rooms : direct[<<a, a>>] = 0

MapInv == GraphShape /\ LinksAreLinks /\ LinksAreMutual

LEMMA InternedRooms ==
  ASSUME NEW S, S \subseteq RoomNames, IsFiniteSet(S), Cardinality(S) <= MaxRooms,
         NEW r \in RoomNames
  PROVE  LET R == Interned(S, r)
         IN  /\ S \subseteq R /\ R \subseteq RoomNames
             /\ IsFiniteSet(R) /\ Cardinality(R) <= MaxRooms
<1>1. IsFiniteSet(S \cup {r}) /\ Cardinality(S) \in Nat
      /\ Cardinality(S \cup {r}) = IF r \in S THEN Cardinality(S) ELSE Cardinality(S) + 1
  BY FS_AddElement, FS_CardinalityType
<1>2. MaxRooms \in Nat
  BY LimitsOK
<1>3. CASE Interned(S, r) = S
  BY <1>3
<1>4. CASE Interned(S, r) # S
  BY <1>1, <1>2, <1>4 DEF Interned
<1> QED
  BY <1>3, <1>4

(* fd_add_room_link with its local names written out.                      *)
Known(l) == Interned(Interned(rooms, l[1]), l[2])
Accepted(l) == l[1] # l[2] /\ {l[1], l[2]} \subseteq Known(l)
LinkEffect(l) ==
  /\ CostOK(l[3])
  /\ rooms' = Known(l)
  /\ direct' = IF Accepted(l) THEN Link(Extended(Known(l)), l[1], l[2], l[3])
               ELSE Extended(Known(l))
  /\ apspDirty' = (apspDirty \/ Accepted(l) \/ Known(l) # rooms)
  /\ factsDirty' = (factsDirty \/ Accepted(l))
  /\ UNCHANGED <<closed, apsp, facts>>

LEMMA LinkEffects ==
  ASSUME AddRoomLink
  PROVE  \E l \in LinkReports : LinkEffect(l)
  BY Zenon DEF AddRoomLink, LinkEffect, Known, Accepted

LEMMA KnownRooms ==
  ASSUME GraphShape, NEW l \in LinkReports
  PROVE  /\ l[1] \in RoomNames /\ l[2] \in RoomNames /\ l[3] \in Int
         /\ rooms \subseteq Known(l) /\ Known(l) \subseteq RoomNames
         /\ IsFiniteSet(Known(l)) /\ Cardinality(Known(l)) <= MaxRooms
<1>1. l[1] \in RoomNames /\ l[2] \in RoomNames /\ l[3] \in Int
  BY LimitsOK
<1> DEFINE S == Interned(rooms, l[1])
           R == Interned(S, l[2])
<1>2. /\ rooms \subseteq S /\ S \subseteq RoomNames
      /\ IsFiniteSet(S) /\ Cardinality(S) <= MaxRooms
  <2> HIDE DEF S
  <2> QED BY <1>1, InternedRooms DEF GraphShape, S
<1> HIDE DEF S
<1>3. /\ S \subseteq R /\ R \subseteq RoomNames
      /\ IsFiniteSet(R) /\ Cardinality(R) <= MaxRooms
  BY <1>1, <1>2, InternedRooms
<1> QED
  BY <1>1, <1>2, <1>3 DEF Known, S

(* New rooms come without links.                                           *)
LEMMA ExtendedMap ==
  ASSUME GraphShape, LinksAreLinks, NEW R, rooms \subseteq R
  PROVE  LET d == Extended(R)
         IN  /\ d \in Matrices(R)
             /\ \A p \in Pairs(rooms) : d[p] = direct[p]
             /\ \A a, b \in R : a # b /\ <<a, b>> \notin Pairs(rooms) => d[<<a, b>>] = Inf
             /\ \A a \in R : d[<<a, a>>] = 0
             /\ OpenLinks(R, d)
<1> DEFINE d == Extended(R)
<1>0. Inf \in Nat /\ DOMAIN direct = Pairs(rooms)
  BY LimitsOK DEF GraphShape, Matrices
<1>1. d = [p \in Pairs(R) |-> IF p \in Pairs(rooms) THEN direct[p]
                              ELSE IF p[1] = p[2] THEN 0 ELSE Inf]
  BY <1>0 DEF Extended
<1>2. \A p \in Pairs(rooms) : direct[p] \in Costs
  BY DEF GraphShape, Matrices
<1>3. 0 \in Costs /\ Inf \in Costs
  BY <1>0 DEF Costs
<1> HIDE DEF d
<1>4. \A p \in Pairs(R) : d[p] \in Costs
  BY <1>1, <1>2, <1>3
<1>5. d \in Matrices(R)
  BY <1>1, <1>4 DEF Matrices
<1>6. \A p \in Pairs(rooms) : d[p] = direct[p]
  BY <1>1 DEF Pairs
<1>7. \A a, b \in R : a # b /\ <<a, b>> \notin Pairs(rooms) => d[<<a, b>>] = Inf
  BY <1>1 DEF Pairs
<1>8. \A a \in R : d[<<a, a>>] = 0
  BY <1>1 DEF Pairs, LinksAreLinks
<1>9. OpenLinks(R, d)
  BY <1>6, <1>7 DEF LinksAreLinks, OpenLinks, Pairs
<1> QED
  BY <1>5, <1>6, <1>7, <1>8, <1>9 DEF d

(* A link enters both directions.                                          *)
LEMMA LinkedMap ==
  ASSUME NEW R, NEW d \in Matrices(R), NEW a \in R, NEW b \in R, a # b,
         NEW c \in Int, CostOK(c)
  PROVE  LET e == Link(d, a, b, c)
         IN  /\ e \in Matrices(R) /\ c # Inf
             /\ \A p \in Pairs(R) :
                  e[p] = IF p = <<a, b>> \/ p = <<b, a>> THEN c ELSE d[p]
<1> DEFINE e == Link(d, a, b, c)
<1>1. c \in Costs /\ c # Inf
  <2> DEFINE M == MaxLinkCost
             n == MaxRooms
  <2>1. M \in Nat /\ n \in Nat /\ n >= 1 /\ Inf \in Nat /\ M * n * 2 <= Inf
    BY LimitsOK
  <2>2. M <= M * n
    <3>1. MaxLinkCost * 1 <= MaxLinkCost * n /\ MaxLinkCost * 1 = MaxLinkCost
      BY <2>1, Times
    <3> QED BY <3>1
  <2> DEFINE q == M * n
  <2>3. q \in Nat /\ q * 2 <= Inf /\ M <= q
    BY <2>1, <2>2
  <2>4. 0 < c /\ c <= M
    BY DEF CostOK
  <2> HIDE DEF q, M, n
  <2>5. c < Inf
    BY <2>1, <2>3, <2>4
  <2> QED BY <2>1, <2>4, <2>5 DEF Costs
<1>2. e = [d EXCEPT ![<<a, b>>] = c, ![<<b, a>>] = c]
  BY DEF Link
<1>3. DOMAIN d = Pairs(R) /\ \A p \in Pairs(R) : d[p] \in Costs
  BY DEF Matrices
<1>4. <<a, b>> \in Pairs(R) /\ <<b, a>> \in Pairs(R)
  BY DEF Pairs
<1>5. \A p \in Pairs(R) : e[p] = IF p = <<a, b>> \/ p = <<b, a>> THEN c ELSE d[p]
  BY <1>2, <1>3, <1>4
<1>6. e = [p \in Pairs(R) |-> e[p]]
  BY <1>2, <1>3
<1> HIDE DEF e
<1>7. \A p \in Pairs(R) : e[p] \in Costs
  BY <1>1, <1>3, <1>5
<1>8. e \in Matrices(R)
  BY <1>6, <1>7 DEF Matrices
<1> QED
  BY <1>1, <1>5, <1>8 DEF e

LEMMA MapLink ==
  ASSUME MapInv, AddRoomLink
  PROVE  MapInv'
<1>1. PICK l \in LinkReports : LinkEffect(l)
  BY LinkEffects
<1> DEFINE R == Known(l)
           d == Extended(R)
<1>2. /\ l[1] \in RoomNames /\ l[2] \in RoomNames /\ l[3] \in Int
      /\ rooms \subseteq R /\ R \subseteq RoomNames
      /\ IsFiniteSet(R) /\ Cardinality(R) <= MaxRooms
  BY KnownRooms DEF MapInv
<1>3. rooms' = R /\ closed' = closed /\ CostOK(l[3])
  BY <1>1 DEF LinkEffect
<1>4. direct' = IF Accepted(l) THEN Link(d, l[1], l[2], l[3]) ELSE d
  BY <1>1 DEF LinkEffect
<1>5. Accepted(l) => l[1] \in R /\ l[2] \in R /\ l[1] # l[2]
  BY DEF Accepted
<1> HIDE DEF R, d
<1>6. /\ d \in Matrices(R)
      /\ \A p \in Pairs(rooms) : d[p] = direct[p]
      /\ \A a, b \in R : a # b /\ <<a, b>> \notin Pairs(rooms) => d[<<a, b>>] = Inf
      /\ \A a \in R : d[<<a, a>>] = 0
      /\ OpenLinks(R, d)
  BY <1>2, ExtendedMap DEF MapInv, d
<1>7. \A p \in Pairs(R) : d[p] = d[Flip(p)]
  <2>1. \A p \in Pairs(rooms) : direct[p] = direct[Flip(p)] /\ Flip(p) \in Pairs(rooms)
    BY DEF MapInv, LinksAreMutual, Pairs, Flip
  <2>2. ASSUME NEW a \in R, NEW b \in R PROVE d[<<a, b>>] = d[<<b, a>>]
    <3>1. CASE <<a, b>> \in Pairs(rooms)
      BY <1>6, <2>1, <3>1 DEF Flip
    <3>2. CASE <<a, b>> \notin Pairs(rooms)
      <4>1. <<b, a>> \notin Pairs(rooms)
        BY <3>2 DEF Pairs
      <4> QED BY <1>6, <3>2, <4>1
    <3> QED BY <3>1, <3>2
  <2> QED BY <2>2 DEF Pairs, Flip
<1>8. \A p \in closed : d[p] # Inf /\ p \in Pairs(R)
  BY <1>2, <1>6 DEF MapInv, GraphShape, LinksAreMutual, Pairs
<1>9. \A p \in Pairs(R) : p \in closed <=> Flip(p) \in closed
  BY DEF MapInv, GraphShape, LinksAreMutual, Pairs, Flip
<1>10. CASE ~ Accepted(l)
  <2>1. rooms' = R /\ direct' = d /\ closed' = closed
    BY <1>3, <1>4, <1>10
  <2>2. GraphShape'
    BY <1>2, <1>6, <1>8, <2>1 DEF GraphShape
  <2>3. LinksAreLinks'
    BY <1>6, <2>1 DEF LinksAreLinks
  <2>4. LinksAreMutual'
    BY <1>7, <1>8, <1>9, <2>1 DEF LinksAreMutual
  <2> QED BY <2>2, <2>3, <2>4 DEF MapInv
<1>11. CASE Accepted(l)
  <2> DEFINE e == Link(d, l[1], l[2], l[3])
  <2>1. rooms' = R /\ direct' = e /\ closed' = closed
    BY <1>3, <1>4, <1>11
  <2>2. /\ e \in Matrices(R) /\ l[3] # Inf
        /\ \A p \in Pairs(R) :
             e[p] = IF p = <<l[1], l[2]>> \/ p = <<l[2], l[1]>> THEN l[3] ELSE d[p]
    BY <1>2, <1>3, <1>5, <1>6, <1>11, LinkedMap
  <2> HIDE DEF e
  <2>3. GraphShape'
    BY <1>2, <1>8, <2>1, <2>2 DEF GraphShape
  <2>4. 1 <= l[3] /\ l[3] <= MaxLinkCost
    BY <1>2, <1>3 DEF CostOK
  <2>5. \A a, b \in R : e[<<a, b>>] = l[3] \/ e[<<a, b>>] = d[<<a, b>>]
    BY <2>2 DEF Pairs
  <2>6. \A a \in R : e[<<a, a>>] = 0
    BY <1>5, <1>6, <1>11, <2>2 DEF Pairs
  <2>7. OpenLinks(R, e)
    BY <1>6, <2>4, <2>5 DEF OpenLinks
  <2>8. LinksAreLinks'
    BY <2>1, <2>6, <2>7 DEF LinksAreLinks
  <2>9. \A p \in Pairs(R) : e[p] = e[Flip(p)]
    BY <1>5, <1>7, <1>11, <2>2 DEF Pairs, Flip
  <2>10. \A p \in closed : e[p] # Inf
    BY <1>8, <2>2
  <2>11. LinksAreMutual'
    BY <1>9, <2>1, <2>9, <2>10 DEF LinksAreMutual
  <2> QED BY <2>3, <2>8, <2>11 DEF MapInv
<1> QED
  BY <1>10, <1>11

LEMMA MapInit == GraphInit => MapInv
<1> SUFFICES ASSUME GraphInit PROVE MapInv
  OBVIOUS
<1>1. rooms = {} /\ direct = Nothing /\ closed = {}
  BY DEF GraphInit
<1>2. IsFiniteSet({}) /\ Cardinality({}) = 0 /\ 0 <= MaxRooms
  BY FS_EmptySet, LimitsOK
<1>3. Nothing \in Matrices({})
  BY DEF Nothing, Matrices, Pairs
<1> QED
  BY <1>1, <1>2, <1>3
     DEF MapInv, GraphShape, LinksAreLinks, LinksAreMutual, OpenLinks, Pairs

LEMMA MapStep ==
  ASSUME MapInv, [GraphNext]_graphVars
  PROVE  MapInv'
<1>1. CASE UNCHANGED <<rooms, direct, closed>>
  BY <1>1 DEF MapInv, GraphShape, LinksAreLinks, LinksAreMutual
<1>2. ASSUME UNCHANGED <<rooms, direct>>, closed' \subseteq Pairs(rooms),
             \A p \in Pairs(rooms) : p \in closed' <=> Flip(p) \in closed',
             \A p \in closed' : direct[p] # Inf
      PROVE  MapInv'
  <2>1. GraphShape' /\ LinksAreLinks'
    BY <1>2 DEF MapInv, GraphShape, LinksAreLinks
  <2>2. LinksAreMutual'
    BY <1>2 DEF MapInv, LinksAreMutual
  <2> QED BY <2>1, <2>2 DEF MapInv
<1>3. CASE RouteClosed
  <2>1. PICK p \in Pairs(rooms) : direct[p] # Inf /\ closed' = closed \cup {p, Flip(p)}
    BY <1>3 DEF RouteClosed, BothWays
  <2>2. UNCHANGED <<rooms, direct>>
    BY <1>3 DEF RouteClosed
  <2>3. Flip(p) \in Pairs(rooms) /\ direct[Flip(p)] # Inf
    BY <2>1 DEF MapInv, LinksAreMutual, Pairs, Flip
  <2>4. closed' \subseteq Pairs(rooms)
    BY <2>1, <2>3 DEF MapInv, GraphShape
  <2>5. \A q \in Pairs(rooms) : q \in closed' <=> Flip(q) \in closed'
    BY <2>1 DEF MapInv, LinksAreMutual, Pairs, Flip
  <2>6. \A q \in closed' : direct[q] # Inf
    BY <2>1, <2>3 DEF MapInv, LinksAreMutual
  <2> QED BY <1>2, <2>2, <2>4, <2>5, <2>6
<1>4. CASE RouteOpened
  <2>1. PICK p \in closed : closed' = closed \ {p, Flip(p)}
    BY <1>4 DEF RouteOpened, BothWays
  <2>2. UNCHANGED <<rooms, direct>>
    BY <1>4 DEF RouteOpened
  <2>3. closed' \subseteq Pairs(rooms) /\ \A q \in closed' : direct[q] # Inf
    BY <2>1 DEF MapInv, GraphShape, LinksAreMutual
  <2>4. \A q \in Pairs(rooms) : q \in closed' <=> Flip(q) \in closed'
    <3>1. p \in Pairs(rooms)
      BY DEF MapInv, GraphShape
    <3> QED BY <2>1, <3>1 DEF MapInv, LinksAreMutual, Pairs, Flip
  <2> QED BY <1>2, <2>2, <2>3, <2>4
<1>5. CASE Reset
  BY <1>2, <1>5 DEF Reset
<1> QED
  BY <1>1, <1>3, <1>4, <1>5, MapLink DEF GraphNext, AskDistance, Publish, graphVars

(***************************************************************************)
(* The cache.  A step that changes the rooms, the links or the closures    *)
(* marks it; a step that unmarks it computes it anew.                      *)
(***************************************************************************)
CacheShape ==
  /\ apspDirty \in BOOLEAN /\ factsDirty \in BOOLEAN
  /\ apsp \in [DOMAIN apsp -> Int] /\ facts \in [DOMAIN facts -> Int]
  /\ ~ apspDirty => DOMAIN apsp = Pairs(rooms)
  /\ DOMAIN facts \subseteq Pairs(rooms)
GraphInv == MapInv /\ CacheShape /\ CacheIsFresh

LEMMA OpenMap ==
  ASSUME MapInv
  PROVE  /\ Open \in Matrices(rooms) /\ OpenLinks(rooms, Open)
         /\ \A a \in rooms : Open[<<a, a>>] \in {0, Inf}
<1>1. Inf \in Costs
  BY LimitsOK DEF Costs
<1>2. \A p \in Pairs(rooms) : direct[p] \in Costs /\ Open[p] \in {direct[p], Inf}
  BY DEF MapInv, GraphShape, Matrices, Open
<1>3. Open \in Matrices(rooms)
  BY <1>1, <1>2 DEF Open, Matrices
<1>4. \A a, b \in rooms : Open[<<a, b>>] \in {direct[<<a, b>>], Inf}
  BY <1>2 DEF Pairs
<1> QED
  BY <1>3, <1>4 DEF MapInv, LinksAreLinks, OpenLinks

LEMMA ShortestMap ==
  ASSUME MapInv
  PROVE  AllPairs \in Matrices(rooms) /\ Walks(rooms, Open, rooms, AllPairs)
<1>1. Walks(rooms, Open, rooms, AllPairs)
  BY OpenMap, RelaxedWalks DEF AllPairs, MapInv, GraphShape
<1> QED
  BY <1>1 DEF Walks

LEMMA AllPairsKept ==
  ASSUME UNCHANGED <<rooms, direct, closed>>
  PROVE  AllPairs' = AllPairs
<1>1. Open' = Open
  BY DEF Open
<1> QED
  BY <1>1 DEF AllPairs

LEMMA RefreshedIsFresh ==
  ASSUME CacheIsFresh, rooms # {}
  PROVE  Refreshed = AllPairs
  BY DEF CacheIsFresh, Refreshed

LEMMA RefreshedRooms ==
  ASSUME GraphInv
  PROVE  Refreshed \in [Pairs(rooms) -> Int]
<1>1. AllPairs \in Matrices(rooms)
  BY ShortestMap DEF GraphInv
<1>2. Costs \subseteq Int
  BY LimitsOK DEF Costs
<1>3. AllPairs \in [Pairs(rooms) -> Int]
  BY <1>1, <1>2 DEF Matrices
<1> QED
  BY <1>3 DEF Refreshed, GraphInv, CacheShape

LEMMA UnlinkedKept ==
  ASSUME MapInv
  PROVE  Extended(rooms) = direct
  BY DEF MapInv, GraphShape, Matrices, Extended

LEMMA FreshStep ==
  ASSUME GraphInv, [GraphNext]_graphVars
  PROVE  CacheIsFresh'
<1> USE DEF GraphInv, CacheIsFresh
<1>1. CASE AskDistance \/ UNCHANGED graphVars
  BY <1>1, AllPairsKept DEF AskDistance, graphVars
<1>2. CASE Publish
  BY <1>2, AllPairsKept, RefreshedIsFresh DEF Publish
<1>3. CASE RouteClosed \/ RouteOpened \/ Reset
  BY <1>3 DEF RouteClosed, RouteOpened, Reset, Dirtied
<1>4. CASE AddRoomLink
  <2> SUFFICES ASSUME ~ apspDirty', rooms' # {} PROVE apsp' = AllPairs'
    OBVIOUS
  <2>0. PICK l \in LinkReports : LinkEffect(l)
    BY <1>4, LinkEffects
  <2>1. /\ rooms' = rooms /\ direct' = Extended(rooms)
        /\ UNCHANGED <<closed, apsp>> /\ ~ apspDirty
    BY <2>0, Zenon DEF LinkEffect
  <2> QED
    BY <2>1, UnlinkedKept, AllPairsKept
<1> QED
  BY <1>1, <1>2, <1>3, <1>4 DEF GraphNext

LEMMA CacheShapeStep ==
  ASSUME GraphInv, [GraphNext]_graphVars
  PROVE  CacheShape'
<1> USE DEF CacheShape
<1>0. CacheShape /\ GraphShape
  BY DEF GraphInv, MapInv
<1>1. CASE UNCHANGED graphVars
  BY <1>0, <1>1 DEF graphVars
<1>2. CASE AskDistance
  <2>1. /\ apsp' = AllPairs /\ apspDirty /\ ~ apspDirty'
        /\ UNCHANGED <<rooms, factsDirty, facts>>
    BY <1>2 DEF AskDistance
  <2>2. AllPairs = Refreshed
    BY <2>1 DEF Refreshed
  <2>3. apsp' \in [Pairs(rooms) -> Int]
    BY <2>1, <2>2, RefreshedRooms
  <2> QED BY <1>0, <1>2, <2>1, <2>3 DEF AskDistance
<1>3. CASE Publish
  <2>1. /\ apsp' = Refreshed /\ apspDirty' = FALSE /\ UNCHANGED rooms
        /\ facts' = FactsOf(Refreshed) /\ factsDirty' = FALSE
    BY <1>3 DEF Publish
  <2>2. Refreshed \in [Pairs(rooms) -> Int]
    BY RefreshedRooms
  <2>3. facts' \in [DOMAIN facts' -> Int] /\ DOMAIN facts' \subseteq Pairs(rooms)
    BY <2>1, <2>2, LimitsOK DEF FactsOf, FactCost
  <2> QED BY <2>1, <2>2, <2>3
<1>4. CASE RouteClosed \/ RouteOpened
  BY <1>0, <1>4 DEF RouteClosed, RouteOpened, Dirtied
<1>5. CASE Reset
  BY <1>0, <1>5 DEF Reset, Dirtied, Nothing
<1>6. CASE AddRoomLink
  <2>1. PICK l \in LinkReports : LinkEffect(l)
    BY <1>6, LinkEffects
  <2>2. rooms \subseteq rooms' /\ UNCHANGED <<apsp, facts>>
    BY <1>0, <2>1, KnownRooms DEF LinkEffect
  <2>3. apspDirty' \in BOOLEAN /\ factsDirty' \in BOOLEAN
    BY <1>0, <2>1, Zenon DEF LinkEffect
  <2>4. ~ apspDirty' => ~ apspDirty /\ rooms' = rooms
    BY <2>1, Zenon DEF LinkEffect
  <2>5. Pairs(rooms) \subseteq Pairs(rooms')
    BY <2>2 DEF Pairs
  <2> QED BY <1>0, <2>2, <2>3, <2>4, <2>5
<1> QED
  BY <1>1, <1>2, <1>3, <1>4, <1>5, <1>6 DEF GraphNext

LEMMA GraphInvInit == GraphInit => GraphInv
  BY MapInit DEF GraphInit, GraphInv, CacheShape, CacheIsFresh, Nothing, Pairs

LEMMA GraphInvStep ==
  ASSUME GraphInv, [GraphNext]_graphVars
  PROVE  GraphInv'
  BY MapStep, CacheShapeStep, FreshStep DEF GraphInv

LEMMA GraphInvAlways == GraphSpec => []GraphInv
  BY GraphInvInit, GraphInvStep, PTL DEF GraphSpec

(* The variables keep their shapes: the map never holds more rooms than    *)
(* FD_MAX_ROOMS, the matrix covers exactly its rooms whenever it is not    *)
(* marked, and every cost is one an int holds (fd_graph.c).                *)
THEOREM GraphTypeCorrect == GraphSpec => []GraphTypeOK
<1>1. GraphInv => GraphTypeOK
  <2>1. Matrices(rooms) \subseteq [Pairs(rooms) -> Costs]
    BY DEF Matrices
  <2> QED BY <2>1 DEF GraphInv, MapInv, GraphShape, CacheShape, GraphTypeOK
<1> QED
  BY <1>1, GraphInvAlways, PTL

(* Links and closures come in both directions, and only links are closed   *)
(* (fd_graph.c: fd_add_room_link, fd_observe_route_closed and              *)
(* fd_observe_route_opened).                                               *)
THEOREM LinksAlwaysMutual == GraphSpec => []LinksAreMutual
<1>1. GraphInv => LinksAreMutual
  BY DEF GraphInv, MapInv
<1> QED
  BY <1>1, GraphInvAlways, PTL

(* Whatever mix of links, closures, questions, runs and rounds came        *)
(* before, a matrix that is not marked for recomputation is the one the    *)
(* links and closures of the moment give (fd_graph.c: apsp_dirty).         *)
THEOREM CacheAlwaysFresh == GraphSpec => []CacheIsFresh
<1>1. GraphInv => CacheIsFresh
  BY DEF GraphInv
<1> QED
  BY <1>1, GraphInvAlways, PTL

(***************************************************************************)
(* The walks.                                                              *)
(***************************************************************************)
LEMMA TwoWalksFit ==
  ASSUME MapInv, NEW T \in SUBSET rooms, NEW d, Walks(rooms, Open, T, d)
  PROVE  SumsFit(d)
<1> DEFINE top == MaxLinkCost * Cardinality(rooms)
           cap == MaxLinkCost * MaxRooms
<1>1. IsFiniteSet(rooms) /\ Cardinality(rooms) \in Nat /\ Cardinality(rooms) <= MaxRooms
  BY FS_CardinalityType DEF MapInv, GraphShape
<1>2. top \in Int /\ cap \in Int /\ top <= cap /\ cap * 2 <= Inf /\ Inf \in Int
  BY <1>1, LimitsOK, Times
<1>3. d \in Matrices(rooms)
  BY DEF Walks
<1> HIDE DEF top, cap
<1>4. ASSUME NEW p \in Pairs(rooms), d[p] # Inf PROVE d[p] \in Int /\ d[p] <= top
  <2>1. PICK a \in rooms, b \in rooms : p = <<a, b>>
    BY DEF Pairs
  <2>2. d[<<a, b>>] <= MaxLinkCost * Cardinality(rooms)
    BY <1>1, <1>4, <2>1, OpenMap, WalksAreShort
  <2>3. d[<<a, b>>] \in Int
    BY <1>3, Entries
  <2> QED BY <2>1, <2>2, <2>3 DEF top
<1>5. ASSUME NEW p \in Pairs(rooms), NEW q \in Pairs(rooms), d[p] # Inf, d[q] # Inf
      PROVE  d[p] + d[q] <= Inf
  BY <1>2, <1>4, <1>5
<1> QED
  BY <1>5 DEF SumsFit

(* The answers solve Bellman's equations for the links and closures of the *)
(* moment, the diagonal included, and two of them never add up to more     *)
(* than FD_INF (fd_graph.c: graph_recompute_apsp; fd_internal.h: the       *)
(* assertion on FD_MAX_LINK_COST).                                         *)
THEOREM WalksAlwaysShortest == GraphSpec => []ShortestWalks
<1>1. ASSUME GraphInv, rooms # {} PROVE ShortestWalks
  <2>1. MapInv /\ Refreshed = AllPairs
    BY <1>1, RefreshedIsFresh DEF GraphInv
  <2>2. Walks(rooms, Open, rooms, Refreshed)
    BY <2>1, ShortestMap
  <2>3. SolvesBellman(Refreshed)
    <3>1. Bellman(rooms, Open, Refreshed)
      BY <2>1, <2>2, OpenMap, WalksSolveBellman
    <3> QED BY <3>1 DEF Bellman, SolvesBellman, Neighbours
  <2>4. SumsFit(Refreshed)
    <3>1. rooms \in SUBSET rooms
      OBVIOUS
    <3> QED BY <2>1, <2>2, <3>1, TwoWalksFit
  <2> QED BY <2>3, <2>4 DEF ShortestWalks
<1>2. ASSUME rooms = {} PROVE ShortestWalks
  BY <1>2 DEF ShortestWalks, SolvesBellman, SumsFit, Pairs
<1>3. GraphInv => ShortestWalks
  BY <1>1, <1>2
<1> QED
  BY <1>3, GraphInvAlways, PTL

(* No other matrix solves them, so the answers are the lengths of the      *)
(* shortest walks and not merely one solution among several (fd_graph.c:   *)
(* graph_recompute_apsp; every link costs at least 1).                     *)
WalksAreDetermined == \A d \in Matrices(rooms) : SolvesBellman(d) => d = AllPairs

THEOREM WalksAlwaysDetermined == GraphSpec => []WalksAreDetermined
<1>1. ASSUME GraphInv, NEW d \in Matrices(rooms), SolvesBellman(d)
      PROVE  d = AllPairs
  <2>1. Bellman(rooms, Open, d)
    BY <1>1 DEF Bellman, SolvesBellman, Neighbours
  <2>2. AllPairs \in Matrices(rooms) /\ Bellman(rooms, Open, AllPairs)
    BY <1>1, ShortestMap, OpenMap, WalksSolveBellman DEF GraphInv
  <2> QED BY <1>1, <2>1, <2>2, OpenMap, BellmanOnce DEF GraphInv
<1>2. GraphInv => WalksAreDetermined
  BY <1>1 DEF WalksAreDetermined
<1> QED
  BY <1>2, GraphInvAlways, PTL

(***************************************************************************)
(* Players on the map.  r[i] is the room a player stops in at tick t[i],   *)
(* for i in 0..n: from each stop it waits or takes an open link, for which *)
(* it needs at least what the link costs.                                  *)
(***************************************************************************)
Waits(r, t, i) == r[i] = r[i - 1] /\ t[i - 1] <= t[i]
TakesLink(r, t, i) ==
  LET cost == Open[<<r[i - 1], r[i]>>]
  IN  r[i] # r[i - 1] /\ cost # Inf /\ cost <= t[i] - t[i - 1]
Strolls(n, r, t) ==
  /\ n \in Nat /\ r \in [0..n -> rooms] /\ t \in [0..n -> Int]
  /\ \A i \in 1..n : Waits(r, t, i) \/ TakesLink(r, t, i)
InReach(a, b, time) == PathCost(a, b) # Inf /\ PathCost(a, b) <= time
StrollsAreInReach ==
  \A n, r, t : Strolls(n, r, t) =>
    \A j \in 0..n, i \in 0..n :
      (i <= j /\ r[i] # r[j]) => InReach(r[i], r[j], t[j] - t[i])

(* One more link at the beginning of a walk.                               *)
LEMMA LinkBefore ==
  ASSUME MapInv, NEW a \in rooms, NEW c \in rooms, NEW b \in rooms,
         a # c, a # b, Open[<<a, c>>] # Inf,
         c # b => AllPairs[<<c, b>>] # Inf
  PROVE  /\ AllPairs[<<a, b>>] # Inf
         /\ c = b => AllPairs[<<a, b>>] <= Open[<<a, c>>]
         /\ c # b => AllPairs[<<a, b>>] <= Open[<<a, c>>] + AllPairs[<<c, b>>]
<1> DEFINE M == MaxLinkCost
           d == AllPairs
           size == Cardinality(rooms)
<1>1. /\ IsFiniteSet(rooms) /\ size \in Nat /\ size <= MaxRooms
      /\ M \in Nat /\ Inf \in Nat /\ MaxRooms \in Nat /\ M * MaxRooms * 2 <= Inf
  BY FS_CardinalityType, LimitsOK DEF MapInv, GraphShape
<1>2. /\ Open \in Matrices(rooms) /\ d \in Matrices(rooms) /\ Bellman(rooms, Open, d)
      /\ OpenLinks(rooms, Open) /\ Walks(rooms, Open, rooms, d)
  BY <1>1, OpenMap, ShortestMap, WalksSolveBellman
<1>3. \A x, y \in rooms : /\ d[<<x, y>>] \in Int /\ 0 <= d[<<x, y>>]
                          /\ Open[<<x, y>>] \in Int /\ 0 <= Open[<<x, y>>]
  BY <1>2, Entries
<1>4. 1 <= Open[<<a, c>>] /\ Open[<<a, c>>] <= M
  BY <1>2 DEF OpenLinks
<1>5. M * size <= M * MaxRooms /\ M * size \in Int /\ M * MaxRooms \in Int
  BY <1>1, Times
<1>6. size >= 1
  BY <1>1, FS_EmptySet
<1>7. 1 <= M * MaxRooms /\ M * size = M * (size - 1) + M /\ M * (size - 1) \in Int
  <2>1. 1 <= M
    BY <1>1, <1>3, <1>4
  <2>2. size - 1 \in Nat /\ 0 \in Nat
    BY <1>1, <1>6
  <2>3. M * (size - 1 + 1) = M * (size - 1) + M /\ M * (size - 1) \in Int
        /\ 0 <= M * (size - 1)
    BY <1>1, <2>2, Times
  <2>4. size - 1 + 1 = size
    BY <1>1
  <2> HIDE DEF M, size
  <2> QED BY <1>1, <1>5, <2>1, <2>3, <2>4
<1>8. M * MaxRooms < Inf
  <2> DEFINE cap == M * MaxRooms
  <2>1. cap \in Int /\ 1 <= cap /\ cap * 2 <= Inf
    BY <1>1, <1>5, <1>7
  <2> HIDE DEF cap
  <2>2. cap < Inf
    BY <1>1, <2>1
  <2> QED BY <2>2 DEF cap
<1>9. CASE c = b
  <2>1. d[<<a, b>>] <= Open[<<a, c>>]
    BY <1>2, <1>9, BellmanEntry
  <2>2. M <= M * size
    <3>1. 1 \in Nat /\ M * 1 <= M * size
      BY <1>1, <1>6, Times
    <3> QED BY <1>1, <3>1
  <2> HIDE DEF M, d, size
  <2>3. d[<<a, b>>] < Inf
    <3>1. Open[<<a, c>>] \in Int /\ d[<<a, b>>] \in Int
      BY <1>3
    <3> DEFINE top == M * size
               cap == M * MaxRooms
    <3>2. top \in Int /\ cap \in Int /\ top <= cap /\ cap < Inf /\ M <= top
      BY <1>5, <1>8, <2>2
    <3> HIDE DEF top, cap
    <3> QED BY <1>1, <1>4, <2>1, <3>1, <3>2
  <2>4. d[<<a, b>>] # Inf
    BY <1>1, <1>3, <2>3
  <2> QED BY <1>9, <2>1, <2>4 DEF d
<1>10. CASE c # b
  <2>1. c \in Neighbours(rooms, a, b)
    BY <1>10 DEF Neighbours
  <2>2. d[<<a, b>>] <= Sum(Open[<<a, c>>], d[<<c, b>>])
    BY <1>2, <2>1, BellmanEntry
  <2>3. d[<<c, b>>] # Inf
    BY <1>10
  <2>4. d[<<a, b>>] <= Open[<<a, c>>] + d[<<c, b>>]
    BY <2>2, <2>3 DEF Sum
  <2>5. d[<<c, b>>] <= M * (size - 1)
    BY <1>1, <1>2, <1>10, <2>3, OpenMap, WalksAreShort
  <2> HIDE DEF M, d, size
  <2>6. d[<<a, b>>] < Inf
    <3>1. Open[<<a, c>>] \in Int /\ d[<<a, b>>] \in Int /\ d[<<c, b>>] \in Int
      BY <1>3
    <3> DEFINE less == M * (size - 1)
               top == M * size
               cap == M * MaxRooms
    <3>2. /\ less \in Int /\ top \in Int /\ cap \in Int /\ top = less + M
          /\ top <= cap /\ cap < Inf /\ d[<<c, b>>] <= less
      BY <1>5, <1>7, <1>8, <2>5
    <3> HIDE DEF less, top, cap
    <3> QED BY <1>1, <1>4, <2>4, <3>1, <3>2
  <2>7. d[<<a, b>>] # Inf
    BY <1>1, <1>3, <2>6
  <2> QED BY <1>10, <2>4, <2>7 DEF d
<1> QED
  BY <1>9, <1>10

(* Nobody who walks over open links, however it strolls and waits, is ever *)
(* faster than the matrix says, nor found in a room the matrix calls out   *)
(* of reach: a reported move that the vent check finds too fast was not    *)
(* made on the map of the moment (fd_graph.c: fd_graph_path_cost;          *)
(* fd_observe.c: vent_check).                                              *)
THEOREM StrollsAlwaysInReach == GraphSpec => []StrollsAreInReach
<1>1. ASSUME GraphInv, NEW n, NEW r, NEW t, Strolls(n, r, t), NEW j \in 0..n,
             NEW i \in 0..n, i <= j, r[i] # r[j]
      PROVE  InReach(r[i], r[j], t[j] - t[i])
  <2> DEFINE d == AllPairs
             Fine(x) == \/ r[x] = r[j] /\ t[x] <= t[j]
                        \/ /\ r[x] # r[j] /\ d[<<r[x], r[j]>>] # Inf
                           /\ d[<<r[x], r[j]>>] <= t[j] - t[x]
             G == {k \in 0..j : Fine(j - k)}
  <2>1. MapInv /\ n \in Nat /\ j \in Nat /\ i \in Nat /\ j <= n
    BY <1>1 DEF GraphInv, Strolls
  <2>2. \A x \in 0..n : r[x] \in rooms /\ t[x] \in Int
    BY <1>1 DEF Strolls
  <2>3. d \in Matrices(rooms) /\ Open \in Matrices(rooms)
    BY <2>1, ShortestMap, OpenMap
  <2>4. \A x, y \in rooms : d[<<x, y>>] \in Int /\ Open[<<x, y>>] \in Int
    BY <2>3, Entries
  <2>5. 0 \in G
    <3>1. 0 \in 0..j /\ j - 0 = j
      BY <2>1
    <3>2. Fine(j)
      BY <2>1, <2>2
    <3> HIDE DEF Fine
    <3> QED BY <3>1, <3>2
  <2>6. ASSUME NEW k \in 1..j, k - 1 \in G PROVE k \in G
    <3> DEFINE x == j - k
               y == x + 1
    <3>1. /\ x \in 0..n /\ y \in 0..n /\ y \in 1..n /\ j \in 0..n
          /\ y = j - (k - 1) /\ y - 1 = x
      BY <2>1
    <3>2. Fine(y)
      <4> HIDE DEF Fine, y
      <4> QED BY <2>6, <3>1
    <3>3. Waits(r, t, y) \/ TakesLink(r, t, y)
      BY <1>1, <3>1 DEF Strolls
    <3>4. /\ r[x] \in rooms /\ r[y] \in rooms /\ r[j] \in rooms
          /\ t[x] \in Int /\ t[y] \in Int /\ t[j] \in Int
      BY <2>2, <3>1
    <3>5. /\ d[<<r[y], r[j]>>] \in Int /\ d[<<r[x], r[j]>>] \in Int
          /\ Open[<<r[x], r[y]>>] \in Int /\ 0 <= Open[<<r[x], r[y]>>]
      BY <2>3, <2>4, <3>4, Entries
    <3> HIDE DEF x, y, d
    <3>6. CASE Waits(r, t, y)
      <4>1. r[y] = r[x] /\ t[x] <= t[y]
        BY <3>1, <3>6 DEF Waits
      <4>2. Fine(x)
        BY <3>2, <3>4, <3>5, <4>1
      <4> HIDE DEF Fine
      <4> QED BY <4>2 DEF x
    <3>7. CASE TakesLink(r, t, y)
      <4>1. /\ r[x] # r[y] /\ Open[<<r[x], r[y]>>] # Inf
            /\ Open[<<r[x], r[y]>>] <= t[y] - t[x]
        BY <3>1, <3>7 DEF TakesLink
      <4>2. CASE r[x] = r[j]
        <5>1. r[y] # r[j]
          BY <4>1, <4>2
        <5>2. d[<<r[y], r[j]>>] <= t[j] - t[y] /\ 0 <= d[<<r[y], r[j]>>]
          BY <2>3, <3>2, <3>4, <5>1, Entries
        <5>3. Fine(x)
          BY <3>4, <3>5, <4>1, <4>2, <5>2
        <5> HIDE DEF Fine
        <5> QED BY <5>3 DEF x
      <4>3. CASE r[x] # r[j] /\ r[y] = r[j]
        <5>1. d[<<r[x], r[j]>>] # Inf /\ d[<<r[x], r[j]>>] <= Open[<<r[x], r[y]>>]
          BY <2>1, <3>4, <4>1, <4>3, LinkBefore DEF d
        <5>2. t[y] <= t[j]
          BY <3>2, <4>3
        <5>3. Fine(x)
          BY <3>4, <3>5, <4>1, <4>3, <5>1, <5>2
        <5> HIDE DEF Fine
        <5> QED BY <5>3 DEF x
      <4>4. CASE r[x] # r[j] /\ r[y] # r[j]
        <5>1. d[<<r[y], r[j]>>] # Inf /\ d[<<r[y], r[j]>>] <= t[j] - t[y]
          BY <3>2, <4>4
        <5>2. /\ d[<<r[x], r[j]>>] # Inf
              /\ d[<<r[x], r[j]>>] <= Open[<<r[x], r[y]>>] + d[<<r[y], r[j]>>]
          BY <2>1, <3>4, <4>1, <4>4, <5>1, LinkBefore DEF d
        <5>3. Fine(x)
          BY <3>4, <3>5, <4>1, <4>4, <5>1, <5>2
        <5> HIDE DEF Fine
        <5> QED BY <5>3 DEF x
      <4> QED BY <4>2, <4>3, <4>4
    <3> QED BY <3>3, <3>6, <3>7
  <2> HIDE DEF G
  <2>7. \A k \in 0..j : k \in G
    BY <2>1, <2>5, <2>6, NatInductionOn
  <2>8. Fine(i)
    <3>1. j - i \in 0..j /\ j - (j - i) = i
      BY <1>1, <2>1
    <3>2. j - i \in G
      BY <2>7, <3>1
    <3> HIDE DEF Fine
    <3> QED BY <3>1, <3>2 DEF G
  <2>9. d[<<r[i], r[j]>>] # Inf /\ d[<<r[i], r[j]>>] <= t[j] - t[i]
    BY <1>1, <2>8
  <2>10. PathCost(r[i], r[j]) = d[<<r[i], r[j]>>]
    <3>1. r[i] \in rooms /\ r[j] \in rooms
      BY <2>2
    <3>2. Refreshed = d /\ {r[i], r[j]} \subseteq rooms
      BY <1>1, <3>1, RefreshedIsFresh DEF GraphInv
    <3> QED BY <3>2 DEF PathCost
  <2> HIDE DEF d
  <2> QED BY <2>9, <2>10 DEF InReach
<1>2. GraphInv => StrollsAreInReach
  BY <1>1 DEF StrollsAreInReach
<1> QED
  BY <1>2, GraphInvAlways, PTL

(* Not only the finished matrix: however far the relaxation has got, no    *)
(* two finite entries add up to more than FD_INF, so no sum it takes can   *)
(* overflow or pass for an unreachable room by accident (fd_graph.c:       *)
(* graph_recompute_apsp; fd_internal.h: the assertion on FD_MAX_LINK_COST).*)
RoundsFit ==
  \A g : IsRounds(rooms, Open, g) => \A T \in SUBSET rooms : SumsFit(g[T])

THEOREM SumsAlwaysFit == GraphSpec => []RoundsFit
<1>1. ASSUME GraphInv PROVE RoundsFit
  <2> SUFFICES ASSUME NEW g, IsRounds(rooms, Open, g), NEW T \in SUBSET rooms
               PROVE  SumsFit(g[T])
    BY DEF RoundsFit
  <2>1. MapInv /\ IsFiniteSet(rooms)
    BY <1>1 DEF GraphInv, MapInv, GraphShape
  <2>2. Walks(rooms, Open, T, g[T])
    BY <2>1, OpenMap, RoundsAreWalks
  <2> QED BY <2>1, <2>2, TwoWalksFit
<1> QED
  BY <1>1, GraphInvAlways, PTL

(* The same of the state after a step.                                     *)
LEMMA AfterStep ==
  /\ MapInv' => (Open \in Matrices(rooms))'
  /\ (GraphInv /\ rooms # {})' => (Refreshed = AllPairs)'
  /\ GraphInv' => (Refreshed \in [Pairs(rooms) -> Int])'
<1>1. MapInv => Open \in Matrices(rooms)
  BY OpenMap
<1>2. GraphInv /\ rooms # {} => Refreshed = AllPairs
  BY RefreshedIsFresh DEF GraphInv
<1>3. GraphInv => Refreshed \in [Pairs(rooms) -> Int]
  BY RefreshedRooms
<1> QED
  BY <1>1, <1>2, <1>3, PTL

(* More closures, longer open links, longer walks.                         *)
LEMMA OpenBelow ==
  ASSUME MapInv, UNCHANGED <<rooms, direct>>, MapInv'
  PROVE  /\ closed \subseteq closed' =>
              Below(rooms, Relaxed(rooms, Open), Relaxed(rooms, Open'))
         /\ closed' \subseteq closed =>
              Below(rooms, Relaxed(rooms, Open'), Relaxed(rooms, Open))
<1> DEFINE was == Open
           now == Open'
<1>1. was \in Matrices(rooms) /\ now \in Matrices(rooms) /\ IsFiniteSet(rooms)
  BY OpenMap, AfterStep DEF MapInv, GraphShape
<1>2. /\ was = [p \in Pairs(rooms) |-> IF p \in closed THEN Inf ELSE direct[p]]
      /\ now = [p \in Pairs(rooms) |-> IF p \in closed' THEN Inf ELSE direct[p]]
  BY DEF Open
<1> HIDE DEF was, now
<1>3. ASSUME NEW a \in rooms, NEW b \in rooms
      PROVE  /\ direct[<<a, b>>] \in Int /\ direct[<<a, b>>] <= Inf /\ Inf \in Int
             /\ was[<<a, b>>] = IF <<a, b>> \in closed THEN Inf ELSE direct[<<a, b>>]
             /\ now[<<a, b>>] = IF <<a, b>> \in closed' THEN Inf ELSE direct[<<a, b>>]
  <2>1. direct \in Matrices(rooms)
    BY DEF MapInv, GraphShape
  <2> QED BY <1>2, <2>1, Entries, LimitsOK DEF Pairs
<1>4. ASSUME closed \subseteq closed' PROVE Below(rooms, was, now)
  <2>1. ASSUME NEW a \in rooms, NEW b \in rooms PROVE was[<<a, b>>] <= now[<<a, b>>]
    BY <1>3, <1>4
  <2> QED BY <2>1 DEF Below
<1>5. ASSUME closed' \subseteq closed PROVE Below(rooms, now, was)
  <2>1. ASSUME NEW a \in rooms, NEW b \in rooms PROVE now[<<a, b>>] <= was[<<a, b>>]
    BY <1>3, <1>5
  <2> QED BY <2>1 DEF Below
<1>6. /\ closed \subseteq closed' => Below(rooms, Relaxed(rooms, was), Relaxed(rooms, now))
      /\ closed' \subseteq closed => Below(rooms, Relaxed(rooms, now), Relaxed(rooms, was))
  BY <1>1, <1>4, <1>5, RelaxedGrows
<1> QED
  BY <1>6 DEF was, now

(* Closing a route never shortens a distance and opening one never         *)
(* lengthens any (fakedetector.h on route closures; fd_graph.c).           *)
THEOREM ClosuresAlwaysSlow == GraphSpec => ClosuresOnlySlow
<1>1. ASSUME GraphInv, GraphInv', rooms' = rooms, direct' = direct,
             NEW p \in Pairs(rooms)
      PROVE  /\ closed \subseteq closed' => Refreshed'[p] >= Refreshed[p]
             /\ closed' \subseteq closed => Refreshed'[p] <= Refreshed[p]
  <2>0. rooms # {} /\ rooms' # {}
    BY <1>1 DEF Pairs
  <2>1. Refreshed = AllPairs
    BY <1>1, <2>0, RefreshedIsFresh DEF GraphInv
  <2>2. Refreshed' = AllPairs'
    BY <1>1, <2>0, AfterStep
  <2>3. Refreshed = Relaxed(rooms, Open) /\ Refreshed' = Relaxed(rooms, Open')
    BY <1>1, <2>1, <2>2 DEF AllPairs
  <2>4. Refreshed[p] \in Int /\ Refreshed'[p] \in Int
    BY <1>1, RefreshedRooms, AfterStep
  <2>5. PICK a \in rooms, b \in rooms : p = <<a, b>>
    BY DEF Pairs
  <2>6. MapInv /\ MapInv'
    BY <1>1 DEF GraphInv
  <2>7. ASSUME closed \subseteq closed' PROVE Refreshed[p] <= Refreshed'[p]
    <3>1. Below(rooms, Refreshed, Refreshed')
      BY <1>1, <2>3, <2>6, <2>7, OpenBelow
    <3> QED BY <2>5, <3>1 DEF Below
  <2>8. ASSUME closed' \subseteq closed PROVE Refreshed'[p] <= Refreshed[p]
    <3>1. Below(rooms, Refreshed', Refreshed)
      BY <1>1, <2>3, <2>6, <2>8, OpenBelow
    <3> QED BY <2>5, <3>1 DEF Below
  <2> QED BY <2>4, <2>7, <2>8
<1> DEFINE Slow == (rooms' = rooms /\ direct' = direct) =>
       \A old \in {Refreshed}, new \in {Refreshed'}, p \in Pairs(rooms) :
         /\ closed \subseteq closed' => new[p] >= old[p]
         /\ closed' \subseteq closed => new[p] <= old[p]
<1>2. GraphInv /\ GraphInv' => Slow
  BY <1>1
<1>3. GraphInv /\ GraphInv' => [Slow]_graphVars
  BY <1>2
<1> QED
  BY <1>3, GraphInvAlways, PTL DEF ClosuresOnlySlow

(***************************************************************************)
(* The refinement of WalkingCosts.  Asking for a distance is a stutter, a  *)
(* closure, a reopening or a link a Change.  So is a rejected link while   *)
(* the facts are out of date; while they are not, the rooms it may have    *)
(* interned change no walk that the table shows.                           *)
(***************************************************************************)
TableEntry(d, p) == IF p \in Shown THEN FactCost(d[p]) ELSE -1

LEMMA TableIs ==
  ASSUME GraphInv
  PROVE  TableOfWalks = [p \in Pairs(RoomNames) |-> TableEntry(AllPairs, p)]
<1>1. AllPairs \in [Pairs(rooms) -> Costs]
  BY ShortestMap DEF GraphInv, Matrices
<1> QED
  BY <1>1 DEF TableOfWalks, Tabled, TableEntry

LEMMA ShownRooms == GraphInv => Shown \subseteq Pairs(rooms)
  BY DEF GraphInv, CacheShape, Shown

LEMMA TableIsTable == GraphInv => TableOfWalks \in Abstract!Tables
<1> SUFFICES ASSUME GraphInv PROVE TableOfWalks \in Abstract!Tables
  OBVIOUS
<1>1. AllPairs \in [Pairs(rooms) -> Costs]
  BY ShortestMap DEF GraphInv, Matrices
<1>2. Costs \subseteq Nat /\ UnreachableCost \in Nat
  BY LimitsOK DEF Costs
<1>3. ASSUME NEW p \in Shown PROVE FactCost(AllPairs[p]) \in Nat
  BY <1>1, <1>2, ShownRooms DEF FactCost
<1>4. \A p \in Pairs(RoomNames) : TableEntry(AllPairs, p) \in Nat \cup {-1}
  BY <1>3 DEF TableEntry
<1> QED
  BY <1>4, TableIs DEF Abstract!Tables, Pairs

LEMMA AfterTable == GraphInv' => (TableOfWalks \in Abstract!Tables)'
  BY TableIsTable, PTL

LEMMA GraphInitRefines == GraphInit => Abstract!CostsInit
<1> SUFFICES ASSUME GraphInit PROVE Abstract!CostsInit
  OBVIOUS
<1>1. GraphInv
  BY GraphInvInit
<1>2. facts = Nothing /\ factsDirty = FALSE /\ Shown = {}
  BY DEF GraphInit, Shown, Nothing
<1>3. TableOfWalks = [p \in Pairs(RoomNames) |-> -1]
  BY <1>1, <1>2, TableIs DEF TableEntry
<1>4. FactTable = [p \in Pairs(RoomNames) |-> -1]
  BY <1>2 DEF FactTable, Nothing
<1>5. FactTable = Abstract!Facts(TableOfWalks)
  BY <1>3, <1>4 DEF Abstract!Facts, Pairs
<1> QED
  BY <1>1, <1>2, <1>5, TableIsTable DEF Abstract!CostsInit

LEMMA TableKept ==
  ASSUME UNCHANGED <<rooms, direct, closed>>, GraphInv, GraphInv', Shown' = Shown
  PROVE  UNCHANGED TableOfWalks
<1>1. AllPairs' = AllPairs /\ rooms' = rooms
  BY AllPairsKept
<1>2. (GraphInv => TableOfWalks = [p \in Pairs(RoomNames) |-> TableEntry(AllPairs, p)])'
  BY TableIs, PTL
<1>3. TableOfWalks' = [p \in Pairs(RoomNames) |-> TableEntry(AllPairs, p)']
  BY <1>2
<1>4. \A p \in Pairs(RoomNames) : TableEntry(AllPairs, p)' = TableEntry(AllPairs, p)
  BY <1>1 DEF TableEntry
<1> QED
  BY <1>3, <1>4, TableIs

LEMMA StepRefines ==
  ASSUME GraphInv, [GraphNext]_graphVars
  PROVE  [Abstract!CostsNext]_(Abstract!costVars)
<1>0. GraphInv'
  BY GraphInvStep
<1>1. TableOfWalks' \in Abstract!Tables
  BY <1>0, AfterTable DEF Abstract!Tables
<1>2. UNCHANGED facts => UNCHANGED FactTable
  BY DEF FactTable
<1>3. ASSUME factsDirty', UNCHANGED facts PROVE Abstract!Change
  BY <1>0, <1>1, <1>2, <1>3 DEF Abstract!Change, GraphInv, CacheShape
<1>4. ASSUME UNCHANGED <<rooms, direct, closed, factsDirty, facts>>
      PROVE  UNCHANGED Abstract!costVars
  <2>1. Shown' = Shown
    BY <1>4 DEF Shown
  <2> QED BY <1>0, <1>2, <1>4, <2>1, TableKept DEF Abstract!costVars
<1>5. CASE AskDistance \/ UNCHANGED graphVars
  BY <1>4, <1>5 DEF AskDistance, graphVars
<1>6. CASE RouteClosed \/ RouteOpened
  BY <1>3, <1>6 DEF RouteClosed, RouteOpened, Dirtied, Abstract!CostsNext
<1>7. CASE Reset
  <2>1. facts' = Nothing /\ factsDirty' = TRUE
    BY <1>7 DEF Reset, Dirtied
  <2>2. FactTable' = Abstract!NoFacts
    BY <2>1 DEF FactTable, Nothing, Abstract!NoFacts, Pairs
  <2> QED BY <1>1, <2>1, <2>2 DEF Abstract!CostsNext, Abstract!NewRound
<1>8. CASE Publish
  <2>1. /\ factsDirty = TRUE /\ factsDirty' = FALSE /\ facts' = FactsOf(Refreshed)
        /\ UNCHANGED <<rooms, direct, closed>>
    BY <1>8 DEF Publish, GraphInv, CacheShape
  <2>2. Refreshed \in [Pairs(rooms) -> Int] /\ (rooms # {} => Refreshed = AllPairs)
    BY RefreshedRooms, RefreshedIsFresh DEF GraphInv
  <2>3. facts' = [p \in {q \in Pairs(rooms) : q[1] # q[2]} |-> FactCost(Refreshed[p])]
    BY <2>1, <2>2 DEF FactsOf
  <2>4. Shown' = Shown
    BY <2>1, <2>3 DEF Shown
  <2>5. UNCHANGED TableOfWalks
    BY <1>0, <2>1, <2>4, TableKept
  <2>6. Shown = {q \in Pairs(rooms) : q[1] # q[2]}
    BY <2>1 DEF Shown
  <2>7. \A p \in Shown : p \in Pairs(rooms) /\ rooms # {} /\ p[1] # p[2]
    BY <2>6 DEF Pairs
  <2>8. FactTable' =
          [p \in Pairs(RoomNames) |-> IF p \in Shown THEN FactCost(AllPairs[p]) ELSE -1]
    BY <2>2, <2>3, <2>6, <2>7 DEF FactTable
  <2>9. TableOfWalks =
          [p \in Pairs(RoomNames) |-> IF p \in Shown THEN FactCost(AllPairs[p]) ELSE -1]
    BY TableIs DEF TableEntry
  <2>10. Abstract!Facts(TableOfWalks) = FactTable'
    BY <2>7, <2>8, <2>9 DEF Abstract!Facts, Pairs
  <2> QED BY <2>1, <2>5, <2>10 DEF Abstract!CostsNext, Abstract!Publish
<1>9. CASE AddRoomLink
  <2>1. PICK l \in LinkReports : LinkEffect(l)
    BY <1>9, LinkEffects
  <2>2. UNCHANGED <<closed, facts>>
    BY <2>1 DEF LinkEffect
  <2>3. CASE factsDirty'
    BY <1>3, <2>2, <2>3 DEF Abstract!CostsNext
  <2>4. CASE ~ factsDirty'
    <3> DEFINE R == Known(l)
    <3>1. rooms' = R /\ direct' = Extended(R) /\ ~ factsDirty /\ UNCHANGED factsDirty
      <4>1. ~ Accepted(l) /\ ~ factsDirty
        BY <2>1, <2>4, Zenon DEF LinkEffect
      <4>2. rooms' = R /\ direct' = Extended(R)
        BY <2>1, <4>1, Zenon DEF LinkEffect
      <4>3. factsDirty \in BOOLEAN /\ factsDirty' \in BOOLEAN
        BY <1>0 DEF GraphInv, CacheShape
      <4> QED BY <2>4, <4>1, <4>2, <4>3
    <3>2. rooms \subseteq R /\ IsFiniteSet(R)
      BY KnownRooms DEF GraphInv, MapInv
    <3> HIDE DEF R
    <3>3. /\ Open \in Matrices(rooms) /\ OpenLinks(rooms, Open)
          /\ (Open \in Matrices(rooms))'
      BY <1>0, OpenMap, AfterStep DEF GraphInv
    <3>4. /\ \A p \in Pairs(rooms) : Extended(R)[p] = direct[p]
          /\ \A a, b \in R : a # b /\ <<a, b>> \notin Pairs(rooms) => Extended(R)[<<a, b>>] = Inf
      BY <3>2, ExtendedMap DEF GraphInv, MapInv
    <3> DEFINE now == Open'
    <3>5. now = [p \in Pairs(R) |-> IF p \in closed THEN Inf ELSE Extended(R)[p]]
      BY <2>2, <3>1 DEF Open
    <3>6. now \in Matrices(R)
      BY <3>1, <3>3
    <3>7. AllPairs' = Relaxed(R, now) /\ AllPairs = Relaxed(rooms, Open)
      BY <3>1 DEF AllPairs
    <3> HIDE DEF now
    <3>8. \A p \in Pairs(rooms) : now[p] = Open[p]
      BY <3>2, <3>4, <3>5 DEF Open, Pairs
    <3>9. \A a \in rooms, k \in R \ rooms : now[<<a, k>>] = Inf
      BY <3>2, <3>4, <3>5 DEF Pairs
    <3>10. \A p \in Pairs(rooms) : Relaxed(R, now)[p] = Relaxed(rooms, Open)[p]
      BY <3>2, <3>3, <3>6, <3>8, <3>9, UnlinkedRooms
    <3>11. \A p \in Pairs(rooms) : AllPairs'[p] = AllPairs[p]
      BY <3>7, <3>10
    <3>12. Shown' = Shown /\ Shown \subseteq Pairs(rooms)
      BY <2>2, <3>1, ShownRooms DEF Shown
    <3>13. (GraphInv => TableOfWalks = [p \in Pairs(RoomNames) |-> TableEntry(AllPairs, p)])'
      BY TableIs, PTL
    <3>14. TableOfWalks' = [p \in Pairs(RoomNames) |-> TableEntry(AllPairs, p)']
      BY <1>0, <3>13
    <3>15. \A p \in Pairs(RoomNames) : TableEntry(AllPairs, p)' = TableEntry(AllPairs, p)
      BY <3>11, <3>12 DEF TableEntry
    <3>16. UNCHANGED TableOfWalks
      BY <3>14, <3>15, TableIs
    <3> QED BY <1>2, <2>2, <3>1, <3>16 DEF Abstract!costVars
  <2> QED BY <2>3, <2>4
<1> QED
  BY <1>5, <1>6, <1>7, <1>8, <1>9 DEF GraphNext

(* The published facts are always the walks of a moment at which a run     *)
(* began, and no change of a walk goes unannounced (fd_graph.c:            *)
(* facts_dirty).                                                           *)
THEOREM GraphImplementsWalkingCosts == GraphSpec => ImplementsWalkingCosts
<1>1. GraphSpec => [][Abstract!CostsNext]_(Abstract!costVars)
  BY GraphInvInit, GraphInvStep, StepRefines, PTL DEF GraphSpec
<1> QED
  BY <1>1, GraphInitRefines, PTL DEF GraphSpec, ImplementsWalkingCosts, Abstract!CostsSpec
=============================================================================
