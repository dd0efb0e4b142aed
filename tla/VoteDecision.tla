---------------------------- MODULE VoteDecision ----------------------------
(***************************************************************************)
(* What a policy is told to do with the weights (fd_query.c): the ranking  *)
(* of the suspects, the expected-value vote decision and the crew's        *)
(* chances w(n, m).  All read the (suspicion) facts as fd_run leaves them. *)
(***************************************************************************)
EXTENDS Weights, SequencesExt

Earlier(c)  == {d \in Pool : EnumOrder[d] < EnumOrder[c]}
InEnumOrder == [i \in 1..Cardinality(Pool) |->
                  CHOOSE c \in Pool : Cardinality(Earlier(c)) = i - 1]

(* fd_rank_suspects: an insertion sort; a color is inserted behind all of  *)
(* at least its weight, so equals keep the order of the enum.              *)
BehindNoLighter(s, c) == Cardinality({i \in DOMAIN s : Weight(s[i]) >= Weight(c)})
Insert(s, c) == InsertAt(s, BehindNoLighter(s, c) + 1, c)
Ranking      == FoldLeft(Insert, <<>>, InEnumOrder)

(* The scan of fd_vote_decision: the heaviest color and the two highest    *)
(* weights in one pass, -1 for none.                                       *)
Nothing == -1
OvertakenLost(acc, c) ==
  IF Weight(c) > acc.best
  THEN [acc EXCEPT !.best = Weight(c), !.target = c]
  ELSE [acc EXCEPT !.second = IF Weight(c) > acc.second THEN Weight(c) ELSE @]
Overtaken(acc, c) ==
  IF Weight(c) > acc.best
  THEN [best |-> Weight(c), second |-> acc.best, target |-> c]
  ELSE [acc EXCEPT !.second = IF Weight(c) > acc.second THEN Weight(c) ELSE @]
Scan == FoldLeft(Overtaken,
                 [best |-> Nothing, second |-> Nothing, target |-> Nothing],
                 InEnumOrder)

Levels == <<"low", "medium", "high", "critical">>
LossMultFree == [low |-> 3, medium |-> 2, high |-> 1, critical |-> 0]
LossMult  == [low |-> 4, medium |-> 3, high |-> 2, critical |-> 1]
MarginBar == 80

Prior(impostors) == (impostors * Whole) \div Cardinality(Pool)
(* The expected value of casting, per mille of the gain 1000.              *)
Value(weight, level) == weight - (Whole - weight) * LossMult[level]

(* fd_vote_decision for a pool that is not empty.                          *)
Recommended(best, confidence, impostors, level) ==
  IF best <= Prior(impostors) THEN "skip"
  ELSE IF Value(best, level) > 0 /\ confidence >= MarginBar THEN "cast"
  ELSE "abstain"
Decision(s, impostors, level) ==
  LET confidence == s.best - (IF s.second < 0 THEN 0 ELSE s.second)
  IN  [target |-> s.target, suspicion |-> s.best, confidence |-> confidence,
       recommendation |-> Recommended(s.best, confidence, impostors, level)]

(* fd_explain_suspicion: the numbers of the color's suspicion fact and its *)
(* terms, the first MaxTerms in the engine's order, of which any may be.   *)
MaxTerms == 24
Explanations(c) ==
  {[weight |-> s.weight, logodds |-> s.logodds,
    likelihood |-> Logistic(s.logodds), terms |-> ts] :
     s \in {x \in suspicions : x.color = c},
     ts \in LET own == {t \in terms : t.color = c}
           IN  kSubset(Min({MaxTerms, Cardinality(own)}), own)}

(* w_nm_permille: by day a random player is ejected, by night a crewmate   *)
(* is killed.  The crew wins when no impostor is left and loses when it is *)
(* not in the majority any more.                                           *)
MaxCrew      == 12
MaxImpostors == 6
NightSkipped(crew) == crew
AfterNight(crew)   == crew - 1
Win[crew \in 0..MaxCrew, imps \in 0..MaxImpostors] ==
  IF imps = 0 THEN Whole
  ELSE IF crew <= imps THEN 0
  ELSE LET afterImp  == IF imps = 1 THEN Whole ELSE Win[AfterNight(crew), imps - 1]
           afterCrew == IF crew - 1 <= imps THEN 0 ELSE Win[AfterNight(crew - 1), imps]
       IN  (imps * afterImp + crew * afterCrew) \div (crew + imps)

(***************************************************************************)
(* What the two vote queries and the win probability promise.              *)
(***************************************************************************)

(* The one-pass scan of fd_vote_decision and the sort of fd_rank_suspects  *)
(* tell the same story: the same head even among equals, the same margin   *)
(* over the runner-up, whatever the order in which the weights were met.   *)
DecisionMatchesRanking ==
  (Current /\ Pool # {}) =>
    \E r \in {Ranking}, d \in {Decision(Scan, 1, "low")} :
        /\ Range(r) = Pool /\ Len(r) = Cardinality(Pool)
        /\ d.target = r[1] /\ d.suspicion = Weight(r[1])
        /\ d.confidence = Weight(r[1]) - (IF Len(r) = 1 THEN 0 ELSE Weight(r[2]))

(* A vote is cast only against a color that carries more suspicion than    *)
(* everybody else together, however urgent the game is, and rising         *)
(* pressure only lowers the bar: what is worth a vote with time to spare   *)
(* is worth one near parity (docs/model.md, fd_vote_decision).             *)
CastsAreMajorities ==
  (Current /\ Pool # {}) =>
    \E s \in {Scan} : \A m \in 1..Cardinality(Pool), i \in DOMAIN Levels :
      LET d == Decision(s, m, Levels[i])
      IN  d.recommendation = "cast" =>
            /\ Weight(d.target) >
                 SumFunction([c \in Pool \ {d.target} |-> Weight(c)])
            /\ \A j \in DOMAIN Levels :
                 j > i => Decision(s, m, Levels[j]) = d

(* w(n, m) from first principles: choose on which days an impostor is the  *)
(* one ejected.  Each such history has its number of ways; a finished game *)
(* idles, so that all histories of a length count alike.                   *)
Start(crew, imps) == [crew |-> crew, imps |-> imps, ways |-> 1]
Over(g)     == g.imps = 0 \/ g.crew <= g.imps
Day(g, hit, alive) ==
  IF Over(g) THEN [g EXCEPT !.ways = IF hit THEN 0 ELSE @ * alive]
  ELSE IF hit THEN [ways |-> g.ways * g.imps, imps |-> g.imps - 1,
                    crew |-> IF g.imps = 1 THEN g.crew ELSE g.crew - 1]
  ELSE [ways |-> g.ways * g.crew, imps |-> g.imps,
        crew |-> IF g.crew - 1 <= g.imps THEN 0 ELSE g.crew - 2]
History(crew, imps, hits) ==
  FoldLeft(LAMBDA g, k : Day(g, k \in hits, crew + imps - 2 * (k - 1)),
           Start(crew, imps), [k \in 1..((crew + imps) \div 2) |-> k])
WaysToWin(crew, imps) ==
  MapThenSumSet(LAMBDA hits : History(crew, imps, hits).ways,
    {hits \in SUBSET (1..((crew + imps) \div 2)) :
       History(crew, imps, hits).imps = 0})
AllWays(n) == FoldLeft(LAMBDA a, k : a * (n - 2 * (k - 1)), 1,
                       [k \in 1..(n \div 2) |-> k])

(* The DP is the chance of winning, rounded down by at most a unit a day   *)
(* (fd_query.c: w_nm_permille).  It does not depend on the weights: it is  *)
(* looked at once per pool, before there is any evidence.                  *)
WinIsExact ==
  (Current /\ Pool # {} /\ terms = {}) =>
    \A crew \in 1..MaxCrew, imps \in 1..MaxImpostors :
      crew + imps <= MaxCrew =>
        LET all == AllWays(crew + imps)
            gap == Whole * WaysToWin(crew, imps) - Win[crew, imps] * all
        IN  0 <= gap /\ gap < ((crew + imps) \div 2) * all
=============================================================================
