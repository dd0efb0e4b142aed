---------------------------- MODULE WeightsProps ----------------------------
(***************************************************************************)
(* What the weights promise to those who rank or vote by them.             *)
(***************************************************************************)
EXTENDS Weights

Lik(c)     == Logistic(SumOf(terms, c))
WeightAfter(ts, pool, c) ==
  (CHOOSE s \in Weighed(ts, pool) : s.color = c).weight

(* The weights of a pool sum to exactly 1000, whatever was lost to integer *)
(* division and even if nobody has any likelihood left, and rounding moves *)
(* nobody by a whole unit: a weight is within 1 of the exact share         *)
(* (fd_clips.c: largest-remainder rounding in fd_normalize_suspicion).     *)
SharesAreFair ==
  LET total == SumFunction([c \in Pool |-> Lik(c)])
  IN  (Current /\ Pool # {}) =>
        /\ SumFunction([c \in Pool |-> Weight(c)]) = Whole
        /\ total > 0 =>
             \A c \in Pool : LET gap == Weight(c) * total - Lik(c) * Whole
                             IN  -total < gap /\ gap < total

RanksByEvidence ==
  Current =>
    \A c, d \in Pool :
      /\ Lik(c) > Lik(d) => Weight(c) >= Weight(d)
      /\ Lik(c) = Lik(d) => Weight(c) <= Weight(d) + 1
EvidenceMovesItsColor ==
  Current =>
    \A t \in Evidence \ terms : t.color \in Pool =>
      LET w == WeightAfter(terms \cup {t}, Pool, t.color)
      IN  /\ Amount[t.source] >= 0 => w >= Weight(t.color)
          /\ Amount[t.source] <= 0 => w <= Weight(t.color)

(* Whoever the evidence weighs more heavily on never ranks lower, equals   *)
(* differ by the rounding unit at most, and one more incriminating term    *)
(* never lowers its color's weight, nor an exculpatory one raises it       *)
(* (fd_query.c ranks and votes by weight alone; docs/model.md: every term  *)
(* is an increment for the implicated color).                              *)
WeightsFollowEvidence == RanksByEvidence /\ EvidenceMovesItsColor
=============================================================================
