----------------------------- MODULE MCWeights -----------------------------
(***************************************************************************)
(* Instances of Weights: three players and a few terms each.               *)
(***************************************************************************)
EXTENDS WeightsProps, VoteDecision

P3    == {0, 1, 2}
Order == [c \in P3 |-> c]

About3(sources, who) == [color : who, source : sources, key : {"k"}]

(* Everybody may be cleared, one may be caught, one seen venting, one      *)
(* industrious: likelihoods from 0 (all cleared, equal shares) to 993.     *)
Mixed == About3({"castIron"}, P3) \cup About3({"contradiction"}, {0})
         \cup About3({"onTask"}, {1}) \cup About3({"ventObserved"}, {2})
=============================================================================
