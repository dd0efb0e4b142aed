----------------------------- MODULE Testimony -----------------------------
(***************************************************************************)
(* What players say and do in meetings: claims, votes and defenses the     *)
(* caller has parsed out of the chat, and what clp/claims.clp derives from *)
(* claims.  A contradiction is a claim the sightings refute; it is for     *)
(* good.  A corroboration is a pair of players who claimed one room at     *)
(* about one tick, and rests on neither being contradicted.                *)
(***************************************************************************)
EXTENDS Detective

CONSTANTS
  ClaimReports,        \* possible fd_observe_claim calls
  VoteReports,         \* possible fd_observe_vote calls, ticks left out
  DefenseReports,      \* possible fd_observe_defense calls, ticks left out
  ClaimOverlapWindow   \* ?*claim-overlap-window*

VARIABLES
  claims, accuses, defends,
  contradicted,        \* colors with a (contradiction) fact
  corroborated         \* (corroboration), the room left out

testimonyVars == <<claims, accuses, defends, contradicted, corroborated>>

Claim == [color : Colors, kind : {"location", "task", "self-report"},
          room : Place, tick : Nat]
Edge  == [a : Colors, b : Colors]

ASSUME TestimonyOK ==
  /\ ClaimReports \subseteq Claim
  /\ VoteReports \subseteq Edge /\ DefenseReports \subseteq Edge
  /\ ClaimOverlapWindow \in Nat

TestimonyInit ==
  /\ claims = {} /\ accuses = {} /\ defends = {}
  /\ contradicted = {} /\ corroborated = {}

(***************************************************************************)
(* Ingestion.  Self's own words and votes are dropped.                     *)
(***************************************************************************)
ObserveClaim ==
  /\ phase = "idle"
  /\ \E x \in ClaimReports : x.color # self /\ claims' = claims \cup {x}
  /\ UNCHANGED <<accuses, defends, contradicted, corroborated, allVars>>
ObserveVote ==
  /\ phase = "idle"
  /\ \E e \in VoteReports : e.a # self /\ accuses' = accuses \cup {e}
  /\ UNCHANGED <<claims, defends, contradicted, corroborated, allVars>>
ObserveDefense ==
  /\ phase = "idle"
  /\ \E e \in DefenseReports : e.a # self /\ defends' = defends \cup {e}
  /\ UNCHANGED <<claims, accuses, contradicted, corroborated, allVars>>

(***************************************************************************)
(* Contradiction: seen in another room at the claimed tick, or in one too  *)
(* far from the claimed room for the time between.                         *)
(***************************************************************************)
Abs(n) == IF n < 0 THEN -n ELSE n
Placed    == {x \in claims : x.kind # "self-report"}
Claimants == {x.color : x \in Placed}

Elsewhere(x, s) == s.color = x.color /\ s.room # x.room
SameTick(x, s)  == Elsewhere(x, s) /\ s.tick = x.tick
TooFar(x, s)    == /\ Elsewhere(x, s)
                   /\ distances[<<x.room, s.room>>] # NoFact
                   /\ distances[<<x.room, s.room>>] > Abs(s.tick - x.tick)
Refuted(c) ==
  \E x \in About(Placed, c), s \in sightings : SameTick(x, s) \/ TooFar(x, s)

ContradictionLHS == {c \in Claimants \ contradicted : Refuted(c)}
KeepingPairs(c)  == corroborated
WithoutPairs(c)  == {p \in corroborated : c \notin {p.a, p.b}}
DeriveContradiction ==
  /\ \E c \in ContradictionLHS :
       /\ contradicted' = contradicted \cup {c}
       /\ corroborated' = WithoutPairs(c)
  /\ UNCHANGED <<claims, accuses, defends, allVars>>

(* One fact per unordered pair.                                            *)
Vouches(p) ==
  /\ p.a # p.b
  /\ \E x \in About(Placed, p.a), y \in About(Placed, p.b) :
       x.room = y.room /\ Abs(x.tick - y.tick) < ClaimOverlapWindow
CorroborationLHS ==
  {p \in [a : Claimants, b : Claimants] :
     /\ Vouches(p)
     /\ p.a \notin contradicted /\ p.b \notin contradicted
     /\ p \notin corroborated /\ [a |-> p.b, b |-> p.a] \notin corroborated}
DeriveCorroboration ==
  /\ \E p \in CorroborationLHS : corroborated' = corroborated \cup {p}
  /\ UNCHANGED <<claims, accuses, defends, contradicted, allVars>>

ClaimRules   == DeriveContradiction \/ DeriveCorroboration
ClaimPending == ContradictionLHS # {} \/ CorroborationLHS # {}
=============================================================================
