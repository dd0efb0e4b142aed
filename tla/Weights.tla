------------------------------ MODULE Weights ------------------------------
(***************************************************************************)
(* The suspicion weights as their readers see them.  The rules assert and  *)
(* withdraw (logodds-term) facts and create and retract (suspicion) facts; *)
(* fd_normalize_suspicion, run at the end of every fd_run, fills the       *)
(* numeric slots.  Module Beliefs implements this interface.               *)
(***************************************************************************)
EXTENDS Likelihood

CONSTANTS
  Players,     \* player identities
  EnumOrder,   \* their positions in the fd_player enum
  Evidence     \* the (logodds-term) facts that can be asserted

VARIABLES
  terms,       \* (logodds-term)
  suspicions   \* (suspicion)

weightVars == <<terms, suspicions>>

ASSUME EnumOrderIsInjective ==
  /\ EnumOrder \in [Players -> Nat]
  /\ \A c, d \in Players : EnumOrder[c] = EnumOrder[d] => c = d

(* The increment of each evidence channel, in milli-nats.                  *)
Amount ==
  [prior |-> 0, castIron |-> -8000, ventObserved |-> 3000,
   ventInferred |-> 2000, accusation |-> 1500, nearBody |-> 600,
   offTask |-> 150, onTask |-> -500, contradiction |-> 2500,
   selfReport |-> 400, coLocation |-> -400, silentWitness |-> 700,
   accuseImpostor |-> -600, defendImpostor |-> 1000, coAccuse |-> 300,
   packCleared |-> 500]

(* Terms are about players and come from the channels above; an enum and   *)
(* the keys built from it are finite.                                      *)
ASSUME EvidenceIsWeighed ==
  /\ IsFiniteSet(Players) /\ IsFiniteSet(Evidence)
  /\ \A t \in Evidence : t.color \in Players /\ t.source \in DOMAIN Amount

Pool == {s.color : s \in suspicions}
Weight(c) == (CHOOSE s \in suspicions : s.color = c).weight
SumOf(ts, c) ==
  SumFunction([t \in {x \in ts : x.color = c} |-> Amount[t.source]])

(* Likelihoods and shares by enum position: ties are broken as the sorted  *)
(* arrays of the code break them.                                          *)
LikelihoodUnsorted(ts, pool) ==
  [r \in {EnumOrder[c] : c \in pool} |->
     Logistic(SumOf(ts, CHOOSE c \in pool :
       Cardinality({d \in pool : EnumOrder[d] < EnumOrder[c]})
         = Cardinality({d \in pool : EnumOrder[d] > r})))]
LikelihoodOf(ts, pool) ==
  [r \in {EnumOrder[c] : c \in pool} |->
     Logistic(SumOf(ts, CHOOSE c \in pool : EnumOrder[c] = r))]
Weighed(ts, pool) ==
  LET share == Shares(LikelihoodOf(ts, pool))
  IN  {[color |-> c, logodds |-> SumOf(ts, c), weight |-> share[EnumOrder[c]]]
         : c \in pool}

(* The slots are those of the facts: what a query reads after fd_run.      *)
Current == suspicions = Weighed(terms, Pool)

NewSuspicion(c) == [color |-> c, logodds |-> 0, weight |-> 0]

WeightsInit == terms = {} /\ suspicions = {}

TermsAsserted ==
  /\ terms' \in SUBSET Evidence /\ terms \subseteq terms' /\ terms' # terms
  /\ UNCHANGED suspicions
(* Truth maintenance takes every term whose evidence a step removed.       *)
TermsWithdrawn ==
  /\ terms' \in SUBSET terms /\ terms' # terms
  /\ UNCHANGED suspicions
SuspicionEnsure ==
  /\ \E c \in Players \ Pool : suspicions' = suspicions \cup {NewSuspicion(c)}
  /\ UNCHANGED terms
RetractSuspicion ==
  /\ \E c \in Pool : suspicions' = {s \in suspicions : s.color # c}
  /\ UNCHANGED terms
Normalize ==
  /\ suspicions' = Weighed(terms, Pool)
  /\ UNCHANGED terms

WeightsNext ==
  \/ TermsAsserted \/ TermsWithdrawn \/ SuspicionEnsure \/ RetractSuspicion
  \/ Normalize
WeightsSpec == WeightsInit /\ [][WeightsNext]_weightVars
============================================================================
