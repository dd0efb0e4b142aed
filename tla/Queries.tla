------------------------------ MODULE Queries ------------------------------
(***************************************************************************)
(* What a policy asks (fd_query.c).  Every query runs the engine first, so *)
(* the operators below are read at the fixpoint of a run.  The playstyle   *)
(* is a parameter: it is read by the queries and by nothing else.          *)
(***************************************************************************)
EXTENDS Detective, Sequences

CONSTANT EnumOrder  \* positions of the colors in the fd_player enum

ASSUME EnumOrderOK ==
  /\ EnumOrder \in [Colors -> Nat]
  /\ \A c, d \in Colors : EnumOrder[c] = EnumOrder[d] => c = d

Playstyle == {"trusting", "neutral", "paranoid"}

(* fd_get_status_now and fd_get_stance_now: a default stands for the       *)
(* missing fact.                                                           *)
TheFact(facts, c) == CHOOSE f \in About(facts, c) : TRUE
StatusNow(c) == IF Known(c) THEN TheFact(crew, c).status ELSE "unknown"
StanceNow(c) == IF About(stances, c) # {} THEN TheFact(stances, c).category
                ELSE "unknown"
EvidenceNow(c) == IF About(stances, c) # {} THEN TheFact(stances, c).evidence
                  ELSE "none"

(***************************************************************************)
(* Whom to vote for.                                                       *)
(***************************************************************************)
Priority ==
  [trusting |-> <<"threat">>,
   neutral  |-> <<"threat", "off-task", "on-task">>,
   paranoid |-> <<"threat", "off-task", "on-task", "unknown">>]

Candidates(want) ==
  {c \in Colors \ {self} : StatusNow(c) = "alive" /\ StanceNow(c) = want}
First(cs) == CHOOSE c \in cs : \A d \in cs : EnumOrder[c] <= EnumOrder[d]

NoTarget == [color |-> Nobody, severity |-> "none"]
PickVoteTarget(style) ==
  LET wanted == {i \in DOMAIN Priority[style] : Candidates(Priority[style][i]) # {}}
      i      == CHOOSE j \in wanted : \A k \in wanted : j <= k
  IN  IF wanted = {} THEN NoTarget
      ELSE [color    |-> First(Candidates(Priority[style][i])),
            severity |-> Priority[style][i]]

(***************************************************************************)
(* How dangerous it is to be alone with somebody.                          *)
(***************************************************************************)
RiskByStyle ==
  [trusting |-> [unknown |-> "low", on |-> "low", off |-> "low", threat |-> "high"],
   neutral  |-> [unknown |-> "medium", on |-> "low", off |-> "medium", threat |-> "high"],
   paranoid |-> [unknown |-> "medium", on |-> "medium", off |-> "high", threat |-> "high"]]
Column == [x \in {"unknown", "on-task", "off-task", "threat"} |->
             CASE x = "on-task" -> "on" [] x = "off-task" -> "off" [] OTHER -> x]

AloneRisk(style, c) ==
  IF c = self \/ StatusNow(c) \in {"dead", "ejected"} THEN "none"
  ELSE IF StatusNow(c) = "unknown"
       THEN (IF style = "paranoid" THEN "medium" ELSE "unknown")
  ELSE IF AllImpostorsEjected THEN "none"
  ELSE RiskByStyle[style][Column[StanceNow(c)]]

(***************************************************************************)
(* Where they are.  A color known by its task alone has a dossier without  *)
(* a room.                                                                 *)
(***************************************************************************)
LastSeen(c) ==
  IF \E m \in About(crew, c) : m.seen >= 0
  THEN [room |-> TheFact(crew, c).room, tick |-> TheFact(crew, c).seen]
  ELSE NoSighting
Occupants(r) ==
  {c \in Colors \ {self} :
     \E m \in About(crew, c) : m.status = "alive" /\ m.room = r}

(***************************************************************************)
(* fd_round_stats_get, for a round of so many configured players (0: none  *)
(* configured).  Vents of one color and basis are one fact here.           *)
(***************************************************************************)
OfStatus(status) == Cardinality({m \in crew : m.status = status})
RoundStats(players) ==
  LET others == players - (IF self = Nobody THEN 0 ELSE 1)
      unseen == others - Cardinality(crew)
  IN  [alive |-> OfStatus("alive"), dead |-> OfStatus("dead"),
       ejected |-> OfStatus("ejected"),
       neverSighted |-> IF players = 0 \/ unseen < 0 THEN 0 ELSE unseen,
       openCases |-> Cardinality(cases), ventSuspicions |-> Cardinality(vents),
       impostorFound |-> impostorFound # {}]

(***************************************************************************)
(* What the queries promise.                                               *)
(***************************************************************************)

(* A living color is listed in the room of its latest sighting and in no   *)
(* other, in whatever order the sightings were reported, and fd_last_seen  *)
(* tells the same room with that sighting's tick (fd_query.c:              *)
(* fd_room_occupants, fd_last_seen; dossier.clp: update-last-seen).        *)
OccupantsAreCurrent ==
  Fixpoint =>
    \A c \in {s.color : s \in sightings} \ {self} :
      StatusNow(c) = "alive" =>
        \E s \in About(sightings, c) :
          /\ \A t \in About(sightings, c) : t.tick <= s.tick
          /\ LastSeen(c) = [room |-> s.room, tick |-> s.tick]
          /\ {r \in Place : c \in Occupants(r)} = {s.room}
=============================================================================
