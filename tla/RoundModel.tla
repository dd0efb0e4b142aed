---------------------------- MODULE RoundModel ----------------------------
(***************************************************************************)
(* The round model of clp/suspicion.clp: the roster singleton, the counts  *)
(* roster-recount derives for it, and the game-pressure level (salience    *)
(* 160 and 155).                                                           *)
(***************************************************************************)
EXTENDS WorkingMemory

RoundFrame ==
  UNCHANGED <<phase, inputVars, dossierVars, caseVars, stances>>

Unclamped(m, n) == n
Larger(m, n) == IF m >= n THEN m ELSE n

(* A freshly asserted roster: the deftemplate's defaults.                  *)
NewRoster(n) == [impostors |-> n, aliveCrew |-> 0, aliveImpostors |-> 1,
                 ejected |-> 0]

RosterEnsureLHS == roster = {}
RosterEnsure ==
  /\ RosterEnsureLHS
  /\ roster' = {NewRoster(1)}
  /\ recountDue' = (crew # {})
  /\ UNCHANGED pressure
  /\ RoundFrame

(* The counts are taken from the facts themselves: every ejection fact     *)
(* with was-impostor t, every crewmember fact with status alive.           *)
Recounted(r) ==
  LET out  == Cardinality({e \in ejections : e.impostor})
      live == Cardinality({m \in crew : m.status = "alive"})
      imps == Larger(0, r.impostors - out)
  IN  [r EXCEPT !.ejected = out, !.aliveImpostors = imps,
                !.aliveCrew = Larger(0, live - imps)]

(* One activation per crewmember fact; they all compute the same roster,   *)
(* so the model keeps only whether any of them is still to fire.  A modify *)
(* of the roster activates the rule again.                                 *)
RosterRecountLHS == recountDue /\ crew # {} /\ roster # {}
RosterRecount ==
  /\ RosterRecountLHS
  /\ \E r \in roster :
       /\ roster' = {Recounted(r)}
       /\ recountDue' = (Recounted(r) # r)
  /\ UNCHANGED pressure
  /\ RoundFrame

PressureEnsureLHS == pressure = "absent"
PressureEnsure ==
  /\ PressureEnsureLHS
  /\ pressure' = "low"
  /\ UNCHANGED <<roster, recountDue>>
  /\ RoundFrame

(* surplus = alive crew - alive impostors; an odd surplus above 1 reads    *)
(* one band hotter.                                                        *)
LevelOf(surplus) ==
  LET odd == surplus % 2 = 1
  IN  CASE surplus <= 1 -> "critical"
        [] surplus = 2  -> "high"
        [] surplus \in 3..4 -> IF odd THEN "high" ELSE "medium"
        [] surplus > 4  -> IF odd THEN "medium" ELSE "low"

PressureDeriveLHS ==
  {r \in roster : /\ pressure # "absent"
                  /\ LevelOf(r.aliveCrew - r.aliveImpostors) # pressure}
PressureDerive ==
  /\ \E r \in PressureDeriveLHS :
       pressure' = LevelOf(r.aliveCrew - r.aliveImpostors)
  /\ UNCHANGED <<roster, recountDue>>
  /\ RoundFrame

Round160 == RosterEnsureLHS \/ RosterRecountLHS
Round155 == PressureEnsureLHS \/ PressureDeriveLHS # {}

RosterRules   == RosterEnsure \/ RosterRecount
PressureRules == PressureEnsure \/ PressureDerive

(***************************************************************************)
(* impostors-ejected >= n-impostors: the roster gate of the stance rules   *)
(* and of fd_all_impostors_ejected.                                        *)
(***************************************************************************)
AllImpostorsEjected == \E r \in roster : r.ejected >= r.impostors
=============================================================================
