------------------------------ MODULE Stances ------------------------------
(***************************************************************************)
(* clp/stance.clp: one verdict per alive crewmember.                       *)
(***************************************************************************)
EXTENDS RoundModel

StanceFrame == UNCHANGED <<phase, inputVars, dossierVars, caseVars, roundVars>>

(* Salience 250 and 200: demotion at round end, removal of the dead.       *)
ClearThreatsLHS ==
  {x \in stances : x.category = "threat" /\ AllImpostorsEjected}
ClearThreatsOnImpostorFound ==
  /\ \E x \in ClearThreatsLHS :
       stances' = Replace(stances, x, [x EXCEPT !.category = "unknown",
                                                !.evidence = "none"])
  /\ StanceFrame

RetractStanceLHS ==
  {x \in stances : \E m \in About(crew, x.color) : m.status # "alive"}
RetractStanceOnStatusChange ==
  /\ \E x \in RetractStanceLHS : stances' = stances \ {x}
  /\ StanceFrame

(* Salience -10: every alive dossier gets a stance.                        *)
StanceEnsureLHS ==
  {m \in crew : m.status = "alive" /\ About(stances, m.color) = {}}
StanceEnsure ==
  /\ \E m \in StanceEnsureLHS :
       stances' = stances \cup {[color |-> m.color, category |-> "unknown",
                                 evidence |-> "none"]}
  /\ StanceFrame

(***************************************************************************)
(* Promotions to threat.  Promotable is the guard the four rules share.    *)
(***************************************************************************)
Promotable(x) == x.category # "threat" /\ Alive(x.color) /\ ~ AllImpostorsEjected

AccuseLHS ==
  {x \in stances : Promotable(x) /\ About(accusations, x.color) # {}}
ThreatFromVentLHS ==
  {x \in stances : Promotable(x) /\ About(vents, x.color) # {}}
ThreatNearBodyLHS ==
  {x \in stances :
     /\ Promotable(x)
     /\ \E n \in About(nearBody, x.color), k \in cases :
          /\ n.room = k.room /\ n.tick = k.tick
          /\ [color |-> x.color, victim |-> k.victim] \notin castIron}

Promote(lhs, category, evidence) ==
  /\ \E x \in lhs :
       stances' = Replace(stances, x, [x EXCEPT !.category = category,
                                                !.evidence = evidence])
  /\ StanceFrame

StanceAccuse         == Promote(AccuseLHS, "threat", "accusation")
StanceThreatFromVent == Promote(ThreatFromVentLHS, "threat", "vent")
StanceThreat         == Promote(ThreatNearBodyLHS, "threat", "near-body")

(* Salience 20 and 10: the task verdicts never overwrite a threat.         *)
OffTaskAnyLHS ==
  {x \in stances :
     /\ x.category # "off-task"
     /\ \E m \in About(crew, x.color) : m.status = "alive" /\ m.tasks = 0}
OffTaskLHS ==
  {x \in stances :
     /\ x.category \notin {"off-task", "threat"}
     /\ \E m \in About(crew, x.color) : m.status = "alive" /\ m.tasks = 0}
OnTaskLHS ==
  {x \in stances :
     /\ x.category \notin {"on-task", "threat"}
     /\ \E m \in About(crew, x.color) :
          m.status = "alive" /\ m.tasks >= OnTaskTasks}
StanceOffTask == Promote(OffTaskLHS, "off-task", "off-task")
StanceOnTask  == Promote(OnTaskLHS, "on-task", "on-task")
=============================================================================
