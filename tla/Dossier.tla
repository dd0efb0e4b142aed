------------------------------ MODULE Dossier ------------------------------
(***************************************************************************)
(* clp/dossier.clp (except attach-near-body, which sits in the case band): *)
(* one crewmember fact per referenced color, its last sighting, its        *)
(* visible tasks, and its death or ejection.  All rules have salience 0.   *)
(*                                                                         *)
(* Asserting or modifying a crewmember fact puts a new roster-recount      *)
(* activation on the agenda (recountDue).                                  *)
(***************************************************************************)
EXTENDS WorkingMemory

Known(c) == About(crew, c) # {}

(* A new crewmember with the deftemplate's defaults.                       *)
NewCrew(c, s) == [color |-> c, status |-> s, seen |-> -1,
                  room |-> Nowhere, tasks |-> 0]

SetCrewQuietly(new) == crew' = new /\ UNCHANGED recountDue
SetCrew(new) == crew' = new /\ recountDue' = TRUE
OtherLayers == UNCHANGED <<phase, inputVars, caseVars, roster, pressure, stances>>

EnsureFromSightingLHS == {s \in sightings : ~ Known(s.color)}
EnsureFromTaskLHS     == {t \in taskTicks : ~ Known(t.color)}
EnsureDossierAlive ==
  /\ \E x \in EnsureFromSightingLHS \cup EnsureFromTaskLHS :
       SetCrew(crew \cup {NewCrew(x.color, "alive")})
  /\ UNCHANGED <<taskTicks, dead, impostorFound>>
  /\ OtherLayers

RefreshesAnyone(s, m) == s.color = m.color /\ m.seen < s.tick
RefreshesOnce(s, m) ==
  s.color = m.color /\ m.seen = -1 /\ m.status \notin {"dead", "ejected"}
Refreshes(s, m) ==
  s.color = m.color /\ m.seen < s.tick /\ m.status \notin {"dead", "ejected"}
UpdateLastSeen ==
  /\ \E s \in sightings, m \in crew :
       /\ Refreshes(s, m)
       /\ SetCrew(Replace(crew, m, [m EXCEPT !.seen = s.tick, !.room = s.room,
                                             !.status = "alive"]))
  /\ UNCHANGED <<taskTicks, dead, impostorFound>>
  /\ OtherLayers

Credits(t, m) == t.color = m.color
CountTask ==
  /\ \E t \in taskTicks, m \in crew :
       /\ Credits(t, m)
       /\ SetCrew(Replace(crew, m, [m EXCEPT !.tasks = m.tasks + 1]))
       /\ taskTicks' = taskTicks \ {t}
  /\ UNCHANGED <<dead, impostorFound>>
  /\ OtherLayers

BodyImpliesDeathLHS == {b \in bodies : b.color \notin dead}
BodyImpliesDeath ==
  /\ \E b \in BodyImpliesDeathLHS : dead' = dead \cup {b.color}
  /\ UNCHANGED <<taskTicks, crew, impostorFound, recountDue>>
  /\ OtherLayers

EnsureFromDeathLHS == {c \in dead : ~ Known(c)}
EnsureDossierFromDeath ==
  /\ \E c \in EnsureFromDeathLHS : SetCrew(crew \cup {NewCrew(c, "dead")})
  /\ UNCHANGED <<taskTicks, dead, impostorFound>>
  /\ OtherLayers

MarkDeadLHS ==
  {m \in crew : m.color \in dead /\ m.status \notin {"dead", "ejected"}}
MarkDead ==
  /\ \E m \in MarkDeadLHS :
       SetCrew(Replace(crew, m, [m EXCEPT !.status = "dead"]))
  /\ UNCHANGED <<taskTicks, dead, impostorFound>>
  /\ OtherLayers

EnsureAnewLHS == {e \in ejections : ~ \E m \in About(crew, e.color) :
                                     m.status = "ejected"}
EnsureFromEjectionLHS == {e \in ejections : ~ Known(e.color)}
EnsureDossierFromEjection ==
  /\ \E e \in EnsureFromEjectionLHS :
       SetCrew(crew \cup {NewCrew(e.color, "ejected")})
  /\ UNCHANGED <<taskTicks, dead, impostorFound>>
  /\ OtherLayers

EjectsAlive(e, m) == e.color = m.color /\ m.status = "alive"
Ejects(e, m) == e.color = m.color /\ m.status # "ejected"
MarkEjected ==
  /\ \E e \in ejections, m \in crew :
       /\ Ejects(e, m)
       /\ SetCrew(Replace(crew, m, [m EXCEPT !.status = "ejected"]))
       /\ impostorFound' = IF e.impostor THEN impostorFound \cup {e.color}
                                         ELSE impostorFound
  /\ UNCHANGED <<taskTicks, dead>>
  /\ OtherLayers

(***************************************************************************)
(* The layer's agenda (one salience) and its rules.                        *)
(***************************************************************************)
Dossier0 ==
  \/ EnsureFromSightingLHS # {} \/ EnsureFromTaskLHS # {}
  \/ \E s \in sightings, m \in crew : Refreshes(s, m)
  \/ \E t \in taskTicks, m \in crew : Credits(t, m)
  \/ BodyImpliesDeathLHS # {} \/ EnsureFromDeathLHS # {} \/ MarkDeadLHS # {}
  \/ EnsureFromEjectionLHS # {}
  \/ \E e \in ejections, m \in crew : Ejects(e, m)

DossierRules ==
  \/ EnsureDossierAlive \/ UpdateLastSeen \/ CountTask
  \/ BodyImpliesDeath \/ EnsureDossierFromDeath \/ MarkDead
  \/ EnsureDossierFromEjection \/ MarkEjected
=============================================================================
