----------------------------- MODULE Detective -----------------------------
(***************************************************************************)
(* The detector as its caller sees it: the fd_observe_* calls assert facts *)
(* while the engine is idle; every query runs the engine (fd_run), which   *)
(* publishes the room distances if the graph changed and then fires rules, *)
(* highest salience first, until the agenda is empty.                      *)
(*                                                                         *)
(* Among activations of equal salience the engine's order is not modelled: *)
(* any of them may fire, so what holds here holds for every conflict       *)
(* resolution strategy.  Each fd_observe_* input comes from a constant set *)
(* of reports, and MaxTasks bounds the task completions of one color.      *)
(***************************************************************************)
EXTENDS Cases, Dossier, Stances

CONSTANTS
  SelfChoices,      \* what fd_set_self may have been called with
  SightingReports,  \* possible fd_observe_player calls
  BodyReports,      \* possible fd_observe_body calls
  TaskReports,      \* possible fd_observe_task_completion calls
  DeathReports,     \* colors of possible fd_observe_death calls
  EjectionReports,  \* possible fd_observe_ejection calls
  VentReports,      \* colors of possible fd_observe_vent calls
  ImpostorCounts,   \* n_impostors of possible fd_observe_round_config calls
  Maps,             \* cost tables the room graph can take, the first one chosen
  MaxTasks          \* bound on visible tasks per color

VARIABLES
  walk,             \* the graph's shortest walking costs (closures applied)
  walkDirty,        \* facts_dirty: walk changed since it was published
  lastSighting      \* per color, the newest call's room and tick

cVars   == <<walk, walkDirty, lastSighting>>
allVars == <<vars, cVars>>

(* Cost of a pair of known rooms with no open path; far above any window.  *)
Unreachable == 1000
NoSighting  == [room |-> Nowhere, tick |-> NoFact]
WalkTable   == [Place \X Place -> Nat \cup {NoFact}]

ASSUME MapsAreTables == Maps \subseteq WalkTable /\ Maps # {}
ASSUME SelfChoicesOK == SelfChoices \subseteq Colors \cup {Nobody}
ASSUME ReportsOK ==
  /\ SightingReports \subseteq Sighting /\ BodyReports \subseteq BodySeen
  /\ TaskReports \subseteq TaskTick /\ DeathReports \subseteq Colors
  /\ EjectionReports \subseteq Ejection /\ VentReports \subseteq Colors
  /\ ImpostorCounts \subseteq Nat \ {0}

(***************************************************************************)
(* Published facts: no fact for a room against itself.                     *)
(***************************************************************************)
Published(t) == [p \in Place \X Place |-> IF p[1] = p[2] THEN NoFact ELSE t[p]]

Init ==
  /\ walk \in Maps
  /\ walkDirty = FALSE
  /\ WMInit(SelfChoices, Published(walk))
  /\ lastSighting = [c \in Colors |-> NoSighting]

(***************************************************************************)
(* Observation.                                                            *)
(***************************************************************************)
Observing ==
  /\ phase = "idle"
  /\ UNCHANGED <<phase, self, distances, crew, impostorFound, pressure>>
  /\ UNCHANGED <<cases, windows, alibis, nearBody, suspects, accusations,
                 stances>>

(* Asserting a vent-suspected fact withdraws the (not (vent-suspected))    *)
(* support of the color's cast-iron alibis.                                *)
AssertVent(c, b) ==
  /\ vents'    = vents \cup {[color |-> c, basis |-> b]}
  /\ castIron' = castIron \ About(castIron, c)

(* vent_check: the move since the color's last sighting took less time     *)
(* than the shortest walk.  Out-of-order ticks and unknown rooms skip it.  *)
ImpossibleForAnyone(s) ==
  \E prev \in {lastSighting[c] : c \in Colors} \ {NoSighting} :
    LET cost == walk[<<prev.room, s.room>>]
    IN  /\ s.tick >= prev.tick /\ s.room # prev.room
        /\ cost \notin {NoFact, Unreachable} /\ cost > s.tick - prev.tick
ImpossibleMove(s) ==
  LET prev == lastSighting[s.color]
      cost == walk[<<prev.room, s.room>>]
  IN  /\ prev # NoSighting
      /\ s.tick >= prev.tick
      /\ s.room # prev.room
      /\ cost \notin {NoFact, Unreachable}
      /\ cost > s.tick - prev.tick

ObservePlayer ==
  \E s \in SightingReports :
    /\ Observing /\ s.color # self
    /\ IF ImpossibleMove(s) THEN AssertVent(s.color, "inferred")
                            ELSE UNCHANGED <<vents, castIron>>
    /\ sightings' = sightings \cup {s}
    /\ lastSighting' = [lastSighting EXCEPT ![s.color] =
                          [room |-> s.room, tick |-> s.tick]]
    /\ UNCHANGED <<bodies, taskTicks, dead, ejections, roster, recountDue,
                   walk, walkDirty>>

ObserveVent ==
  \E c \in VentReports \ {self} :
    /\ Observing /\ AssertVent(c, "observed")
    /\ UNCHANGED <<sightings, bodies, taskTicks, dead, ejections, roster,
                   recountDue, cVars>>

ObserveBody ==
  \E b \in BodyReports :
    /\ Observing /\ bodies' = bodies \cup {b}
    /\ UNCHANGED <<sightings, taskTicks, dead, ejections, vents, castIron,
                   roster, recountDue, cVars>>

CreditedTasks(c) == {m.tasks : m \in About(crew, c)}
TaskRoom(c) == \A n \in CreditedTasks(c) \cup {0} :
                  n + Cardinality(About(taskTicks, c)) < MaxTasks
ObserveTaskCompletion ==
  \E t \in TaskReports :
    /\ Observing /\ TaskRoom(t.color)
    /\ taskTicks' = taskTicks \cup {t}
    /\ UNCHANGED <<sightings, bodies, dead, ejections, vents, castIron,
                   roster, recountDue, cVars>>

ObserveDeath ==
  \E c \in DeathReports :
    /\ Observing /\ dead' = dead \cup {c}
    /\ UNCHANGED <<sightings, bodies, taskTicks, ejections, vents, castIron,
                   roster, recountDue, cVars>>

ObserveEjection ==
  \E e \in EjectionReports :
    /\ Observing /\ ejections' = ejections \cup {e}
    /\ UNCHANGED <<sightings, bodies, taskTicks, dead, vents, castIron,
                   roster, recountDue, cVars>>

(* The roster is replaced wholesale; its derived counts start over.        *)
ObserveRoundConfig ==
  \E n \in ImpostorCounts :
    /\ Observing
    /\ roster' = {NewRoster(n)}
    /\ recountDue' = (crew # {})
    /\ UNCHANGED <<sightings, bodies, taskTicks, dead, ejections, vents,
                   castIron, cVars>>

(* fd_add_room_link, fd_observe_route_closed and fd_observe_route_opened,  *)
(* seen through the cost table they lead to (module RoomGraph has the      *)
(* graph itself, WalkingCosts what the two have in common).                *)
QuietChange == UNCHANGED walkDirty
LoudChange  == walkDirty' = TRUE
ChangeGraph ==
  \E t \in Maps \ {walk} :
    /\ Observing
    /\ walk' = t /\ LoudChange
    /\ UNCHANGED <<sightings, bodies, taskTicks, dead, ejections, vents,
                   castIron, roster, recountDue, lastSighting>>

(***************************************************************************)
(* fd_run.  Publishing retracts every room-distance fact first, and with   *)
(* them every cast-iron alibi they supported.                              *)
(***************************************************************************)
PublishOver    == distances' = Published(walk) /\ UNCHANGED castIron
PublishAnew    == distances' = Published(walk) /\ castIron' = {}
FdRun ==
  /\ phase = "idle" /\ phase' = "running"
  /\ IF walkDirty THEN PublishAnew ELSE UNCHANGED <<distances, castIron>>
  /\ walkDirty' = FALSE
  /\ UNCHANGED <<walk, lastSighting, self, sightings, bodies, ejections, vents>>
  /\ UNCHANGED <<dossierVars, roundVars, stances, cases, windows, alibis,
                 nearBody, suspects, accusations>>

(* Quiet_s: no activation of salience s or above is on the agenda.         *)
Quiet250 == ClearThreatsLHS = {}
Quiet200 == Quiet250 /\ RetractStanceLHS = {}
Quiet160 == Quiet200 /\ ~ Round160
Quiet155 == Quiet160 /\ ~ Round155
Quiet150 == Quiet155 /\ ~ Case150
Quiet140 == Quiet150 /\ ~ Case140
Quiet130 == Quiet140 /\ ~ Case130
Quiet120 == Quiet130 /\ AccuseLHS = {}
QuietEarly == Quiet155 /\ ~ Case150
Quiet110 == Quiet120 /\ ThreatFromVentLHS = {}
Quiet100 == Quiet110 /\ ThreatNearBodyLHS = {}
Quiet20  == Quiet100 /\ OffTaskLHS = {}
Quiet10  == Quiet20 /\ OnTaskLHS = {}
Quiet0   == Quiet10 /\ ~ Dossier0
AgendaEmpty == Quiet0 /\ StanceEnsureLHS = {}

FireRule ==
  /\ phase = "running"
  /\ \/ ClearThreatsOnImpostorFound
     \/ Quiet250 /\ RetractStanceOnStatusChange
     \/ Quiet200 /\ RosterRules
     \/ Quiet160 /\ PressureRules
     \/ Quiet155 /\ UpdateKillWindowLower
     \/ Quiet150 /\ CaseBand140
     \/ Quiet140 /\ WeakenSuspectOnWeakAlibi
     \/ Quiet130 /\ StanceAccuse
     \/ Quiet120 /\ StanceThreatFromVent
     \/ Quiet110 /\ StanceThreat
     \/ Quiet100 /\ StanceOffTask
     \/ Quiet20  /\ StanceOnTask
     \/ Quiet10  /\ DossierRules
     \/ Quiet0   /\ StanceEnsure
  /\ UNCHANGED cVars

Fixpoint == phase = "running" /\ AgendaEmpty

EndRun ==
  /\ Fixpoint
  /\ phase' = "idle"
  /\ UNCHANGED <<inputVars, dossierVars, caseVars, roundVars, stances, cVars>>

Observe ==
  \/ ObservePlayer \/ ObserveVent \/ ObserveBody \/ ObserveTaskCompletion
  \/ ObserveDeath \/ ObserveEjection \/ ObserveRoundConfig \/ ChangeGraph

Next == Observe \/ FdRun \/ FireRule \/ EndRun

(* Run(-1) keeps firing until the agenda is empty; the caller owes nothing.*)
Spec     == Init /\ [][Next]_allVars
FairSpec == Spec /\ WF_allVars(FireRule \/ EndRun)
=============================================================================
