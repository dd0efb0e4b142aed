--------------------------- MODULE WorkingMemory ---------------------------
(***************************************************************************)
(* The working memory of the detective: one variable per deftemplate of    *)
(* clp/templates.clp that the dossier, case, round and stance layers read  *)
(* or write, each the set of facts currently asserted, and the state of    *)
(* the inference engine (idle between calls, running inside fd_run).       *)
(*                                                                         *)
(* A fact is a record.  (assert f) adds f to its set, (retract f) removes  *)
(* it and (modify f ...) replaces it, so rules are written on sets of      *)
(* records exactly as their patterns are.  Slots that only feed prose      *)
(* (x, y, delta-tick, rationale) are left out.                             *)
(***************************************************************************)
EXTENDS Integers, FiniteSets

CONSTANTS
  Colors,        \* player identities (fd_player ids rendered as symbols)
  Rooms,         \* room symbols other than "nowhere"
  Nowhere,       \* the symbol of an unknown room, and of a never-seen dossier
  Nobody,        \* self-color when fd_set_self has not been called
  OnTaskTasks    \* ?*on-task-tasks*

ASSUME NobodyIsNoColor == Nobody \notin Colors
ASSUME NowhereIsNoRoom == Nowhere \notin Rooms
ASSUME OnTaskTasksPos  == OnTaskTasks \in Nat \ {0}

VARIABLES
  phase,         \* "idle" between API calls, "running" inside Run()
  (* asserted by the C library *)
  self,          \* the self-color singleton, or Nobody
  sightings,     \* (sighting)
  bodies,        \* (body-seen)
  taskTicks,     \* (task-tick), retracted once credited
  ejections,     \* (ejection)
  vents,         \* (vent-suspected)
  distances,     \* (room-distance): cost per pair of rooms, NoFact if absent
  (* dossier layer *)
  dead,          \* colors with a (player-dead) fact
  crew,          \* (crewmember)
  impostorFound, \* colors with an (impostor-found) fact
  (* case layer *)
  cases, windows, alibis, castIron, nearBody, suspects, accusations,
  (* round model *)
  roster,        \* (roster): empty or a singleton
  recountDue,    \* roster-recount has an activation that has not fired
  pressure,      \* (game-pressure) level, or "absent"
  (* verdict *)
  stances        \* (stance)

inputVars   == <<self, sightings, bodies, ejections, vents, distances>>
dossierVars == <<taskTicks, dead, crew, impostorFound>>
caseVars    == <<cases, windows, alibis, castIron, nearBody, suspects,
                 accusations>>
roundVars   == <<roster, recountDue, pressure>>
vars == <<phase, inputVars, dossierVars, caseVars, roundVars, stances>>

(***************************************************************************)
(* Fact schema.                                                            *)
(***************************************************************************)
NoFact == -1
Status == {"alive", "dead", "ejected"}
Basis  == {"no alibi yet", "near body", "vented", "seen venting",
           "partially alibied"}
Category == {"unknown", "on-task", "off-task", "threat"}
Evidence == {"none", "accusation", "vent", "near-body", "off-task", "on-task"}
Level    == {"low", "medium", "high", "critical"}

Place      == Rooms \cup {Nowhere}
Sighting   == [color : Colors, room : Place, tick : Nat]
BodySeen   == [color : Colors, room : Place, tick : Nat]
TaskTick   == [color : Colors, tick : Nat]
Ejection   == [color : Colors, tick : Nat, impostor : BOOLEAN]
Vent       == [color : Colors, basis : {"inferred", "observed"}]
Crewmember == [color : Colors, status : Status, seen : Nat \cup {-1},
               room : Place, tasks : Nat]
Case       == [victim : Colors, room : Place, tick : Nat]
KillWindow == [victim : Colors, from : Nat, to : Nat, room : Place]
Alibi      == [color : Colors, victim : Colors, room : Place, tick : Nat]
CastIron   == [color : Colors, victim : Colors]
(* "via" names the case whose kill-window is the logical support.          *)
NearBody   == [color : Colors, room : Place, tick : Nat, via : Colors]
Suspect    == [color : Colors, victim : Colors, basis : Basis]
Accusation == [victim : Colors, color : Colors]
Roster     == [impostors : Nat \ {0}, aliveCrew : Nat, aliveImpostors : Nat,
               ejected : Nat]
Stance     == [color : Colors, category : Category, evidence : Evidence]

TypeOK ==
  /\ phase \in {"idle", "running"}
  /\ self \in Colors \cup {Nobody}
  /\ sightings \subseteq Sighting
  /\ bodies \subseteq BodySeen
  /\ taskTicks \subseteq TaskTick
  /\ ejections \subseteq Ejection
  /\ vents \subseteq Vent
  /\ distances \in [Place \X Place -> Nat \cup {NoFact}]
  /\ dead \subseteq Colors
  /\ crew \subseteq Crewmember
  /\ impostorFound \subseteq Colors
  /\ cases \subseteq Case
  /\ windows \subseteq KillWindow
  /\ alibis \subseteq Alibi
  /\ castIron \subseteq CastIron
  /\ nearBody \subseteq NearBody
  /\ suspects \subseteq Suspect
  /\ accusations \subseteq Accusation
  /\ roster \subseteq Roster
  /\ recountDue \in BOOLEAN
  /\ pressure \in Level \cup {"absent"}
  /\ stances \subseteq Stance

(***************************************************************************)
(* The state after fd_create, or after fd_reset, followed by fd_set_self   *)
(* (or by nothing: the caller may skip it).                                *)
(***************************************************************************)
WMInit(selfChoices, distanceTable) ==
  /\ phase = "idle"
  /\ self \in selfChoices
  /\ sightings = {} /\ bodies = {} /\ taskTicks = {} /\ ejections = {}
  /\ vents = {} /\ distances = distanceTable
  /\ dead = {} /\ crew = {} /\ impostorFound = {}
  /\ cases = {} /\ windows = {} /\ alibis = {} /\ castIron = {}
  /\ nearBody = {} /\ suspects = {} /\ accusations = {}
  /\ roster = {} /\ recountDue = FALSE /\ pressure = "absent"
  /\ stances = {}

(***************************************************************************)
(* Pattern helpers shared by the layers.                                   *)
(***************************************************************************)
About(facts, c)   == {f \in facts : f.color = c}
InCase(facts, v)  == {f \in facts : f.victim = v}
Alive(c) == \E m \in crew : m.color = c /\ m.status = "alive"
(* (modify ?f ...): the old fact is retracted and the new one asserted.    *)
Replace(facts, old, new) == (facts \ {old}) \cup {new}
=============================================================================
