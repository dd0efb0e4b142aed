---------------------------- MODULE TypeProofs ----------------------------
(***************************************************************************)
(* Type correctness of Detective for every value of the constants, one     *)
(* lemma per layer of rules, and the frame lemmas (what a layer leaves     *)
(* alone) that the other proofs cite.                                      *)
(***************************************************************************)
EXTENDS DetectiveProps, FiniteSetTheorems, TLAPS

LEMMA CaseBandTypes ==
  ASSUME TypeOK, CaseBand140 \/ UpdateKillWindowLower \/ WeakenSuspectOnWeakAlibi
  PROVE  TypeOK'
<1> USE DEF TypeOK, Untouched, inputVars, dossierVars, roundVars, caseVars
<1>1. CASE OpenCase
  BY <1>1 DEF OpenCase, OpenCaseLHS, BodySeen, Case
<1>2. CASE InitKillWindow
  BY <1>2 DEF InitKillWindow, InitKillWindowLHS, Case, KillWindow
<1>3. CASE DeriveAlibi
  BY <1>3 DEF DeriveAlibi, Sighting, KillWindow, Alibi
<1>4. CASE DeriveCastIronAlibi
  BY <1>4 DEF DeriveCastIronAlibi, Alibi, CastIron
<1>5. CASE AttachNearBody
  BY <1>5 DEF AttachNearBody, AtTheScene, Sighting, KillWindow, Case, NearBody
<1>6. CASE OpenSuspectFromCrewmember
  <2>0. PICK m \in crew, k \in cases :
         /\ suspects' = suspects \cup {[color |-> m.color, victim |-> k.victim,
                                        basis |-> "no alibi yet"]}
         /\ accusations' = accusations \ InCase(accusations, k.victim)
    BY <1>6 DEF OpenSuspectFromCrewmember, PoolChanged
  <2>1. m.color \in Colors /\ k.victim \in Colors
    BY DEF Crewmember, Case
  <2>a. [color |-> m.color, victim |-> k.victim, basis |-> "no alibi yet"] \in Suspect
    BY <2>1 DEF Suspect, Basis
  <2>2. suspects' \subseteq Suspect
    BY <2>0, <2>a
  <2>3. UNCHANGED <<cases, windows, alibis, castIron, nearBody>> /\ Untouched
    BY <1>6 DEF OpenSuspectFromCrewmember
  <2> QED
    BY <2>0, <2>2, <2>3
<1>7. CASE RetractSuspectOnCastIron
  BY <1>7 DEF RetractSuspectOnCastIron, PoolChanged
<1>8. CASE StrengthenSuspect
  BY <1>8 DEF StrengthenSuspect, Explain, Replace, PoolChanged, Suspect
<1>9. CASE SolveCase
  BY <1>9 DEF SolveCase, SolveCaseLHS, Suspect, Accusation
<1>10. CASE UpdateKillWindowLower
  BY <1>10 DEF UpdateKillWindowLower, Replace, WithoutAlibis, WithoutNearBody, Sighting, KillWindow
<1>11. CASE WeakenSuspectOnWeakAlibi
  BY <1>11 DEF WeakenSuspectOnWeakAlibi, Explain, Replace, PoolChanged, Suspect, Basis
<1> QED
  BY <1>1, <1>2, <1>3, <1>4, <1>5, <1>6, <1>7, <1>8, <1>9, <1>10, <1>11 DEF CaseBand140

LEMMA DossierTypes ==
  ASSUME TypeOK, DossierRules
  PROVE  TypeOK'
<1> USE DEF TypeOK, OtherLayers, SetCrew, inputVars, roundVars, caseVars
<1>0. \A c \in Colors, t \in Status : NewCrew(c, t) \in Crewmember
  BY DEF NewCrew, Crewmember, Place
<1>1. CASE EnsureDossierAlive
  <2>1. PICK x \in EnsureFromSightingLHS \cup EnsureFromTaskLHS :
          crew' = crew \cup {NewCrew(x.color, "alive")} /\ recountDue' = TRUE
    BY <1>1 DEF EnsureDossierAlive
  <2>2. x.color \in Colors
    BY DEF EnsureFromSightingLHS, EnsureFromTaskLHS, Sighting, TaskTick
  <2>3. NewCrew(x.color, "alive") \in Crewmember
    BY <1>0, <2>2 DEF Status
  <2> QED
    BY <1>1, <2>1, <2>3 DEF EnsureDossierAlive
<1>2. CASE UpdateLastSeen
  <2>1. PICK s \in sightings, m \in crew :
          crew' = Replace(crew, m, [m EXCEPT !.seen = s.tick, !.room = s.room,
                                             !.status = "alive"])
    BY <1>2 DEF UpdateLastSeen
  <2>2. [m EXCEPT !.seen = s.tick, !.room = s.room, !.status = "alive"] \in Crewmember
    BY DEF Crewmember, Sighting, Status
  <2> QED
    BY <1>2, <2>1, <2>2 DEF UpdateLastSeen, Replace
<1>3. CASE CountTask
  <2>1. PICK t \in taskTicks, m \in crew :
          /\ crew' = Replace(crew, m, [m EXCEPT !.tasks = m.tasks + 1])
          /\ taskTicks' = taskTicks \ {t}
    BY <1>3 DEF CountTask
  <2>2. [m EXCEPT !.tasks = m.tasks + 1] \in Crewmember
    BY DEF Crewmember
  <2> QED
    BY <1>3, <2>1, <2>2 DEF CountTask, Replace
<1>4. CASE BodyImpliesDeath
  BY <1>4 DEF BodyImpliesDeath, BodyImpliesDeathLHS, BodySeen
<1>5. CASE EnsureDossierFromDeath
  <2>1. PICK c \in dead : crew' = crew \cup {NewCrew(c, "dead")}
    BY <1>5 DEF EnsureDossierFromDeath, EnsureFromDeathLHS
  <2>2. NewCrew(c, "dead") \in Crewmember
    BY <1>0 DEF Status
  <2> QED
    BY <1>5, <2>1, <2>2 DEF EnsureDossierFromDeath
<1>6. CASE MarkDead
  <2>1. PICK m \in crew : crew' = Replace(crew, m, [m EXCEPT !.status = "dead"])
    BY <1>6 DEF MarkDead, MarkDeadLHS
  <2>2. [m EXCEPT !.status = "dead"] \in Crewmember
    BY DEF Crewmember, Status
  <2> QED
    BY <1>6, <2>1, <2>2 DEF MarkDead, Replace
<1>7. CASE EnsureDossierFromEjection
  <2>1. PICK e \in ejections : crew' = crew \cup {NewCrew(e.color, "ejected")}
    BY <1>7 DEF EnsureDossierFromEjection, EnsureFromEjectionLHS
  <2>2. NewCrew(e.color, "ejected") \in Crewmember
    BY <1>0 DEF Status, Ejection
  <2> QED
    BY <1>7, <2>1, <2>2 DEF EnsureDossierFromEjection
<1>8. CASE MarkEjected
  <2>1. PICK e \in ejections, m \in crew :
          /\ crew' = Replace(crew, m, [m EXCEPT !.status = "ejected"])
          /\ impostorFound' = IF e.impostor THEN impostorFound \cup {e.color}
                                            ELSE impostorFound
    BY <1>8 DEF MarkEjected
  <2>2. [m EXCEPT !.status = "ejected"] \in Crewmember /\ e.color \in Colors
    BY DEF Crewmember, Status, Ejection
  <2> QED
    BY <1>8, <2>1, <2>2 DEF MarkEjected, Replace
<1> QED
  BY <1>1, <1>2, <1>3, <1>4, <1>5, <1>6, <1>7, <1>8 DEF DossierRules

LEMMA StanceTypes ==
  ASSUME TypeOK,
         \/ ClearThreatsOnImpostorFound \/ RetractStanceOnStatusChange
         \/ StanceAccuse \/ StanceThreatFromVent \/ StanceThreat
         \/ StanceOffTask \/ StanceOnTask \/ StanceEnsure
  PROVE  TypeOK'
<1> USE DEF TypeOK, StanceFrame, inputVars, dossierVars, roundVars, caseVars
<1>0. ASSUME NEW lhs, NEW c \in Category, NEW e \in Evidence, lhs \subseteq stances,
             Promote(lhs, c, e)
      PROVE  TypeOK'
  BY <1>0 DEF Promote, Replace, Stance
<1>1. CASE ClearThreatsOnImpostorFound
  BY <1>1 DEF ClearThreatsOnImpostorFound, ClearThreatsLHS, Replace, Stance, Category, Evidence
<1>2. CASE RetractStanceOnStatusChange
  BY <1>2 DEF RetractStanceOnStatusChange
<1>3. CASE StanceAccuse
  BY <1>0, <1>3 DEF StanceAccuse, AccuseLHS, Category, Evidence
<1>4. CASE StanceThreatFromVent
  BY <1>0, <1>4 DEF StanceThreatFromVent, ThreatFromVentLHS, Category, Evidence
<1>5. CASE StanceThreat
  BY <1>0, <1>5 DEF StanceThreat, ThreatNearBodyLHS, Category, Evidence
<1>6. CASE StanceOffTask
  BY <1>0, <1>6 DEF StanceOffTask, OffTaskLHS, Category, Evidence
<1>7. CASE StanceOnTask
  BY <1>0, <1>7 DEF StanceOnTask, OnTaskLHS, Category, Evidence
<1>8. CASE StanceEnsure
  BY <1>8 DEF StanceEnsure, StanceEnsureLHS, Crewmember, Stance, Category, Evidence
<1> QED
  BY <1>1, <1>2, <1>3, <1>4, <1>5, <1>6, <1>7, <1>8

(***************************************************************************)
(* The sets that are counted stay finite, and the graph's tables are total.*)
(***************************************************************************)
Support ==
  /\ IsFiniteSet(crew) /\ IsFiniteSet(ejections)
  /\ walk \in WalkTable /\ walkDirty \in BOOLEAN
  /\ lastSighting \in [Colors -> [room : Place, tick : Nat \cup {NoFact}]]
TypeInv == TypeOK /\ Support

LEMMA RecountedType ==
  ASSUME TypeInv, NEW r \in roster
  PROVE  Recounted(r) \in Roster
<1>1. Cardinality({e \in ejections : e.impostor}) \in Nat
  BY FS_Subset, FS_CardinalityType DEF TypeInv, Support
<1>2. Cardinality({m \in crew : m.status = "alive"}) \in Nat
  BY FS_Subset, FS_CardinalityType DEF TypeInv, Support
<1>3. r \in Roster
  BY DEF TypeInv, TypeOK
<1> DEFINE out  == Cardinality({e \in ejections : e.impostor})
           live == Cardinality({m \in crew : m.status = "alive"})
           imps == Larger(0, r.impostors - out)
<1> HIDE DEF out, live
<1>4. imps \in Nat /\ out \in Nat
  BY <1>1, <1>3 DEF Larger, Roster, out
<1>5. Larger(0, live - imps) \in Nat
  BY <1>2, <1>4 DEF Larger, live
<1>6. Recounted(r) = [r EXCEPT !.ejected = out, !.aliveImpostors = imps,
                               !.aliveCrew = Larger(0, live - imps)]
  BY DEF Recounted, out, live
<1> HIDE DEF imps
<1> QED
  BY <1>3, <1>4, <1>5, <1>6 DEF Roster

LEMMA LevelType ==
  ASSUME NEW n \in Int
  PROVE  LevelOf(n) \in Level
  BY DEF LevelOf, Level

LEMMA RoundTypes ==
  ASSUME TypeInv, RosterRules \/ PressureRules
  PROVE  TypeOK'
<1> USE DEF TypeOK, RoundFrame, inputVars, dossierVars, caseVars
<1>0. TypeOK
  BY DEF TypeInv
<1>1. CASE RosterEnsure
  BY <1>0, <1>1 DEF RosterEnsure, NewRoster, Roster
<1>2. CASE RosterRecount
  BY <1>0, <1>2, RecountedType DEF RosterRecount
<1>3. CASE PressureEnsure
  BY <1>0, <1>3 DEF PressureEnsure, Level
<1>4. CASE PressureDerive
  <2>1. PICK r \in roster : pressure' = LevelOf(r.aliveCrew - r.aliveImpostors)
    BY <1>4 DEF PressureDerive, PressureDeriveLHS
  <2>2. r.aliveCrew - r.aliveImpostors \in Int
    BY <1>0 DEF Roster
  <2>3. pressure' \in Level
    BY <2>1, <2>2, LevelType
  <2> QED
    BY <1>0, <1>4, <2>3 DEF PressureDerive
<1> QED
  BY <1>1, <1>2, <1>3, <1>4 DEF RosterRules, PressureRules

LEMMA ObserveTypes ==
  ASSUME TypeInv, Observe
  PROVE  TypeOK'
<1> USE DEF TypeInv, TypeOK, Observing
<1>0. ASSUME NEW c \in Colors, NEW b \in {"inferred", "observed"}, AssertVent(c, b)
      PROVE  vents' \subseteq Vent /\ castIron' \subseteq CastIron
  BY <1>0 DEF AssertVent, Vent
<1>1. CASE ObservePlayer
  <2>1. PICK s \in SightingReports :
          /\ IF ImpossibleMove(s) THEN AssertVent(s.color, "inferred")
                                  ELSE UNCHANGED <<vents, castIron>>
          /\ sightings' = sightings \cup {s}
    BY <1>1 DEF ObservePlayer
  <2>2. s \in Sighting /\ s.color \in Colors
    BY ReportsOK DEF Sighting
  <2>3. vents' \subseteq Vent /\ castIron' \subseteq CastIron
    BY <1>0, <2>1, <2>2
  <2> QED
    BY <1>1, <2>1, <2>2, <2>3 DEF ObservePlayer
<1>2. CASE ObserveVent
  BY <1>0, <1>2, ReportsOK DEF ObserveVent
<1>3. CASE ObserveBody
  BY <1>3, ReportsOK DEF ObserveBody
<1>4. CASE ObserveTaskCompletion
  BY <1>4, ReportsOK DEF ObserveTaskCompletion
<1>5. CASE ObserveDeath
  BY <1>5, ReportsOK DEF ObserveDeath
<1>6. CASE ObserveEjection
  BY <1>6, ReportsOK DEF ObserveEjection
<1>7. CASE ObserveRoundConfig
  BY <1>7, ReportsOK DEF ObserveRoundConfig, NewRoster, Roster
<1>8. CASE ChangeGraph
  BY <1>8 DEF ChangeGraph, LoudChange
<1> QED
  BY <1>1, <1>2, <1>3, <1>4, <1>5, <1>6, <1>7, <1>8 DEF Observe

LEMMA RunTypes ==
  ASSUME TypeInv, FdRun \/ EndRun
  PROVE  TypeOK'
<1> USE DEF TypeInv, TypeOK, Support, inputVars, dossierVars, roundVars, caseVars
<1>1. CASE FdRun
  <2>1. Published(walk) \in [Place \X Place -> Nat \cup {NoFact}]
    BY DEF Published, WalkTable
  <2>2. /\ distances' \in [Place \X Place -> Nat \cup {NoFact}]
        /\ castIron' \subseteq CastIron
    BY <1>1, <2>1 DEF FdRun, PublishAnew
  <2> QED
    BY <1>1, <2>2 DEF FdRun
<1>2. CASE EndRun
  BY <1>2 DEF EndRun
<1> QED
  BY <1>1, <1>2

LEMMA ReplaceFinite ==
  ASSUME NEW S, NEW old, NEW new, IsFiniteSet(S)
  PROVE  IsFiniteSet(Replace(S, old, new))
<1>1. IsFiniteSet(S \ {old})
  BY FS_Subset
<1> QED
  BY <1>1, FS_AddElement DEF Replace

LEMMA DossierFinite ==
  ASSUME IsFiniteSet(crew), DossierRules
  PROVE  IsFiniteSet(crew')
<1>1. \/ UNCHANGED crew
      \/ \E new : crew' = crew \cup {new}
      \/ \E old, new : crew' = Replace(crew, old, new)
  BY DEF DossierRules, EnsureDossierAlive, UpdateLastSeen, CountTask,
         BodyImpliesDeath, EnsureDossierFromDeath, MarkDead,
         EnsureDossierFromEjection, MarkEjected, SetCrew
<1>2. ASSUME NEW new, crew' = crew \cup {new} PROVE IsFiniteSet(crew')
  BY <1>2, FS_AddElement
<1>3. ASSUME NEW old, NEW new, crew' = Replace(crew, old, new)
      PROVE  IsFiniteSet(crew')
  BY <1>3, ReplaceFinite
<1> QED
  BY <1>1, <1>2, <1>3

(* Which layer a firing belongs to, and what the other layers keep.        *)
CaseRules == CaseBand140 \/ UpdateKillWindowLower \/ WeakenSuspectOnWeakAlibi
StanceRules ==
  \/ ClearThreatsOnImpostorFound \/ RetractStanceOnStatusChange
  \/ StanceAccuse \/ StanceThreatFromVent \/ StanceThreat
  \/ StanceOffTask \/ StanceOnTask \/ StanceEnsure

LEMMA FireByLayer ==
  ASSUME FireRule
  PROVE  CaseRules \/ DossierRules \/ RosterRules \/ PressureRules \/ StanceRules
  BY DEF FireRule, CaseRules, StanceRules

LEMMA CaseRulesFrame ==
  ASSUME CaseRules
  PROVE  UNCHANGED <<phase, inputVars, dossierVars, roundVars, stances>>
  BY DEF CaseRules, CaseBand140, OpenCase, InitKillWindow, DeriveAlibi,
         DeriveCastIronAlibi, AttachNearBody, OpenSuspectFromCrewmember,
         RetractSuspectOnCastIron, StrengthenSuspect, SolveCase,
         UpdateKillWindowLower, WeakenSuspectOnWeakAlibi, Untouched

LEMMA StanceRulesFrame ==
  ASSUME StanceRules
  PROVE  UNCHANGED <<phase, inputVars, dossierVars, caseVars, roundVars>>
  BY DEF StanceRules, ClearThreatsOnImpostorFound, RetractStanceOnStatusChange,
         StanceAccuse, StanceThreatFromVent, StanceThreat, StanceOffTask,
         StanceOnTask, StanceEnsure, Promote, StanceFrame

LEMMA RoundRulesFrame ==
  ASSUME RosterRules \/ PressureRules
  PROVE  UNCHANGED <<phase, inputVars, dossierVars, caseVars, stances>>
  BY DEF RosterRules, PressureRules, RosterEnsure, RosterRecount,
         PressureEnsure, PressureDerive, RoundFrame

LEMMA DossierRulesFrame ==
  ASSUME DossierRules
  PROVE  UNCHANGED <<phase, inputVars, caseVars, roster, pressure, stances>>
  BY DEF DossierRules, EnsureDossierAlive, UpdateLastSeen, CountTask,
         BodyImpliesDeath, EnsureDossierFromDeath, MarkDead,
         EnsureDossierFromEjection, MarkEjected, OtherLayers

LEMMA SupportStep ==
  ASSUME TypeInv, [Next]_allVars
  PROVE  Support'
<1> USE DEF TypeInv
<1>1. CASE FireRule
  <2>1. UNCHANGED cVars /\ UNCHANGED ejections
    BY <1>1, FireByLayer, CaseRulesFrame, StanceRulesFrame, RoundRulesFrame,
       DossierRulesFrame DEF FireRule, inputVars
  <2>2. IsFiniteSet(crew')
    BY <1>1, FireByLayer, CaseRulesFrame, StanceRulesFrame, RoundRulesFrame,
       DossierFinite DEF Support, dossierVars
  <2> QED
    BY <2>1, <2>2 DEF Support, cVars
<1>2. CASE ObservePlayer
  <2>1. PICK s \in SightingReports :
          lastSighting' = [lastSighting EXCEPT ![s.color] =
                             [room |-> s.room, tick |-> s.tick]]
    BY <1>2 DEF ObservePlayer
  <2>2. lastSighting' \in [Colors -> [room : Place, tick : Nat \cup {NoFact}]]
    BY <2>1, ReportsOK DEF Support, Sighting
  <2> QED
    BY <1>2, <2>2 DEF ObservePlayer, Observing, Support
<1>3. CASE ObserveVent \/ ObserveBody \/ ObserveTaskCompletion \/ ObserveDeath
           \/ ObserveRoundConfig
  BY <1>3 DEF ObserveVent, ObserveBody, ObserveTaskCompletion, ObserveDeath,
              ObserveRoundConfig, Observing, Support, cVars
<1>4. CASE ObserveEjection
  <2>1. PICK e \in EjectionReports : ejections' = ejections \cup {e}
    BY <1>4 DEF ObserveEjection
  <2>2. IsFiniteSet(ejections')
    BY <2>1, FS_AddElement DEF Support
  <2> QED
    BY <1>4, <2>2 DEF ObserveEjection, Observing, Support, cVars
<1>5. CASE ChangeGraph
  BY <1>5, MapsAreTables DEF ChangeGraph, LoudChange, Observing, Support
<1>6. CASE FdRun \/ EndRun
  BY <1>6 DEF FdRun, EndRun, Support, cVars, dossierVars, inputVars
<1>7. CASE UNCHANGED allVars
  BY <1>7 DEF allVars, vars, cVars, dossierVars, inputVars, Support
<1> QED
  BY <1>1, <1>2, <1>3, <1>4, <1>5, <1>6, <1>7 DEF Next, Observe

LEMMA TypeStep ==
  ASSUME TypeInv, [Next]_allVars
  PROVE  TypeInv'
<1>1. TypeOK
  BY DEF TypeInv
<1>2. ASSUME FireRule PROVE TypeOK'
  BY <1>1, <1>2, FireByLayer, CaseBandTypes, DossierTypes, RoundTypes, StanceTypes
  DEF CaseRules, StanceRules
<1>3. ASSUME UNCHANGED allVars PROVE TypeOK'
  BY <1>1, <1>3 DEF TypeOK, allVars, vars, inputVars, dossierVars, caseVars, roundVars
<1>4. TypeOK'
  BY <1>2, <1>3, ObserveTypes, RunTypes DEF Next
<1> QED
  BY <1>4, SupportStep DEF TypeInv

LEMMA TypeInit == Init => TypeInv
<1> SUFFICES ASSUME Init PROVE TypeInv
  OBVIOUS
<1>1. walk \in WalkTable
  BY MapsAreTables DEF Init
<1>2. Published(walk) \in [Place \X Place -> Nat \cup {NoFact}]
  BY <1>1 DEF Published, WalkTable
<1>3. TypeOK
  BY <1>2, SelfChoicesOK DEF Init, WMInit, TypeOK
<1>4. Support
  BY <1>1, FS_EmptySet DEF Init, WMInit, Support, NoSighting, Place
<1> QED
  BY <1>3, <1>4 DEF TypeInv

(* Type correctness of every reachable state.                              *)
THEOREM TypeCorrect == Spec => []TypeOK
<1>1. TypeInv => TypeOK
  BY DEF TypeInv
<1> QED
  BY <1>1, TypeInit, TypeStep, PTL DEF Spec

(***************************************************************************)
(* Detective implements WalkingCosts: a change of the graph is a Change,   *)
(* an FdRun that finds the facts out of date a Publish, every other step   *)
(* leaves the table and the facts alone.                                   *)
(***************************************************************************)
LEMMA MapInit == Init => Map!CostsInit
<1> SUFFICES ASSUME Init PROVE Map!CostsInit
  OBVIOUS
<1>1. walk \in WalkTable
  BY MapsAreTables DEF Init
<1> QED
  BY <1>1 DEF Init, WMInit, Published, WalkTable, Map!CostsInit, Map!Tables, Map!Facts

LEMMA MapStep ==
  ASSUME TypeInv, [Next]_allVars
  PROVE  [Map!CostsNext]_(Map!costVars)
<1> USE DEF Map!costVars
<1>1. CASE FireRule
  BY <1>1, FireByLayer, CaseRulesFrame, StanceRulesFrame, RoundRulesFrame,
     DossierRulesFrame DEF FireRule, cVars, inputVars
<1>2. CASE ObservePlayer \/ ObserveVent \/ ObserveBody \/ ObserveTaskCompletion
           \/ ObserveDeath \/ ObserveEjection \/ ObserveRoundConfig
  BY <1>2 DEF ObservePlayer, ObserveVent, ObserveBody, ObserveTaskCompletion,
              ObserveDeath, ObserveEjection, ObserveRoundConfig, Observing, cVars
<1>3. CASE ChangeGraph
  <2>1. walk' \in WalkTable /\ walkDirty' = TRUE /\ UNCHANGED distances
    BY <1>3, MapsAreTables DEF ChangeGraph, LoudChange, Observing
  <2> QED
    BY <2>1 DEF WalkTable, Map!CostsNext, Map!Change, Map!Tables
<1>4. CASE FdRun
  <2>1. CASE walkDirty
    BY <1>4, <2>1 DEF FdRun, PublishAnew, Published, Map!CostsNext, Map!Publish, Map!Facts
  <2>2. CASE ~ walkDirty
    BY <1>4, <2>2 DEF FdRun, TypeInv, Support
  <2> QED
    BY <2>1, <2>2
<1>5. CASE EndRun \/ UNCHANGED allVars
  BY <1>5 DEF EndRun, allVars, vars, cVars, inputVars
<1> QED
  BY <1>1, <1>2, <1>3, <1>4, <1>5 DEF Next, Observe

(* The rules only ever see the walks of the graph as it stood when the run *)
(* began, and no change of the graph stays unannounced (fd_clips.c:        *)
(* fd_run).                                                                *)
THEOREM DetectiveImplementsWalkingCosts == Spec => RulesSeeTheMap
<1>1. Spec => [][Map!CostsNext]_(Map!costVars)
  BY TypeInit, TypeStep, MapStep, PTL DEF Spec
<1> QED
  BY <1>1, MapInit, PTL DEF Spec, RulesSeeTheMap, Map!CostsSpec
=============================================================================
