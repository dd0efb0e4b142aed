-------------------------- MODULE DetectiveProofs --------------------------
(***************************************************************************)
(* The rule base in every reachable state: each conclusion of the case     *)
(* layer still has its premises (truth maintenance), a dossier never goes  *)
(* back, each fact is alone under its key, verdicts stand as long as they  *)
(* promise; what a query may rely on once no rule can fire; and that the   *)
(* rules come to that.                                                     *)
(***************************************************************************)
EXTENDS TypeProofs, Walkers, Reports, SumTheorems, Progress

(* A kill window is the window of its case: same room, closing at the body *)
(* tick of that case.                                                      *)
WindowsMatchCases ==
  \A w \in windows :
    \E k \in cases : k.victim = w.victim /\ k.room = w.room /\ k.tick = w.to

(* One case and one window per victim.                                     *)
OneCasePerVictim   == \A k, j \in cases : k.victim = j.victim => k = j
OneWindowPerVictim == \A w, u \in windows : w.victim = u.victim => w = u

CaseInv ==
  /\ WindowsMatchCases /\ OneCasePerVictim /\ OneWindowPerVictim
  /\ AlibiHolds /\ CastIronHolds /\ AccusationHolds /\ NearBodyHolds
MaintInv == TypeInv /\ CaseInv

(***************************************************************************)
(* The rules of the case layer, one invariant at a time.                   *)
(***************************************************************************)
LEMMA NarrowEffect ==
  ASSUME TypeOK, UpdateKillWindowLower
  PROVE  \E s \in sightings, w \in windows, u \in KillWindow :
           /\ Narrows(s, w)
           /\ u.victim = w.victim /\ u.room = w.room /\ u.to = w.to
           /\ u.from = s.tick
           /\ windows'  = (windows \ {w}) \cup {u}
           /\ alibis'   = {a \in alibis : a.victim # w.victim}
           /\ castIron' = {i \in castIron : i.victim # w.victim}
           /\ nearBody' = {n \in nearBody : n.via # w.victim}
           /\ UNCHANGED <<cases, suspects, accusations>>
<1>1. PICK s \in sightings, w \in windows :
        /\ Narrows(s, w)
        /\ windows'  = (windows \ {w}) \cup {[w EXCEPT !.from = s.tick]}
        /\ alibis'   = {a \in alibis : a.victim # w.victim}
        /\ castIron' = {i \in castIron : i.victim # w.victim}
        /\ nearBody' = {n \in nearBody : n.via # w.victim}
        /\ UNCHANGED <<cases, suspects, accusations>>
  BY DEF UpdateKillWindowLower, Replace, WithoutAlibis, WithoutNearBody, InCase
<1> DEFINE u == [w EXCEPT !.from = s.tick]
<1>2. /\ u \in KillWindow /\ u.from = s.tick
      /\ u.victim = w.victim /\ u.room = w.room /\ u.to = w.to
  BY DEF TypeOK, KillWindow, Sighting
<1>3. windows' = (windows \ {w}) \cup {u}
  BY <1>1
<1> QED
  BY <1>1, <1>2, <1>3

LEMMA WindowsStep ==
  ASSUME MaintInv, CaseRules
  PROVE  WindowsMatchCases' /\ OneCasePerVictim' /\ OneWindowPerVictim'
<1> USE DEF MaintInv, CaseInv, TypeInv, TypeOK, WindowsMatchCases,
            OneCasePerVictim, OneWindowPerVictim
<1>1. CASE OpenCase
  <2>1. PICK b \in bodies :
          /\ InCase(cases, b.color) = {}
          /\ cases' = cases \cup {[victim |-> b.color, room |-> b.room,
                                   tick |-> b.tick]}
          /\ windows' = windows
    BY <1>1 DEF OpenCase, OpenCaseLHS
  <2>2. \A k \in cases : k.victim # b.color
    BY <2>1 DEF InCase
  <2> QED
    BY <2>1, <2>2
<1>2. CASE InitKillWindow
  <2>1. PICK k \in cases :
          /\ InCase(windows, k.victim) = {}
          /\ windows' = windows \cup {[victim |-> k.victim, from |-> 0,
                                       to |-> k.tick, room |-> k.room]}
          /\ cases' = cases
    BY <1>2 DEF InitKillWindow, InitKillWindowLHS
  <2>2. \A w \in windows : w.victim # k.victim
    BY <2>1 DEF InCase
  <2> QED
    BY <2>1, <2>2
<1>3. CASE UpdateKillWindowLower
  <2>1. PICK w \in windows, u \in KillWindow :
          /\ u.victim = w.victim /\ u.room = w.room /\ u.to = w.to
          /\ windows' = (windows \ {w}) \cup {u}
          /\ cases' = cases
    BY <1>3, NarrowEffect
  <2>2. \A x \in windows' : x = u \/ (x \in windows /\ x # w)
    BY <2>1
  <2>3. \A x \in windows' : x = u \/ (x \in windows /\ x.victim # u.victim)
    BY <2>1, <2>2
  <2>4. OneWindowPerVictim'
    BY <2>3
  <2>5. \E k \in cases : k.victim = u.victim /\ k.room = u.room /\ k.tick = u.to
    BY <2>1
  <2>6. WindowsMatchCases'
    BY <2>1, <2>3, <2>5
  <2> QED
    BY <2>1, <2>4, <2>6
<1>4. CASE UNCHANGED <<cases, windows>>
  BY <1>4
<1> QED
  BY <1>1, <1>2, <1>3, <1>4 DEF CaseRules, CaseBand140, DeriveAlibi,
     DeriveCastIronAlibi, AttachNearBody, OpenSuspectFromCrewmember,
     RetractSuspectOnCastIron, StrengthenSuspect, SolveCase,
     WeakenSuspectOnWeakAlibi

(* A narrowed window takes the alibis of its case with it; the others keep *)
(* the window they had.                                                    *)
LEMMA AlibiStep ==
  ASSUME MaintInv, CaseRules
  PROVE  AlibiHolds'
<1> USE DEF MaintInv, CaseInv, TypeInv, TypeOK, AlibiHolds
<1>0. UNCHANGED sightings
  BY CaseRulesFrame DEF inputVars
<1>1. CASE InitKillWindow
  BY <1>0, <1>1 DEF InitKillWindow, Within
<1>2. CASE UpdateKillWindowLower
  <2>1. PICK w \in windows, u \in KillWindow :
          /\ windows' = (windows \ {w}) \cup {u}
          /\ alibis' = {a \in alibis : a.victim # w.victim}
    BY <1>2, NarrowEffect
  <2> QED
    BY <1>0, <2>1 DEF Within
<1>3. CASE DeriveAlibi
  <2>1. PICK s \in sightings, w \in windows :
          /\ SeenElsewhere(s, w)
          /\ alibis' = alibis \cup {[color |-> s.color, victim |-> w.victim,
                                     room |-> s.room, tick |-> s.tick]}
          /\ windows' = windows
    BY <1>3 DEF DeriveAlibi
  <2> DEFINE new == [color |-> s.color, victim |-> w.victim,
                     room |-> s.room, tick |-> s.tick]
  <2>2. [color |-> s.color, room |-> s.room, tick |-> s.tick] = s
    BY DEF Sighting
  <2>3. /\ new.color # new.victim
        /\ [color |-> new.color, room |-> new.room, tick |-> new.tick] \in sightings
        /\ w.victim = new.victim /\ w.room # new.room /\ Within(new.tick, w)
    BY <2>1, <2>2 DEF SeenElsewhere
  <2>4. \A a \in alibis' : a = new \/ a \in alibis
    BY <2>1
  <2> HIDE DEF new
  <2> QED
    BY <1>0, <2>1, <2>3, <2>4 DEF Within
<1>4. CASE UNCHANGED <<alibis, windows>>
  BY <1>0, <1>4 DEF Within
<1> QED
  BY <1>1, <1>2, <1>3, <1>4 DEF CaseRules, CaseBand140, OpenCase,
     DeriveCastIronAlibi, AttachNearBody, OpenSuspectFromCrewmember,
     RetractSuspectOnCastIron, StrengthenSuspect, SolveCase,
     WeakenSuspectOnWeakAlibi

LEMMA CastIronStep ==
  ASSUME MaintInv, CaseRules
  PROVE  CastIronHolds'
<1> USE DEF MaintInv, CaseInv, TypeInv, TypeOK, CastIronHolds
<1>0. UNCHANGED <<distances, vents>>
  BY CaseRulesFrame DEF inputVars
<1> USE DEF Unbreakable, OutOfReach, About
<1>1. CASE InitKillWindow
  BY <1>0, <1>1 DEF InitKillWindow
<1>2. CASE UpdateKillWindowLower
  <2>1. PICK w \in windows, u \in KillWindow :
          /\ windows' = (windows \ {w}) \cup {u}
          /\ alibis' = {a \in alibis : a.victim # w.victim}
          /\ castIron' = {i \in castIron : i.victim # w.victim}
    BY <1>2, NarrowEffect
  <2>2. SUFFICES ASSUME NEW i \in castIron'
                 PROVE  \E a \in alibis', x \in windows' :
                          a.color = i.color /\ a.victim = i.victim /\ Unbreakable(a, x)'
    OBVIOUS
  <2>3. i \in castIron /\ i.victim # w.victim
    BY <2>1
  <2>4. PICK a \in alibis, x \in windows :
          a.color = i.color /\ a.victim = i.victim /\ Unbreakable(a, x)
    BY <2>3
  <2>5. a \in alibis' /\ x \in windows'
    BY <2>1, <2>3, <2>4
  <2> QED
    BY <1>0, <2>4, <2>5
<1>3. CASE DeriveAlibi
  BY <1>0, <1>3 DEF DeriveAlibi
<1>4. CASE DeriveCastIronAlibi
  <2>1. PICK b \in alibis, x \in windows :
          /\ Unbreakable(b, x)
          /\ castIron' = castIron \cup {[color |-> b.color, victim |-> b.victim]}
          /\ UNCHANGED <<alibis, windows>>
    BY <1>4 DEF DeriveCastIronAlibi
  <2> HIDE DEF Unbreakable, OutOfReach, About
  <2>2. \A a, u : Unbreakable(a, u)' <=> Unbreakable(a, u)
    BY <1>0 DEF Unbreakable, OutOfReach, About
  <2>3. ASSUME NEW i \in castIron'
        PROVE  \E a \in alibis, u \in windows :
                 a.color = i.color /\ a.victim = i.victim /\ Unbreakable(a, u)
    <3>1. CASE i \in castIron
      BY <3>1
    <3>2. CASE i = [color |-> b.color, victim |-> b.victim]
      BY <2>1, <3>2
    <3> QED
      BY <2>1, <3>1, <3>2
  <2> QED
    BY <2>1, <2>2, <2>3
<1>5. CASE UNCHANGED <<alibis, windows, castIron>>
  BY <1>0, <1>5
<1> QED
  BY <1>1, <1>2, <1>3, <1>4, <1>5 DEF CaseRules, CaseBand140, OpenCase,
     AttachNearBody, OpenSuspectFromCrewmember,
     RetractSuspectOnCastIron, StrengthenSuspect, SolveCase,
     WeakenSuspectOnWeakAlibi

(* What the pool rules do to the accusations of the case they touch.       *)
LEMMA PoolEffect ==
  ASSUME OpenSuspectFromCrewmember \/ RetractSuspectOnCastIron
         \/ StrengthenSuspect \/ WeakenSuspectOnWeakAlibi, TypeOK
  PROVE  \E v \in Colors :
           /\ accusations' = {x \in accusations : x.victim # v}
           /\ \A s : s.victim # v => (s \in suspects' <=> s \in suspects)
<1> USE DEF PoolChanged, InCase, TypeOK
<1>1. CASE OpenSuspectFromCrewmember
  <2>1. PICK m \in crew, k \in cases :
          /\ suspects' = suspects \cup {[color |-> m.color, victim |-> k.victim,
                                         basis |-> "no alibi yet"]}
          /\ accusations' = {x \in accusations : x.victim # k.victim}
    BY <1>1 DEF OpenSuspectFromCrewmember
  <2> DEFINE t == [color |-> m.color, victim |-> k.victim, basis |-> "no alibi yet"]
  <2>2. k.victim \in Colors /\ t.victim = k.victim
    BY DEF Case
  <2>3. suspects' = suspects \cup {t}
    BY <2>1
  <2> HIDE DEF t
  <2> QED
    BY <2>1, <2>2, <2>3
<1>2. CASE RetractSuspectOnCastIron
  <2>1. PICK s \in suspects :
          /\ suspects' = suspects \ {s}
          /\ accusations' = {x \in accusations : x.victim # s.victim}
    BY <1>2 DEF RetractSuspectOnCastIron, RetractSuspectLHS
  <2> QED
    BY <2>1 DEF Suspect
<1>3. CASE StrengthenSuspect \/ WeakenSuspectOnWeakAlibi
  <2>1. PICK s \in suspects, b \in Basis : Explain(s, b)
    BY <1>3 DEF StrengthenSuspect, WeakenSuspectOnWeakAlibi, Basis
  <2> DEFINE t == [s EXCEPT !.basis = b]
  <2>2. t.victim = s.victim /\ s.victim \in Colors
    BY DEF Suspect
  <2>3. /\ suspects' = (suspects \ {s}) \cup {t}
        /\ accusations' = {x \in accusations : x.victim # s.victim}
    BY <2>1 DEF Explain, Replace
  <2> HIDE DEF t
  <2> QED
    BY <2>2, <2>3
<1> QED
  BY <1>1, <1>2, <1>3

LEMMA AccusationStep ==
  ASSUME MaintInv, CaseRules
  PROVE  AccusationHolds'
<1> USE DEF MaintInv, CaseInv, TypeInv, AccusationHolds, InCase
<1>1. CASE OpenSuspectFromCrewmember \/ RetractSuspectOnCastIron
           \/ StrengthenSuspect \/ WeakenSuspectOnWeakAlibi
  <2>1. PICK v \in Colors :
          /\ accusations' = {x \in accusations : x.victim # v}
          /\ \A s : s.victim # v => (s \in suspects' <=> s \in suspects)
    BY <1>1, PoolEffect
  <2>2. SUFFICES ASSUME NEW x \in accusations'
                 PROVE  {s.color : s \in InCase(suspects', x.victim)} = {x.color}
    OBVIOUS
  <2>3. x \in accusations /\ x.victim # v
    BY <2>1
  <2>4. InCase(suspects', x.victim) = InCase(suspects, x.victim)
    BY <2>1, <2>3
  <2> QED
    BY <2>3, <2>4
<1>2. CASE SolveCase
  <2>1. PICK s \in suspects :
          /\ \A x \in InCase(suspects, s.victim) : x.color = s.color
          /\ accusations' = accusations \cup {[victim |-> s.victim, color |-> s.color]}
          /\ suspects' = suspects
    BY <1>2 DEF SolveCase, SolveCaseLHS
  <2>2. {x.color : x \in InCase(suspects, s.victim)} = {s.color}
    BY <2>1
  <2> QED
    BY <2>1, <2>2
<1>3. CASE UNCHANGED <<suspects, accusations>>
  BY <1>3
<1> QED
  BY <1>1, <1>2, <1>3 DEF CaseRules, CaseBand140, OpenCase, InitKillWindow,
     UpdateKillWindowLower, DeriveAlibi, DeriveCastIronAlibi, AttachNearBody

LEMMA NearBodyStep ==
  ASSUME MaintInv, CaseRules
  PROVE  NearBodyHolds'
<1> USE DEF MaintInv, CaseInv, TypeInv, TypeOK, NearBodyHolds, About, InCase
<1>0. UNCHANGED sightings
  BY CaseRulesFrame DEF inputVars
<1>1. CASE InitKillWindow
  BY <1>0, <1>1 DEF InitKillWindow, Within
<1>2. CASE UpdateKillWindowLower
  <2>1. PICK w \in windows, u \in KillWindow :
          /\ windows' = (windows \ {w}) \cup {u}
          /\ nearBody' = {n \in nearBody : n.via # w.victim}
    BY <1>2, NarrowEffect
  <2> QED
    BY <1>0, <2>1 DEF Within
<1>3. CASE AttachNearBody
  <2>1. PICK s \in sightings, w \in windows, k \in cases :
          /\ AtTheScene(s, w, k)
          /\ nearBody' = nearBody \cup {[color |-> s.color, room |-> k.room,
                                         tick |-> k.tick, via |-> w.victim]}
          /\ windows' = windows
    BY <1>3 DEF AttachNearBody
  <2>2. w.to = k.tick
    BY <2>1 DEF AtTheScene, WindowsMatchCases, OneCasePerVictim
  <2> DEFINE new == [color |-> s.color, room |-> k.room, tick |-> k.tick,
                     via |-> w.victim]
  <2>3. /\ s.color = new.color /\ w.victim = new.via
        /\ s.room = new.room /\ w.room = new.room /\ w.to = new.tick
        /\ Within(s.tick, w)
    BY <2>1, <2>2 DEF AtTheScene
  <2>4. \A n \in nearBody' : n = new \/ n \in nearBody
    BY <2>1
  <2> HIDE DEF new
  <2> QED
    BY <1>0, <2>1, <2>3, <2>4 DEF Within
<1>4. CASE UNCHANGED <<nearBody, windows>>
  BY <1>0, <1>4 DEF Within
<1> QED
  BY <1>1, <1>2, <1>3, <1>4 DEF CaseRules, CaseBand140, OpenCase, DeriveAlibi,
     DeriveCastIronAlibi, OpenSuspectFromCrewmember,
     RetractSuspectOnCastIron, StrengthenSuspect, SolveCase,
     WeakenSuspectOnWeakAlibi

(***************************************************************************)
(* The calls.  An observation adds to what was reported and touches the    *)
(* case layer in one way only: a vent withdraws its color's cast-iron      *)
(* alibis.                                                                 *)
(***************************************************************************)
LEMMA ObserveEffect ==
  ASSUME Observe
  PROVE  /\ sightings \subseteq sightings'
         /\ UNCHANGED <<distances, cases, windows, alibis, nearBody, suspects,
                        accusations>>
         /\ \/ UNCHANGED <<vents, castIron>>
            \/ \E c, b : AssertVent(c, b)
  BY DEF Observe, ObservePlayer, ObserveVent, ObserveBody, ObserveTaskCompletion,
         ObserveDeath, ObserveEjection, ObserveRoundConfig, ChangeGraph, Observing

LEMMA ObserveKeeps ==
  ASSUME MaintInv, Observe
  PROVE  CaseInv'
<1> USE ObserveEffect DEF MaintInv, CaseInv
<1>1. WindowsMatchCases' /\ OneCasePerVictim' /\ OneWindowPerVictim'
  BY DEF WindowsMatchCases, OneCasePerVictim, OneWindowPerVictim
<1>2. AlibiHolds' /\ NearBodyHolds'
  BY DEF AlibiHolds, NearBodyHolds, About, InCase, Within
<1>3. AccusationHolds'
  BY DEF AccusationHolds, InCase
<1>4. CASE UNCHANGED <<vents, castIron>>
  BY <1>1, <1>2, <1>3, <1>4 DEF CastIronHolds, Unbreakable, OutOfReach, About
<1>5. ASSUME NEW c, NEW b, AssertVent(c, b)
      PROVE  CastIronHolds'
  <2>1. /\ vents' = vents \cup {[color |-> c, basis |-> b]}
        /\ castIron' = {i \in castIron : i.color # c}
    BY <1>5 DEF AssertVent, About
  <2>2. \A d : d # c => About(vents', d) = About(vents, d)
    BY <2>1 DEF About
  <2>3. ASSUME NEW i \in castIron'
        PROVE  \E a \in alibis', w \in windows' :
                 a.color = i.color /\ a.victim = i.victim /\ Unbreakable(a, w)'
    <3>1. i \in castIron /\ i.color # c
      BY <2>1
    <3>2. PICK a \in alibis, w \in windows :
            a.color = i.color /\ a.victim = i.victim /\ Unbreakable(a, w)
      BY <3>1 DEF CastIronHolds
    <3>3. About(vents', a.color) = About(vents, a.color)
      BY <2>2, <3>1, <3>2
    <3>4. Unbreakable(a, w)'
      BY <3>2, <3>3 DEF Unbreakable, OutOfReach
    <3> QED
      BY <3>2, <3>4
  <2> QED
    BY <2>3 DEF CastIronHolds
<1> QED
  BY <1>1, <1>2, <1>3, <1>4, <1>5

(* The case layer does not notice steps that leave its facts alone, nor    *)
(* the loss of all cast-iron alibis.                                       *)
LEMMA MaintFrame ==
  ASSUME MaintInv,
         UNCHANGED <<sightings, cases, windows, alibis, nearBody, suspects,
                     accusations>>,
         castIron' = {} \/ UNCHANGED <<vents, distances, castIron>>
  PROVE  CaseInv'
<1> USE DEF MaintInv, CaseInv
<1>1. WindowsMatchCases' /\ OneCasePerVictim' /\ OneWindowPerVictim'
  BY DEF WindowsMatchCases, OneCasePerVictim, OneWindowPerVictim
<1>2. AlibiHolds' /\ NearBodyHolds'
  BY DEF AlibiHolds, NearBodyHolds, About, InCase, Within
<1>3. AccusationHolds'
  BY DEF AccusationHolds, InCase
<1>4. CastIronHolds'
  <2>1. CASE castIron' = {}
    BY <2>1 DEF CastIronHolds
  <2>2. CASE UNCHANGED <<vents, distances, castIron>>
    <3>1. \A a, w : Unbreakable(a, w)' <=> Unbreakable(a, w)
      BY <2>2 DEF Unbreakable, OutOfReach, About
    <3> QED
      BY <2>2, <3>1 DEF CastIronHolds
  <2> QED
    BY <2>1, <2>2
<1> QED
  BY <1>1, <1>2, <1>3, <1>4

LEMMA MaintStep ==
  ASSUME MaintInv, [Next]_allVars
  PROVE  MaintInv'
<1>0. TypeInv'
  BY TypeStep DEF MaintInv
<1> SUFFICES CaseInv'
  BY <1>0 DEF MaintInv
<1>1. CASE CaseRules
  BY <1>1, WindowsStep, AlibiStep, CastIronStep, AccusationStep, NearBodyStep
  DEF CaseInv
<1>2. CASE DossierRules \/ RosterRules \/ PressureRules \/ StanceRules
  BY <1>2, MaintFrame, DossierRulesFrame, RoundRulesFrame, StanceRulesFrame
  DEF inputVars, caseVars
<1>3. CASE FdRun
  BY <1>3, MaintFrame DEF FdRun, PublishAnew
<1>4. CASE EndRun \/ UNCHANGED allVars
  BY <1>4, MaintFrame DEF EndRun, allVars, vars, inputVars, caseVars
<1> QED
  <2>1. CASE FireRule
    BY <1>1, <1>2, <2>1, FireByLayer
  <2>2. CASE Observe
    BY <2>2, ObserveKeeps DEF MaintInv
  <2> QED
    BY <1>3, <1>4, <2>1, <2>2 DEF Next

LEMMA MaintInit == Init => MaintInv
  BY TypeInit DEF Init, WMInit, MaintInv, CaseInv, WindowsMatchCases,
     OneCasePerVictim, OneWindowPerVictim, AlibiHolds, CastIronHolds,
     AccusationHolds, NearBodyHolds

LEMMA MaintAlways == Spec => []MaintInv
  BY MaintInit, MaintStep, PTL DEF Spec

(* No alibi and no near-body evidence outlives the window it was measured  *)
(* against, in any reachable state, also between two rule firings          *)
(* (cases.clp: derive-alibi; dossier.clp: attach-near-body).               *)
THEOREM EvidenceAlwaysHolds == Spec => []EvidenceHolds
<1>1. MaintInv => EvidenceHolds
  BY DEF MaintInv, CaseInv, EvidenceHolds
<1> QED
  BY <1>1, MaintAlways, PTL

(* No clearance outlives the alibi, the window, the walking distance or    *)
(* the trust in its holder that it rests on (derive-cast-iron-alibi).      *)
THEOREM CastIronAlwaysHolds == Spec => []CastIronHolds
<1>1. MaintInv => CastIronHolds
  BY DEF MaintInv, CaseInv
<1> QED
  BY <1>1, MaintAlways, PTL

(* One unbreakable alibi excludes every moment of the window.              *)
LEMMA ClearedInnocent == MaintInv => ClearedAreInnocent
<1> SUFFICES ASSUME MaintInv, NEW i \in castIron
             PROVE  /\ About(vents, i.color) = {}
                    /\ \A w \in InCase(windows, i.victim) :
                         \A t \in w.from .. w.to : ~ CouldBeIn(i.color, w.room, t)
  BY DEF ClearedAreInnocent
<1> USE DEF MaintInv, CaseInv, TypeInv, TypeOK
<1>1. PICK a \in alibis, w \in windows :
        a.color = i.color /\ a.victim = i.victim /\ Unbreakable(a, w)
  BY DEF CastIronHolds
<1>2. About(vents, i.color) = {}
  BY <1>1 DEF Unbreakable
<1>3. \A u \in InCase(windows, i.victim) : u = w
  BY <1>1 DEF InCase, OneWindowPerVictim, Unbreakable
<1> DEFINE s == [color |-> a.color, room |-> a.room, tick |-> a.tick]
<1>4. s \in About(sightings, i.color) /\ s.room = a.room /\ s.tick = a.tick
  BY <1>1 DEF AlibiHolds, About
<1>5. w.room # a.room /\ Within(a.tick, w)
  BY <1>1, <1>3 DEF AlibiHolds, InCase
<1>6. ASSUME NEW t \in w.from .. w.to
      PROVE  ~ CouldBeIn(i.color, w.room, t)
  <2> DEFINE d == distances[<<a.room, w.room>>]
  <2>1. a.tick \in Nat /\ w.from \in Nat /\ w.to \in Nat /\ t \in Int
    BY DEF Alibi, KillWindow
  <2>2. d # NoFact /\ d > a.tick - w.from /\ d > w.to - a.tick
    BY <1>1 DEF Unbreakable, OutOfReach
  <2>3. d \in Int
    <3>1. <<a.room, w.room>> \in Place \X Place
      BY DEF Alibi, KillWindow
    <3> QED
      BY <3>1 DEF NoFact
  <2> HIDE DEF d
  <2>4. ~ InTime(d, a.tick, t)
    BY <1>5, <2>1, <2>2, <2>3 DEF InTime, Within
  <2> QED
    BY <1>4, <1>5, <2>2, <2>4 DEF CouldBeIn, d
<1> HIDE DEF s
<1> QED
  BY <1>2, <1>3, <1>6

(* Nobody who could have walked to the kill room, been there inside the    *)
(* kill window and walked away in time for all of its sightings is ever    *)
(* cleared (cases.clp: derive-cast-iron-alibi).                            *)
THEOREM ClearedAlwaysInnocent == Spec => []ClearedAreInnocent
  BY ClearedInnocent, MaintAlways, PTL

(* No accusation outlives the lone-suspect state of its case (solve-case). *)
THEOREM AccusationsAlwaysHold == Spec => []AccusationHolds
<1>1. MaintInv => AccusationHolds
  BY DEF MaintInv, CaseInv
<1> QED
  BY <1>1, MaintAlways, PTL

(***************************************************************************)
(* Dossiers.  The answers about a color rest on one dossier that says no   *)
(* more than the reports do.                                               *)
(***************************************************************************)
OneDossier == Keyed(crew, OfColor)
DossiersAreReported ==
  \A m \in crew :
    /\ m.status = "dead" => m.color \in dead
    /\ m.status = "ejected" => \E e \in ejections : e.color = m.color
    /\ m.seen # -1 =>
         [color |-> m.color, room |-> m.room, tick |-> m.seen] \in sightings
DossierInv == OneDossier /\ DossiersAreReported

(* What a dossier says is backed by reports; and its successor never goes  *)
(* back on it.                                                             *)
Backed(n) ==
  /\ n.status = "dead" => n.color \in dead
  /\ n.status = "ejected" => \E e \in ejections : e.color = n.color
  /\ n.seen # -1 =>
       [color |-> n.color, room |-> n.room, tick |-> n.seen] \in sightings
Continues(n, m) ==
  /\ n.color = m.color
  /\ Rank(n.status) >= Rank(m.status)
  /\ n.seen >= m.seen /\ n.tasks >= m.tasks

LEMMA ContinuesItself == \A m \in Crewmember : Continues(m, m)
  BY DEF Crewmember, Status, Continues, Rank

(* The rules add a dossier where there is none, or replace one by its      *)
(* continuation.                                                           *)
LEMMA DossierEffect ==
  ASSUME TypeOK, DossiersAreReported, DossierRules
  PROVE  \/ crew' = crew
         \/ \E n \in Crewmember :
              ~ Known(n.color) /\ n.tasks = 0 /\ Backed(n) /\ crew' = crew \cup {n}
         \/ \E m \in crew, n \in Crewmember :
              Continues(n, m) /\ Backed(n) /\ crew' = (crew \ {m}) \cup {n}
<1> USE DEF TypeOK, SetCrew
<1>1. ASSUME NEW c \in Colors, NEW s \in Status, ~ Known(c),
             crew' = crew \cup {NewCrew(c, s)},
             s = "dead" => c \in dead, s = "ejected" => \E e \in ejections : e.color = c
      PROVE  \E n \in Crewmember :
               ~ Known(n.color) /\ n.tasks = 0 /\ Backed(n) /\ crew' = crew \cup {n}
  <2> DEFINE n == NewCrew(c, s)
  <2>1. n \in Crewmember /\ n.color = c /\ n.status = s /\ n.seen = -1 /\ n.tasks = 0
    BY DEF NewCrew, Crewmember, Place
  <2>2. crew' = crew \cup {n}
    BY <1>1
  <2> HIDE DEF n
  <2>3. Backed(n)
    BY <1>1, <2>1 DEF Backed
  <2> QED
    BY <1>1, <2>1, <2>2, <2>3
<1>2. ASSUME NEW m \in crew, NEW n \in Crewmember, crew' = Replace(crew, m, n),
             Continues(n, m), Backed(n)
      PROVE  \E k \in crew, l \in Crewmember :
               Continues(l, k) /\ Backed(l) /\ crew' = (crew \ {k}) \cup {l}
  BY <1>2 DEF Replace
<1>3. CASE EnsureDossierAlive
  <2>1. PICK x \in EnsureFromSightingLHS \cup EnsureFromTaskLHS :
          crew' = crew \cup {NewCrew(x.color, "alive")}
    BY <1>3 DEF EnsureDossierAlive
  <2>2. x.color \in Colors /\ ~ Known(x.color)
    BY DEF EnsureFromSightingLHS, EnsureFromTaskLHS, Sighting, TaskTick
  <2> QED
    BY <1>1, <2>1, <2>2 DEF Status
<1>4. CASE EnsureDossierFromDeath
  <2>1. PICK c \in EnsureFromDeathLHS : crew' = crew \cup {NewCrew(c, "dead")}
    BY <1>4 DEF EnsureDossierFromDeath
  <2> QED
    BY <1>1, <2>1 DEF EnsureFromDeathLHS, Status
<1>5. CASE EnsureDossierFromEjection
  <2>1. PICK e \in EnsureFromEjectionLHS : crew' = crew \cup {NewCrew(e.color, "ejected")}
    BY <1>5 DEF EnsureDossierFromEjection
  <2>2. e \in ejections /\ e.color \in Colors /\ ~ Known(e.color)
    BY DEF EnsureFromEjectionLHS, Ejection
  <2> QED
    BY <1>1, <2>1, <2>2 DEF Status
<1>6. CASE UpdateLastSeen
  <2>1. PICK s \in sightings, m \in crew :
          /\ Refreshes(s, m)
          /\ crew' = Replace(crew, m, [m EXCEPT !.seen = s.tick, !.room = s.room,
                                                !.status = "alive"])
    BY <1>6 DEF UpdateLastSeen
  <2> DEFINE n == [m EXCEPT !.seen = s.tick, !.room = s.room, !.status = "alive"]
  <2>2. /\ n \in Crewmember
        /\ n.color = m.color /\ n.status = "alive" /\ n.seen = s.tick /\ n.room = s.room
        /\ n.tasks = m.tasks
    BY DEF Crewmember, Sighting, Status
  <2>3. s = [color |-> n.color, room |-> n.room, tick |-> n.seen]
    BY <2>1, <2>2 DEF Sighting, Refreshes
  <2>4. m.status = "alive" /\ m.seen < s.tick
    BY <2>1 DEF Refreshes, Crewmember, Status
  <2>5. crew' = Replace(crew, m, n)
    BY <2>1
  <2> HIDE DEF n
  <2>6. Continues(n, m)
    BY <2>2, <2>4 DEF Continues, Rank, Crewmember, Sighting
  <2>7. Backed(n)
    BY <2>2, <2>3 DEF Backed
  <2> QED
    BY <1>2, <2>2, <2>5, <2>6, <2>7
<1>7. CASE CountTask
  <2>1. PICK m \in crew : crew' = Replace(crew, m, [m EXCEPT !.tasks = m.tasks + 1])
    BY <1>7 DEF CountTask
  <2> DEFINE n == [m EXCEPT !.tasks = m.tasks + 1]
  <2>2. /\ n \in Crewmember
        /\ n.color = m.color /\ n.status = m.status /\ n.seen = m.seen /\ n.room = m.room
        /\ n.tasks = m.tasks + 1
    BY DEF Crewmember
  <2>5. crew' = Replace(crew, m, n)
    BY <2>1
  <2> HIDE DEF n
  <2>6. Continues(n, m)
    BY <2>2 DEF Continues, Rank, Crewmember, Status
  <2>7. Backed(n)
    BY <2>2 DEF Backed, DossiersAreReported
  <2> QED
    BY <1>2, <2>2, <2>5, <2>6, <2>7
<1>8. ASSUME NEW m \in crew, NEW s \in {"dead", "ejected"},
             crew' = Replace(crew, m, [m EXCEPT !.status = s]),
             m.status # "ejected",
             s = "dead" => m.color \in dead,
             s = "ejected" => \E e \in ejections : e.color = m.color
      PROVE  \E k \in crew, l \in Crewmember :
               Continues(l, k) /\ Backed(l) /\ crew' = (crew \ {k}) \cup {l}
  <2> DEFINE n == [m EXCEPT !.status = s]
  <2>2. /\ n \in Crewmember
        /\ n.color = m.color /\ n.status = s /\ n.seen = m.seen /\ n.room = m.room
        /\ n.tasks = m.tasks
    BY DEF Crewmember, Status
  <2>5. crew' = Replace(crew, m, n)
    BY <1>8
  <2> HIDE DEF n
  <2>6. Continues(n, m)
    BY <1>8, <2>2 DEF Continues, Rank, Crewmember, Status
  <2>7. Backed(n)
    BY <1>8, <2>2 DEF Backed, DossiersAreReported
  <2> QED
    BY <1>2, <2>2, <2>5, <2>6, <2>7
<1>9. CASE MarkDead
  <2>1. PICK m \in MarkDeadLHS : crew' = Replace(crew, m, [m EXCEPT !.status = "dead"])
    BY <1>9 DEF MarkDead
  <2> QED
    BY <1>8, <2>1 DEF MarkDeadLHS
<1>10. CASE MarkEjected
  <2>1. PICK e \in ejections, m \in crew :
          Ejects(e, m) /\ crew' = Replace(crew, m, [m EXCEPT !.status = "ejected"])
    BY <1>10 DEF MarkEjected
  <2> QED
    BY <1>8, <2>1 DEF Ejects
<1>11. CASE BodyImpliesDeath
  BY <1>11 DEF BodyImpliesDeath
<1> QED
  BY <1>3, <1>4, <1>5, <1>6, <1>7, <1>9, <1>10, <1>11 DEF DossierRules

(* Every other step leaves the dossiers alone; none withdraws a report.    *)
LEMMA DossierFrame ==
  ASSUME [Next]_allVars
  PROVE  /\ DossierRules \/ crew' = crew
         /\ sightings \subseteq sightings' /\ dead \subseteq dead'
         /\ ejections \subseteq ejections'
<1>1. CASE FireRule
  <2>1. CASE DossierRules
    BY <2>1 DEF DossierRules, EnsureDossierAlive, UpdateLastSeen, CountTask,
       BodyImpliesDeath, EnsureDossierFromDeath, MarkDead,
       EnsureDossierFromEjection, MarkEjected, OtherLayers, inputVars
  <2>2. CASE CaseRules \/ RosterRules \/ PressureRules \/ StanceRules
    BY <2>2, CaseRulesFrame, RoundRulesFrame, StanceRulesFrame
    DEF inputVars, dossierVars
  <2> QED
    BY <1>1, <2>1, <2>2, FireByLayer
<1>2. CASE Observe
  BY <1>2 DEF Observe, ObservePlayer, ObserveVent, ObserveBody,
     ObserveTaskCompletion, ObserveDeath, ObserveEjection, ObserveRoundConfig,
     ChangeGraph, Observing
<1>3. CASE FdRun \/ EndRun \/ UNCHANGED allVars
  BY <1>3 DEF FdRun, EndRun, allVars, vars, inputVars, dossierVars
<1> QED
  BY <1>1, <1>2, <1>3 DEF Next

LEMMA DossierStep ==
  ASSUME TypeInv, DossierInv, [Next]_allVars
  PROVE  DossierInv'
<1> USE DEF DossierInv, OneDossier, Keyed, OfColor
<1>1. /\ sightings \subseteq sightings' /\ dead \subseteq dead'
      /\ ejections \subseteq ejections'
  BY DossierFrame
<1>2. ASSUME NEW n, Backed(n)
      PROVE  Backed(n)'
  BY <1>1, <1>2 DEF Backed
<1>3. \A m \in crew : Backed(m)
  BY DEF DossiersAreReported, Backed
<1>4. SUFFICES OneDossier' /\ \A m \in crew' : Backed(m)'
  BY DEF DossiersAreReported, Backed
<1>5. CASE crew' = crew
  BY <1>2, <1>3, <1>5
<1>6. ASSUME NEW n \in Crewmember, ~ Known(n.color), Backed(n), crew' = crew \cup {n}
      PROVE  OneDossier' /\ \A m \in crew' : Backed(m)'
  BY <1>2, <1>3, <1>6 DEF Known, About
<1>7. ASSUME NEW m \in crew, NEW n \in Crewmember, Continues(n, m), Backed(n),
             crew' = (crew \ {m}) \cup {n}
      PROVE  OneDossier' /\ \A k \in crew' : Backed(k)'
  BY <1>2, <1>3, <1>7 DEF Continues
<1> QED
  BY <1>5, <1>6, <1>7, DossierFrame, DossierEffect DEF TypeInv

LEMMA DossierAlways == Spec => [](TypeInv /\ DossierInv)
<1>1. Init => DossierInv
  BY DEF Init, WMInit, DossierInv, OneDossier, Keyed, DossiersAreReported
<1> QED
  BY <1>1, TypeInit, TypeStep, DossierStep, PTL DEF Spec

LEMMA CrewContinues ==
  ASSUME TypeInv, DossierInv, [Next]_allVars
  PROVE  \A m \in crew : \E n \in crew' : Continues(n, m)
<1> SUFFICES ASSUME NEW m \in crew
             PROVE  \E n \in crew' : Continues(n, m)
  OBVIOUS
<1>1. Continues(m, m)
  BY ContinuesItself DEF TypeInv, TypeOK
<1> QED
  BY <1>1, DossierFrame, DossierEffect DEF TypeInv, DossierInv

(* No late report of a sighting brings a color back to life, and neither   *)
(* what is known of its whereabouts nor its tasks ever go back             *)
(* (dossier.clp: update-last-seen, mark-dead, mark-ejected).               *)
THEOREM DeadStayDead == Spec => NoResurrection
<1>1. TypeInv /\ DossierInv /\ [Next]_allVars =>
        [\A m \in crew : \E n \in crew' :
           /\ n.color = m.color
           /\ Rank(n.status) >= Rank(m.status)
           /\ n.seen >= m.seen /\ n.tasks >= m.tasks]_allVars
  BY CrewContinues DEF Continues
<1> QED
  BY <1>1, DossierAlways, PTL DEF Spec, NoResurrection

(***************************************************************************)
(* Keys.  Dossiers, cases and windows have theirs from above; the other    *)
(* facts owe them to the (not ...) of the one rule that asserts them.      *)
(***************************************************************************)
StancesKeyed     == \A x, y \in stances : x.color = y.color => x = y
AlibisKeyed      == \A a, b \in alibis : a.color = b.color /\ a.victim = b.victim => a = b
SuspectsKeyed    == \A s, t \in suspects : s.color = t.color /\ s.victim = t.victim => s = t
AccusationsKeyed == \A x, y \in accusations : x.victim = y.victim => x = y
OneRoster        == \A q, r \in roster : q = r
CaseKeys == AlibisKeyed /\ SuspectsKeyed /\ AccusationsKeyed
KeyInv   == StancesKeyed /\ CaseKeys /\ OneRoster

LEMMA StanceKeyStep ==
  ASSUME TypeOK, StancesKeyed, StanceRules
  PROVE  StancesKeyed'
<1> USE DEF StancesKeyed
<1>1. ASSUME NEW x \in stances, NEW y, y.color = x.color, stances' = Replace(stances, x, y)
      PROVE  StancesKeyed'
  BY <1>1 DEF Replace
<1>2. CASE RetractStanceOnStatusChange
  BY <1>2 DEF RetractStanceOnStatusChange
<1>3. CASE StanceEnsure
  <2>1. PICK m \in StanceEnsureLHS :
          stances' = stances \cup {[color |-> m.color, category |-> "unknown",
                                    evidence |-> "none"]}
    BY <1>3 DEF StanceEnsure
  <2>2. \A x \in stances : x.color # m.color
    BY DEF StanceEnsureLHS, About
  <2> QED
    BY <2>1, <2>2
<1>4. ASSUME NEW x \in stances, NEW k, NEW e,
             stances' = Replace(stances, x, [x EXCEPT !.category = k, !.evidence = e])
      PROVE  StancesKeyed'
  <2>1. [x EXCEPT !.category = k, !.evidence = e].color = x.color
    BY DEF TypeOK, Stance
  <2> QED
    BY <1>1, <1>4, <2>1
<1>5. CASE ClearThreatsOnImpostorFound
  BY <1>4, <1>5 DEF ClearThreatsOnImpostorFound, ClearThreatsLHS
<1>6. CASE StanceAccuse
  BY <1>4, <1>6 DEF StanceAccuse, Promote, AccuseLHS
<1>7. CASE StanceThreatFromVent
  BY <1>4, <1>7 DEF StanceThreatFromVent, Promote, ThreatFromVentLHS
<1>8. CASE StanceThreat
  BY <1>4, <1>8 DEF StanceThreat, Promote, ThreatNearBodyLHS
<1>9. CASE StanceOffTask
  BY <1>4, <1>9 DEF StanceOffTask, Promote, OffTaskLHS
<1>10. CASE StanceOnTask
  BY <1>4, <1>10 DEF StanceOnTask, Promote, OnTaskLHS
<1> QED
  BY <1>2, <1>3, <1>5, <1>6, <1>7, <1>8, <1>9, <1>10 DEF StanceRules

LEMMA CaseKeyStep ==
  ASSUME TypeOK, CaseKeys, CaseRules
  PROVE  CaseKeys'
<1> USE DEF CaseKeys, AlibisKeyed, SuspectsKeyed, AccusationsKeyed
<1>1. CASE DeriveAlibi
  <2>1. PICK s \in sightings, w \in windows :
          /\ ~ HasAlibi(s.color, w.victim)
          /\ alibis' = alibis \cup {[color |-> s.color, victim |-> w.victim,
                                     room |-> s.room, tick |-> s.tick]}
    BY <1>1 DEF DeriveAlibi, SeenElsewhere
  <2> QED
    BY <1>1, <2>1 DEF DeriveAlibi, HasAlibi
<1>2. CASE UpdateKillWindowLower
  BY <1>2, NarrowEffect
<1>3. CASE OpenSuspectFromCrewmember
  <2>1. PICK m \in crew, k \in cases :
          /\ ~ IsSuspect(m.color, k.victim)
          /\ suspects' = suspects \cup {[color |-> m.color, victim |-> k.victim,
                                         basis |-> "no alibi yet"]}
          /\ accusations' \subseteq accusations
    BY <1>3 DEF OpenSuspectFromCrewmember, Opens, PoolChanged
  <2> DEFINE t == [color |-> m.color, victim |-> k.victim, basis |-> "no alibi yet"]
  <2>2. \A s \in suspects : ~ (s.color = t.color /\ s.victim = t.victim)
    BY <2>1 DEF IsSuspect
  <2>3. suspects' = suspects \cup {t} /\ accusations' \subseteq accusations
    BY <2>1
  <2> HIDE DEF t
  <2>4. SuspectsKeyed' /\ AccusationsKeyed'
    BY <2>2, <2>3
  <2> QED
    BY <1>3, <2>4 DEF OpenSuspectFromCrewmember
<1>4. CASE RetractSuspectOnCastIron
  <2>1. PICK s \in suspects :
          suspects' = suspects \ {s} /\ accusations' \subseteq accusations
    BY <1>4 DEF RetractSuspectOnCastIron, RetractSuspectLHS, PoolChanged
  <2> QED
    BY <1>4, <2>1 DEF RetractSuspectOnCastIron
<1>5. CASE StrengthenSuspect \/ WeakenSuspectOnWeakAlibi
  <2>1. PICK s \in suspects, b \in Basis : Explain(s, b)
    BY <1>5 DEF StrengthenSuspect, WeakenSuspectOnWeakAlibi, Basis
  <2> DEFINE t == [s EXCEPT !.basis = b]
  <2>2. t.color = s.color /\ t.victim = s.victim
    BY DEF TypeOK, Suspect
  <2>3. suspects' = (suspects \ {s}) \cup {t} /\ accusations' \subseteq accusations
    BY <2>1 DEF Explain, Replace, PoolChanged
  <2> HIDE DEF t
  <2>4. SuspectsKeyed' /\ AccusationsKeyed'
    BY <2>2, <2>3
  <2> QED
    BY <1>5, <2>4 DEF StrengthenSuspect, WeakenSuspectOnWeakAlibi
<1>6. CASE SolveCase
  <2>1. PICK s \in suspects :
          /\ InCase(accusations, s.victim) = {}
          /\ accusations' = accusations \cup {[victim |-> s.victim, color |-> s.color]}
    BY <1>6 DEF SolveCase, SolveCaseLHS
  <2> QED
    BY <1>6, <2>1 DEF SolveCase, InCase
<1>7. CASE UNCHANGED <<alibis, suspects, accusations>>
  BY <1>7
<1> QED
  BY <1>1, <1>2, <1>3, <1>4, <1>5, <1>6, <1>7 DEF CaseRules, CaseBand140, OpenCase,
     InitKillWindow, DeriveCastIronAlibi, AttachNearBody

LEMMA RosterStep ==
  ASSUME OneRoster, RosterRules \/ PressureRules \/ ObserveRoundConfig
  PROVE  OneRoster'
  BY DEF OneRoster, RosterRules, PressureRules, RosterEnsure, RosterRecount,
         PressureEnsure, PressureDerive, ObserveRoundConfig

LEMMA KeyStep ==
  ASSUME TypeInv, KeyInv, [Next]_allVars
  PROVE  KeyInv'
<1> USE DEF KeyInv, TypeInv
<1>1. ASSUME UNCHANGED <<alibis, suspects, accusations>> PROVE CaseKeys'
  BY <1>1 DEF CaseKeys, AlibisKeyed, SuspectsKeyed, AccusationsKeyed
<1>2. ASSUME UNCHANGED stances PROVE StancesKeyed'
  BY <1>2 DEF StancesKeyed
<1>3. ASSUME UNCHANGED roster PROVE OneRoster'
  BY <1>3 DEF OneRoster
<1>4. CASE CaseRules
  BY <1>2, <1>3, <1>4, CaseKeyStep, CaseRulesFrame DEF roundVars
<1>5. CASE StanceRules
  BY <1>1, <1>3, <1>5, StanceKeyStep, StanceRulesFrame DEF roundVars, caseVars
<1>6. CASE RosterRules \/ PressureRules
  BY <1>1, <1>2, <1>6, RosterStep, RoundRulesFrame DEF caseVars
<1>7. CASE DossierRules
  BY <1>1, <1>2, <1>3, <1>7, DossierRulesFrame DEF caseVars
<1>8. CASE Observe
  <2>1. UNCHANGED <<alibis, suspects, accusations, stances>>
    BY <1>8 DEF Observe, ObservePlayer, ObserveVent, ObserveBody,
       ObserveTaskCompletion, ObserveDeath, ObserveEjection, ObserveRoundConfig,
       ChangeGraph, Observing
  <2>2. UNCHANGED roster \/ ObserveRoundConfig
    BY <1>8 DEF Observe, ObservePlayer, ObserveVent, ObserveBody,
       ObserveTaskCompletion, ObserveDeath, ObserveEjection, ChangeGraph
  <2> QED
    BY <1>1, <1>2, <1>3, <2>1, <2>2, RosterStep
<1>9. CASE FdRun \/ EndRun \/ UNCHANGED allVars
  BY <1>1, <1>2, <1>3, <1>9 DEF FdRun, EndRun, allVars, vars, roundVars, caseVars
<1> QED
  BY <1>4, <1>5, <1>6, <1>7, <1>8, <1>9, FireByLayer DEF Next

(* No two facts of a template share a key, in any state and whatever the   *)
(* firing order: "the" dossier, alibi, suspect, stance ... of a color is   *)
(* well defined (the (not ...) CEs of the rules that assert).              *)
THEOREM KeysAlwaysUnique == Spec => []OneFactPerKey
<1>1. Init => KeyInv
  BY DEF Init, WMInit, KeyInv, StancesKeyed, CaseKeys, AlibisKeyed, SuspectsKeyed,
         AccusationsKeyed, OneRoster
<1>2. TypeInv /\ KeyInv /\ [Next]_allVars => KeyInv'
  BY KeyStep
<1>3. MaintInv /\ DossierInv /\ KeyInv => OneFactPerKey
  BY DEF MaintInv, CaseInv, OneCasePerVictim, OneWindowPerVictim, DossierInv, OneDossier,
         KeyInv, StancesKeyed, CaseKeys, AlibisKeyed, SuspectsKeyed, AccusationsKeyed,
         OneRoster, OneFactPerKey, Keyed, OfColor, OfVictim, OfPair
<1> QED
  BY <1>1, <1>2, <1>3, DossierAlways, MaintAlways, PTL DEF Spec

(***************************************************************************)
(* Verdicts.                                                               *)
(***************************************************************************)

(* What a promotion does, whichever rule promotes.                         *)
LEMMA PromoteEffect ==
  ASSUME TypeOK, NEW lhs, lhs \subseteq stances,
         NEW k \in Category, NEW e \in Evidence, Promote(lhs, k, e)
  PROVE  \E x \in lhs, y \in Stance :
           /\ y.color = x.color /\ y.category = k /\ y.evidence = e
           /\ stances' = (stances \ {x}) \cup {y}
<1>1. PICK x \in lhs :
        stances' = Replace(stances, x, [x EXCEPT !.category = k, !.evidence = e])
  BY DEF Promote
<1> DEFINE y == [x EXCEPT !.category = k, !.evidence = e]
<1>2. y \in Stance /\ y.color = x.color /\ y.category = k /\ y.evidence = e
  BY DEF TypeOK, Stance
<1>3. stances' = (stances \ {x}) \cup {y}
  BY <1>1 DEF Replace
<1> HIDE DEF y
<1> QED
  BY <1>2, <1>3

LEMMA StancesFrame ==
  ASSUME [Next]_allVars
  PROVE  \/ FireRule /\ StanceRules
         \/ UNCHANGED stances
<1>1. CASE FireRule
  BY <1>1, FireByLayer, CaseRulesFrame, DossierRulesFrame, RoundRulesFrame
<1>2. CASE Observe
  BY <1>2 DEF Observe, ObservePlayer, ObserveVent, ObserveBody,
     ObserveTaskCompletion, ObserveDeath, ObserveEjection, ObserveRoundConfig,
     ChangeGraph, Observing
<1>3. CASE FdRun \/ EndRun \/ UNCHANGED allVars
  BY <1>3 DEF FdRun, EndRun, allVars, vars
<1> QED
  BY <1>1, <1>2, <1>3 DEF Next

(* A near-body threat is drawn only when no alibi of its color can still   *)
(* turn cast-iron (cases.clp header; stance.clp: stance-threat).           *)
THEOREM ThreatsAlwaysAfterAlibis == Spec => ThreatAfterAlibis
<1>1. ASSUME TypeInv, [Next]_allVars,
             NEW y \in stances', y \notin stances, y.evidence = "near-body"
      PROVE  Quiet110
  <2> USE DEF TypeInv
  <2>1. FireRule /\ StanceRules
    BY <1>1, StancesFrame
  <2>2. ASSUME NEW lhs, lhs \subseteq stances, NEW k \in Category,
               NEW e \in Evidence \ {"near-body"}, Promote(lhs, k, e)
        PROVE  FALSE
    BY <1>1, <2>2, PromoteEffect
  <2>3. ~ ClearThreatsOnImpostorFound
    <3> SUFFICES ASSUME ClearThreatsOnImpostorFound PROVE FALSE
      OBVIOUS
    <3>1. Promote(ClearThreatsLHS, "unknown", "none")
      BY DEF ClearThreatsOnImpostorFound, Promote
    <3> QED
      BY <2>2, <3>1 DEF ClearThreatsLHS, Category, Evidence
  <2>4. ~ StanceAccuse
    BY <2>2 DEF StanceAccuse, AccuseLHS, Category, Evidence
  <2>5. ~ StanceThreatFromVent
    BY <2>2 DEF StanceThreatFromVent, ThreatFromVentLHS, Category, Evidence
  <2>6. ~ StanceOffTask
    BY <2>2 DEF StanceOffTask, OffTaskLHS, Category, Evidence
  <2>7. ~ StanceOnTask
    BY <2>2 DEF StanceOnTask, OnTaskLHS, Category, Evidence
  <2>8. ~ RetractStanceOnStatusChange
    BY <1>1 DEF RetractStanceOnStatusChange
  <2>9. ~ StanceEnsure
    BY <1>1 DEF StanceEnsure
  <2>10. ~ (CaseRules \/ DossierRules \/ RosterRules \/ PressureRules)
    BY <1>1, CaseRulesFrame, DossierRulesFrame, RoundRulesFrame
  <2> QED
    BY <2>1, <2>3, <2>4, <2>5, <2>6, <2>7, <2>8, <2>9, <2>10 DEF FireRule, CaseRules
<1>2. Quiet110 => ~ EvidencePending
  BY DEF Quiet110, Quiet120, Quiet130, Quiet140, Case140
<1>3. TypeInv /\ [Next]_allVars =>
        [\A y \in stances' :
           (y \notin stances /\ y.evidence = "near-body") =>
             \A a \in About(alibis, y.color), w \in windows :
               ~ (Unbreakable(a, w) /\ ~ HasCastIron(a.color, a.victim))]_allVars
  BY <1>1, <1>2 DEF EvidencePending, About
<1> QED
  BY <1>3, DossierAlways, PTL DEF Spec, ThreatAfterAlibis

(***************************************************************************)
(* Cases.  A case is about a body somebody reported.                       *)
(***************************************************************************)
CasesAreBodies ==
  \A k \in cases : \E b \in bodies :
    b.color = k.victim /\ b.room = k.room /\ b.tick = k.tick

LEMMA CasesStep ==
  ASSUME CasesAreBodies, [Next]_allVars
  PROVE  CasesAreBodies'
<1> USE DEF CasesAreBodies
<1>1. CASE OpenCase
  <2>1. PICK b \in bodies :
          cases' = cases \cup {[victim |-> b.color, room |-> b.room, tick |-> b.tick]}
    BY <1>1 DEF OpenCase, OpenCaseLHS
  <2>2. UNCHANGED bodies
    BY <1>1 DEF OpenCase, Untouched, inputVars
  <2> QED
    BY <2>1, <2>2
<1>2. CASE cases' = cases /\ bodies \subseteq bodies'
  BY <1>2
<1>3. CASE CaseRules
  <2>1. UNCHANGED bodies
    BY <1>3, CaseRulesFrame DEF inputVars
  <2> QED
    BY <1>1, <1>2, <1>3, <2>1 DEF CaseRules, CaseBand140, InitKillWindow,
       UpdateKillWindowLower, DeriveAlibi, DeriveCastIronAlibi, AttachNearBody,
       OpenSuspectFromCrewmember, RetractSuspectOnCastIron, StrengthenSuspect,
       SolveCase, WeakenSuspectOnWeakAlibi
<1>4. CASE DossierRules \/ RosterRules \/ PressureRules \/ StanceRules
  BY <1>2, <1>4, DossierRulesFrame, RoundRulesFrame, StanceRulesFrame
  DEF inputVars, caseVars
<1>5. CASE Observe
  BY <1>2, <1>5 DEF Observe, ObservePlayer, ObserveVent, ObserveBody,
     ObserveTaskCompletion, ObserveDeath, ObserveEjection, ObserveRoundConfig,
     ChangeGraph, Observing
<1>6. CASE FdRun \/ EndRun \/ UNCHANGED allVars
  BY <1>2, <1>6 DEF FdRun, EndRun, allVars, vars, inputVars, caseVars
<1> QED
  BY <1>3, <1>4, <1>5, <1>6, FireByLayer DEF Next

LEMMA CasesAlways == Spec => []CasesAreBodies
<1>1. Init => CasesAreBodies
  BY DEF Init, WMInit, CasesAreBodies
<1> QED
  BY <1>1, CasesStep, PTL DEF Spec
(***************************************************************************)
(* What every query may rely on: the answers at the fixpoint of fd_run,    *)
(* for every value of the constants.  An empty agenda says that no rule    *)
(* matches; with truth maintenance that pins down pools, windows and       *)
(* accusations exactly.                                                    *)
(***************************************************************************)
LEMMA AgendaEmptyMeans ==
  ASSUME Fixpoint
  PROVE  ~ Case150 /\ ~ EvidencePending /\ ~ PoolPending /\ ~ Dossier0
  BY DEF Fixpoint, AgendaEmpty, Quiet0, Quiet10, Quiet20, Quiet100, Quiet110,
         Quiet120, Quiet130, Quiet140, Quiet150, Case140

(* An empty pool agenda settles every color (cases.clp).                   *)
LEMMA PoolComplete == PoolIsComplete
<1> SUFFICES ASSUME Fixpoint
             PROVE  /\ self # Nobody =>
                         \A m \in crew, k \in cases :
                           (m.status = "alive" /\ m.color \notin {k.victim, self})
                           => (IsSuspect(m.color, k.victim) # HasCastIron(m.color, k.victim))
                    /\ \A s \in suspects : ~ HasCastIron(s.color, s.victim)
  BY DEF PoolIsComplete
<1>1. \A s \in suspects : ~ HasCastIron(s.color, s.victim)
  BY AgendaEmptyMeans DEF PoolPending, RetractSuspectLHS
<1>2. ASSUME self # Nobody, NEW m \in crew, NEW k \in cases,
             m.status = "alive", m.color \notin {k.victim, self}
      PROVE  IsSuspect(m.color, k.victim) # HasCastIron(m.color, k.victim)
  <2>1. ~ Opens(m, k)
    BY AgendaEmptyMeans DEF PoolPending
  <2>2. HasCastIron(m.color, k.victim) \/ IsSuspect(m.color, k.victim)
    BY <1>2, <2>1 DEF Opens, Eligible
  <2>3. ~ (HasCastIron(m.color, k.victim) /\ IsSuspect(m.color, k.victim))
    BY <1>1 DEF IsSuspect
  <2> QED
    BY <2>2, <2>3 DEF IsSuspect, HasCastIron
<1> QED
  BY <1>1, <1>2

(* At the fixpoint every eligible color is either a suspect or cleared,    *)
(* never both (cases.clp: the suspect pool rules).                         *)
THEOREM PoolAlwaysComplete == Spec => []PoolIsComplete
  BY PoolComplete, PTL

(* No solve-case left to fire, and accusations that hold.                  *)
LEMMA LoneSuspect == MaintInv => LoneSuspectIsAccused
<1> SUFFICES ASSUME MaintInv, Fixpoint, NEW k \in cases
             PROVE  LET pool == {s.color : s \in InCase(suspects, k.victim)}
                    IN  {x.color : x \in InCase(accusations, k.victim)} =
                        IF \E c \in pool : pool = {c} THEN pool ELSE {}
  BY DEF LoneSuspectIsAccused
<1> DEFINE pool == {s.color : s \in InCase(suspects, k.victim)}
           accused == {x.color : x \in InCase(accusations, k.victim)}
<1>1. \A x \in InCase(accusations, k.victim) : pool = {x.color}
  BY DEF MaintInv, CaseInv, AccusationHolds, InCase
<1>2. ASSUME NEW c \in pool, pool = {c}
      PROVE  accused = pool
  <2>1. PICK s \in suspects : s.victim = k.victim /\ s.color = c
    BY <1>2 DEF InCase
  <2>2. \A x \in InCase(suspects, s.victim) : x.color = s.color
    BY <1>2, <2>1
  <2>3. InCase(cases, s.victim) # {}
    BY <2>1 DEF InCase
  <2>4. SolveCaseLHS = {}
    BY AgendaEmptyMeans DEF PoolPending
  <2>5. InCase(accusations, k.victim) # {}
    BY <2>1, <2>2, <2>3, <2>4 DEF SolveCaseLHS
  <2> QED
    BY <1>1, <1>2, <2>5
<1>3. ASSUME ~ \E c \in pool : pool = {c}
      PROVE  accused = {}
  BY <1>1, <1>3
<1> QED
  BY <1>2, <1>3

(* At the fixpoint a case is closed exactly when its pool holds one color, *)
(* and against that color (cases.clp: solve-case).                         *)
THEOREM LoneSuspectAlwaysAccused == Spec => []LoneSuspectIsAccused
  BY LoneSuspect, MaintAlways, PTL

(* The case file can be read line by line: everybody is in the pool or     *)
(* cleared, a cleared line quotes an alibi inside the window printed above *)
(* it, the murderer is the one suspect left (fd_render.c: fd_render_case). *)
THEOREM CaseFileAlwaysTrue == Spec => []CaseFileIsTrue
<1>1. MaintInv => CaseFileIsTrue
  <2> SUFFICES ASSUME MaintInv, Fixpoint, self # Nobody, NEW k \in cases
               PROVE  LET v       == k.victim
                          cleared == {l.color : l \in ClearedLines(v)}
                          others  == {m.color : m \in {n \in crew : n.status = "alive"}}
                                     \ {v, self}
                      IN  /\ others \subseteq SuspectLines(v) \cup cleared
                          /\ SuspectLines(v) \cap cleared = {}
                          /\ \A l \in ClearedLines(v) :
                               \E a \in l.quoting, w \in InCase(windows, v) :
                                 /\ a.room # w.room /\ Within(a.tick, w)
                                 /\ [color |-> l.color, room |-> a.room, tick |-> a.tick]
                                      \in sightings
                          /\ \A c \in Colors : c \in RevealLine(v) <=> SuspectLines(v) = {c}
    BY DEF CaseFileIsTrue
  <2> DEFINE v       == k.victim
             cleared == {l.color : l \in ClearedLines(v)}
             others  == {m.color : m \in {n \in crew : n.status = "alive"}} \ {v, self}
  <2>1. \A i \in castIron : i = [color |-> i.color, victim |-> i.victim]
    BY DEF MaintInv, TypeInv, TypeOK, CastIron
  <2>2. ASSUME NEW c
        PROVE  c \in cleared <=> \E i \in castIron : i.victim = v /\ i.color = c
    <3>1. \A i : [color |-> i.color, quoting |-> FindAlibi(i.color, v)].color = i.color
      OBVIOUS
    <3>2. c \in cleared <=> \E i \in InCase(castIron, v) : i.color = c
      BY <3>1 DEF ClearedLines
    <3> QED
      BY <3>2 DEF InCase
  <2>3. ASSUME NEW c
        PROVE  c \in cleared <=> HasCastIron(c, v)
    <3>1. c \in cleared <=> \E i \in castIron : i.victim = v /\ i.color = c
      BY <2>2
    <3>2. (\E i \in castIron : i.victim = v /\ i.color = c)
          <=> [color |-> c, victim |-> v] \in castIron
      BY <2>1
    <3> QED
      BY <3>1, <3>2 DEF HasCastIron
  <2>4. \A c : c \in SuspectLines(v) <=> IsSuspect(c, v)
    BY DEF SuspectLines, IsSuspect, InCase
  <2>5. ASSUME NEW c \in others
        PROVE  c \in SuspectLines(v) \cup cleared
    <3>1. PICK m \in crew : m.status = "alive" /\ m.color = c
      OBVIOUS
    <3>2. m.color \notin {k.victim, self}
      BY <2>5, <3>1
    <3>3. ~ Opens(m, k)
      BY AgendaEmptyMeans DEF PoolPending
    <3>4. IsSuspect(m.color, k.victim) \/ HasCastIron(m.color, k.victim)
      BY <3>1, <3>2, <3>3 DEF Opens, Eligible
    <3>5. m.color \in SuspectLines(v) \/ m.color \in cleared
      BY <2>3, <2>4, <3>4
    <3> QED
      BY <3>1, <3>5
  <2>6. \A s \in suspects : ~ HasCastIron(s.color, s.victim)
    BY PoolComplete DEF PoolIsComplete
  <2>7. SuspectLines(v) \cap cleared = {}
    BY <2>3, <2>4, <2>6 DEF IsSuspect
  <2>8. ASSUME NEW l \in ClearedLines(v)
        PROVE  \E a \in l.quoting, w \in InCase(windows, v) :
                 /\ a.room # w.room /\ Within(a.tick, w)
                 /\ [color |-> l.color, room |-> a.room, tick |-> a.tick] \in sightings
    <3>1. PICK i \in castIron :
            i.victim = v /\ l = [color |-> i.color, quoting |-> FindAlibi(i.color, v)]
      BY DEF ClearedLines, InCase
    <3>2. PICK a \in alibis : a.color = i.color /\ a.victim = v
      BY <3>1 DEF MaintInv, CaseInv, CastIronHolds
    <3>3. PICK w \in windows : w.victim = v /\ w.room # a.room /\ Within(a.tick, w)
      BY <3>2 DEF MaintInv, CaseInv, AlibiHolds
    <3>4. [color |-> a.color, room |-> a.room, tick |-> a.tick] \in sightings
      BY <3>2 DEF MaintInv, CaseInv, AlibiHolds
    <3>5. a \in l.quoting /\ w \in InCase(windows, v) /\ l.color = a.color
      BY <3>1, <3>2, <3>3 DEF FindAlibi, InCase
    <3> QED
      BY <3>3, <3>4, <3>5
  <2>9. ASSUME NEW c \in Colors
        PROVE  c \in RevealLine(v) <=> SuspectLines(v) = {c}
    <3>1. RevealLine(v) =
            IF \E d \in SuspectLines(v) : SuspectLines(v) = {d}
            THEN SuspectLines(v) ELSE {}
      BY LoneSuspect DEF LoneSuspectIsAccused, RevealLine, SuspectLines
    <3> QED
      BY <3>1
  <2> QED
    BY <2>5, <2>7, <2>8, <2>9
<1> QED
  BY <1>1, MaintAlways, PTL

(* A window only ever opens at 0 or at a sighting of its victim from before*)
(* the body was found.                                                     *)
WindowsOpenAtSightings ==
  \A w \in windows : w.from \in LastSeenBefore(w.victim, w.to) \cup {0}

LEMMA OpeningStep ==
  ASSUME MaintInv, WindowsOpenAtSightings, [Next]_allVars
  PROVE  WindowsOpenAtSightings'
<1> USE DEF WindowsOpenAtSightings, LastSeenBefore, About
<1>1. CASE InitKillWindow
  <2>1. PICK k \in cases :
          windows' = windows \cup {[victim |-> k.victim, from |-> 0,
                                    to |-> k.tick, room |-> k.room]}
    BY <1>1 DEF InitKillWindow, InitKillWindowLHS
  <2>2. UNCHANGED sightings
    BY <1>1 DEF InitKillWindow, Untouched, inputVars
  <2> QED
    BY <2>1, <2>2
<1>2. CASE UpdateKillWindowLower
  <2>1. PICK s \in sightings, w \in windows, u \in KillWindow :
          /\ Narrows(s, w)
          /\ u.victim = w.victim /\ u.room = w.room /\ u.to = w.to
          /\ u.from = s.tick
          /\ windows' = (windows \ {w}) \cup {u}
    BY <1>2, NarrowEffect DEF MaintInv, TypeInv
  <2>2. u.from \in LastSeenBefore(u.victim, u.to)
    BY <2>1 DEF Narrows
  <2>3. UNCHANGED sightings
    BY <1>2 DEF UpdateKillWindowLower, Untouched, inputVars
  <2> QED
    BY <2>1, <2>2, <2>3
<1>3. CASE windows' = windows /\ sightings \subseteq sightings'
  BY <1>3
<1>4. CASE DossierRules \/ RosterRules \/ PressureRules \/ StanceRules
  BY <1>3, <1>4, DossierRulesFrame, RoundRulesFrame, StanceRulesFrame
  DEF inputVars, caseVars
<1>5. CASE CaseRules
  <2>1. sightings' = sightings
    BY <1>5, CaseRulesFrame DEF inputVars
  <2> QED
    BY <1>1, <1>2, <1>3, <1>5, <2>1 DEF CaseRules, CaseBand140, OpenCase,
       DeriveAlibi, DeriveCastIronAlibi, AttachNearBody,
       OpenSuspectFromCrewmember, RetractSuspectOnCastIron, StrengthenSuspect,
       SolveCase, WeakenSuspectOnWeakAlibi
<1>6. CASE Observe
  BY <1>3, <1>6, ObserveEffect
<1>7. CASE FdRun \/ EndRun \/ UNCHANGED allVars
  BY <1>3, <1>7 DEF FdRun, EndRun, allVars, vars, inputVars, caseVars
<1> QED
  BY <1>4, <1>5, <1>6, <1>7, FireByLayer DEF Next

LEMMA OpeningsAlways == Spec => [](MaintInv /\ WindowsOpenAtSightings)
<1>1. Init => WindowsOpenAtSightings
  BY DEF Init, WMInit, WindowsOpenAtSightings
<1> QED
  BY <1>1, OpeningStep, MaintAlways, PTL DEF Spec

(* At the fixpoint every body has a window that opens exactly at its       *)
(* victim's latest earlier sighting (cases.clp: update-kill-window-lower). *)
THEOREM WindowAlwaysTight == Spec => []WindowIsTight
<1>1. MaintInv /\ WindowsOpenAtSightings => WindowIsTight
  <2> SUFFICES ASSUME MaintInv, WindowsOpenAtSightings, Fixpoint, NEW b \in bodies
               PROVE  \E w \in InCase(windows, b.color) :
                        /\ w.from \in LastSeenBefore(b.color, w.to) \cup {0}
                        /\ \A t \in LastSeenBefore(b.color, w.to) : t <= w.from
    BY DEF WindowIsTight
  <2>1. PICK k \in cases : k.victim = b.color
    BY AgendaEmptyMeans DEF EvidencePending, OpenCaseLHS, InCase
  <2>2. PICK w \in windows : w.victim = b.color
    BY <2>1, AgendaEmptyMeans DEF EvidencePending, InitKillWindowLHS, InCase
  <2>3. \A s \in sightings : ~ Narrows(s, w)
    BY AgendaEmptyMeans DEF Case150
  <2>4. ASSUME NEW s \in sightings, s.color = b.color, s.tick < w.to
        PROVE  s.tick <= w.from
    <3>1. ~ (w.from < s.tick)
      BY <2>2, <2>3, <2>4 DEF Narrows
    <3>2. w.from \in Nat /\ s.tick \in Nat
      BY DEF MaintInv, TypeInv, TypeOK, KillWindow, Sighting
    <3> QED
      BY <3>1, <3>2
  <2>5. \A t \in LastSeenBefore(b.color, w.to) : t <= w.from
    BY <2>4 DEF LastSeenBefore, About
  <2> QED
    BY <2>2, <2>5 DEF WindowsOpenAtSightings, InCase
<1> QED
  BY <1>1, OpeningsAlways, PTL

(***************************************************************************)
(* Walkers.  What the cases make of the players behind the reports.        *)
(***************************************************************************)

(* A window covers every moment at which the death of its case may have    *)
(* been caused.                                                            *)
LEMMA WindowCovers ==
  ASSUME MaintInv, WindowsOpenAtSightings, NEW k \in cases, NEW w \in windows,
         w.victim = k.victim, NEW t \in AfterLastSeen(k)
  PROVE  w.room = k.room /\ t \in w.from .. w.to
<1> USE DEF MaintInv, CaseInv, TypeInv, TypeOK
<1>1. w.room = k.room /\ w.to = k.tick
  BY DEF WindowsMatchCases, OneCasePerVictim
<1>2. w.from \in Nat /\ w.to \in Nat /\ t \in Int
  BY DEF KillWindow, AfterLastSeen
<1>3. 0 <= t /\ t <= w.to
  BY <1>1, <1>2 DEF AfterLastSeen, Case
<1>4. w.from <= t
  BY <1>1, <1>3 DEF WindowsOpenAtSightings, AfterLastSeen
<1> QED
  BY <1>1, <1>2, <1>3, <1>4

LEMMA CulpritUncleared ==
  ASSUME MaintInv, WindowsOpenAtSightings, NEW k \in cases, NEW c \in Colors,
         CouldHaveDone(c, k)
  PROVE  ~ HasCastIron(c, k.victim)
<1> SUFFICES ASSUME HasCastIron(c, k.victim)
             PROVE  FALSE
  OBVIOUS
<1> DEFINE i == [color |-> c, victim |-> k.victim]
<1>1. i \in castIron /\ i.color = c /\ i.victim = k.victim
  BY DEF HasCastIron
<1> HIDE DEF i
<1>2. PICK a \in alibis, w \in windows :
        a.color = i.color /\ a.victim = i.victim /\ Unbreakable(a, w)
  BY <1>1 DEF MaintInv, CaseInv, CastIronHolds
<1>3. w.victim = k.victim
  BY <1>1, <1>2 DEF Unbreakable
<1>4. About(vents, c) = {}
  BY <1>1, ClearedInnocent DEF ClearedAreInnocent
<1>5. PICK t \in AfterLastSeen(k) : CouldBeIn(c, k.room, t)
  BY <1>4 DEF CouldHaveDone
<1>6. w.room = k.room /\ t \in w.from .. w.to
  BY <1>3, WindowCovers
<1>7. ~ CouldBeIn(c, w.room, t)
  BY <1>1, <1>3, <1>6, ClearedInnocent DEF ClearedAreInnocent, InCase
<1> QED
  BY <1>5, <1>6, <1>7

(* The pool of a case loses nobody but those who could not have done it,   *)
(* so whom the case names is the only one who could (cases.clp: open-case  *)
(* to solve-case).                                                         *)
THEOREM CulpritNeverMissed == Spec => []CulpritIsNotMissed
<1>1. MaintInv /\ WindowsOpenAtSightings => CulpritIsNotMissed
  <2> SUFFICES ASSUME MaintInv, WindowsOpenAtSightings, Fixpoint, self # Nobody,
                      NEW k \in cases, NEW m \in crew, m.status = "alive",
                      m.color \notin {k.victim, self}, CouldHaveDone(m.color, k)
               PROVE  /\ IsSuspect(m.color, k.victim)
                      /\ \A x \in InCase(accusations, k.victim) : x.color = m.color
    BY DEF CulpritIsNotMissed
  <2>1. m.color \in Colors
    BY DEF MaintInv, TypeInv, TypeOK, Crewmember
  <2>2. IsSuspect(m.color, k.victim)
    <3>1. ~ HasCastIron(m.color, k.victim)
      BY <2>1, CulpritUncleared
    <3>2. ~ Opens(m, k)
      BY AgendaEmptyMeans DEF PoolPending
    <3> QED
      BY <3>1, <3>2 DEF Opens, Eligible
  <2>3. \A x \in InCase(accusations, k.victim) : x.color = m.color
    BY <2>2 DEF MaintInv, CaseInv, AccusationHolds, IsSuspect, InCase
  <2> QED
    BY <2>2, <2>3
<1> QED
  BY <1>1, OpeningsAlways, PTL

(* What is in memory was reported, and the rules measure by a map that the *)
(* round has or had.                                                       *)
MemoryIsReported ==
  /\ sightings \subseteq SightingReports /\ bodies \subseteq BodyReports
  /\ walk \in Maps /\ \E m \in Maps : distances = Published(m)

LEMMA ReportedAlways == Spec => []MemoryIsReported
<1>1. Init => MemoryIsReported
  BY DEF Init, WMInit, MemoryIsReported
<1>2. ASSUME MemoryIsReported, [Next]_allVars
      PROVE  MemoryIsReported'
  <2> USE DEF MemoryIsReported
  <2>1. CASE UNCHANGED <<sightings, bodies, walk, distances>>
    BY <1>2, <2>1
  <2>2. CASE Observe
    BY <1>2, <2>2 DEF Observe, ObservePlayer, ObserveVent, ObserveBody,
       ObserveTaskCompletion, ObserveDeath, ObserveEjection, ObserveRoundConfig,
       ChangeGraph, Observing, cVars
  <2>3. CASE FdRun
    BY <1>2, <2>3 DEF FdRun, PublishAnew
  <2>4. CASE FireRule
    <3>1. UNCHANGED walk
      BY <2>4 DEF FireRule, cVars
    <3> QED
      BY <2>1, <2>4, <3>1, FireByLayer, CaseRulesFrame, DossierRulesFrame,
         RoundRulesFrame, StanceRulesFrame DEF inputVars
  <2>5. CASE EndRun \/ UNCHANGED allVars
    BY <2>1, <2>5 DEF EndRun, allVars, vars, inputVars, cVars
  <2> QED
    BY <1>2, <2>2, <2>3, <2>4, <2>5 DEF Next
<1> QED
  BY <1>1, <1>2, PTL DEF Spec

(* Whoever walks and is reported where it is could, by the reports, be     *)
(* where it is.                                                            *)
LEMMA WalkerCouldBe ==
  ASSUME TypeInv, MemoryIsReported, NEW c \in Colors, NEW path, IsPath(path),
         Walks(path), TrulySighted(c, path), NEW t \in DOMAIN path
  PROVE  CouldBeIn(c, path[t], t)
<1>1. PICK m \in Maps : distances = Published(m)
  BY DEF MemoryIsReported
<1> SUFFICES ASSUME NEW s \in About(sightings, c), s.room # path[t],
                    distances[<<s.room, path[t]>>] # NoFact
             PROVE  InTime(distances[<<s.room, path[t]>>], s.tick, t)
  BY DEF CouldBeIn
<1>2. s.tick \in DOMAIN path /\ s.room = path[s.tick]
  BY DEF MemoryIsReported, TrulySighted, LiesOn, About
<1>3. <<s.room, path[t]>> \in Place \X Place
  BY <1>2 DEF IsPath
<1>4. distances[<<s.room, path[t]>>] = m[<<s.room, path[t]>>]
  BY <1>1, <1>3 DEF Published
<1>5. ~ TooFast(m, PositionOn(path, s.tick), PositionOn(path, t))
  BY <1>2 DEF Walks, WalksOn
<1> QED
  BY <1>2, <1>4, <1>5 DEF TooFast, PositionOn

(* A killer who walks, whose sightings are true and whose victim and its   *)
(* body are reported truly, is never cleared of the murder and never       *)
(* hidden behind another: in every state, in whatever order the reports,   *)
(* the runs and the changes of the map come, as long as the walk is one on *)
(* all of these maps (cases.clp).                                          *)
THEOREM KillerNeverCleared ==
  ASSUME NEW c \in Colors, NEW v \in Colors \ {c}, NEW path, NEW t,
         IsPath(path), Walks(path), t \in DOMAIN path, TrulySighted(c, path),
         TrulyReported(v, path[t], t)
  PROVE  Spec => []StaysSuspected(c, v)
<1>1. ASSUME TypeInv, MemoryIsReported, CasesAreBodies, MaintInv,
             WindowsOpenAtSightings, CulpritIsNotMissed
      PROVE  StaysSuspected(c, v)
  <2>1. t \in Nat
    BY DEF IsPath
  <2>2. CouldBeIn(c, path[t], t)
    BY <1>1, WalkerCouldBe
  <2>3. ASSUME NEW k \in cases, k.victim = v
        PROVE  CouldHaveDone(c, k)
    <3>1. k.room = path[t] /\ t <= k.tick /\ k.tick \in Nat
      BY <1>1, <2>3 DEF CasesAreBodies, MemoryIsReported, TrulyReported, About,
                        TypeInv, TypeOK, Case
    <3>2. \A u \in LastSeenBefore(v, k.tick) : u <= t
      BY <1>1 DEF LastSeenBefore, MemoryIsReported, TrulyReported, About
    <3>3. t \in AfterLastSeen(k)
      BY <2>1, <2>3, <3>1, <3>2 DEF AfterLastSeen
    <3> QED
      BY <2>2, <3>1, <3>3 DEF CouldHaveDone
  <2>4. ~ HasCastIron(c, v)
    <3>1. ASSUME HasCastIron(c, v)
          PROVE  \E k \in cases : k.victim = v
      <4> DEFINE i == [color |-> c, victim |-> v]
      <4>1. i \in castIron /\ i.victim = v
        BY <3>1 DEF HasCastIron
      <4> HIDE DEF i
      <4>2. PICK a \in alibis, w \in windows : a.victim = v /\ Unbreakable(a, w)
        BY <1>1, <4>1 DEF MaintInv, CaseInv, CastIronHolds
      <4> QED
        BY <1>1, <4>2 DEF MaintInv, CaseInv, WindowsMatchCases, Unbreakable
    <3> QED
      BY <1>1, <2>3, <3>1, CulpritUncleared
  <2>5. ASSUME Fixpoint, self # Nobody, Alive(c), c # self, NEW k \in InCase(cases, v)
        PROVE  IsSuspect(c, v) /\ \A x \in InCase(accusations, v) : x.color = c
    <3>1. k \in cases /\ k.victim = v
      BY DEF InCase
    <3>2. PICK m \in crew : m.color = c /\ m.status = "alive"
      BY <2>5 DEF Alive
    <3> QED
      BY <1>1, <2>3, <2>5, <3>1, <3>2 DEF CulpritIsNotMissed
  <2> QED
    BY <2>4, <2>5 DEF StaysSuspected
<1>2. MaintInv => TypeInv
  BY DEF MaintInv
<1> QED
  BY <1>1, <1>2, ReportedAlways, CasesAlways, OpeningsAlways, CulpritNeverMissed, PTL

(***************************************************************************)
(* Vents.  An inferred vent has two sightings behind it that no walk       *)
(* explains.                                                               *)
(***************************************************************************)
LastIsSighting ==
  \A c \in Colors :
    lastSighting[c] # NoSighting =>
      [color |-> c, room |-> lastSighting[c].room, tick |-> lastSighting[c].tick]
        \in sightings

LEMMA VentsStep ==
  ASSUME TypeInv, MemoryIsReported, LastIsSighting, VentsNeedMoves, [Next]_allVars
  PROVE  LastIsSighting' /\ VentsNeedMoves'
<1>1. CASE UNCHANGED <<sightings, vents, lastSighting>>
  BY <1>1 DEF LastIsSighting, VentsNeedMoves, MovedImpossibly, About
<1>2. CASE sightings \subseteq sightings' /\ UNCHANGED <<vents, lastSighting>>
  BY <1>2 DEF LastIsSighting, VentsNeedMoves, MovedImpossibly, About
<1>3. CASE ObserveVent
  <2>1. PICK c \in VentReports : vents' = vents \cup {[color |-> c, basis |-> "observed"]}
    BY <1>3 DEF ObserveVent, AssertVent
  <2>2. UNCHANGED <<sightings, lastSighting>>
    BY <1>3 DEF ObserveVent, cVars
  <2> QED
    BY <2>1, <2>2 DEF LastIsSighting, VentsNeedMoves, MovedImpossibly, About
<1>4. CASE ObservePlayer
  <2>1. PICK s \in SightingReports :
          /\ IF ImpossibleMove(s) THEN AssertVent(s.color, "inferred")
                                  ELSE UNCHANGED <<vents, castIron>>
          /\ sightings' = sightings \cup {s}
          /\ lastSighting' = [lastSighting EXCEPT ![s.color] =
                                [room |-> s.room, tick |-> s.tick]]
    BY <1>4 DEF ObservePlayer
  <2>2. s \in Sighting
    BY <2>1, ReportsOK
  <2>3. LastIsSighting'
    <3> SUFFICES ASSUME NEW c \in Colors, lastSighting'[c] # NoSighting
                 PROVE  [color |-> c, room |-> lastSighting'[c].room,
                         tick |-> lastSighting'[c].tick] \in sightings'
      BY DEF LastIsSighting
    <3>1. CASE c = s.color
      <4>1. lastSighting'[c] = [room |-> s.room, tick |-> s.tick]
        BY <2>1, <3>1 DEF TypeInv, Support
      <4>2. s = [color |-> c, room |-> s.room, tick |-> s.tick]
        BY <2>2, <3>1 DEF Sighting
      <4> QED
        BY <2>1, <4>1, <4>2
    <3>2. CASE c # s.color
      <4>1. lastSighting'[c] = lastSighting[c]
        BY <2>1, <3>2 DEF TypeInv, Support
      <4> QED
        BY <2>1, <4>1 DEF LastIsSighting
    <3> QED
      BY <3>1, <3>2
  <2>4. \A c \in Colors : MovedImpossibly(c) => MovedImpossibly(c)'
    BY <2>1 DEF MovedImpossibly, About
  <2>5. ASSUME ImpossibleMove(s)
        PROVE  MovedImpossibly(s.color)'
    <3> DEFINE c == s.color
               p == [color |-> c, room |-> lastSighting[c].room,
                     tick |-> lastSighting[c].tick]
    <3>1. /\ lastSighting[c] # NoSighting /\ s.tick >= lastSighting[c].tick
          /\ s.room # lastSighting[c].room
          /\ walk[<<lastSighting[c].room, s.room>>] \notin {NoFact, Unreachable}
          /\ walk[<<lastSighting[c].room, s.room>>] > s.tick - lastSighting[c].tick
      BY <2>5 DEF ImpossibleMove
    <3>2. p \in sightings
      BY <2>2, <3>1 DEF LastIsSighting, Sighting
    <3>3. p.room = lastSighting[c].room /\ p.tick = lastSighting[c].tick /\ p.color = c
      OBVIOUS
    <3> HIDE DEF p
    <3>4. p \in About(sightings', c) /\ s \in About(sightings', c)
      BY <2>1, <3>2, <3>3 DEF About
    <3>5. p \in Sighting
      BY <3>2 DEF TypeInv, TypeOK
    <3>6. TooFast(walk, p, s) /\ walk[<<p.room, s.room>>] # Unreachable
      <4>1. <<p.room, s.room>> \in Place \X Place
        BY <2>2, <3>5 DEF Sighting
      <4>2. walk[<<p.room, s.room>>] \in Int
        BY <4>1 DEF TypeInv, Support, WalkTable, NoFact
      <4> DEFINE d == walk[<<p.room, s.room>>]
      <4> HIDE DEF d
      <4>3. d \in Int /\ p.tick \in Int /\ s.tick \in Int
        BY <2>2, <3>5, <4>2 DEF Sighting, d
      <4>4. s.tick >= p.tick /\ d > s.tick - p.tick
        BY <3>1, <3>3 DEF d
      <4>5. ~ InTime(d, p.tick, s.tick)
        BY <4>3, <4>4 DEF InTime
      <4> QED
        BY <3>1, <3>3, <4>5 DEF TooFast, d
    <3>7. walk \in Maps
      BY DEF MemoryIsReported
    <3> QED
      BY <3>4, <3>6, <3>7 DEF MovedImpossibly
  <2>6. VentsNeedMoves'
    <3> SUFFICES ASSUME NEW x \in vents', x.basis = "inferred"
                 PROVE  MovedImpossibly(x.color)'
      BY DEF VentsNeedMoves
    <3>1. CASE x \in vents
      <4>1. x.color \in Colors
        BY <3>1 DEF TypeInv, TypeOK, Vent
      <4> QED
        BY <2>4, <3>1, <4>1 DEF VentsNeedMoves
    <3>2. CASE x \notin vents
      <4>1. ImpossibleMove(s) /\ x = [color |-> s.color, basis |-> "inferred"]
        BY <2>1, <3>2 DEF AssertVent
      <4> QED
        BY <2>5, <4>1
    <3> QED
      BY <3>1, <3>2
  <2> QED
    BY <2>3, <2>6
<1>5. CASE Observe
  BY <1>2, <1>3, <1>4, <1>5 DEF Observe, ObserveBody, ObserveTaskCompletion,
     ObserveDeath, ObserveEjection, ObserveRoundConfig, ChangeGraph, cVars
<1>6. CASE FireRule
  <2>1. UNCHANGED lastSighting
    BY <1>6 DEF FireRule, cVars
  <2> QED
    BY <1>1, <1>6, <2>1, FireByLayer, CaseRulesFrame, DossierRulesFrame,
       RoundRulesFrame, StanceRulesFrame DEF inputVars
<1>7. CASE FdRun \/ EndRun \/ UNCHANGED allVars
  BY <1>1, <1>7 DEF FdRun, EndRun, allVars, vars, inputVars, cVars
<1> QED
  BY <1>5, <1>6, <1>7 DEF Next

LEMMA VentsAlwaysNeedMoves == Spec => []VentsNeedMoves
<1>1. Init => LastIsSighting /\ VentsNeedMoves
  BY DEF Init, WMInit, LastIsSighting, VentsNeedMoves
<1>2. MaintInv => TypeInv
  BY DEF MaintInv
<1> QED
  BY <1>1, <1>2, VentsStep, ReportedAlways, MaintAlways, PTL DEF Spec

(* At the fixpoint a dossier says what the reports imply, ejected over     *)
(* dead over alive, and every color of a report has one (dossier.clp).     *)
THEOREM StatusAlwaysReported == Spec => []StatusMatchesReports
<1>1. TypeInv /\ DossierInv => StatusMatchesReports
  <2> SUFFICES ASSUME TypeInv, DossierInv, Fixpoint
               PROVE  /\ taskTicks = {}
                      /\ \A c \in Reported : Known(c)
                      /\ \A m \in crew : m.status = Implied(m.color)
    BY DEF StatusMatchesReports
  <2> USE AgendaEmptyMeans DEF Dossier0
  <2>1. \A t \in taskTicks : Known(t.color)
    BY DEF EnsureFromTaskLHS
  <2>2. taskTicks = {}
    BY <2>1 DEF Known, About, Credits
  <2>3. \A b \in bodies : b.color \in dead
    BY DEF BodyImpliesDeathLHS
  <2>4. \A c \in Reported : Known(c)
    BY <2>3 DEF Reported, EnsureFromSightingLHS, EnsureFromDeathLHS, EnsureFromEjectionLHS
  <2>5. ASSUME NEW m \in crew
        PROVE  m.status = Implied(m.color)
    <3>1. m.status \in Status
      BY DEF TypeInv, TypeOK, Crewmember
    <3>2. m.status = "ejected" <=> About(ejections, m.color) # {}
      BY DEF Ejects, DossierInv, DossiersAreReported, About
    <3>3. m.color \in dead <=> m.color \in dead \/ About(bodies, m.color) # {}
      BY <2>3 DEF About
    <3>4. m.color \in dead => m.status \in {"dead", "ejected"}
      BY DEF MarkDeadLHS
    <3>5. m.status = "dead" => m.color \in dead
      BY DEF DossierInv, DossiersAreReported
    <3> QED
      BY <3>1, <3>2, <3>3, <3>4, <3>5 DEF Implied, Status
  <2> QED
    BY <2>2, <2>4, <2>5
<1> QED
  BY <1>1, DossierAlways, PTL

(* At the fixpoint a living color is in the room of its latest sighting    *)
(* and in no other, whatever the order of the reports (fd_query.c:         *)
(* fd_room_occupants, fd_last_seen).                                       *)
THEOREM OccupantsAlwaysCurrent == Spec => []OccupantsAreCurrent
<1>1. TypeInv /\ DossierInv => OccupantsAreCurrent
  <2> SUFFICES ASSUME TypeInv, DossierInv, Fixpoint,
                      NEW c \in {s.color : s \in sightings} \ {self},
                      StatusNow(c) = "alive"
               PROVE  \E s \in About(sightings, c) :
                        /\ \A t \in About(sightings, c) : t.tick <= s.tick
                        /\ LastSeen(c) = [room |-> s.room, tick |-> s.tick]
                        /\ {r \in Place : c \in Occupants(r)} = {s.room}
    BY DEF OccupantsAreCurrent
  <2> USE DEF TypeInv, TypeOK
  <2>1. About(crew, c) # {}
    BY DEF StatusNow, Known
  <2>2. PICK m \in crew : m = TheFact(crew, c) /\ m.color = c
    BY <2>1 DEF TheFact, About
  <2>3. \A n \in About(crew, c) : n = m
    BY <2>2 DEF About, DossierInv, OneDossier, Keyed, OfColor
  <2>4. m.status = "alive"
    BY <2>1, <2>2 DEF StatusNow, Known
  <2>5. m.seen \in Nat \cup {-1} /\ m.room \in Place
    BY DEF Crewmember
  <2>6. ASSUME NEW t \in About(sightings, c)
        PROVE  t.tick \in Nat /\ t.tick <= m.seen
    <3>1. t \in sightings /\ t.color = c /\ t.tick \in Nat
      BY DEF About, Sighting
    <3>2. ~ Refreshes(t, m)
      BY <3>1, AgendaEmptyMeans DEF Dossier0
    <3>3. ~ (m.seen < t.tick)
      BY <2>2, <2>4, <3>1, <3>2 DEF Refreshes
    <3> QED
      BY <2>5, <3>1, <3>3
  <2>7. PICK t \in About(sightings, c) : TRUE
    BY DEF About
  <2>8. m.seen \in Nat
    BY <2>5, <2>6, <2>7
  <2> DEFINE s == [color |-> m.color, room |-> m.room, tick |-> m.seen]
  <2>9. s \in sightings
    BY <2>8 DEF DossierInv, DossiersAreReported
  <2>10. s \in About(sightings, c) /\ s.tick = m.seen /\ s.room = m.room
    BY <2>2, <2>9 DEF About
  <2>11. LastSeen(c) = [room |-> m.room, tick |-> m.seen]
    BY <2>2, <2>8 DEF LastSeen, About
  <2>12. ASSUME NEW r \in Place
         PROVE  c \in Occupants(r) <=> r = m.room
    <3>1. c \in Colors \ {self}
      BY DEF Sighting
    <3>2. (\E n \in About(crew, c) : n.status = "alive" /\ n.room = r) <=> r = m.room
      BY <2>2, <2>3, <2>4 DEF About
    <3> QED
      BY <3>1, <3>2 DEF Occupants
  <2>13. {r \in Place : c \in Occupants(r)} = {m.room}
    BY <2>5, <2>12
  <2> HIDE DEF s
  <2> QED
    BY <2>6, <2>10, <2>11, <2>13
<1> QED
  BY <1>1, DossierAlways, PTL

(***************************************************************************)
(* The roster.  Its counts are retaken only when a crewmember fact changes *)
(* (recountDue), so between two recounts they speak of the ejections of an *)
(* earlier moment.  What they miss is bounded: by the time of the last     *)
(* recount every crewmember marked ejected had been reported at least      *)
(* once.                                                                   *)
(***************************************************************************)
CountsAll(counted) ==
  \A m \in crew : m.status = "ejected" => \E e \in counted : e.color = m.color
RosterInv ==
  (~ recountDue /\ crew # {}) =>
    \A r \in roster : \E counted \in SUBSET ejections :
      Counted(r, counted) /\ CountsAll(counted)

(* While crew and roster stand and no report is taken back, so does the    *)
(* invariant, unless a pending recount is dropped.                         *)
LEMMA RosterFrame ==
  ASSUME RosterInv, ejections \subseteq ejections',
         UNCHANGED <<crew, roster, recountDue>>
  PROVE  RosterInv'
<1> SUFFICES ASSUME ~ recountDue, crew # {}, NEW r \in roster
             PROVE  \E counted \in SUBSET ejections' :
                      Counted(r, counted)' /\ CountsAll(counted)'
  BY DEF RosterInv
<1>1. PICK counted \in SUBSET ejections : Counted(r, counted) /\ CountsAll(counted)
  BY DEF RosterInv
<1>2. Counted(r, counted)' /\ CountsAll(counted)'
  BY <1>1 DEF Counted, CountsAll
<1> QED
  BY <1>2

LEMMA RosterDossierStep ==
  ASSUME RosterInv, DossierRules
  PROVE  RosterInv'
<1>1. UNCHANGED <<ejections, roster>>
  BY DossierRulesFrame DEF inputVars
<1>2. CASE BodyImpliesDeath
  BY <1>1, <1>2, RosterFrame DEF BodyImpliesDeath
<1>3. ASSUME recountDue' = TRUE
      PROVE  RosterInv'
  BY <1>3 DEF RosterInv
<1> QED
  BY <1>2, <1>3 DEF DossierRules, EnsureDossierAlive, UpdateLastSeen, CountTask,
     EnsureDossierFromDeath, MarkDead, EnsureDossierFromEjection, MarkEjected, SetCrew

(* A recount that changes nothing has counted every report.                *)
LEMMA RecountedMeans ==
  ASSUME TypeInv, NEW r \in roster, Recounted(r) = r
  PROVE  Counted(r, ejections)
<1> DEFINE out  == Cardinality({e \in ejections : e.impostor})
           live == Cardinality({m \in crew : m.status = "alive"})
           imps == Larger(0, r.impostors - out)
           all  == Larger(0, live - imps)
<1>1. r \in Roster
  BY DEF TypeInv, TypeOK
<1>2. r = [r EXCEPT !.ejected = out, !.aliveImpostors = imps, !.aliveCrew = all]
  BY DEF Recounted
<1>3. Counted(r, ejections) <=>
        r.ejected = out /\ r.aliveImpostors = imps /\ r.aliveCrew = all
  BY DEF Counted
<1> HIDE DEF out, imps, all
<1> QED
  BY <1>1, <1>2, <1>3 DEF Roster

LEMMA RosterRulesStep ==
  ASSUME TypeInv, DossierInv, RosterInv, RosterRules
  PROVE  RosterInv'
<1>1. UNCHANGED <<crew, ejections>>
  BY RoundRulesFrame DEF inputVars, dossierVars
<1>2. CASE RosterEnsure
  BY <1>1, <1>2 DEF RosterEnsure, RosterInv
<1>3. CASE RosterRecount
  <2>1. PICK r \in roster : /\ roster' = {Recounted(r)}
                            /\ recountDue' = (Recounted(r) # r)
    BY <1>3 DEF RosterRecount
  <2>2. CASE Recounted(r) = r
    <3>1. Counted(r, ejections) /\ CountsAll(ejections)
      BY <2>2, RecountedMeans DEF DossierInv, DossiersAreReported, CountsAll
    <3>2. (Counted(r, ejections) /\ CountsAll(ejections))'
      BY <1>1, <3>1 DEF Counted, CountsAll
    <3> QED
      BY <2>1, <2>2, <3>2 DEF RosterInv
  <2>3. CASE Recounted(r) # r
    BY <2>1, <2>3 DEF RosterInv
  <2> QED
    BY <2>2, <2>3
<1> QED
  BY <1>2, <1>3 DEF RosterRules

LEMMA RosterStepKeeps ==
  ASSUME TypeInv, DossierInv, RosterInv, [Next]_allVars
  PROVE  RosterInv'
<1>1. CASE FireRule
  <2>1. CASE CaseRules \/ PressureRules \/ StanceRules
    <3>1. UNCHANGED <<crew, ejections, roster, recountDue>>
      BY <2>1, CaseRulesFrame, RoundRulesFrame, StanceRulesFrame
      DEF inputVars, dossierVars, roundVars, PressureRules, PressureEnsure, PressureDerive
    <3> QED
      BY <3>1, RosterFrame
  <2> QED
    BY <1>1, <2>1, FireByLayer, RosterDossierStep, RosterRulesStep
<1>2. CASE Observe
  <2>1. CASE ObserveRoundConfig
    BY <2>1 DEF ObserveRoundConfig, Observing, RosterInv
  <2>2. CASE \/ ObservePlayer \/ ObserveVent \/ ObserveBody \/ ObserveEjection
             \/ ObserveTaskCompletion \/ ObserveDeath \/ ChangeGraph
    <3>1. UNCHANGED <<crew, roster, recountDue>> /\ ejections \subseteq ejections'
      BY <2>2 DEF ObservePlayer, ObserveVent, ObserveBody, ObserveTaskCompletion,
         ObserveDeath, ObserveEjection, ChangeGraph, Observing
    <3> QED
      BY <3>1, RosterFrame
  <2> QED
    BY <1>2, <2>1, <2>2 DEF Observe
<1>3. CASE FdRun \/ EndRun \/ UNCHANGED allVars
  <2>1. UNCHANGED <<crew, ejections, roster, recountDue>>
    BY <1>3 DEF FdRun, EndRun, allVars, vars, inputVars, dossierVars, roundVars
  <2> QED
    BY <2>1, RosterFrame
<1> QED
  BY <1>1, <1>2, <1>3 DEF Next

LEMMA RosterAlways == Spec => [](TypeInv /\ DossierInv /\ RosterInv)
<1>1. Init => RosterInv
  BY DEF Init, WMInit, RosterInv
<1>2. TypeInv /\ DossierInv /\ RosterInv /\ [Next]_allVars => RosterInv'
  BY RosterStepKeeps
<1> QED
  BY <1>1, <1>2, DossierAlways, PTL DEF Spec

(* An empty agenda leaves no recount, no ejection and no level pending.    *)
LEMMA RoundSettled ==
  ASSUME Fixpoint
  PROVE  /\ ~ Round160 /\ ~ Round155
         /\ \A e \in ejections : \E m \in crew : m.color = e.color /\ m.status = "ejected"
<1>1. ~ Round160 /\ ~ Round155
  BY DEF Fixpoint, AgendaEmpty, Quiet0, Quiet10, Quiet20, Quiet100, Quiet110,
         Quiet120, Quiet130, Quiet140, Quiet150, Quiet155, Quiet160
<1>2. ASSUME NEW e \in ejections
      PROVE  \E m \in crew : m.color = e.color /\ m.status = "ejected"
  <2>1. PICK m \in crew : m.color = e.color
    BY AgendaEmptyMeans DEF Dossier0, EnsureFromEjectionLHS, Known, About
  <2>2. m.status = "ejected"
    BY <2>1, AgendaEmptyMeans DEF Dossier0, Ejects
  <2> QED
    BY <2>1, <2>2
<1> QED
  BY <1>1, <1>2

(* A finite set of reports speaks of no more colors than it has members.   *)
LEMMA ColorsOfReports ==
  ASSUME NEW S, IsFiniteSet(S)
  PROVE  /\ IsFiniteSet({e.color : e \in S})
         /\ Cardinality({e.color : e \in S}) <= Cardinality(S)
<1> DEFINE T == {e.color : e \in S}
           f == [e \in S |-> e.color]
<1>1. f \in [S -> T] /\ \A t \in T : \E e \in S : f[e] = t
  OBVIOUS
<1> HIDE DEF f, T
<1>2. f \in Surjection(S, T)
  BY <1>1 DEF Surjection
<1>3. IsFiniteSet(T) /\ Cardinality(T) <= Cardinality(S)
  BY <1>2, FS_Surjection
<1> QED
  BY <1>3 DEF T

(* At the fixpoint the roster counts the living as they are and a set of   *)
(* reported ejections, in which no color is missing that only impostor     *)
(* reports speak of, and no report at all unless some color was reported   *)
(* twice; the level is the roster's, although the recount waits for a      *)
(* crewmember to change (suspicion.clp: roster-recount, pressure-derive).  *)
THEOREM RosterAlwaysCurrent == Spec => []RosterIsCurrent
<1>1. TypeInv /\ RosterInv => RosterIsCurrent
  <2> SUFFICES ASSUME TypeInv, RosterInv, Fixpoint, NEW r \in roster
               PROVE  /\ crew # {} =>
                           /\ \E counted \in SUBSET ejections : Counted(r, counted)
                           /\ Cardinality(SurelyImpostors) <= r.ejected
                           /\ EjectedOnce => Counted(r, ejections)
                      /\ pressure = LevelOf(r.aliveCrew - r.aliveImpostors)
    BY DEF RosterIsCurrent
  <2>1. pressure = LevelOf(r.aliveCrew - r.aliveImpostors)
    BY RoundSettled DEF Round155, PressureEnsureLHS, PressureDeriveLHS
  <2> SUFFICES ASSUME crew # {}
               PROVE  /\ \E counted \in SUBSET ejections : Counted(r, counted)
                      /\ Cardinality(SurelyImpostors) <= r.ejected
                      /\ EjectedOnce => Counted(r, ejections)
    BY <2>1
  <2>2. PICK counted \in SUBSET ejections : Counted(r, counted) /\ CountsAll(counted)
    BY RoundSettled DEF Round160, RosterRecountLHS, RosterInv
  <2>3. \A e \in ejections : \E d \in counted : d.color = e.color
    BY <2>2, RoundSettled DEF CountsAll
  <2>4. EjectedOnce => counted = ejections
    BY <2>3 DEF EjectedOnce
  <2>5. Cardinality(SurelyImpostors) <= r.ejected
    <3> DEFINE S == {e \in counted : e.impostor}
               T == {e.color : e \in S}
    <3>1. SurelyImpostors \subseteq T
      <4> SUFFICES ASSUME NEW c \in SurelyImpostors
                   PROVE  \E e \in S : e.color = c
        OBVIOUS
      <4>1. PICK e \in ejections : e.color = c
        BY DEF SurelyImpostors, About
      <4>2. PICK d \in counted : d.color = c
        BY <2>3, <4>1
      <4>3. d.impostor
        BY <4>2 DEF SurelyImpostors, About, ImpostorReports
      <4> QED
        BY <4>2, <4>3
    <3>2. IsFiniteSet(S)
      BY FS_Subset DEF TypeInv, Support
    <3>3. IsFiniteSet(T) /\ Cardinality(T) <= Cardinality(S)
      BY <3>2, ColorsOfReports
    <3>4. r.ejected = Cardinality(S)
      BY <2>2 DEF Counted
    <3> HIDE DEF S, T
    <3>5. Cardinality(SurelyImpostors) <= Cardinality(T) /\ IsFiniteSet(SurelyImpostors)
      BY <3>1, <3>3, FS_Subset
    <3>6. /\ Cardinality(SurelyImpostors) \in Nat /\ Cardinality(T) \in Nat
          /\ Cardinality(S) \in Nat
      BY <3>2, <3>3, <3>5, FS_CardinalityType
    <3> QED
      BY <3>3, <3>4, <3>5, <3>6
  <2> QED
    BY <2>2, <2>4, <2>5
<1> QED
  BY <1>1, RosterAlways, PTL

(***************************************************************************)
(* The verdicts as they are read.  At the fixpoint exactly the living have *)
(* a stance; it follows that the vote, the risk, its reason and the        *)
(* summary, each with lists of its own, speak of the same colors.          *)
(***************************************************************************)
Incriminating == {"accusation", "vent", "near-body"}
StancesAreKnown == \A x \in stances : Known(x.color)
ThreatsHaveGrounds ==
  \A x \in stances : x.category = "threat" => x.evidence \in Incriminating
VerdictInv == StancesAreKnown /\ ThreatsHaveGrounds

(* What the verdict rules do: a stance goes, a known color gets one, or    *)
(* one is replaced, and a threat is never drawn without a ground.          *)
LEMMA VerdictEffect ==
  ASSUME TypeOK, StanceRules
  PROVE  \/ stances' \subseteq stances
         \/ \E x \in stances, y \in Stance :
              /\ y.color = x.color
              /\ y.category = "threat" => y.evidence \in Incriminating
              /\ stances' = (stances \ {x}) \cup {y}
         \/ \E m \in crew, y \in Stance :
              /\ y.color = m.color /\ y.category # "threat"
              /\ stances' = stances \cup {y}
<1> USE DEF TypeOK
<1>1. ASSUME NEW lhs, lhs \subseteq stances, NEW k \in Category, NEW e \in Evidence,
             Promote(lhs, k, e), k = "threat" => e \in Incriminating
      PROVE  \E x \in stances, y \in Stance :
               /\ y.color = x.color
               /\ y.category = "threat" => y.evidence \in Incriminating
               /\ stances' = (stances \ {x}) \cup {y}
  <2>1. PICK x \in lhs, y \in Stance :
          /\ y.color = x.color /\ y.category = k /\ y.evidence = e
          /\ stances' = (stances \ {x}) \cup {y}
    BY <1>1, PromoteEffect
  <2> QED
    BY <1>1, <2>1
<1>2. CASE ClearThreatsOnImpostorFound
  <2>1. PICK x \in stances :
          stances' = Replace(stances, x, [x EXCEPT !.category = "unknown",
                                                   !.evidence = "none"])
    BY <1>2 DEF ClearThreatsOnImpostorFound, ClearThreatsLHS
  <2> DEFINE y == [x EXCEPT !.category = "unknown", !.evidence = "none"]
  <2>2. y \in Stance /\ y.color = x.color /\ y.category = "unknown"
    BY DEF Stance, Category, Evidence
  <2>3. stances' = (stances \ {x}) \cup {y}
    BY <2>1 DEF Replace
  <2> HIDE DEF y
  <2> QED
    BY <2>2, <2>3
<1>3. CASE RetractStanceOnStatusChange
  BY <1>3 DEF RetractStanceOnStatusChange
<1>4. CASE StanceEnsure
  <2>1. PICK m \in crew :
          stances' = stances \cup {[color |-> m.color, category |-> "unknown",
                                    evidence |-> "none"]}
    BY <1>4 DEF StanceEnsure, StanceEnsureLHS
  <2> DEFINE y == [color |-> m.color, category |-> "unknown", evidence |-> "none"]
  <2>2. y \in Stance /\ y.color = m.color /\ y.category = "unknown"
    BY DEF Stance, Category, Evidence, Crewmember
  <2> HIDE DEF y
  <2> QED
    BY <2>1, <2>2 DEF y
<1>5. CASE \/ StanceAccuse \/ StanceThreatFromVent \/ StanceThreat
           \/ StanceOffTask \/ StanceOnTask
  BY <1>1, <1>5 DEF StanceAccuse, StanceThreatFromVent, StanceThreat, StanceOffTask,
     StanceOnTask, AccuseLHS, ThreatFromVentLHS, ThreatNearBodyLHS, OffTaskLHS, OnTaskLHS,
     Category, Evidence, Incriminating
<1> QED
  BY <1>2, <1>3, <1>4, <1>5 DEF StanceRules

LEMMA VerdictStep ==
  ASSUME TypeInv, DossierInv, VerdictInv, [Next]_allVars
  PROVE  VerdictInv'
<1>1. \A c : Known(c) => Known(c)'
  BY CrewContinues DEF Known, About, Continues
<1>2. CASE UNCHANGED stances
  BY <1>1, <1>2 DEF VerdictInv, StancesAreKnown, ThreatsHaveGrounds
<1>3. CASE StanceRules
  <2>1. CASE stances' \subseteq stances
    BY <1>1, <2>1 DEF VerdictInv, StancesAreKnown, ThreatsHaveGrounds
  <2>2. ASSUME NEW x \in stances, NEW y \in Stance, y.color = x.color,
               y.category = "threat" => y.evidence \in Incriminating,
               stances' = (stances \ {x}) \cup {y}
        PROVE  VerdictInv'
    BY <1>1, <2>2 DEF VerdictInv, StancesAreKnown, ThreatsHaveGrounds
  <2>3. ASSUME NEW m \in crew, NEW y \in Stance, y.color = m.color,
               y.category # "threat", stances' = stances \cup {y}
        PROVE  VerdictInv'
    <3>1. Known(y.color)
      BY <2>3 DEF Known, About
    <3> QED
      BY <1>1, <2>3, <3>1 DEF VerdictInv, StancesAreKnown, ThreatsHaveGrounds
  <2> QED
    BY <1>3, <2>1, <2>2, <2>3, VerdictEffect DEF TypeInv
<1> QED
  BY <1>2, <1>3, StancesFrame

LEMMA VerdictAlways == Spec => [](TypeInv /\ DossierInv /\ KeyInv /\ VerdictInv)
<1>1. Init => VerdictInv /\ KeyInv
  BY DEF Init, WMInit, VerdictInv, StancesAreKnown, ThreatsHaveGrounds, KeyInv,
         StancesKeyed, CaseKeys, AlibisKeyed, SuspectsKeyed, AccusationsKeyed, OneRoster
<1>2. TypeInv /\ KeyInv /\ [Next]_allVars => KeyInv'
  BY KeyStep
<1>3. TypeInv /\ DossierInv /\ VerdictInv /\ [Next]_allVars => VerdictInv'
  BY VerdictStep
<1> QED
  BY <1>1, <1>2, <1>3, DossierAlways, PTL DEF Spec

(* Only the empty agenda ends a run.                                       *)
LEMMA RunningGoesOn ==
  ASSUME [Next]_allVars, phase = "running", phase' # "running"
  PROVE  EndRun
<1>1. CASE FireRule
  BY <1>1, FireByLayer, CaseRulesFrame, DossierRulesFrame, RoundRulesFrame,
     StanceRulesFrame
<1>2. CASE Observe
  BY <1>2 DEF Observe, ObservePlayer, ObserveVent, ObserveBody,
     ObserveTaskCompletion, ObserveDeath, ObserveEjection, ObserveRoundConfig,
     ChangeGraph, Observing
<1>3. CASE FdRun \/ EndRun \/ UNCHANGED allVars
  BY <1>3 DEF FdRun, allVars, vars
<1> QED
  BY <1>1, <1>2, <1>3 DEF Next

(* What each verdict rule does to the stances, and under which guard.      *)
Redrawn(x, y) == stances' = (stances \ {x}) \cup {y} /\ y.color = x.color
LEMMA VerdictGuards ==
  ASSUME TypeOK, StanceRules
  PROVE  \/ \E x \in RetractStanceLHS : stances' = stances \ {x}
         \/ \E x \in ClearThreatsLHS, y \in Stance :
              y.category = "unknown" /\ Redrawn(x, y)
         \/ \E x \in stances, y \in Stance :
              Promotable(x) /\ y.category = "threat" /\ Redrawn(x, y)
         \/ \E x \in OffTaskLHS, y \in Stance :
              y.category = "off-task" /\ Redrawn(x, y)
         \/ \E x \in OnTaskLHS, y \in Stance :
              y.category = "on-task" /\ Redrawn(x, y)
         \/ \E m \in StanceEnsureLHS, y \in Stance :
              /\ y.color = m.color /\ y.category = "unknown"
              /\ stances' = stances \cup {y}
<1> USE DEF TypeOK
<1>1. ASSUME NEW lhs, lhs \subseteq stances, NEW k \in Category, NEW e \in Evidence,
             Promote(lhs, k, e)
      PROVE  \E x \in lhs, y \in Stance : y.category = k /\ Redrawn(x, y)
  BY <1>1, PromoteEffect DEF Redrawn
<1>2. CASE ClearThreatsOnImpostorFound
  <2>1. Promote(ClearThreatsLHS, "unknown", "none")
    BY <1>2 DEF ClearThreatsOnImpostorFound, Promote
  <2>2. ClearThreatsLHS \subseteq stances /\ "unknown" \in Category /\ "none" \in Evidence
    BY DEF ClearThreatsLHS, Category, Evidence
  <2>3. \E x \in ClearThreatsLHS, y \in Stance : y.category = "unknown" /\ Redrawn(x, y)
    BY ONLY <1>1, <2>1, <2>2
  <2> QED
    BY <2>3
<1>3. CASE RetractStanceOnStatusChange
  BY <1>3 DEF RetractStanceOnStatusChange
<1>4. CASE StanceEnsure
  <2>1. PICK m \in StanceEnsureLHS :
          stances' = stances \cup {[color |-> m.color, category |-> "unknown",
                                    evidence |-> "none"]}
    BY <1>4 DEF StanceEnsure
  <2> DEFINE y == [color |-> m.color, category |-> "unknown", evidence |-> "none"]
  <2>2. y \in Stance /\ y.color = m.color /\ y.category = "unknown"
    BY DEF Stance, Category, Evidence, Crewmember, StanceEnsureLHS
  <2>3. stances' = stances \cup {y}
    BY <2>1
  <2> HIDE DEF y
  <2> QED
    BY <2>2, <2>3
<1>5. ASSUME NEW lhs, lhs \subseteq stances, NEW e \in Evidence, Promote(lhs, "threat", e),
             \A x \in lhs : Promotable(x)
      PROVE  \E x \in stances, y \in Stance :
               Promotable(x) /\ y.category = "threat" /\ Redrawn(x, y)
  BY <1>1, <1>5 DEF Category
<1>6. CASE StanceAccuse \/ StanceThreatFromVent \/ StanceThreat
  BY <1>5, <1>6 DEF StanceAccuse, StanceThreatFromVent, StanceThreat, AccuseLHS,
     ThreatFromVentLHS, ThreatNearBodyLHS, Evidence
<1>7. CASE StanceOffTask
  BY <1>1, <1>7 DEF StanceOffTask, OffTaskLHS, Category, Evidence
<1>8. CASE StanceOnTask
  BY <1>1, <1>8 DEF StanceOnTask, OnTaskLHS, Category, Evidence
<1> QED
  BY <1>2, <1>3, <1>4, <1>6, <1>7, <1>8 DEF StanceRules

(* Who is on-task has done the tasks, and a dossier never forgets one.     *)
OnTaskEarned ==
  \A x \in stances : x.category = "on-task" =>
    \E m \in crew : m.color = x.color /\ m.tasks >= OnTaskTasks

LEMMA EarnedStep ==
  ASSUME TypeInv, DossierInv, OnTaskEarned, [Next]_allVars
  PROVE  OnTaskEarned'
<1> SUFFICES ASSUME NEW y \in stances', y.category = "on-task"
             PROVE  \E n \in crew' : n.color = y.color /\ n.tasks >= OnTaskTasks
  BY DEF OnTaskEarned
<1>1. ASSUME NEW m \in crew, m.tasks >= OnTaskTasks
      PROVE  \E n \in crew' : n.color = m.color /\ n.tasks >= OnTaskTasks
  <2>1. PICK n \in crew' : Continues(n, m)
    BY CrewContinues
  <2>2. m.tasks \in Nat /\ n.tasks \in Nat
    BY TypeStep DEF TypeInv, TypeOK, Crewmember
  <2> QED
    BY <1>1, <2>1, <2>2, OnTaskTasksPos DEF Continues
<1>2. CASE y \in stances
  BY <1>1, <1>2 DEF OnTaskEarned
<1>3. CASE y \notin stances
  <2>1. StanceRules
    BY <1>3, StancesFrame
  <2>2. PICK x \in OnTaskLHS : y.color = x.color
    BY <1>3, <2>1, VerdictGuards DEF Redrawn, TypeInv
  <2> QED
    BY <1>1, <2>2 DEF OnTaskLHS, About
<1> QED
  BY <1>2, <1>3

LEMMA EarnedAlways == Spec => [](TypeInv /\ DossierInv /\ KeyInv /\ OnTaskEarned)
<1>1. Init => OnTaskEarned
  BY DEF Init, WMInit, OnTaskEarned
<1>2. TypeInv /\ DossierInv /\ OnTaskEarned /\ [Next]_allVars => OnTaskEarned'
  BY EarnedStep
<1> QED
  BY <1>1, <1>2, VerdictAlways, PTL DEF Spec

(* A worse verdict is never overwritten by a better one: only death,       *)
(* ejection or the all-clear ends a threat, on-task never turns back, and  *)
(* after the all-clear no threat is drawn and none is left by a run        *)
(* (stance.clp; docs/model.md, salience priority).                         *)
THEOREM ThreatsAlwaysLast == Spec => ThreatIsLasting
<1> DEFINE Stands ==
             \A x \in stances : x.category = "threat" =>
               x \in stances' \/ ~ Alive(x.color) \/ AllImpostorsEjected
           StaysOn ==
             \A x \in stances, y \in stances' :
               (x.category = "on-task" /\ y.color = x.color) =>
                 y.category \in {"on-task", "threat"}
           Cleared ==
             AllImpostorsEjected =>
               \A y \in stances' : y.category = "threat" =>
                 y \in stances /\ (phase = "running" => phase' = "running")
<1>1. ASSUME TypeInv, DossierInv, [Next]_allVars, NEW x \in stances, x.category = "threat",
             x \notin stances'
      PROVE  ~ Alive(x.color) \/ AllImpostorsEjected
  <2>1. StanceRules
    BY <1>1, StancesFrame
  <2>2. x \in RetractStanceLHS \/ x \in ClearThreatsLHS
    BY <1>1, <2>1, VerdictGuards
    DEF Redrawn, Promotable, OffTaskLHS, OnTaskLHS, TypeInv
  <2>3. CASE x \in RetractStanceLHS
    <3>1. PICK m \in crew : m.color = x.color /\ m.status # "alive"
      BY <2>3 DEF RetractStanceLHS, About
    <3>2. \A n \in crew : n.color = x.color => n = m
      BY <1>1, <3>1 DEF DossierInv, OneDossier, Keyed, OfColor
    <3> QED
      BY <3>1, <3>2 DEF Alive
  <2> QED
    BY <2>2, <2>3 DEF ClearThreatsLHS
<1>2. ASSUME TypeInv, DossierInv, KeyInv, OnTaskEarned, [Next]_allVars,
             NEW x \in stances, NEW y \in stances', x.category = "on-task",
             y.color = x.color
      PROVE  y.category \in {"on-task", "threat"}
  <2>1. \A z \in stances : z.color = x.color => z = x
    BY <1>2 DEF KeyInv, StancesKeyed, Keyed, OfColor
  <2>2. CASE y \in stances
    BY <1>2, <2>1, <2>2
  <2>3. CASE y \notin stances
    <3>1. StanceRules
      BY <1>2, <2>3, StancesFrame
    <3>2. x \notin ClearThreatsLHS
      BY <1>2 DEF ClearThreatsLHS
    <3>3. x \notin OffTaskLHS
      <4>1. PICK m \in crew : m.color = x.color /\ m.tasks >= OnTaskTasks
        BY <1>2 DEF OnTaskEarned
      <4>2. \A n \in crew : n.color = x.color => n = m
        BY <1>2, <4>1 DEF DossierInv, OneDossier, Keyed, OfColor
      <4>3. m.tasks # 0
        BY <4>1, OnTaskTasksPos
      <4> QED
        BY <4>2, <4>3 DEF OffTaskLHS, About
    <3>4. \A m \in StanceEnsureLHS : m.color # x.color
      BY <1>2 DEF StanceEnsureLHS, About
    <3>5. RetractStanceLHS \cup ClearThreatsLHS \cup OffTaskLHS \cup OnTaskLHS
            \subseteq stances
      BY DEF RetractStanceLHS, ClearThreatsLHS, OffTaskLHS, OnTaskLHS
    <3> QED
      BY <1>2, <2>1, <2>3, <3>1, <3>2, <3>3, <3>4, <3>5, VerdictGuards
      DEF Redrawn, TypeInv
  <2> QED
    BY <2>2, <2>3
<1>3. ASSUME TypeInv, [Next]_allVars, AllImpostorsEjected, NEW y \in stances',
             y.category = "threat"
      PROVE  y \in stances /\ (phase = "running" => phase' = "running")
  <2>1. y \in stances
    <3> SUFFICES ASSUME y \notin stances
                 PROVE  FALSE
      OBVIOUS
    <3>1. StanceRules
      BY <1>3, StancesFrame
    <3>2. \A x : ~ Promotable(x)
      BY <1>3 DEF Promotable
    <3> QED
      BY <1>3, <3>1, <3>2, VerdictGuards DEF Redrawn, TypeInv
  <2>2. ASSUME phase = "running", phase' # "running"
        PROVE  FALSE
    <3>1. EndRun
      BY <1>3, <2>2, RunningGoesOn
    <3>2. ClearThreatsLHS = {}
      BY <3>1 DEF EndRun, Fixpoint, AgendaEmpty, Quiet0, Quiet10, Quiet20, Quiet100,
         Quiet110, Quiet120, Quiet130, Quiet140, Quiet150, Quiet155, Quiet160, Quiet200,
         Quiet250
    <3> QED
      BY <1>3, <2>1, <3>2 DEF ClearThreatsLHS
  <2> QED
    BY <2>1, <2>2
<1>4. TypeInv /\ DossierInv /\ KeyInv /\ OnTaskEarned /\ [Next]_allVars =>
        [Stands /\ StaysOn /\ Cleared]_allVars
  BY <1>1, <1>2, <1>3
<1> QED
  BY <1>4, EarnedAlways, PTL DEF Spec, ThreatIsLasting

(* The accessors find the one dossier and the one stance of a color.       *)
LEMMA StatusRead ==
  ASSUME OneDossier, NEW m \in crew
  PROVE  Known(m.color) /\ StatusNow(m.color) = m.status
<1>1. m \in About(crew, m.color)
  BY DEF About
<1>2. TheFact(crew, m.color) \in About(crew, m.color)
  BY <1>1 DEF TheFact
<1>3. TheFact(crew, m.color) = m
  BY <1>2 DEF About, OneDossier, Keyed, OfColor
<1> QED
  BY <1>1, <1>3 DEF Known, StatusNow

LEMMA StanceRead ==
  ASSUME StancesKeyed, NEW x \in stances
  PROVE  StanceNow(x.color) = x.category /\ EvidenceNow(x.color) = x.evidence
<1>1. x \in About(stances, x.color)
  BY DEF About
<1>2. TheFact(stances, x.color) \in About(stances, x.color)
  BY <1>1 DEF TheFact
<1>3. TheFact(stances, x.color) = x
  BY <1>2 DEF About, StancesKeyed
<1> QED
  BY <1>1, <1>3 DEF StanceNow, EvidenceNow

LEMMA StatusKinds ==
  ASSUME TypeOK, OneDossier, NEW c \in Colors
  PROVE  /\ StatusNow(c) = "unknown" <=> ~ Known(c)
         /\ StatusNow(c) = "alive" <=> Alive(c)
         /\ StatusNow(c) \in Status \cup {"unknown"}
<1>1. CASE ~ Known(c)
  BY <1>1 DEF StatusNow, Known, About, Alive, Status
<1>2. CASE Known(c)
  <2>1. PICK m \in crew : m.color = c
    BY <1>2 DEF Known, About
  <2>2. StatusNow(c) = m.status /\ m.status \in Status
    BY <2>1, StatusRead DEF TypeOK, Crewmember
  <2>3. Alive(c) <=> m.status = "alive"
    BY <2>1 DEF Alive, OneDossier, Keyed, OfColor
  <2> QED
    BY <1>2, <2>2, <2>3 DEF Status
<1> QED
  BY <1>1, <1>2

(* What the readers start from.                                            *)
ReadInv == TypeInv /\ DossierInv /\ KeyInv /\ VerdictInv

LEMMA LivingHaveVerdicts ==
  ASSUME ReadInv, Fixpoint, NEW c \in Colors
  PROVE  About(stances, c) # {} <=> Alive(c)
<1>1. RetractStanceLHS = {} /\ StanceEnsureLHS = {}
  BY DEF Fixpoint, AgendaEmpty, Quiet0, Quiet10, Quiet20, Quiet100, Quiet110,
         Quiet120, Quiet130, Quiet140, Quiet150, Quiet155, Quiet160, Quiet200
<1>2. ASSUME NEW x \in About(stances, c)
      PROVE  Alive(c)
  <2>1. x \in stances /\ x.color = c
    BY DEF About
  <2>2. PICK m \in About(crew, c) : TRUE
    BY <2>1 DEF ReadInv, VerdictInv, StancesAreKnown, Known
  <2>3. m.status = "alive"
    BY <1>1, <2>1, <2>2 DEF RetractStanceLHS
  <2> QED
    BY <2>2, <2>3 DEF About, Alive
<1>3. ASSUME Alive(c)
      PROVE  About(stances, c) # {}
  BY <1>1, <1>3 DEF StanceEnsureLHS, Alive
<1> QED
  BY <1>2, <1>3

(* A line of the summary is a candidate of the vote and conversely.        *)
LEMMA LinesAreCandidates ==
  ASSUME ReadInv, Fixpoint, NEW c \in Colors, NEW k
  PROVE  c \in Candidates(k) <=> [color |-> c, severity |-> k] \in SummaryLines
<1>1. About(stances, c) # {} <=> StatusNow(c) = "alive"
  BY LivingHaveVerdicts, StatusKinds DEF ReadInv, TypeInv, DossierInv
<1> DEFINE line(d) == [color |-> d, severity |-> StanceNow(d)]
<1>2. ASSUME NEW d \in Colors, line(d) = [color |-> c, severity |-> k]
      PROVE  d = c /\ StanceNow(c) = k
  <2>1. line(d).color = d /\ line(d).severity = StanceNow(d)
    OBVIOUS
  <2>2. [color |-> c, severity |-> k].color = c /\ [color |-> c, severity |-> k].severity = k
    OBVIOUS
  <2> HIDE DEF line
  <2> QED
    BY <1>2, <2>1, <2>2
<1>3. SummaryLines = {line(d) : d \in {e \in Colors \ {self} : About(stances, e) # {}}}
  BY DEF SummaryLines
<1>4. StanceNow(c) = k => line(c) = [color |-> c, severity |-> k]
  OBVIOUS
<1> HIDE DEF line
<1> QED
  BY <1>1, <1>2, <1>3, <1>4 DEF Candidates

LEMMA LineForm ==
  ASSUME NEW l \in SummaryLines
  PROVE  /\ l.color \in Colors \ {self}
         /\ About(stances, l.color) # {}
         /\ l.severity = StanceNow(l.color)
         /\ l = [color |-> l.color, severity |-> l.severity]
  BY DEF SummaryLines

(* The lists of priorities are heads of the order of the summary.          *)
LEMMA PriorityIsOrder ==
  ASSUME NEW style \in Playstyle
  PROVE  /\ DOMAIN Priority[style] \subseteq 1..4
         /\ \A i \in DOMAIN Priority[style] : Priority[style][i] = CategoryOrder[i]
  BY DEF Playstyle, Priority, CategoryOrder

LEMMA OrderIsInjective ==
  /\ DOMAIN CategoryOrder = 1..4
  /\ \A i, j \in 1..4 : CategoryOrder[i] = CategoryOrder[j] => i = j
  BY DEF CategoryOrder

LEMMA FirstIsLeast ==
  ASSUME NEW cs, cs \subseteq Colors, cs # {}
  PROVE  First(cs) \in cs /\ \A d \in cs : EnumOrder[First(cs)] <= EnumOrder[d]
<1> DEFINE B == {EnumOrder[c] : c \in cs}
<1>1. B \subseteq Nat /\ B # {}
  BY EnumOrderOK
<1>2. PICK n \in B : \A k \in B : n <= k
  <2> HIDE DEF B
  <2> QED BY <1>1, LeastNumber
<1>3. \E c \in cs : \A d \in cs : EnumOrder[c] <= EnumOrder[d]
  BY <1>2
<1> HIDE DEF B
<1> QED
  BY <1>3 DEF First

(* The vote goes to the first line of the summary it would vote for.       *)
Worth(style) == {l \in SummaryLines : l.severity \in Range(Priority[style])}
LEMMA VoteIsTopLine ==
  ASSUME ReadInv, Fixpoint, NEW style \in Playstyle
  PROVE  IF Worth(style) = {} THEN PickVoteTarget(style) = NoTarget
         ELSE /\ PickVoteTarget(style) \in Worth(style)
              /\ \A l \in Worth(style) \ {PickVoteTarget(style)} :
                   Precedes(PickVoteTarget(style), l)
<1> DEFINE P == Priority[style]
           wanted == {i \in DOMAIN P : Candidates(P[i]) # {}}
           i0 == CHOOSE j \in wanted : \A k \in wanted : j <= k
           vote == [color |-> First(Candidates(P[i0])), severity |-> P[i0]]
<1>1. ASSUME NEW l \in Worth(style)
      PROVE  \E j \in wanted : l.severity = P[j] /\ l.color \in Candidates(P[j])
  <2>1. l \in SummaryLines /\ l.severity \in Range(P)
    BY DEF Worth
  <2>2. PICK j \in DOMAIN P : l.severity = P[j]
    BY <2>1 DEF Range
  <2>3. l.color \in Candidates(P[j])
    BY <2>1, <2>2, LineForm, LinesAreCandidates
  <2> QED
    BY <2>2, <2>3
<1>2. ASSUME NEW j \in wanted, NEW c \in Candidates(P[j])
      PROVE  [color |-> c, severity |-> P[j]] \in Worth(style)
  <2>1. c \in Colors
    BY DEF Candidates
  <2>2. [color |-> c, severity |-> P[j]] \in SummaryLines
    BY <2>1, LinesAreCandidates
  <2>3. P[j] \in Range(P)
    BY DEF Range
  <2> HIDE DEF P
  <2>4. [color |-> c, severity |-> P[j]].severity = P[j]
    OBVIOUS
  <2> QED
    BY <2>2, <2>3, <2>4 DEF Worth, P
<1>3. PickVoteTarget(style) = IF wanted = {} THEN NoTarget ELSE vote
  BY DEF PickVoteTarget
<1>4. wanted \subseteq 1..4 /\ \A j \in wanted : P[j] = CategoryOrder[j]
  BY PriorityIsOrder
<1>5. \A j \in wanted : Candidates(P[j]) # {} /\ Candidates(P[j]) \subseteq Colors
  BY DEF Candidates
<1> HIDE DEF P, wanted
<1>6. CASE wanted = {}
  BY <1>1, <1>3, <1>6
<1>7. CASE wanted # {}
  <2>1. \E j \in wanted : \A k \in wanted : j <= k
    <3>1. wanted \subseteq Nat
      BY <1>4
    <3> QED
      BY <1>7, <3>1, LeastNumber
  <2>2. i0 \in wanted /\ \A k \in wanted : i0 <= k
    BY <2>1
  <2> HIDE DEF i0
  <2> DEFINE c0 == First(Candidates(P[i0]))
  <2>3. c0 \in Candidates(P[i0]) /\ \A d \in Candidates(P[i0]) : EnumOrder[c0] <= EnumOrder[d]
    BY <1>5, <2>2, FirstIsLeast
  <2> HIDE DEF c0
  <2>4. vote = [color |-> c0, severity |-> P[i0]]
    BY DEF c0
  <2>5. vote \in Worth(style) /\ vote.color = c0 /\ vote.severity = P[i0]
    BY <1>2, <2>2, <2>3, <2>4
  <2>6. ASSUME NEW l \in Worth(style), l # vote
        PROVE  Precedes(vote, l)
    <3>1. PICK j \in wanted : l.severity = P[j] /\ l.color \in Candidates(P[j])
      BY <1>1
    <3>2. l = [color |-> l.color, severity |-> l.severity]
      BY LineForm DEF Worth
    <3>3. i0 \in 1..4 /\ j \in 1..4 /\ i0 <= j
      BY <1>4, <2>2
    <3>4. vote.severity = CategoryOrder[i0] /\ l.severity = CategoryOrder[j]
      BY <1>4, <2>2, <2>5, <3>1
    <3>5. CASE i0 # j
      <4>1. i0 < j
        BY <3>3, <3>5
      <4> HIDE DEF vote
      <4> QED
        BY <3>3, <3>4, <4>1, OrderIsInjective DEF Precedes
    <3>6. CASE i0 = j
      <4>1. l.color # c0
        BY <2>4, <2>6, <3>1, <3>2, <3>6
      <4>2. c0 \in Colors /\ l.color \in Colors
        BY <1>5, <2>2, <2>3, <3>1
      <4>3. EnumOrder[c0] <= EnumOrder[l.color]
        BY <2>3, <3>1, <3>6
      <4>4. EnumOrder[c0] # EnumOrder[l.color] /\ EnumOrder[c0] \in Nat /\ EnumOrder[l.color] \in Nat
        BY <4>1, <4>2, EnumOrderOK
      <4>5. EnumOrder[vote.color] < EnumOrder[l.color]
        BY <2>5, <4>3, <4>4
      <4> HIDE DEF vote
      <4> QED
        BY <3>3, <3>4, <3>6, <4>5, OrderIsInjective DEF Precedes
    <3> QED
      BY <3>5, <3>6
  <2> HIDE DEF vote
  <2> QED
    BY <1>3, <1>7, <2>5, <2>6
<1> QED
  BY <1>6, <1>7

(* The two copies of the risk table agree; what is a high risk is worth a  *)
(* vote, and so is whatever stands higher in the summary.                  *)
LEMMA TablesAgree ==
  ASSUME NEW style \in Playstyle, NEW k \in Category
  PROVE  RiskTable[style][StanceIndex[k]] = RiskByStyle[style][Column[k]]
  BY DEF Playstyle, Category, RiskTable, StanceIndex, RiskByStyle, Column

LEMMA HighIsWorth ==
  ASSUME NEW style \in Playstyle, NEW k \in Category,
         RiskByStyle[style][Column[k]] = "high"
  PROVE  k \in Range(Priority[style])
<1>1. k = "threat" \/ (k = "off-task" /\ style = "paranoid")
  BY DEF Playstyle, Category, RiskByStyle, Column
<1>2. /\ 1 \in DOMAIN Priority[style] /\ Priority[style][1] = "threat"
      /\ style = "paranoid" =>
           2 \in DOMAIN Priority[style] /\ Priority[style][2] = "off-task"
  BY DEF Playstyle, Priority
<1> QED
  BY <1>1, <1>2 DEF Range

LEMMA HigherIsHigh ==
  ASSUME NEW style \in Playstyle, NEW i \in 1..4, NEW j \in 1..4, i <= j,
         RiskByStyle[style][Column[CategoryOrder[j]]] = "high"
  PROVE  RiskByStyle[style][Column[CategoryOrder[i]]] = "high"
<1>1. i \in {1, 2, 3, 4} /\ j \in {1, 2, 3, 4}
  OBVIOUS
<1> QED
  BY <1>1 DEF Playstyle, RiskByStyle, Column, CategoryOrder

LEMMA TrustingHigh ==
  ASSUME NEW k \in Category
  PROVE  RiskByStyle["trusting"][Column[k]] = "high" <=> k = "threat"
  BY DEF Category, RiskByStyle, Column

LEMMA RiskOfListed ==
  ASSUME ReadInv, Fixpoint, NEW style \in Playstyle, NEW l \in SummaryLines
  PROVE  /\ l.severity \in Category
         /\ AloneRisk(style, l.color) =
              IF AllImpostorsEjected THEN "none"
              ELSE RiskByStyle[style][Column[l.severity]]
<1>1. /\ l.color \in Colors \ {self} /\ About(stances, l.color) # {}
      /\ l.severity = StanceNow(l.color)
  BY LineForm
<1>2. StatusNow(l.color) = "alive"
  BY <1>1, LivingHaveVerdicts, StatusKinds DEF ReadInv, TypeInv, DossierInv
<1>3. StanceNow(l.color) \in Category
  BY <1>1, StanceRead DEF ReadInv, KeyInv, TypeInv, TypeOK, Stance, About
<1> QED
  BY <1>1, <1>2, <1>3 DEF AloneRisk

(* The vote, the risk, its reason and the summary agree at the fixpoint,   *)
(* in every playstyle: the target is the first line worth a vote, a high   *)
(* risk draws the vote, the reason given for it incriminates, and everyone *)
(* with a dossier is listed or deceased (fd_query.c: fd_pick_vote_target,  *)
(* fd_alone_risk; fd_render.c).                                            *)
THEOREM VotesAlwaysMatchRisks == Spec => []VotesMatchRisks
<1>1. ReadInv => VotesMatchRisks
  <2> SUFFICES ASSUME ReadInv, Fixpoint
               PROVE  VotesMatchRisks
    BY DEF VotesMatchRisks
  <2> DEFINE listed   == {l.color : l \in SummaryLines}
             dossiers == {m.color : m \in crew}
  <2>1. TypeOK /\ OneDossier /\ StancesKeyed
    BY DEF ReadInv, TypeInv, DossierInv, KeyInv
  <2>2. \A c \in Colors : c \in listed <=> c # self /\ Alive(c)
    <3> SUFFICES ASSUME NEW c \in Colors
                 PROVE  c \in listed <=> c # self /\ Alive(c)
      OBVIOUS
    <3>1. About(stances, c) # {} <=> Alive(c)
      BY LivingHaveVerdicts
    <3>2. ASSUME c # self, Alive(c)
          PROVE  c \in listed
      <4>1. [color |-> c, severity |-> StanceNow(c)] \in SummaryLines
        BY <3>1, <3>2 DEF SummaryLines
      <4> QED
        BY <4>1
    <3>3. c \in listed => c # self /\ About(stances, c) # {}
      BY LineForm
    <3> QED
      BY <3>1, <3>2, <3>3
  <2>3. listed \subseteq Colors
    BY LineForm
  <2>4. dossiers \subseteq Colors /\ \A c \in Colors : c \in dossiers <=> Known(c)
    BY <2>1 DEF TypeOK, Crewmember, Known, About
  <2>5. listed \cap Deceased = {}
    BY <2>1, <2>2, StatusKinds DEF Deceased
  <2>6. \A c \in Colors : Known(c) <=> Alive(c) \/ c \in Deceased
    BY <2>1, StatusKinds DEF Deceased, Status, Alive, Known, About
  <2>7. listed \cup (Deceased \ {self}) = dossiers \ {self}
    <3>1. Deceased \subseteq Colors
      BY DEF Deceased
    <3> HIDE DEF listed, dossiers
    <3> QED
      BY <2>2, <2>3, <2>4, <2>6, <3>1
  <2>8. ASSUME AllImpostorsEjected
        PROVE  \A x \in stances : x.category # "threat"
    BY <2>8 DEF Fixpoint, AgendaEmpty, Quiet0, Quiet10, Quiet20, Quiet100, Quiet110,
         Quiet120, Quiet130, Quiet140, Quiet150, Quiet155, Quiet160, Quiet200, Quiet250,
         ClearThreatsLHS
  <2>9. ASSUME NEW style \in Playstyle
        PROVE  LET vote  == PickVoteTarget(style)
                   high  == {c \in listed : AloneRisk(style, c) = "high"}
               IN  /\ IF Worth(style) = {} THEN vote = NoTarget
                      ELSE vote \in Worth(style) /\
                           \A l \in Worth(style) \ {vote} : Precedes(vote, l)
                   /\ high # {} => vote.color \in high
                   /\ style = "trusting" /\ vote # NoTarget => vote.color \in high
    <3> DEFINE vote == PickVoteTarget(style)
               high == {c \in listed : AloneRisk(style, c) = "high"}
    <3>1. IF Worth(style) = {} THEN vote = NoTarget
          ELSE vote \in Worth(style) /\ \A l \in Worth(style) \ {vote} : Precedes(vote, l)
      BY VoteIsTopLine
    <3> HIDE DEF vote
    <3>2. ASSUME high # {}
          PROVE  vote.color \in high
      <4>1. PICK l \in SummaryLines : AloneRisk(style, l.color) = "high"
        BY <3>2
      <4>2. /\ ~ AllImpostorsEjected /\ l.severity \in Category
            /\ RiskByStyle[style][Column[l.severity]] = "high"
        BY <4>1, RiskOfListed
      <4>3. l \in Worth(style)
        BY <4>2, HighIsWorth DEF Worth
      <4>4. vote \in SummaryLines /\ (vote = l \/ Precedes(vote, l))
        BY <3>1, <4>3 DEF Worth
      <4>5. CASE vote = l
        BY <4>1, <4>5
      <4>6. CASE Precedes(vote, l)
        <5>1. PICK i \in 1..4, j \in 1..4 :
                /\ vote.severity = CategoryOrder[i] /\ l.severity = CategoryOrder[j]
                /\ i <= j
          BY <4>6, OrderIsInjective DEF Precedes
        <5>2. RiskByStyle[style][Column[vote.severity]] = "high"
          BY <4>2, <5>1, HigherIsHigh
        <5>3. AloneRisk(style, vote.color) = "high"
          BY <4>2, <4>4, <5>2, RiskOfListed
        <5> QED
          BY <4>4, <5>3
      <4> QED
        BY <4>4, <4>5, <4>6
    <3>3. ASSUME style = "trusting", vote # NoTarget
          PROVE  vote.color \in high
      <4>1. vote \in SummaryLines /\ vote.severity \in Range(Priority["trusting"])
        BY <3>1, <3>3 DEF Worth
      <4>2. vote.severity = "threat"
        BY <4>1 DEF Range, Priority
      <4>3. StanceNow(vote.color) = "threat" /\ About(stances, vote.color) # {}
        BY <4>1, <4>2, LineForm
      <4>4. ~ AllImpostorsEjected
        BY <2>1, <2>8, <4>3, StanceRead DEF About
      <4>5. RiskByStyle[style][Column["threat"]] = "high"
        BY <3>3, TrustingHigh DEF Category
      <4>6. AloneRisk(style, vote.color) = "high"
        BY <4>1, <4>2, <4>4, <4>5, RiskOfListed
      <4> QED
        BY <4>1, <4>6
    <3> QED
      BY <3>1, <3>2, <3>3 DEF vote
  <2>10. ASSUME NEW style \in Playstyle, NEW c \in Colors
         PROVE  /\ AloneRiskNow(style, c) = AloneRisk(style, c)
                /\ AloneRisk("trusting", c) = "high" =>
                     AloneRiskBody(style, c) \in {"accusation", "vent", "near-body"}
    <3>1. c \in Deceased <=> StatusNow(c) \in {"dead", "ejected"}
      BY DEF Deceased
    <3>2. ~ Known(c) <=> StatusNow(c) = "unknown"
      BY <2>1, StatusKinds
    <3>3. StanceNow(c) \in Category
      <4>1. CASE About(stances, c) = {}
        BY <4>1 DEF StanceNow, Category
      <4>2. CASE About(stances, c) # {}
        BY <2>1, <4>2, StanceRead DEF TypeOK, Stance, About
      <4> QED
        BY <4>1, <4>2
    <3>4. AloneRiskNow(style, c) = AloneRisk(style, c)
      BY <3>1, <3>2, <3>3, TablesAgree DEF AloneRiskNow, AloneRisk
    <3>5. ASSUME AloneRisk("trusting", c) = "high"
          PROVE  AloneRiskBody(style, c) \in {"accusation", "vent", "near-body"}
      <4>1. /\ c # self /\ StatusNow(c) \notin {"dead", "ejected", "unknown"}
            /\ ~ AllImpostorsEjected
            /\ RiskByStyle["trusting"][Column[StanceNow(c)]] = "high"
        BY <3>5 DEF AloneRisk
      <4>2. StatusNow(c) = "alive"
        BY <2>1, <4>1, StatusKinds DEF Status
      <4>3. StanceNow(c) = "threat"
        BY <3>3, <4>1, TrustingHigh
      <4>4. PICK x \in stances : x.color = c
        BY <4>3 DEF StanceNow, About
      <4>5. x.category = "threat" /\ EvidenceNow(c) = x.evidence
        BY <2>1, <4>3, <4>4, StanceRead
      <4>6. EvidenceNow(c) \in {"accusation", "vent", "near-body"}
        BY <4>4, <4>5 DEF ReadInv, VerdictInv, ThreatsHaveGrounds, Incriminating
      <4> QED
        BY <4>1, <4>2, <4>6 DEF AloneRiskBody
    <3> QED
      BY <3>4, <3>5
  <2> HIDE DEF listed, dossiers
  <2> QED
    BY <2>5, <2>7, <2>9, <2>10 DEF VotesMatchRisks, Worth, listed, dossiers
<1> QED
  BY <1>1, VerdictAlways, PTL DEF ReadInv

(***************************************************************************)
(* fd_run returns: Work is finite, every rule that fires makes it less,    *)
(* and Less ends.                                                          *)
(***************************************************************************)
LEMMA FewerCounts ==
  ASSUME NEW w, IsFiniteSet(w), NEW v
  PROVE  /\ v \subseteq w => Cardinality(v) \in Nat /\ Cardinality(v) <= Cardinality(w)
         /\ Fewer(v, w) => Cardinality(v) < Cardinality(w)
<1>1. Cardinality(w) \in Nat
  BY FS_CardinalityType
<1>2. ASSUME v \subseteq w
      PROVE  /\ Cardinality(v) \in Nat /\ Cardinality(v) <= Cardinality(w)
             /\ Cardinality(w) = Cardinality(v) => w = v
  <2>1. v \in SUBSET w
    BY <1>2
  <2> QED BY <2>1, FS_Subset, FS_CardinalityType
<1> QED
  BY <1>1, <1>2 DEF Fewer

(* A sequence of numbers that never rises stays the same from some point.  *)
LEMMA NeverRising ==
  ASSUME NEW c, \A n \in Nat : c[n] \in Nat, NEW N \in Nat,
         \A n \in Nat : n >= N => c[n + 1] <= c[n]
  PROVE  \E M \in Nat : M >= N /\ \A n \in Nat : n >= M => c[n] = c[M]
<1> DEFINE B == {c[n] : n \in {k \in Nat : k >= N}}
<1>1. PICK m \in B : \A x \in B : m <= x
  <2>1. B \subseteq Nat /\ B # {}
    OBVIOUS
  <2> HIDE DEF B
  <2> QED BY <2>1, LeastNumber
<1>2. PICK M \in Nat : M >= N /\ m = c[M]
  OBVIOUS
<1>3. \A n \in Nat : n >= M => c[M] <= c[n]
  <2> SUFFICES ASSUME NEW n \in Nat, n >= M PROVE c[M] <= c[n]
    OBVIOUS
  <2>1. c[n] \in B
    BY <1>2
  <2> HIDE DEF B
  <2> QED BY <1>1, <1>2, <2>1
<1> HIDE DEF B
<1>4. ASSUME NEW n \in Nat, n >= M PROVE c[n] = c[M]
  <2> DEFINE G == {k \in Nat : c[M + k] = c[M]}
  <2>1. n - M \in Nat /\ n = M + (n - M)
    BY <1>4
  <2>2. 0 \in G
    BY M + 0 = M
  <2>3. ASSUME NEW k \in 1 .. n - M, k - 1 \in G PROVE k \in G
    <3>1. /\ k \in Nat /\ k - 1 \in Nat /\ M + k \in Nat /\ M + (k - 1) \in Nat
          /\ M + k = (M + (k - 1)) + 1 /\ M + (k - 1) >= N /\ M + k >= M
      BY <1>2, <2>1, <2>3
    <3>2. c[M + k] <= c[M + (k - 1)] /\ c[M + (k - 1)] = c[M]
      BY <2>3, <3>1
    <3>3. c[M] <= c[M + k] /\ c[M + k] \in Nat /\ c[M] \in Nat
      BY <1>3, <3>1
    <3> QED BY <3>1, <3>2, <3>3
  <2> HIDE DEF G
  <2>4. n - M \in G
    <3>1. \A k \in 0 .. n - M : k \in G
      BY <2>1, <2>2, <2>3, NatInductionOn
    <3> QED BY <2>1, <3>1
  <2> USE DEF G
  <2> QED BY <2>1, <2>4
<1> QED
  BY <1>2, <1>4

(* The order of Less ends: there is no endless sequence of finite sets, K   *)
(* at a time, each less than the one before.  So a run whose every firing  *)
(* makes Work less fires finitely often (fd_run).                          *)
THEOREM NoEndlessRun ==
  ASSUME NEW K \in Nat, NEW w
  PROVE  ~ Endless(K, w)
<1> SUFFICES ASSUME Endless(K, w) PROVE FALSE
  OBVIOUS
<1> DEFINE C == [i \in 1..K |-> [n \in Nat |-> Cardinality(w[n][i])]]
           Steady(i, N) == \A n \in Nat : n >= N => C[i][n] = C[i][N]
           G == {k \in Nat : \E N \in Nat : \A i \in 1..k : Steady(i, N)}
<1>1. \A i \in 1..K : \A n \in Nat : C[i][n] \in Nat
  BY FS_CardinalityType DEF Endless, Piles
<1>2. ASSUME NEW n \in Nat
      PROVE  \E d \in 1..K : /\ C[d][n + 1] < C[d][n]
                             /\ \A j \in 1 .. d - 1 : C[j][n + 1] <= C[j][n]
  <2>1. PICK d \in 1..K : /\ Fewer(w[n + 1][d], w[n][d])
                          /\ \A j \in 1 .. d - 1 : w[n + 1][j] \subseteq w[n][j]
    BY DEF Endless, Piles, Less
  <2>2. \A j \in 1..d : IsFiniteSet(w[n][j])
    <3>1. \A j \in 1..K : IsFiniteSet(w[n][j])
      BY DEF Endless, Piles
    <3> QED BY <3>1
  <2>3. n + 1 \in Nat /\ d \in 1..d
    OBVIOUS
  <2>4. C[d][n + 1] < C[d][n]
    BY <2>1, <2>2, <2>3, FewerCounts
  <2>5. ASSUME NEW j \in 1 .. d - 1 PROVE C[j][n + 1] <= C[j][n]
    <3>1. j \in 1..d /\ j \in 1..K
      OBVIOUS
    <3>2. Cardinality(w[n + 1][j]) <= Cardinality(w[n][j])
      BY <2>1, <2>2, <3>1, FewerCounts
    <3> QED BY <2>3, <3>1, <3>2
  <2> QED BY <2>4, <2>5
<1> HIDE DEF C
<1>3. 0 \in G
  OBVIOUS
<1>4. ASSUME NEW k \in 1..K, k - 1 \in G PROVE k \in G
  <2>1. PICK N \in Nat : \A i \in 1 .. k - 1 : Steady(i, N)
    BY <1>4
  <2>2. \A n \in Nat : n >= N => C[k][n + 1] <= C[k][n]
    <3> SUFFICES ASSUME NEW n \in Nat, n >= N PROVE C[k][n + 1] <= C[k][n]
      OBVIOUS
    <3>1. PICK d \in 1..K : /\ C[d][n + 1] < C[d][n]
                            /\ \A j \in 1 .. d - 1 : C[j][n + 1] <= C[j][n]
      BY <1>2
    <3>2. n + 1 \in Nat /\ n + 1 >= N
      OBVIOUS
    <3>3. ASSUME d < k PROVE FALSE
      <4>1. d \in 1 .. k - 1
        BY <3>3
      <4>2. C[d][n + 1] = C[d][N] /\ C[d][n] = C[d][N]
        BY <2>1, <3>2, <4>1
      <4>3. C[d][n] \in Nat /\ C[d][n + 1] \in Nat
        BY <1>1, <3>2
      <4>4. C[d][n + 1] < C[d][n]
        BY <3>1, Zenon
      <4> QED BY <4>2, <4>3, <4>4
    <3>4. ASSUME d = k PROVE C[k][n + 1] <= C[k][n]
      <4>1. C[d][n] \in Nat /\ C[d][n + 1] \in Nat
        BY <1>1, <3>2
      <4>2. C[d][n + 1] <= C[d][n]
        BY <3>1, <4>1
      <4> QED BY <3>4, <4>2
    <3>5. CASE d > k
      BY <3>1, <3>5
    <3> QED BY <3>3, <3>4, <3>5
  <2>3. PICK M \in Nat : M >= N /\ Steady(k, M)
    <3> DEFINE c == C[k]
    <3>1. \A n \in Nat : c[n] \in Nat
      BY <1>1
    <3>2. \A n \in Nat : n >= N => c[n + 1] <= c[n]
      BY <2>2
    <3> HIDE DEF c
    <3>3. \E M \in Nat : M >= N /\ \A n \in Nat : n >= M => c[n] = c[M]
      BY <3>1, <3>2, NeverRising
    <3> QED BY <3>3 DEF c
  <2>4. ASSUME NEW i \in 1..k PROVE Steady(i, M)
    <3>1. CASE i = k
      BY <2>3, <3>1
    <3>2. CASE i \in 1 .. k - 1
      <4>1. ASSUME NEW n \in Nat, n >= M PROVE C[i][n] = C[i][M]
        <5>1. n >= N /\ M >= N
          BY <2>3, <4>1
        <5>2. C[i][n] = C[i][N] /\ C[i][M] = C[i][N]
          BY <2>1, <3>2, <5>1
        <5> QED BY <5>2
      <4> QED BY <4>1
    <3> QED BY <3>1, <3>2
  <2>5. k \in Nat /\ \A i \in 1..k : Steady(i, M)
    BY <2>4
  <2> QED BY <2>5
<1>5. K \in G
  <2> HIDE DEF G
  <2>1. \A k \in 0..K : k \in G
    BY <1>3, <1>4, NatInductionOn
  <2> QED BY <2>1
<1>6. PICK N \in Nat : \A i \in 1..K : Steady(i, N)
  BY <1>5
<1>7. PICK d \in 1..K : C[d][N + 1] < C[d][N]
  BY <1>2
<1>8. C[d][N + 1] = C[d][N] /\ C[d][N] \in Nat
  <2>1. N + 1 \in Nat /\ N + 1 >= N
    OBVIOUS
  <2> QED BY <1>1, <1>6, <2>1
<1> QED
  BY <1>7, <1>8

(* A step adds at most one fact of a template.                             *)
AtMostOneNew(new, old) == \E x : new \subseteq old \cup {x}
FactsAreFinite ==
  /\ IsFiniteSet(sightings) /\ IsFiniteSet(bodies) /\ IsFiniteSet(taskTicks)
  /\ IsFiniteSet(dead) /\ IsFiniteSet(ejections) /\ IsFiniteSet(crew)
  /\ IsFiniteSet(roster) /\ IsFiniteSet(cases) /\ IsFiniteSet(windows)
  /\ IsFiniteSet(alibis) /\ IsFiniteSet(suspects) /\ IsFiniteSet(stances)
  /\ IsFiniteSet(castIron) /\ IsFiniteSet(vents) /\ IsFiniteSet(accusations)
  /\ IsFiniteSet(nearBody)

LEMMA OneNewFact ==
  ASSUME [Next]_allVars
  PROVE  /\ AtMostOneNew(sightings', sightings) /\ AtMostOneNew(bodies', bodies)
         /\ AtMostOneNew(taskTicks', taskTicks) /\ AtMostOneNew(dead', dead)
         /\ AtMostOneNew(ejections', ejections) /\ AtMostOneNew(crew', crew)
         /\ AtMostOneNew(roster', roster) /\ AtMostOneNew(cases', cases)
         /\ AtMostOneNew(windows', windows) /\ AtMostOneNew(alibis', alibis)
         /\ AtMostOneNew(suspects', suspects) /\ AtMostOneNew(stances', stances)
         /\ AtMostOneNew(castIron', castIron) /\ AtMostOneNew(vents', vents)
         /\ AtMostOneNew(accusations', accusations) /\ AtMostOneNew(nearBody', nearBody)
<1>0. /\ \A S : AtMostOneNew(S, S)
      /\ \A S, x : AtMostOneNew(S \cup {x}, S)
      /\ \A S, T : T \subseteq S => AtMostOneNew(T, S)
      /\ \A S, x, y : AtMostOneNew(Replace(S, x, y), S)
      /\ \A S, x : AtMostOneNew({x}, S)
  BY DEF AtMostOneNew, Replace
<1>1. CASE CaseRules
  <2>1. UNCHANGED <<sightings, bodies, taskTicks, dead, ejections, crew, roster, stances,
                    vents>>
    BY <1>1, CaseRulesFrame DEF inputVars, dossierVars, roundVars
  <2>2. /\ AtMostOneNew(cases', cases) /\ AtMostOneNew(windows', windows)
        /\ AtMostOneNew(alibis', alibis) /\ AtMostOneNew(suspects', suspects)
        /\ AtMostOneNew(castIron', castIron) /\ AtMostOneNew(nearBody', nearBody)
        /\ AtMostOneNew(accusations', accusations)
    <3>1. CASE OpenCase \/ InitKillWindow
      BY <1>0, <3>1 DEF OpenCase, InitKillWindow
    <3>2. CASE UpdateKillWindowLower
      <4>1. /\ \E w, u : windows' = Replace(windows, w, u)
            /\ \E v : alibis' = alibis \ InCase(alibis, v)
            /\ castIron' \subseteq castIron /\ nearBody' \subseteq nearBody
            /\ UNCHANGED <<cases, suspects, accusations>>
        BY <3>2 DEF UpdateKillWindowLower, WithoutAlibis, WithoutNearBody
      <4> QED BY <1>0, <4>1
    <3>3. CASE DeriveAlibi \/ DeriveCastIronAlibi \/ AttachNearBody \/ SolveCase
      BY <1>0, <3>3 DEF DeriveAlibi, DeriveCastIronAlibi, AttachNearBody, SolveCase
    <3>4. CASE OpenSuspectFromCrewmember \/ RetractSuspectOnCastIron
      BY <1>0, <3>4 DEF OpenSuspectFromCrewmember, RetractSuspectOnCastIron, PoolChanged
    <3>5. CASE StrengthenSuspect \/ WeakenSuspectOnWeakAlibi
      BY <1>0, <3>5 DEF StrengthenSuspect, WeakenSuspectOnWeakAlibi, Explain,
         PoolChanged
    <3> QED BY <1>1, <3>1, <3>2, <3>3, <3>4, <3>5 DEF CaseRules, CaseBand140
  <2> QED BY <1>0, <2>1, <2>2
<1>2. CASE DossierRules
  <2>1. UNCHANGED <<sightings, bodies, ejections, roster, stances, cases, windows,
                    alibis, suspects, castIron, vents, accusations, nearBody>>
    BY <1>2, DossierRulesFrame DEF inputVars, caseVars
  <2>2. /\ AtMostOneNew(taskTicks', taskTicks) /\ AtMostOneNew(dead', dead)
        /\ AtMostOneNew(crew', crew)
    <3>1. CASE EnsureDossierAlive \/ EnsureDossierFromDeath \/ EnsureDossierFromEjection
      BY <1>0, <3>1 DEF EnsureDossierAlive, EnsureDossierFromDeath,
         EnsureDossierFromEjection, SetCrew
    <3>2. CASE UpdateLastSeen \/ MarkDead \/ MarkEjected
      BY <1>0, <3>2 DEF UpdateLastSeen, MarkDead, MarkEjected, SetCrew
    <3>3. CASE CountTask
      BY <1>0, <3>3 DEF CountTask, SetCrew
    <3>4. CASE BodyImpliesDeath
      BY <1>0, <3>4 DEF BodyImpliesDeath
    <3> QED BY <1>2, <3>1, <3>2, <3>3, <3>4 DEF DossierRules
  <2> QED BY <1>0, <2>1, <2>2
<1>3. CASE RosterRules \/ PressureRules
  <2>1. UNCHANGED <<sightings, bodies, taskTicks, dead, ejections, crew, cases, windows,
                    alibis, suspects, castIron, vents, accusations, nearBody,
                    stances>>
    BY <1>3, RoundRulesFrame DEF inputVars, dossierVars, caseVars
  <2>2. AtMostOneNew(roster', roster)
    BY <1>0, <1>3 DEF RosterRules, PressureRules, RosterEnsure, RosterRecount,
       PressureEnsure, PressureDerive
  <2> QED BY <1>0, <2>1, <2>2
<1>4. CASE StanceRules
  <2>1. UNCHANGED <<sightings, bodies, taskTicks, dead, ejections, crew, cases, windows,
                    alibis, suspects, castIron, vents, accusations, nearBody,
                    roster>>
    BY <1>4, StanceRulesFrame DEF inputVars, dossierVars, caseVars, roundVars
  <2>2. AtMostOneNew(stances', stances)
    BY <1>0, <1>4 DEF StanceRules, ClearThreatsOnImpostorFound,
       RetractStanceOnStatusChange, StanceAccuse, StanceThreatFromVent, StanceThreat,
       StanceOffTask, StanceOnTask, StanceEnsure, Promote
  <2> QED BY <1>0, <2>1, <2>2
<1>5. CASE Observe
  <2>1. UNCHANGED <<crew, cases, windows, alibis, suspects, accusations, nearBody, stances>>
    BY <1>5 DEF Observe, ObservePlayer, ObserveVent, ObserveBody, ObserveTaskCompletion,
       ObserveDeath, ObserveEjection, ObserveRoundConfig, ChangeGraph, Observing
  <2>2. /\ AtMostOneNew(sightings', sightings) /\ AtMostOneNew(bodies', bodies)
        /\ AtMostOneNew(taskTicks', taskTicks) /\ AtMostOneNew(dead', dead)
        /\ AtMostOneNew(ejections', ejections) /\ AtMostOneNew(roster', roster)
        /\ AtMostOneNew(vents', vents) /\ AtMostOneNew(castIron', castIron)
    <3>0. ASSUME NEW c, NEW b, AssertVent(c, b)
          PROVE  AtMostOneNew(vents', vents) /\ AtMostOneNew(castIron', castIron)
      BY <1>0, <3>0 DEF AssertVent
    <3>1. CASE ObservePlayer
      <4>1. /\ \E s : sightings' = sightings \cup {s}
            /\ (\E c, b : AssertVent(c, b)) \/ UNCHANGED <<vents, castIron>>
            /\ UNCHANGED <<bodies, taskTicks, dead, ejections, roster>>
        BY <3>1 DEF ObservePlayer
      <4> QED BY <1>0, <3>0, <4>1
    <3>2. CASE ObserveVent \/ ObserveBody \/ ObserveTaskCompletion
      BY <1>0, <3>0, <3>2 DEF ObserveVent, ObserveBody, ObserveTaskCompletion
    <3>3. CASE ObserveDeath \/ ObserveEjection
      BY <1>0, <3>3 DEF ObserveDeath, ObserveEjection
    <3>4. CASE ObserveRoundConfig \/ ChangeGraph
      BY <1>0, <3>4 DEF ObserveRoundConfig, ChangeGraph
    <3> QED BY <1>5, <3>1, <3>2, <3>3, <3>4 DEF Observe
  <2> QED BY <1>0, <2>1, <2>2
<1>6. CASE FdRun \/ EndRun \/ UNCHANGED allVars
  <2>1. UNCHANGED <<sightings, bodies, taskTicks, dead, ejections, crew, roster, cases,
                    windows, alibis, suspects, vents, accusations, nearBody,
                    stances>>
    BY <1>6 DEF FdRun, EndRun, allVars, vars, inputVars, dossierVars, caseVars, roundVars
  <2>2. castIron' \subseteq castIron
    BY <1>6 DEF FdRun, PublishAnew, EndRun, allVars, vars, caseVars
  <2> QED BY <1>0, <2>1, <2>2
<1> QED
  BY <1>1, <1>2, <1>3, <1>4, <1>5, <1>6, FireByLayer DEF Next

LEMMA FiniteAlways == Spec => []FactsAreFinite
<1>1. Init => FactsAreFinite
  BY FS_EmptySet DEF Init, WMInit, FactsAreFinite
<1>2. ASSUME NEW S, NEW T, IsFiniteSet(S), AtMostOneNew(T, S) PROVE IsFiniteSet(T)
  <2>1. PICK x : T \subseteq S \cup {x}
    BY <1>2 DEF AtMostOneNew
  <2>2. T \in SUBSET (S \cup {x})
    BY <2>1
  <2> QED BY <1>2, <2>2, FS_AddElement, FS_Subset
<1>3. FactsAreFinite /\ [Next]_allVars => FactsAreFinite'
  BY <1>2, OneNewFact DEF FactsAreFinite
<1> QED
  BY <1>1, <1>3, PTL DEF Spec

LEMMA WorkIs ==
  /\ DOMAIN Work = 1..25
  /\ Work[1] = Unknowns /\ Work[2] = taskTicks /\ Work[3] = BodyImpliesDeathLHS
  /\ Work[4] = Unnoticed /\ Work[5] = Staying /\ Work[6] = Breathing
  /\ Work[7] = Flag(roster = {}) /\ Work[8] = Miscounted /\ Work[9] = Flag(recountDue)
  /\ Work[10] = Flag(pressure = "absent") /\ Work[11] = Misjudged
  /\ Work[12] = OpenCaseLHS /\ Work[13] = InitKillWindowLHS /\ Work[14] = Narrowing
  /\ Work[15] = Absences /\ Work[16] = Breakable /\ Work[17] = Scenes
  /\ Work[18] = Openings /\ Work[19] = Unexplained /\ Work[20] = RetractSuspectLHS
  /\ Work[21] = Unaccused
  /\ Work[22] = Departed /\ Work[23] = StanceEnsureLHS /\ Work[24] = Unsettled
  /\ Work[25] = OutOfDate
  BY DEF Work

LEMMA ColorsFinite ==
  ASSUME NEW S, IsFiniteSet(S)
  PROVE  IsFiniteSet({x.color : x \in S})
<1> DEFINE T == {x.color : x \in S}
           f == [x \in S |-> x.color]
<1>1. f \in [S -> T] /\ \A t \in T : \E x \in S : f[x] = t
  OBVIOUS
<1> HIDE DEF f, T
<1>2. f \in Surjection(S, T)
  BY <1>1 DEF Surjection
<1>3. IsFiniteSet(T)
  BY <1>2, FS_Surjection
<1> QED
  BY <1>3 DEF T

LEMMA TriplesFinite ==
  ASSUME NEW R, IsFiniteSet(R), NEW S, IsFiniteSet(S), NEW T, IsFiniteSet(T)
  PROVE  IsFiniteSet(R \X S \X T)
<1> DEFINE P == (R \X S) \X T
           Q == R \X S \X T
           f == [p \in P |-> <<p[1][1], p[1][2], p[2]>>]
<1>1. IsFiniteSet(P)
  BY FS_Product
<1>2. f \in [P -> Q]
  OBVIOUS
<1>3. ASSUME NEW q \in Q PROVE \E p \in P : f[p] = q
  <2>1. <<<<q[1], q[2]>>, q[3]>> \in P
    OBVIOUS
  <2>2. f[<<<<q[1], q[2]>>, q[3]>>] = q
    BY <2>1
  <2> QED BY <2>1, <2>2
<1> HIDE DEF f, P, Q
<1>4. f \in Surjection(P, Q)
  BY <1>2, <1>3 DEF Surjection
<1>5. IsFiniteSet(Q)
  BY <1>1, <1>4, FS_Surjection
<1> QED
  BY <1>5 DEF Q

LEMMA WorkFinite == FactsAreFinite => Piles(25, Work)
<1> SUFFICES ASSUME FactsAreFinite PROVE Piles(25, Work)
  OBVIOUS
<1> USE DEF FactsAreFinite
<1>0. ASSUME NEW S, NEW T, IsFiniteSet(S), T \subseteq S PROVE IsFiniteSet(T)
  <2>1. T \in SUBSET S
    BY <1>0
  <2> QED BY <1>0, <2>1, FS_Subset
<1>1. \A b : IsFiniteSet(Flag(b))
  BY FS_EmptySet, FS_Singleton DEF Flag
<1>2. IsFiniteSet(Unknowns)
  <2>1. /\ IsFiniteSet({s.color : s \in sightings}) /\ IsFiniteSet({b.color : b \in bodies})
        /\ IsFiniteSet({e.color : e \in ejections}) /\ IsFiniteSet({t.color : t \in taskTicks})
    BY ColorsFinite
  <2>2. IsFiniteSet(Reported \cup {t.color : t \in taskTicks})
    BY <2>1, FS_Union DEF Reported
  <2> QED BY <1>0, <2>2 DEF Unknowns
<1>3. IsFiniteSet(Staying) /\ IsFiniteSet(Breathing)
  <2>1. IsFiniteSet({m.color : m \in crew})
    BY ColorsFinite
  <2>2. Staying \subseteq {m.color : m \in crew} /\ Breathing \subseteq {m.color : m \in crew}
    BY DEF Staying, Breathing
  <2> QED BY <1>0, <2>1, <2>2
<1>4. IsFiniteSet(Departed) /\ IsFiniteSet(Unsettled) /\ IsFiniteSet(OutOfDate)
  <2>1. IsFiniteSet({x.color : x \in stances})
    BY ColorsFinite
  <2>2. /\ Departed \subseteq {x.color : x \in stances}
        /\ Unsettled \subseteq {x.color : x \in stances}
        /\ OutOfDate \subseteq {x.color : x \in stances}
    BY DEF Departed, Unsettled, OutOfDate, RetractStanceLHS, OffTaskLHS, OnTaskLHS
  <2> QED BY <1>0, <2>1, <2>2
<1>5. IsFiniteSet(Absences) /\ IsFiniteSet(Scenes) /\ IsFiniteSet(Openings)
  <2>1. /\ IsFiniteSet(sightings \X windows) /\ IsFiniteSet(sightings \X windows \X cases)
        /\ IsFiniteSet(crew \X cases)
    BY TriplesFinite, FS_Product
  <2>2. /\ Absences \subseteq sightings \X windows
        /\ Scenes \subseteq sightings \X windows \X cases
        /\ Openings \subseteq crew \X cases
    BY DEF Absences, Scenes, Openings
  <2> QED BY <1>0, <2>1, <2>2
<1>6. /\ BodyImpliesDeathLHS \subseteq bodies /\ Unnoticed \subseteq sightings
      /\ Miscounted \subseteq roster /\ Misjudged \subseteq roster
      /\ OpenCaseLHS \subseteq bodies /\ InitKillWindowLHS \subseteq cases
      /\ Narrowing \subseteq sightings /\ Breakable \subseteq alibis
      /\ Unexplained \subseteq suspects /\ RetractSuspectLHS \subseteq suspects
      /\ Unaccused \subseteq suspects /\ StanceEnsureLHS \subseteq crew
  BY DEF BodyImpliesDeathLHS, Unnoticed, Miscounted, Misjudged, OpenCaseLHS,
         InitKillWindowLHS, Narrowing, Breakable, Unexplained, RetractSuspectLHS,
         Unaccused, StanceEnsureLHS
<1>7. /\ IsFiniteSet(BodyImpliesDeathLHS) /\ IsFiniteSet(Unnoticed)
      /\ IsFiniteSet(Miscounted) /\ IsFiniteSet(Misjudged)
      /\ IsFiniteSet(OpenCaseLHS) /\ IsFiniteSet(InitKillWindowLHS)
      /\ IsFiniteSet(Narrowing) /\ IsFiniteSet(Breakable)
      /\ IsFiniteSet(Unexplained) /\ IsFiniteSet(RetractSuspectLHS)
      /\ IsFiniteSet(Unaccused) /\ IsFiniteSet(StanceEnsureLHS)
  BY <1>0, <1>6
<1>8. ASSUME NEW i \in 1..25 PROVE IsFiniteSet(Work[i])
  BY <1>1, <1>2, <1>3, <1>4, <1>5, <1>7, <1>8, WorkIs
<1> QED
  BY <1>8, WorkIs DEF Piles

(* There is never more than finitely much left to do, however many reports *)
(* fd_observe_* has added.                                                 *)
THEOREM WorkAlwaysFinite == Spec => []Piles(25, Work)
<1>1. FactsAreFinite => Piles(25, Work)
  BY WorkFinite
<1> QED
  BY <1>1, FiniteAlways, PTL

(* The same, after a step; and how a step is shown to make progress.       *)
LEMMA WorkIsAfter ==
  /\ DOMAIN Work' = 1..25
  /\ Work'[1] = Unknowns' /\ Work'[2] = taskTicks' /\ Work'[3] = BodyImpliesDeathLHS'
  /\ Work'[4] = Unnoticed' /\ Work'[5] = Staying' /\ Work'[6] = Breathing'
  /\ Work'[7] = Flag(roster = {})' /\ Work'[8] = Miscounted' /\ Work'[9] = Flag(recountDue)'
  /\ Work'[10] = Flag(pressure = "absent")' /\ Work'[11] = Misjudged'
  /\ Work'[12] = OpenCaseLHS' /\ Work'[13] = InitKillWindowLHS' /\ Work'[14] = Narrowing'
  /\ Work'[15] = Absences' /\ Work'[16] = Breakable' /\ Work'[17] = Scenes'
  /\ Work'[18] = Openings' /\ Work'[19] = Unexplained' /\ Work'[20] = RetractSuspectLHS'
  /\ Work'[21] = Unaccused'
  /\ Work'[22] = Departed' /\ Work'[23] = StanceEnsureLHS' /\ Work'[24] = Unsettled'
  /\ Work'[25] = OutOfDate'
  BY DEF Work

NoMoreAt(i) == Work'[i] \subseteq Work[i]
LEMMA Decided ==
  ASSUME NEW i \in 1..25, Fewer(Work'[i], Work[i]), \A j \in 1 .. i - 1 : NoMoreAt(j)
  PROVE  Less(Work', Work)
  BY WorkIs DEF Less, NoMoreAt

(* What a layer does not read, it leaves as it is.                         *)
LEMMA DossierWorkKept ==
  ASSUME UNCHANGED <<sightings, bodies, taskTicks, dead, ejections, crew>>
  PROVE  \A j \in 1..6 : NoMoreAt(j)
<1>1. UNCHANGED <<Unknowns, BodyImpliesDeathLHS, Unnoticed, Staying, Breathing>>
  BY DEF Unknowns, Reported, Known, BodyImpliesDeathLHS, Unnoticed, Staying, Breathing, About
<1> QED
  BY <1>1, WorkIs, WorkIsAfter DEF NoMoreAt

LEMMA RoundWorkKept ==
  ASSUME UNCHANGED <<sightings, bodies, taskTicks, dead, ejections, crew>>,
         UNCHANGED <<roster, recountDue, pressure>>
  PROVE  \A j \in 1..11 : NoMoreAt(j)
<1>1. \A r : Recounted(r)' = Recounted(r)
  BY DEF Recounted
<1>2. UNCHANGED <<Flag(roster = {}), Miscounted, Flag(recountDue),
                  Flag(pressure = "absent"), Misjudged>>
  BY <1>1 DEF Miscounted, Misjudged
<1>3. \A j \in 7..11 : NoMoreAt(j)
  BY <1>2, WorkIs, WorkIsAfter DEF NoMoreAt
<1>4. \A j \in 1..6 : NoMoreAt(j)
  BY DossierWorkKept
<1> QED
  BY <1>3, <1>4

LEMMA CaseWorkKept ==
  ASSUME UNCHANGED <<sightings, bodies, taskTicks, dead, ejections, crew>>,
         UNCHANGED <<roster, recountDue, pressure, self, caseVars>>
  PROVE  \A j \in 1..21 : NoMoreAt(j)
<1>1. UNCHANGED <<OpenCaseLHS, InitKillWindowLHS, Narrowing, Absences, Breakable, Scenes>>
  BY DEF caseVars, OpenCaseLHS, InitKillWindowLHS, Narrowing, Absences, Breakable, Scenes,
         InCase, SeenElsewhere, HasAlibi, HasCastIron, AtTheScene
<1>2. UNCHANGED <<Openings, Unexplained, RetractSuspectLHS, Unaccused>>
  BY DEF caseVars, Openings, Opens, Eligible, Unexplained, RetractSuspectLHS, Unaccused,
         InCase, HasCastIron, IsSuspect
<1>3. \A j \in 12..21 : NoMoreAt(j)
  BY <1>1, <1>2, WorkIs, WorkIsAfter DEF NoMoreAt
<1>4. \A j \in 1..11 : NoMoreAt(j)
  BY RoundWorkKept
<1> QED
  BY <1>3, <1>4

(* A second recount changes nothing.                                       *)
LEMMA RecountedOnce ==
  ASSUME TypeInv, NEW r \in roster
  PROVE  Recounted(Recounted(r)) = Recounted(r)
<1> DEFINE out  == Cardinality({e \in ejections : e.impostor})
           live == Cardinality({m \in crew : m.status = "alive"})
           imps(q) == Larger(0, q.impostors - out)
           q == Recounted(r)
<1>1. \A p : Recounted(p) = [p EXCEPT !.ejected = out, !.aliveImpostors = imps(p),
                                      !.aliveCrew = Larger(0, live - imps(p))]
  BY DEF Recounted
<1>2. r \in Roster /\ q \in Roster
  BY RecountedType DEF TypeInv, TypeOK
<1> HIDE DEF out, live, imps, q
<1>3. q = [r EXCEPT !.ejected = out, !.aliveImpostors = imps(r),
                    !.aliveCrew = Larger(0, live - imps(r))]
  BY <1>1 DEF q
<1>4. q.impostors = r.impostors
  BY <1>2, <1>3 DEF Roster
<1>5. imps(q) = imps(r)
  BY <1>4 DEF imps
<1>6. /\ q.ejected = out /\ q.aliveImpostors = imps(q)
      /\ q.aliveCrew = Larger(0, live - imps(q))
  BY <1>2, <1>3, <1>5 DEF Roster
<1>7. [q EXCEPT !.ejected = out, !.aliveImpostors = imps(q),
                !.aliveCrew = Larger(0, live - imps(q))] = q
  BY <1>2, <1>6 DEF Roster
<1> QED
  BY <1>1, <1>7 DEF q

(* clp/roster.clp and clp/pressure.clp: one recount, one level.            *)
LEMMA RoundRulesWork ==
  ASSUME TypeInv, OneRoster, RosterRules \/ PressureRules
  PROVE  Less(Work', Work)
<1>1. /\ UNCHANGED <<sightings, bodies, taskTicks, dead, ejections, crew>>
      /\ \A j \in 1..6 : NoMoreAt(j)
  BY DossierWorkKept, RoundRulesFrame DEF inputVars, dossierVars
<1>2. CASE RosterEnsure
  <2>1. Fewer(Work'[7], Work[7])
    BY <1>2, WorkIs, WorkIsAfter DEF RosterEnsure, RosterEnsureLHS, Flag, Fewer
  <2> QED BY <1>1, <2>1, Decided
<1>3. CASE RosterRecount
  <2>1. PICK r \in roster : roster' = {Recounted(r)} /\ recountDue' = (Recounted(r) # r)
    BY <1>3 DEF RosterRecount
  <2>2. Recounted(Recounted(r)) = Recounted(r)
    BY RecountedOnce
  <2>3. \A q : Recounted(q)' = Recounted(q)
    BY <1>1 DEF Recounted
  <2>4. Miscounted' = {}
    BY <2>1, <2>2, <2>3 DEF Miscounted
  <2>5. Flag(roster = {})' = {} /\ NoMoreAt(7)
    BY <2>1, WorkIs, WorkIsAfter DEF Flag, NoMoreAt
  <2>6. CASE Recounted(r) # r
    <3>1. Fewer(Work'[8], Work[8])
      BY <2>1, <2>4, <2>6, WorkIs, WorkIsAfter DEF Fewer, Miscounted
    <3> QED BY <1>1, <2>5, <3>1, Decided
  <2>7. CASE Recounted(r) = r
    <3>1. Fewer(Work'[9], Work[9])
      BY <1>3, <2>1, <2>7, WorkIs, WorkIsAfter DEF Fewer, Flag, RosterRecount, RosterRecountLHS
    <3>2. NoMoreAt(8)
      BY <2>4, WorkIs, WorkIsAfter DEF NoMoreAt
    <3> QED BY <1>1, <2>5, <3>1, <3>2, Decided
  <2> QED BY <2>6, <2>7
<1>4. CASE PressureRules
  <2>1. UNCHANGED <<roster, recountDue>>
    BY <1>4 DEF PressureRules, PressureEnsure, PressureDerive
  <2>2. UNCHANGED <<Flag(roster = {}), Miscounted, Flag(recountDue)>>
    <3>1. \A r : Recounted(r)' = Recounted(r)
      BY <1>1 DEF Recounted
    <3> QED BY <2>1, <3>1 DEF Miscounted
  <2>3. \A j \in 7..9 : NoMoreAt(j)
    BY <2>2, WorkIs, WorkIsAfter DEF NoMoreAt
  <2>4. CASE PressureEnsure
    <3>1. Fewer(Work'[10], Work[10])
      BY <2>4, WorkIs, WorkIsAfter DEF PressureEnsure, PressureEnsureLHS, Flag, Fewer
    <3> QED BY <1>1, <2>3, <3>1, Decided
  <2>5. CASE PressureDerive
    <3> DEFINE lev(r) == LevelOf(r.aliveCrew - r.aliveImpostors)
    <3>1. PICK r \in roster : lev(r) # pressure /\ pressure # "absent" /\ pressure' = lev(r)
      BY <2>5 DEF PressureDerive, PressureDeriveLHS
    <3>2. roster = {r}
      BY <3>1 DEF OneRoster
    <3>3. Misjudged = {r} /\ Misjudged' = {}
      <4> HIDE DEF lev
      <4>1. Misjudged = {q \in roster : lev(q) # pressure}
        BY DEF Misjudged, lev
      <4>2. Misjudged' = {q \in roster' : lev(q) # pressure'}
        BY DEF Misjudged, lev
      <4> QED BY <2>1, <3>1, <3>2, <4>1, <4>2
    <3>4. Fewer(Work'[11], Work[11])
      BY <3>3, WorkIs, WorkIsAfter DEF Fewer
    <3>5. r.aliveCrew - r.aliveImpostors \in Int
      BY DEF TypeInv, TypeOK, Roster
    <3>6. pressure' # "absent"
      BY <3>1, <3>5, LevelType DEF Level
    <3>7. NoMoreAt(10)
      BY <3>6, WorkIs, WorkIsAfter DEF NoMoreAt, Flag
    <3> QED BY <1>1, <2>3, <3>4, <3>7, Decided
  <2> QED BY <1>4, <2>4, <2>5 DEF PressureRules
<1> QED
  BY <1>2, <1>3, <1>4 DEF RosterRules

(* clp/dossier.clp: a new dossier, or one brought up to date.              *)
LEMMA NewDossierWork ==
  ASSUME UNCHANGED <<sightings, bodies, taskTicks, dead, ejections>>,
         NEW c \in Reported \cup {t.color : t \in taskTicks}, ~ Known(c),
         NEW n, n.color = c, crew' = crew \cup {n}
  PROVE  Less(Work', Work)
<1>1. \A x : Known(x) => Known(x)'
  BY DEF Known, About
<1>2. Known(c)'
  BY DEF Known, About
<1>3. (Reported \cup {t.color : t \in taskTicks})' = Reported \cup {t.color : t \in taskTicks}
  BY DEF Reported
<1>4. Fewer(Unknowns', Unknowns)
  BY <1>1, <1>2, <1>3 DEF Unknowns, Fewer
<1> QED
  BY <1>4, WorkIs, WorkIsAfter, Decided

LEMMA ReplacedDossier ==
  ASSUME OneDossier, NEW m \in crew, NEW n, n.color = m.color, crew' = Replace(crew, m, n)
  PROVE  /\ \A c : Known(c)' <=> Known(c)
         /\ n \in crew'
         /\ \A x \in crew' : x = n \/ (x \in crew /\ x.color # m.color)
         /\ \A x \in crew : x = m \/ x \in crew'
  BY DEF OneDossier, Keyed, OfColor, Replace, Known, About

LEMMA DossierRulesWork ==
  ASSUME TypeInv, DossierInv, DossierRules
  PROVE  Less(Work', Work)
<1> USE DEF TypeInv, TypeOK, DossierInv
<1>1. UNCHANGED <<sightings, bodies, ejections>>
  BY DossierRulesFrame DEF inputVars
<1>2. CASE EnsureDossierAlive
  <2>1. PICK x \in EnsureFromSightingLHS \cup EnsureFromTaskLHS :
          crew' = crew \cup {NewCrew(x.color, "alive")} /\ UNCHANGED <<taskTicks, dead>>
    BY <1>2 DEF EnsureDossierAlive, SetCrew
  <2>2. ~ Known(x.color) /\ x.color \in Reported \cup {t.color : t \in taskTicks}
    BY DEF EnsureFromSightingLHS, EnsureFromTaskLHS, Reported
  <2>3. NewCrew(x.color, "alive").color = x.color
    BY DEF NewCrew
  <2> QED BY <1>1, <2>1, <2>2, <2>3, NewDossierWork
<1>3. CASE EnsureDossierFromDeath
  <2>1. PICK c \in EnsureFromDeathLHS :
          crew' = crew \cup {NewCrew(c, "dead")} /\ UNCHANGED <<taskTicks, dead>>
    BY <1>3 DEF EnsureDossierFromDeath, SetCrew
  <2>2. ~ Known(c) /\ c \in Reported \cup {t.color : t \in taskTicks}
    BY DEF EnsureFromDeathLHS, Reported
  <2>3. NewCrew(c, "dead").color = c
    BY DEF NewCrew
  <2> QED BY <1>1, <2>1, <2>2, <2>3, NewDossierWork
<1>4. CASE EnsureDossierFromEjection
  <2>1. PICK e \in EnsureFromEjectionLHS :
          crew' = crew \cup {NewCrew(e.color, "ejected")} /\ UNCHANGED <<taskTicks, dead>>
    BY <1>4 DEF EnsureDossierFromEjection, SetCrew
  <2>2. ~ Known(e.color) /\ e.color \in Reported \cup {t.color : t \in taskTicks}
    BY DEF EnsureFromEjectionLHS, Reported
  <2>3. NewCrew(e.color, "ejected").color = e.color
    BY DEF NewCrew
  <2> QED BY <1>1, <2>1, <2>2, <2>3, NewDossierWork
<1>5. CASE CountTask
  <2>1. PICK t \in taskTicks, m \in crew :
          /\ crew' = Replace(crew, m, [m EXCEPT !.tasks = m.tasks + 1])
          /\ taskTicks' = taskTicks \ {t} /\ dead' = dead
    BY <1>5 DEF CountTask, SetCrew
  <2>2. [m EXCEPT !.tasks = m.tasks + 1].color = m.color
    BY DEF Crewmember
  <2>3. \A c : Known(c)' <=> Known(c)
    BY <2>1, <2>2, ReplacedDossier
  <2>4. Unknowns' \subseteq Unknowns
    BY <1>1, <2>1, <2>3 DEF Unknowns, Reported
  <2>5. Fewer(Work'[2], Work[2]) /\ NoMoreAt(1)
    BY <2>1, <2>4, WorkIs, WorkIsAfter DEF Fewer, NoMoreAt
  <2> QED BY <2>5, Decided
<1>6. CASE BodyImpliesDeath
  <2>1. PICK b \in BodyImpliesDeathLHS :
          dead' = dead \cup {b.color} /\ UNCHANGED <<taskTicks, crew>>
    BY <1>6 DEF BodyImpliesDeath
  <2>2. Unknowns' \subseteq Unknowns
    BY <1>1, <2>1 DEF Unknowns, Reported, Known, BodyImpliesDeathLHS
  <2>3. Fewer(Work'[3], Work[3])
    BY <1>1, <2>1, WorkIs, WorkIsAfter DEF Fewer, BodyImpliesDeathLHS
  <2>4. NoMoreAt(1) /\ NoMoreAt(2)
    BY <2>1, <2>2, WorkIs, WorkIsAfter DEF NoMoreAt
  <2> QED BY <2>3, <2>4, Decided
<1>7. ASSUME NEW m \in crew, NEW n, n.color = m.color, crew' = Replace(crew, m, n),
             UNCHANGED <<taskTicks, dead>>
      PROVE  NoMoreAt(1) /\ NoMoreAt(2) /\ NoMoreAt(3)
  <2>1. UNCHANGED <<Unknowns, taskTicks, BodyImpliesDeathLHS>>
    BY <1>1, <1>7, ReplacedDossier DEF Unknowns, Reported, BodyImpliesDeathLHS
  <2> QED BY <2>1, WorkIs, WorkIsAfter DEF NoMoreAt
<1>8. CASE UpdateLastSeen
  <2>1. PICK s \in sightings, m \in crew :
          /\ Refreshes(s, m)
          /\ crew' = Replace(crew, m, [m EXCEPT !.seen = s.tick, !.room = s.room,
                                                !.status = "alive"])
          /\ UNCHANGED <<taskTicks, dead>>
    BY <1>8 DEF UpdateLastSeen, SetCrew
  <2> DEFINE n == [m EXCEPT !.seen = s.tick, !.room = s.room, !.status = "alive"]
  <2>2. n.color = m.color /\ n.seen = s.tick /\ crew' = Replace(crew, m, n)
    BY <2>1 DEF Crewmember
  <2> HIDE DEF n
  <2>3. s.color = m.color /\ m.seen < s.tick /\ s.tick \in Nat /\ m.seen \in Int
    BY <2>1 DEF Refreshes, Sighting, Crewmember
  <2>4. /\ n \in crew'
        /\ \A x \in crew' : x = n \/ (x \in crew /\ x.color # m.color)
    BY <2>2, ReplacedDossier
  <2>5. ASSUME NEW r \in Unnoticed' PROVE r \in Unnoticed
    <3>1. r \in sightings /\ r.tick \in Nat
      BY <1>1 DEF Unnoticed, Sighting
    <3>2. PICK x \in crew' : x.color = r.color /\ x.seen < r.tick
      BY DEF Unnoticed, About
    <3>3. CASE x = n
      BY <2>2, <2>3, <3>1, <3>2, <3>3 DEF Unnoticed, About
    <3>4. CASE x \in crew
      BY <3>1, <3>2, <3>4 DEF Unnoticed, About
    <3> QED BY <2>4, <3>3, <3>4
  <2>6. s \in Unnoticed
    BY <2>3 DEF Unnoticed, About
  <2>7. s \notin Unnoticed'
    <3> SUFFICES ASSUME NEW x \in crew', x.color = s.color, x.seen < s.tick PROVE FALSE
      BY DEF Unnoticed, About
    <3>1. x = n
      BY <2>3, <2>4
    <3> QED BY <2>2, <2>3, <3>1
  <2>8. Fewer(Work'[4], Work[4])
    BY <2>5, <2>6, <2>7, WorkIs, WorkIsAfter DEF Fewer
  <2>9. NoMoreAt(1) /\ NoMoreAt(2) /\ NoMoreAt(3)
    BY <1>7, <2>1, <2>2
  <2> QED BY <2>8, <2>9, Decided
<1>9. ASSUME NEW m \in crew, NEW n, n.color = m.color, n.seen = m.seen,
             crew' = Replace(crew, m, n), UNCHANGED <<taskTicks, dead>>
      PROVE  \A j \in 1..4 : NoMoreAt(j)
  <2>1. Unnoticed' \subseteq Unnoticed
    BY <1>1, <1>9, ReplacedDossier DEF Unnoticed, About
  <2>2. NoMoreAt(4)
    BY <2>1, WorkIs, WorkIsAfter DEF NoMoreAt
  <2>3. NoMoreAt(1) /\ NoMoreAt(2) /\ NoMoreAt(3)
    BY <1>7, <1>9
  <2> QED BY <2>2, <2>3
<1>10. CASE MarkDead
  <2>1. PICK m \in MarkDeadLHS :
          /\ crew' = Replace(crew, m, [m EXCEPT !.status = "dead"])
          /\ UNCHANGED <<taskTicks, dead>>
    BY <1>10 DEF MarkDead, SetCrew
  <2> DEFINE n == [m EXCEPT !.status = "dead"]
  <2>2. /\ m \in crew /\ m.status = "alive"
        /\ n.color = m.color /\ n.seen = m.seen /\ n.status = "dead"
        /\ crew' = Replace(crew, m, n)
    BY <2>1 DEF Crewmember, MarkDeadLHS, Status
  <2> HIDE DEF n
  <2>3. \A x \in crew' : x = n \/ (x \in crew /\ x.color # m.color)
    BY <2>2, ReplacedDossier
  <2>4. Staying' \subseteq Staying
    BY <2>2, <2>3 DEF Staying
  <2>5. Fewer(Breathing', Breathing)
    BY <2>2, <2>3 DEF Breathing, Fewer
  <2>6. NoMoreAt(5) /\ Fewer(Work'[6], Work[6])
    BY <2>4, <2>5, WorkIs, WorkIsAfter DEF NoMoreAt
  <2>7. \A j \in 1..4 : NoMoreAt(j)
    BY <1>9, <2>1, <2>2
  <2> QED BY <2>6, <2>7, Decided
<1>11. CASE MarkEjected
  <2>1. PICK e \in ejections, m \in crew :
          /\ Ejects(e, m)
          /\ crew' = Replace(crew, m, [m EXCEPT !.status = "ejected"])
          /\ UNCHANGED <<taskTicks, dead>>
    BY <1>11 DEF MarkEjected, SetCrew
  <2> DEFINE n == [m EXCEPT !.status = "ejected"]
  <2>2. /\ m.status # "ejected"
        /\ n.color = m.color /\ n.seen = m.seen /\ n.status = "ejected"
        /\ crew' = Replace(crew, m, n)
    BY <2>1 DEF Crewmember, Ejects, Status
  <2> HIDE DEF n
  <2>3. \A x \in crew' : x = n \/ (x \in crew /\ x.color # m.color)
    BY <2>2, ReplacedDossier
  <2>5. Fewer(Staying', Staying)
    BY <2>2, <2>3 DEF Staying, Fewer
  <2>6. Fewer(Work'[5], Work[5])
    BY <2>5, WorkIs, WorkIsAfter
  <2>7. \A j \in 1..4 : NoMoreAt(j)
    BY <1>9, <2>1, <2>2
  <2> QED BY <2>6, <2>7, Decided
<1> QED
  BY <1>2, <1>3, <1>4, <1>5, <1>6, <1>8, <1>10, <1>11 DEF DossierRules

(* clp/cases.clp: an alibi or a suspect that goes is work for the rules    *)
(* after the one that took it.                                             *)
LEMMA InCaseGrows ==
  ASSUME NEW facts, NEW x
  PROVE  /\ InCase(facts \cup {x}, x.victim) # {}
         /\ \A v : InCase(facts \cup {x}, v) = {} => InCase(facts, v) = {}
<1>1. x \in InCase(facts \cup {x}, x.victim)
  BY DEF InCase
<1>2. \A v : InCase(facts, v) \subseteq InCase(facts \cup {x}, v)
  BY DEF InCase
<1> QED
  BY <1>1, <1>2

LEMMA CaseRulesWork ==
  ASSUME MaintInv, CaseRules
  PROVE  Less(Work', Work)
<1> USE DEF MaintInv, CaseInv, TypeInv, TypeOK
<1>1. /\ UNCHANGED <<self, sightings, bodies, crew, distances, vents>>
      /\ \A j \in 1..11 : NoMoreAt(j)
  BY RoundWorkKept, CaseRulesFrame DEF inputVars, dossierVars, roundVars
<1>2. CASE OpenCase
  <2>1. PICK b \in OpenCaseLHS :
          cases' = cases \cup {[victim |-> b.color, room |-> b.room, tick |-> b.tick]}
    BY <1>2 DEF OpenCase
  <2> DEFINE new == [victim |-> b.color, room |-> b.room, tick |-> b.tick]
  <2>a. cases' = cases \cup {new} /\ new.victim = b.color
    BY <2>1
  <2> HIDE DEF new
  <2>2. \A c \in bodies : InCase(cases', c.color) = {} => InCase(cases, c.color) = {}
    BY <2>a, InCaseGrows
  <2>3. InCase(cases', b.color) # {}
    BY <2>a, InCaseGrows
  <2>4. OpenCaseLHS' = {c \in bodies : InCase(cases', c.color) = {}}
    BY <1>1 DEF OpenCaseLHS, InCase
  <2>5. Fewer(Work'[12], Work[12])
    BY <2>2, <2>3, <2>4, WorkIs, WorkIsAfter DEF Fewer, OpenCaseLHS
  <2> QED BY <1>1, <2>5, Decided
<1>3. ASSUME UNCHANGED cases PROVE NoMoreAt(12)
  BY <1>1, <1>3, WorkIs, WorkIsAfter DEF NoMoreAt, OpenCaseLHS, InCase
<1>4. CASE InitKillWindow
  <2>1. PICK k \in InitKillWindowLHS :
          /\ windows' = windows \cup {[victim |-> k.victim, from |-> 0,
                                       to |-> k.tick, room |-> k.room]}
          /\ cases' = cases
    BY <1>4 DEF InitKillWindow
  <2> DEFINE new == [victim |-> k.victim, from |-> 0, to |-> k.tick, room |-> k.room]
  <2>a. windows' = windows \cup {new} /\ new.victim = k.victim
    BY <2>1
  <2> HIDE DEF new
  <2>2. \A j \in cases : InCase(windows', j.victim) = {} => InCase(windows, j.victim) = {}
    BY <2>a, InCaseGrows
  <2>3. InCase(windows', k.victim) # {}
    BY <2>a, InCaseGrows
  <2>4. InitKillWindowLHS' = {j \in cases : InCase(windows', j.victim) = {}}
    BY <2>1 DEF InitKillWindowLHS, InCase
  <2>5. Fewer(Work'[13], Work[13])
    BY <2>2, <2>3, <2>4, WorkIs, WorkIsAfter DEF Fewer, InitKillWindowLHS
  <2>6. NoMoreAt(12)
    BY <1>3, <2>1
  <2> QED BY <1>1, <2>5, <2>6, Decided
<1>5. CASE UpdateKillWindowLower
  <2>1. PICK s \in sightings, w \in windows, u \in KillWindow :
          /\ Narrows(s, w)
          /\ u.victim = w.victim /\ u.room = w.room /\ u.to = w.to
          /\ u.from = s.tick
          /\ windows'  = (windows \ {w}) \cup {u}
          /\ cases' = cases
    BY <1>5, NarrowEffect
  <2>2. \A x \in windows' : x = u \/ (x \in windows /\ x.victim # w.victim)
    BY <2>1 DEF OneWindowPerVictim
  <2>3. NoMoreAt(12)
    BY <1>3, <2>1
  <2>4. InitKillWindowLHS' \subseteq InitKillWindowLHS
    BY <2>1 DEF InitKillWindowLHS, InCase
  <2>5. Narrowing' \subseteq Narrowing
    <3> SUFFICES ASSUME NEW r \in sightings, NEW x \in windows', Narrows(r, x)
                 PROVE  \E y \in windows : Narrows(r, y)
      BY <1>1 DEF Narrowing, Narrows
    <3>1. CASE x = u
      <4>1. w.from \in Nat /\ s.tick \in Nat /\ r.tick \in Nat /\ w.to \in Nat
        BY DEF KillWindow, Sighting
      <4> QED BY <2>1, <3>1, <4>1 DEF Narrows
    <3> QED BY <2>2, <3>1
  <2>6. s \in Narrowing /\ s \notin Narrowing'
    <3>1. \A x \in windows' : ~ Narrows(s, x)
      <4> SUFFICES ASSUME NEW x \in windows', Narrows(s, x) PROVE FALSE
        OBVIOUS
      <4>1. x = u
        BY <2>1, <2>2 DEF Narrows
      <4>2. s.tick \in Nat
        BY DEF Sighting
      <4> QED BY <2>1, <4>1, <4>2 DEF Narrows
    <3> QED BY <2>1, <3>1 DEF Narrowing, Narrows
  <2>7. Fewer(Work'[14], Work[14]) /\ NoMoreAt(13)
    BY <2>4, <2>5, <2>6, WorkIs, WorkIsAfter DEF Fewer, NoMoreAt
  <2> QED BY <1>1, <2>3, <2>7, Decided
<1>6. ASSUME UNCHANGED <<cases, windows>> PROVE \A j \in 12..14 : NoMoreAt(j)
  <2>1. UNCHANGED <<InitKillWindowLHS, Narrowing>>
    BY <1>1, <1>6 DEF InitKillWindowLHS, InCase, Narrowing
  <2> QED BY <1>3, <1>6, <2>1, WorkIs, WorkIsAfter DEF NoMoreAt
<1>7. CASE DeriveAlibi
  <2>1. PICK s \in sightings, w \in windows :
          /\ SeenElsewhere(s, w)
          /\ alibis' = alibis \cup {[color |-> s.color, victim |-> w.victim,
                                     room |-> s.room, tick |-> s.tick]}
          /\ UNCHANGED <<cases, windows>>
    BY <1>7 DEF DeriveAlibi
  <2> DEFINE new == [color |-> s.color, victim |-> w.victim, room |-> s.room, tick |-> s.tick]
  <2>a. alibis' = alibis \cup {new} /\ new.color = s.color /\ new.victim = w.victim
    BY <2>1
  <2> HIDE DEF new
  <2>2. \A c, v : HasAlibi(c, v) => HasAlibi(c, v)'
    BY <2>a DEF HasAlibi
  <2>3. HasAlibi(s.color, w.victim)'
    BY <2>a DEF HasAlibi
  <2>4. Absences' \subseteq Absences
    BY <1>1, <2>1, <2>2 DEF Absences, SeenElsewhere
  <2>5. <<s, w>> \in Absences /\ <<s, w>> \notin Absences'
    BY <2>1, <2>3 DEF Absences, SeenElsewhere
  <2>6. Fewer(Work'[15], Work[15])
    BY <2>4, <2>5, WorkIs, WorkIsAfter DEF Fewer
  <2>7. \A j \in 12..14 : NoMoreAt(j)
    BY <1>6, <2>1
  <2> QED BY <1>1, <2>6, <2>7, Decided
<1>8. ASSUME UNCHANGED <<cases, windows, alibis>> PROVE \A j \in 12..15 : NoMoreAt(j)
  <2>1. UNCHANGED Absences
    BY <1>1, <1>8 DEF Absences, SeenElsewhere, HasAlibi
  <2>2. NoMoreAt(15)
    BY <2>1, WorkIs, WorkIsAfter DEF NoMoreAt
  <2> QED BY <1>6, <1>8, <2>2
<1>9. CASE DeriveCastIronAlibi
  <2>1. PICK a \in alibis :
          /\ ~ HasCastIron(a.color, a.victim)
          /\ castIron' = castIron \cup {[color |-> a.color, victim |-> a.victim]}
          /\ UNCHANGED <<cases, windows, alibis>>
    BY <1>9 DEF DeriveCastIronAlibi
  <2>2. Fewer(Breakable', Breakable)
    BY <2>1 DEF Fewer, Breakable, HasCastIron
  <2>3. Fewer(Work'[16], Work[16])
    BY <2>2, WorkIs, WorkIsAfter
  <2>4. \A j \in 12..15 : NoMoreAt(j)
    BY <1>8, <2>1
  <2> QED BY <1>1, <2>3, <2>4, Decided
<1>10. ASSUME UNCHANGED <<cases, windows, alibis, castIron>> PROVE \A j \in 12..16 : NoMoreAt(j)
  <2>1. NoMoreAt(16)
    BY <1>10, WorkIs, WorkIsAfter DEF NoMoreAt, Breakable, HasCastIron
  <2> QED BY <1>8, <1>10, <2>1
<1>11. CASE AttachNearBody
  <2>1. PICK s \in sightings, w \in windows, k \in cases :
          /\ AtTheScene(s, w, k)
          /\ nearBody' = nearBody \cup {[color |-> s.color, room |-> k.room,
                                         tick |-> k.tick, via |-> w.victim]}
          /\ UNCHANGED <<cases, windows, alibis, castIron>>
    BY <1>11 DEF AttachNearBody
  <2> DEFINE new == [color |-> s.color, room |-> k.room, tick |-> k.tick, via |-> w.victim]
  <2>a. /\ nearBody' = nearBody \cup {new}
        /\ new.color = s.color /\ new.room = k.room /\ new.tick = k.tick
    BY <2>1
  <2> HIDE DEF new
  <2>2. \A r, x, j : AtTheScene(r, x, j)' => AtTheScene(r, x, j)
    BY <2>a DEF AtTheScene
  <2>3. ~ AtTheScene(s, w, k)'
    BY <2>a DEF AtTheScene
  <2>4. Scenes' \subseteq Scenes
    BY <1>1, <2>1, <2>2 DEF Scenes
  <2>5. <<s, w, k>> \in Scenes /\ <<s, w, k>> \notin Scenes'
    BY <2>1, <2>3 DEF Scenes
  <2>6. Fewer(Work'[17], Work[17])
    BY <2>4, <2>5, WorkIs, WorkIsAfter DEF Fewer
  <2>7. \A j \in 12..16 : NoMoreAt(j)
    BY <1>10, <2>1
  <2> QED BY <1>1, <2>6, <2>7, Decided
<1>12. ASSUME UNCHANGED <<cases, windows, alibis, castIron, nearBody>>
       PROVE  \A j \in 12..17 : NoMoreAt(j)
  <2>1. UNCHANGED Scenes
    BY <1>1, <1>12 DEF Scenes, AtTheScene
  <2>2. NoMoreAt(17)
    BY <2>1, WorkIs, WorkIsAfter DEF NoMoreAt
  <2> QED BY <1>10, <1>12, <2>2
<1>13. CASE OpenSuspectFromCrewmember
  <2>1. PICK m \in crew, k \in cases :
          /\ Opens(m, k)
          /\ suspects' = suspects \cup {[color |-> m.color, victim |-> k.victim,
                                         basis |-> "no alibi yet"]}
          /\ UNCHANGED <<cases, windows, alibis, castIron, nearBody>>
    BY <1>13 DEF OpenSuspectFromCrewmember
  <2> DEFINE new == [color |-> m.color, victim |-> k.victim, basis |-> "no alibi yet"]
  <2>a. suspects' = suspects \cup {new} /\ new.color = m.color /\ new.victim = k.victim
    BY <2>1
  <2> HIDE DEF new
  <2>2. /\ \A c, v : IsSuspect(c, v) => IsSuspect(c, v)'
        /\ IsSuspect(m.color, k.victim)'
    BY <2>a DEF IsSuspect
  <2>3. \A x, j : Opens(x, j)' => Opens(x, j)
    BY <1>1, <2>1, <2>2 DEF Opens, Eligible, HasCastIron
  <2>4. Openings' \subseteq Openings
    BY <1>1, <2>1, <2>3 DEF Openings
  <2>5. <<m, k>> \in Openings /\ <<m, k>> \notin Openings'
    BY <2>1, <2>2 DEF Openings, Opens
  <2>6. Fewer(Work'[18], Work[18])
    BY <2>4, <2>5, WorkIs, WorkIsAfter DEF Fewer
  <2>7. \A j \in 12..17 : NoMoreAt(j)
    BY <1>12, <2>1
  <2> QED BY <1>1, <2>6, <2>7, Decided
<1>14. ASSUME NEW s \in suspects, NEW b \in Basis, b # "no alibi yet",
              s.basis = "no alibi yet", Explain(s, b),
              UNCHANGED <<cases, windows, alibis, castIron, nearBody>>
       PROVE  Less(Work', Work)
  <2> DEFINE t == [s EXCEPT !.basis = b]
  <2>1. /\ t.color = s.color /\ t.victim = s.victim /\ t.basis = b
        /\ suspects' = (suspects \ {s}) \cup {t}
    BY <1>14 DEF Explain, Replace, Suspect
  <2> HIDE DEF t
  <2>2. \A c, v : IsSuspect(c, v) => IsSuspect(c, v)'
    BY <2>1 DEF IsSuspect
  <2>3. \A x, j : Opens(x, j)' => Opens(x, j)
    BY <1>1, <1>14, <2>2 DEF Opens, Eligible, HasCastIron
  <2>4. Openings' \subseteq Openings
    BY <1>1, <1>14, <2>3 DEF Openings
  <2>5. Fewer(Unexplained', Unexplained)
    BY <1>14, <2>1 DEF Unexplained, Fewer
  <2>6. Fewer(Work'[19], Work[19]) /\ NoMoreAt(18)
    BY <2>4, <2>5, WorkIs, WorkIsAfter DEF NoMoreAt
  <2>7. \A j \in 12..17 : NoMoreAt(j)
    BY <1>12, <1>14
  <2> QED BY <1>1, <2>6, <2>7, Decided
<1>15. CASE StrengthenSuspect
  <2>1. PICK s \in suspects, b \in Basis : Strengthens(s, b) /\ Explain(s, b)
    BY <1>15 DEF StrengthenSuspect
  <2>2. s.basis = "no alibi yet" /\ b # "no alibi yet"
    BY <2>1 DEF Strengthens
  <2> QED BY <1>14, <1>15, <2>1, <2>2 DEF StrengthenSuspect
<1>16. CASE WeakenSuspectOnWeakAlibi
  <2>1. PICK s \in suspects : Weakens(s) /\ Explain(s, "partially alibied")
    BY <1>16 DEF WeakenSuspectOnWeakAlibi
  <2>2. s.basis = "no alibi yet" /\ "partially alibied" \in Basis
    BY <2>1 DEF Weakens, Basis
  <2> QED BY <1>14, <1>16, <2>1, <2>2 DEF WeakenSuspectOnWeakAlibi
<1>17. CASE RetractSuspectOnCastIron
  <2>1. PICK s \in RetractSuspectLHS :
          /\ suspects' = suspects \ {s}
          /\ UNCHANGED <<cases, windows, alibis, castIron, nearBody>>
    BY <1>17 DEF RetractSuspectOnCastIron
  <2>2. s \in suspects /\ HasCastIron(s.color, s.victim)
    BY DEF RetractSuspectLHS
  <2>3. \A c, v : HasCastIron(c, v)' <=> HasCastIron(c, v)
    BY <2>1 DEF HasCastIron
  <2>4. \A x, j : Opens(x, j)' => Opens(x, j)
    <3> SUFFICES ASSUME NEW x, NEW j, Opens(x, j)' PROVE Opens(x, j)
      OBVIOUS
    <3>1. Eligible(x, j) /\ ~ HasCastIron(x.color, j.victim) /\ ~ IsSuspect(x.color, j.victim)'
      BY <1>1, <2>3 DEF Opens, Eligible
    <3>2. ~ IsSuspect(x.color, j.victim)
      BY <2>1, <2>2, <3>1 DEF IsSuspect
    <3> QED BY <3>1, <3>2 DEF Opens
  <2>5. Openings' \subseteq Openings
    BY <1>1, <2>1, <2>4 DEF Openings
  <2>6. Unexplained' \subseteq Unexplained
    BY <2>1 DEF Unexplained
  <2>7. Fewer(RetractSuspectLHS', RetractSuspectLHS)
    BY <2>1, <2>2, <2>3 DEF RetractSuspectLHS, Fewer
  <2>8. Fewer(Work'[20], Work[20]) /\ NoMoreAt(18) /\ NoMoreAt(19)
    BY <2>5, <2>6, <2>7, WorkIs, WorkIsAfter DEF NoMoreAt
  <2>9. \A j \in 12..17 : NoMoreAt(j)
    BY <1>12, <2>1
  <2> QED BY <1>1, <2>8, <2>9, Decided
<1>18. CASE SolveCase
  <2>1. PICK s \in SolveCaseLHS :
          /\ accusations' = accusations \cup {[victim |-> s.victim, color |-> s.color]}
          /\ UNCHANGED <<cases, windows, alibis, castIron, nearBody, suspects>>
    BY <1>18 DEF SolveCase
  <2> DEFINE new == [victim |-> s.victim, color |-> s.color]
  <2>a. accusations' = accusations \cup {new} /\ new.victim = s.victim
    BY <2>1
  <2> HIDE DEF new
  <2>2. s \in suspects /\ InCase(accusations, s.victim) = {}
    BY DEF SolveCaseLHS
  <2>3. UNCHANGED <<Openings, Unexplained, RetractSuspectLHS>>
    BY <1>1, <2>1 DEF Openings, Opens, Eligible, HasCastIron, IsSuspect, Unexplained,
       RetractSuspectLHS
  <2>4. \A v : InCase(accusations', v) = {} => InCase(accusations, v) = {}
    BY <2>a, InCaseGrows
  <2>5. InCase(accusations', s.victim) # {}
    BY <2>a, InCaseGrows
  <2>6. Unaccused' = {x \in suspects : InCase(accusations', x.victim) = {}}
    BY <2>1 DEF Unaccused, InCase
  <2>7. Fewer(Unaccused', Unaccused)
    BY <2>2, <2>4, <2>5, <2>6 DEF Unaccused, Fewer
  <2>8. Fewer(Work'[21], Work[21]) /\ NoMoreAt(18) /\ NoMoreAt(19) /\ NoMoreAt(20)
    BY <2>3, <2>7, WorkIs, WorkIsAfter DEF NoMoreAt
  <2>9. \A j \in 12..17 : NoMoreAt(j)
    BY <1>12, <2>1
  <2> QED BY <1>1, <2>8, <2>9, Decided
<1> QED
  BY <1>2, <1>4, <1>5, <1>7, <1>9, <1>11, <1>13, <1>15, <1>16, <1>17, <1>18
  DEF CaseRules, CaseBand140

(* clp/stance.clp: a color leaves the side of threat it is wrongly on.     *)
LEMMA ReplacedStance ==
  ASSUME StancesKeyed, NEW x \in stances, NEW y, y.color = x.color,
         stances' = Replace(stances, x, y), UNCHANGED crew
  PROVE  /\ y \in stances'
         /\ \A z \in stances' : z = y \/ (z \in stances /\ z.color # x.color)
         /\ NoMoreAt(22) /\ NoMoreAt(23)
<1>1. /\ y \in stances'
      /\ \A z \in stances' : z = y \/ (z \in stances /\ z.color # x.color)
  BY DEF StancesKeyed, Replace
<1>2. \A z \in stances' : \E w \in stances : w.color = z.color
  BY <1>1
<1>3. \A w \in stances : \E z \in stances' : w.color = z.color
  BY DEF Replace
<1>4. Departed' \subseteq Departed
  <2> SUFFICES ASSUME NEW z \in stances', NEW m \in About(crew, z.color), m.status # "alive"
               PROVE  z.color \in Departed
    BY DEF Departed, RetractStanceLHS
  <2>1. PICK w \in stances : w.color = z.color
    BY <1>2
  <2>2. w \in RetractStanceLHS
    BY <2>1 DEF RetractStanceLHS
  <2> QED BY <2>1, <2>2 DEF Departed
<1>5. StanceEnsureLHS' \subseteq StanceEnsureLHS
  BY <1>3 DEF StanceEnsureLHS, About
<1> QED
  BY <1>1, <1>4, <1>5, WorkIs, WorkIsAfter DEF NoMoreAt

LEMMA StanceRulesWork ==
  ASSUME TypeInv, OneDossier, StancesKeyed, StanceRules
  PROVE  Less(Work', Work)
<1> USE DEF TypeInv, TypeOK
<1>1. /\ UNCHANGED <<crew, roster, vents, castIron, cases, nearBody, accusations>>
      /\ \A j \in 1..21 : NoMoreAt(j)
  BY CaseWorkKept, StanceRulesFrame DEF inputVars, dossierVars, roundVars, caseVars
<1>2. AllImpostorsEjected' = AllImpostorsEjected
  BY <1>1 DEF AllImpostorsEjected
<1>3. CASE RetractStanceOnStatusChange
  <2>1. PICK x \in RetractStanceLHS : stances' = stances \ {x}
    BY <1>3 DEF RetractStanceOnStatusChange
  <2>2. Departed' \subseteq Departed
    BY <1>1, <2>1 DEF Departed, RetractStanceLHS
  <2>3. x.color \in Departed /\ x.color \notin Departed'
    BY <2>1 DEF Departed, RetractStanceLHS, StancesKeyed
  <2>4. Fewer(Work'[22], Work[22])
    BY <2>2, <2>3, WorkIs, WorkIsAfter DEF Fewer
  <2> QED BY <1>1, <2>4, Decided
<1>4. CASE StanceEnsure
  <2>1. PICK m \in StanceEnsureLHS :
          stances' = stances \cup {[color |-> m.color, category |-> "unknown",
                                    evidence |-> "none"]}
    BY <1>4 DEF StanceEnsure
  <2> DEFINE new == [color |-> m.color, category |-> "unknown", evidence |-> "none"]
  <2>2. stances' = stances \cup {new} /\ new.color = m.color
    BY <2>1
  <2> HIDE DEF new
  <2>3. /\ m \in crew /\ m.status = "alive"
        /\ \A n \in About(crew, m.color) : n.status = "alive"
    BY DEF StanceEnsureLHS, About, OneDossier, Keyed, OfColor
  <2>4. Departed' \subseteq Departed
    <3> SUFFICES ASSUME NEW z \in RetractStanceLHS' PROVE z.color \in Departed
      BY DEF Departed
    <3>1. z \in stances' /\ \E n \in About(crew, z.color) : n.status # "alive"
      BY <1>1 DEF RetractStanceLHS
    <3>2. z \in stances
      BY <2>2, <2>3, <3>1
    <3> QED BY <3>1, <3>2 DEF Departed, RetractStanceLHS
  <2>5. \A c : About(stances', c) = {} => About(stances, c) = {}
    BY <2>2 DEF About
  <2>6. new \in About(stances', m.color)
    BY <2>2 DEF About
  <2>7. StanceEnsureLHS' = {n \in crew : n.status = "alive" /\ About(stances', n.color) = {}}
    BY <1>1 DEF StanceEnsureLHS, About
  <2>8. Fewer(StanceEnsureLHS', StanceEnsureLHS)
    BY <2>5, <2>6, <2>7 DEF StanceEnsureLHS, Fewer
  <2>9. Fewer(Work'[23], Work[23]) /\ NoMoreAt(22)
    BY <2>4, <2>8, WorkIs, WorkIsAfter DEF NoMoreAt
  <2> QED BY <1>1, <2>9, Decided
<1>5. ASSUME NEW x \in stances, NEW k, NEW e,
             stances' = Replace(stances, x, [x EXCEPT !.category = k, !.evidence = e])
      PROVE  \E y : /\ y.color = x.color /\ y.category = k
                    /\ y \in stances'
                    /\ \A z \in stances' : z = y \/ (z \in stances /\ z.color # x.color)
                    /\ NoMoreAt(22) /\ NoMoreAt(23)
  <2> DEFINE y == [x EXCEPT !.category = k, !.evidence = e]
  <2>1. y.color = x.color /\ y.category = k /\ stances' = Replace(stances, x, y)
    BY <1>5 DEF Stance
  <2> HIDE DEF y
  <2> QED BY <1>1, <2>1, ReplacedStance
<1>6. ASSUME NEW x \in stances, NEW k, NEW e,
             stances' = Replace(stances, x, [x EXCEPT !.category = k, !.evidence = e]),
             (x.category = "threat") = AllImpostorsEjected,
             (k = "threat") # AllImpostorsEjected
      PROVE  Less(Work', Work)
  <2>1. PICK y : /\ y.color = x.color /\ y.category = k
                 /\ y \in stances'
                 /\ \A z \in stances' : z = y \/ (z \in stances /\ z.color # x.color)
                 /\ NoMoreAt(22) /\ NoMoreAt(23)
    BY <1>5, <1>6
  <2>2. Unsettled' = {z.color : z \in {v \in stances' :
                         (v.category = "threat") = AllImpostorsEjected}}
    BY <1>2 DEF Unsettled
  <2>3. Unsettled' \subseteq Unsettled /\ x.color \notin Unsettled'
    BY <1>6, <2>1, <2>2 DEF Unsettled
  <2>4. x.color \in Unsettled
    BY <1>6 DEF Unsettled
  <2>5. Fewer(Work'[24], Work[24])
    BY <2>3, <2>4, WorkIs, WorkIsAfter DEF Fewer
  <2> QED BY <1>1, <2>1, <2>5, Decided
<1>7. CASE ClearThreatsOnImpostorFound
  <2>1. PICK x \in ClearThreatsLHS :
          stances' = Replace(stances, x, [x EXCEPT !.category = "unknown",
                                                   !.evidence = "none"])
    BY <1>7 DEF ClearThreatsOnImpostorFound
  <2>2. x \in stances /\ x.category = "threat" /\ AllImpostorsEjected
    BY DEF ClearThreatsLHS
  <2>3. AllImpostorsEjected \in BOOLEAN
    BY DEF AllImpostorsEjected
  <2>4. (x.category = "threat") = AllImpostorsEjected /\ ("unknown" = "threat") # AllImpostorsEjected
    BY <2>2, <2>3
  <2> QED BY <1>6, <2>1, <2>2, <2>4
<1>8. ASSUME NEW lhs, NEW e, Promote(lhs, "threat", e),
             \A x \in lhs : x \in stances /\ Promotable(x)
      PROVE  Less(Work', Work)
  <2>1. PICK x \in lhs : stances' = Replace(stances, x, [x EXCEPT !.category = "threat",
                                                                  !.evidence = e])
    BY <1>8 DEF Promote
  <2>2. x \in stances /\ x.category # "threat" /\ ~ AllImpostorsEjected
    BY <1>8 DEF Promotable
  <2>3. AllImpostorsEjected \in BOOLEAN
    BY DEF AllImpostorsEjected
  <2>4. (x.category = "threat") = AllImpostorsEjected /\ ("threat" = "threat") # AllImpostorsEjected
    BY <2>2, <2>3
  <2> QED BY <1>6, <2>1, <2>2, <2>4
<1>9. CASE StanceAccuse
  <2>1. \A x \in AccuseLHS : x \in stances /\ Promotable(x)
    BY DEF AccuseLHS
  <2> QED BY <1>8, <1>9, <2>1 DEF StanceAccuse
<1>10. CASE StanceThreatFromVent
  <2>1. \A x \in ThreatFromVentLHS : x \in stances /\ Promotable(x)
    BY DEF ThreatFromVentLHS
  <2> QED BY <1>8, <1>10, <2>1 DEF StanceThreatFromVent
<1>11. CASE StanceThreat
  <2>1. \A x \in ThreatNearBodyLHS : x \in stances /\ Promotable(x)
    BY DEF ThreatNearBodyLHS
  <2> QED BY <1>8, <1>11, <2>1 DEF StanceThreat
<1>12. ASSUME NEW x \in OffTaskLHS \cup OnTaskLHS, NEW k \in {"off-task", "on-task"},
              x.category # "threat",
              stances' = Replace(stances, x, [x EXCEPT !.category = k, !.evidence = k]),
              \A y : y.color = x.color /\ y.category = k => y \notin OffTaskLHS' \cup OnTaskLHS'
       PROVE  Less(Work', Work)
  <2>1. x \in stances
    BY DEF OffTaskLHS, OnTaskLHS
  <2>2. PICK y : /\ y.color = x.color /\ y.category = k
                 /\ y \in stances'
                 /\ \A z \in stances' : z = y \/ (z \in stances /\ z.color # x.color)
                 /\ NoMoreAt(22) /\ NoMoreAt(23)
    BY <1>5, <1>12, <2>1
  <2>3. k # "threat"
    BY <1>12
  <2>4. Unsettled' \subseteq Unsettled
    <3>1. Unsettled' = {z.color : z \in {v \in stances' :
                           (v.category = "threat") = AllImpostorsEjected}}
      BY <1>2 DEF Unsettled
    <3>2. (y.category = "threat") = (x.category = "threat")
      BY <1>12, <2>2, <2>3
    <3> QED BY <2>1, <2>2, <3>1, <3>2 DEF Unsettled
  <2>5. \A z : (z \in OffTaskLHS' => z \in stances') /\ (z \in OnTaskLHS' => z \in stances')
    BY DEF OffTaskLHS, OnTaskLHS
  <2>6. \A z \in stances : /\ z \in OffTaskLHS' => z \in OffTaskLHS
                           /\ z \in OnTaskLHS' => z \in OnTaskLHS
    BY <1>1 DEF OffTaskLHS, OnTaskLHS
  <2>7. \A z \in (OffTaskLHS \cup OnTaskLHS)' :
           z \in OffTaskLHS \cup OnTaskLHS /\ z.color # x.color
    BY <1>12, <2>2, <2>5, <2>6
  <2>8. OutOfDate' \subseteq OutOfDate /\ x.color \notin OutOfDate' /\ x.color \in OutOfDate
    BY <2>7 DEF OutOfDate
  <2>9. Fewer(Work'[25], Work[25]) /\ NoMoreAt(24)
    BY <2>4, <2>8, WorkIs, WorkIsAfter DEF Fewer, NoMoreAt
  <2> QED BY <1>1, <2>2, <2>9, Decided
<1>13. CASE StanceOffTask
  <2>1. PICK x \in OffTaskLHS :
          stances' = Replace(stances, x, [x EXCEPT !.category = "off-task",
                                                   !.evidence = "off-task"])
    BY <1>13 DEF StanceOffTask, Promote
  <2>2. /\ x.category # "threat"
        /\ \E m \in About(crew, x.color) : m.tasks = 0
    BY DEF OffTaskLHS
  <2>3. \A n \in About(crew, x.color) : n.tasks = 0
    BY <2>2 DEF About, OneDossier, Keyed, OfColor
  <2>4. ASSUME NEW y, y.color = x.color, y.category = "off-task"
        PROVE  y \notin OffTaskLHS' \cup OnTaskLHS'
    <3>1. \A n \in About(crew, y.color) : ~ (n.tasks >= OnTaskTasks)
      BY <2>3, <2>4, OnTaskTasksPos
    <3> QED BY <1>1, <2>4, <3>1 DEF OffTaskLHS, OnTaskLHS
  <2> QED BY <1>12, <2>1, <2>2, <2>4
<1>14. CASE StanceOnTask
  <2>1. PICK x \in OnTaskLHS :
          stances' = Replace(stances, x, [x EXCEPT !.category = "on-task",
                                                   !.evidence = "on-task"])
    BY <1>14 DEF StanceOnTask, Promote
  <2>2. /\ x.category # "threat"
        /\ \E m \in About(crew, x.color) : m.tasks >= OnTaskTasks
    BY DEF OnTaskLHS
  <2>3. \A n \in About(crew, x.color) : n.tasks # 0
    BY <2>2, OnTaskTasksPos DEF About, OneDossier, Keyed, OfColor
  <2>4. ASSUME NEW y, y.color = x.color, y.category = "on-task"
        PROVE  y \notin OffTaskLHS' \cup OnTaskLHS'
    BY <1>1, <2>3, <2>4 DEF OffTaskLHS, OnTaskLHS
  <2> QED BY <1>12, <2>1, <2>2, <2>4
<1> QED
  BY <1>3, <1>4, <1>7, <1>9, <1>10, <1>11, <1>13, <1>14 DEF StanceRules

LEMMA FiringWork ==
  ASSUME MaintInv, DossierInv, KeyInv, FireRule
  PROVE  Less(Work', Work)
<1>1. TypeInv
  BY DEF MaintInv
<1> QED
  BY <1>1, FireByLayer, CaseRulesWork, DossierRulesWork, RoundRulesWork, StanceRulesWork
  DEF KeyInv, DossierInv

(* Every rule that fires leaves less to do, whatever it undoes: the case,  *)
(* dossier, roster, pressure and stance rules never chase each other.      *)
THEOREM RulesAlwaysMakeProgress == Spec => RulesMakeProgress
<1>1. MaintInv /\ (TypeInv /\ DossierInv) /\ (TypeInv /\ DossierInv /\ KeyInv /\ VerdictInv)
        => [FireRule => Less(Work', Work)]_allVars
  BY FiringWork
<1> QED
  BY <1>1, MaintAlways, DossierAlways, VerdictAlways, PTL DEF RulesMakeProgress
=============================================================================
