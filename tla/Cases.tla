------------------------------- MODULE Cases -------------------------------
(***************************************************************************)
(* clp/cases.clp, and attach-near-body of clp/dossier.clp: the case layer  *)
(* at salience 130..150.  A rule is its left-hand side, a predicate on the *)
(* facts it joins (or the set of facts it matches), and the action that    *)
(* fires one match.  Truth maintenance is part of the action: a rule that  *)
(* retracts or modifies a fact also retracts every fact it was the logical *)
(* support of.                                                             *)
(*                                                                         *)
(* Some definitions are preceded by a variant with a plausible mistake;    *)
(* nothing uses the variants, they show that the checks would notice.      *)
(***************************************************************************)
EXTENDS WorkingMemory

Untouched == UNCHANGED <<phase, inputVars, dossierVars, roundVars, stances>>

OpenCaseLHS == {b \in bodies : InCase(cases, b.color) = {}}
OpenCase ==
  /\ \E b \in OpenCaseLHS :
       cases' = cases \cup {[victim |-> b.color, room |-> b.room,
                             tick |-> b.tick]}
  /\ UNCHANGED <<windows, alibis, castIron, nearBody, suspects, accusations>>
  /\ Untouched

InitKillWindowLHS == {k \in cases : InCase(windows, k.victim) = {}}
InitKillWindow ==
  /\ \E k \in InitKillWindowLHS :
       windows' = windows \cup {[victim |-> k.victim, from |-> 0,
                                 to |-> k.tick, room |-> k.room]}
  /\ UNCHANGED <<cases, alibis, castIron, nearBody, suspects, accusations>>
  /\ Untouched

(* Modifying the window retracts everything derived against its old        *)
(* bounds: the case's alibis, with them its cast-iron alibis, and the      *)
(* near-body facts this window supported.                                  *)
NarrowsOnce(s, w) == s.color = w.victim /\ w.from = 0 /\ s.tick < w.to
Narrows(s, w) == s.color = w.victim /\ w.from < s.tick /\ s.tick < w.to
WithoutAlibis(v)   == alibis \ InCase(alibis, v)
KeepingNearBody(v) == nearBody
WithoutNearBody(v) == {n \in nearBody : n.via # v}
UpdateKillWindowLower ==
  /\ \E s \in sightings, w \in windows :
       /\ Narrows(s, w)
       /\ windows'  = Replace(windows, w, [w EXCEPT !.from = s.tick])
       /\ alibis'   = WithoutAlibis(w.victim)
       /\ castIron' = castIron \ InCase(castIron, w.victim)
       /\ nearBody' = WithoutNearBody(w.victim)
  /\ UNCHANGED <<cases, suspects, accusations>>
  /\ Untouched

Within(t, w) == w.from <= t /\ t <= w.to

HasAlibi(c, v) == \E a \in alibis : a.color = c /\ a.victim = v

SeenElsewhere(s, w) ==
  /\ s.color # w.victim
  /\ s.room # w.room
  /\ Within(s.tick, w)
  /\ ~ HasAlibi(s.color, w.victim)
DeriveAlibi ==
  /\ \E s \in sightings, w \in windows :
       /\ SeenElsewhere(s, w)
       /\ alibis' = alibis \cup {[color |-> s.color, victim |-> w.victim,
                                  room |-> s.room, tick |-> s.tick]}
  /\ UNCHANGED <<cases, windows, castIron, nearBody, suspects, accusations>>
  /\ Untouched

(* The walk between the alibi room and the kill room takes longer than the *)
(* time left on either side of the sighting.  A pair of rooms without a    *)
(* room-distance fact (NoFact) never qualifies.                            *)
OutOfReachAfter(a, w) == distances[<<a.room, w.room>>] > w.to - a.tick
OutOfReach(a, w) ==
  /\ distances[<<a.room, w.room>>] > a.tick - w.from
  /\ distances[<<a.room, w.room>>] > w.to - a.tick
Unbreakable(a, w) ==
  /\ a.victim = w.victim
  /\ distances[<<a.room, w.room>>] # NoFact
  /\ OutOfReach(a, w)
  /\ About(vents, a.color) = {}

HasCastIron(c, v) == [color |-> c, victim |-> v] \in castIron

DeriveCastIronAlibi ==
  /\ \E a \in alibis, w \in windows :
       /\ Unbreakable(a, w)
       /\ ~ HasCastIron(a.color, a.victim)
       /\ castIron' = castIron \cup {[color |-> a.color, victim |-> a.victim]}
  /\ UNCHANGED <<cases, windows, alibis, nearBody, suspects, accusations>>
  /\ Untouched

AtTheScene(s, w, k) ==
  /\ k.victim = w.victim /\ k.room = w.room /\ s.room = w.room
  /\ Within(s.tick, w)
  /\ ~ \E n \in nearBody : n.color = s.color /\ n.room = k.room /\ n.tick = k.tick
AttachNearBody ==
  /\ \E s \in sightings, w \in windows, k \in cases :
       /\ AtTheScene(s, w, k)
       /\ nearBody' = nearBody \cup {[color |-> s.color, room |-> k.room,
                                      tick |-> k.tick, via |-> w.victim]}
  /\ UNCHANGED <<cases, windows, alibis, castIron, suspects, accusations>>
  /\ Untouched

(***************************************************************************)
(* The suspect pool.  A change to the pool of a case takes away the        *)
(* logical support of its accusation: either a second suspect appeared or  *)
(* the accused's own suspect fact was retracted (a modify retracts it      *)
(* before asserting the new one).                                          *)
(***************************************************************************)
PoolIgnored(v) == UNCHANGED accusations
PoolChanged(v) == accusations' = accusations \ InCase(accusations, v)

IsSuspect(c, v) == \E s \in suspects : s.color = c /\ s.victim = v

(* Who belongs in the pool of case k.                                      *)
Eligible(m, k) ==
  /\ self # Nobody
  /\ m.status = "alive"
  /\ m.color # k.victim /\ m.color # self

OpensCleared(m, k) == Eligible(m, k) /\ ~ IsSuspect(m.color, k.victim)
Opens(m, k) ==
  /\ Eligible(m, k)
  /\ ~ HasCastIron(m.color, k.victim)
  /\ ~ IsSuspect(m.color, k.victim)
OpenSuspectFromCrewmember ==
  /\ \E m \in crew, k \in cases :
       /\ Opens(m, k)
       /\ suspects' = suspects \cup {[color |-> m.color, victim |-> k.victim,
                                      basis |-> "no alibi yet"]}
       /\ PoolChanged(k.victim)
  /\ UNCHANGED <<cases, windows, alibis, castIron, nearBody>>
  /\ Untouched

RetractSuspectLHS == {s \in suspects : HasCastIron(s.color, s.victim)}
RetractSuspectOnCastIron ==
  /\ \E s \in RetractSuspectLHS :
       /\ suspects' = suspects \ {s}
       /\ PoolChanged(s.victim)
  /\ UNCHANGED <<cases, windows, alibis, castIron, nearBody>>
  /\ Untouched

(* Basis enrichment: only the default basis is ever replaced.              *)
NearTheBody(s) ==
  \E n \in About(nearBody, s.color), k \in InCase(cases, s.victim) :
     n.room = k.room /\ n.tick = k.tick
Vented(s, b) == \E x \in About(vents, s.color) : x.basis = b

Strengthens(s, b) ==
  /\ s.basis = "no alibi yet"
  /\ \/ b = "near body" /\ NearTheBody(s)
     \/ b = "vented" /\ Vented(s, "inferred")
     \/ b = "seen venting" /\ Vented(s, "observed")
Weakens(s) ==
  /\ s.basis = "no alibi yet"
  /\ HasAlibi(s.color, s.victim)
  /\ ~ HasCastIron(s.color, s.victim)

Explain(s, b) ==
  /\ suspects' = Replace(suspects, s, [s EXCEPT !.basis = b])
  /\ PoolChanged(s.victim)
StrengthenSuspect ==
  /\ \E s \in suspects, b \in Basis : Strengthens(s, b) /\ Explain(s, b)
  /\ UNCHANGED <<cases, windows, alibis, castIron, nearBody>>
  /\ Untouched
WeakenSuspectOnWeakAlibi ==
  /\ \E s \in suspects : Weakens(s) /\ Explain(s, "partially alibied")
  /\ UNCHANGED <<cases, windows, alibis, castIron, nearBody>>
  /\ Untouched

SolveExplainedLHS ==
  {s \in suspects :
     /\ s.basis # "no alibi yet"
     /\ \A x \in InCase(suspects, s.victim) : x.color = s.color
     /\ InCase(accusations, s.victim) = {}}
SolveCaseLHS ==
  {s \in suspects :
     /\ InCase(cases, s.victim) # {}
     /\ \A x \in InCase(suspects, s.victim) : x.color = s.color
     /\ InCase(accusations, s.victim) = {}}
SolveCase ==
  /\ \E s \in SolveCaseLHS :
       accusations' = accusations \cup {[victim |-> s.victim,
                                         color |-> s.color]}
  /\ UNCHANGED <<cases, windows, alibis, castIron, nearBody, suspects>>
  /\ Untouched

(***************************************************************************)
(* The agenda of the layer, by salience.                                   *)
(***************************************************************************)
Case150 == \E s \in sightings, w \in windows : Narrows(s, w)
EvidencePending ==
  \/ OpenCaseLHS # {}
  \/ InitKillWindowLHS # {}
  \/ \E s \in sightings, w \in windows : SeenElsewhere(s, w)
  \/ \E a \in alibis, w \in windows :
       Unbreakable(a, w) /\ ~ HasCastIron(a.color, a.victim)
  \/ \E s \in sightings, w \in windows, k \in cases : AtTheScene(s, w, k)
PoolPending ==
  \/ \E m \in crew, k \in cases : Opens(m, k)
  \/ RetractSuspectLHS # {}
  \/ \E s \in suspects, b \in Basis : Strengthens(s, b)
  \/ SolveCaseLHS # {}
Case140 == EvidencePending \/ PoolPending
Case130 == \E s \in suspects : Weakens(s)

CaseBand140 ==
  \/ OpenCase \/ InitKillWindow \/ DeriveAlibi \/ DeriveCastIronAlibi
  \/ AttachNearBody \/ OpenSuspectFromCrewmember
  \/ RetractSuspectOnCastIron \/ StrengthenSuspect \/ SolveCase
=============================================================================
