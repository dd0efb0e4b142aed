--------------------------- MODULE DetectiveProps ---------------------------
(***************************************************************************)
(* What the rule base promises, stated on the states its callers read (the *)
(* fixpoint of fd_run) and on every state in between.                      *)
(***************************************************************************)
EXTENDS Detective

(***************************************************************************)
(* Truth maintenance: conclusions never outlive their premises, not even   *)
(* for one rule firing.                                                    *)
(***************************************************************************)

(* An alibi always rests on a sighting elsewhere inside the window as it   *)
(* now stands, whatever the order in which the window was narrowed         *)
(* (cases.clp: derive-alibi and its logical CE).                           *)
AlibiHolds ==
  \A a \in alibis :
    /\ a.color # a.victim
    /\ [color |-> a.color, room |-> a.room, tick |-> a.tick] \in sightings
    /\ \E w \in windows : w.victim = a.victim /\ w.room # a.room
                          /\ Within(a.tick, w)

(* A cast-iron alibi is always backed by an alibi that the published       *)
(* distances and the current window make unbreakable, and never survives a *)
(* vent by its holder (cases.clp: derive-cast-iron-alibi).                 *)
CastIronHolds ==
  \A i \in castIron :
    \E a \in alibis, w \in windows :
      a.color = i.color /\ a.victim = i.victim /\ Unbreakable(a, w)

(* Whoever is cleared did not do it: nobody who was in the kill room at    *)
(* some moment of the kill window, walked there and away in time for all   *)
(* of its sightings and used no vent, is ever cleared, whatever the order  *)
(* in which sightings, windows, vents and the map came (cases.clp: derive- *)
(* cast-iron-alibi).                                                       *)
InTime(d, t, u) == d <= u - t \/ d <= t - u
CouldBeIn(c, room, t) ==
  \A s \in About(sightings, c) :
    \/ s.room = room
    \/ distances[<<s.room, room>>] = NoFact
    \/ InTime(distances[<<s.room, room>>], s.tick, t)
ClearedAreInnocent ==
  \A i \in castIron :
    /\ About(vents, i.color) = {}
    /\ \A w \in InCase(windows, i.victim) :
         \A t \in w.from .. w.to : ~ CouldBeIn(i.color, w.room, t)

(* A closed case names the one suspect its pool holds: the accusation goes *)
(* in the very step a second suspect appears or the accused is cleared     *)
(* (cases.clp: solve-case and its logical CE).                             *)
AccusationHolds ==
  \A x \in accusations :
    {s.color : s \in InCase(suspects, x.victim)} = {x.color}

(* Near-body evidence always rests on a sighting in the kill room inside   *)
(* the supporting window (dossier.clp: attach-near-body).                  *)
NearBodyHolds ==
  \A n \in nearBody :
    \E s \in About(sightings, n.color), w \in InCase(windows, n.via) :
      s.room = n.room /\ w.room = n.room /\ w.to = n.tick /\ Within(s.tick, w)

(* Neither kind of evidence outlives what it rests on.                     *)
EvidenceHolds == AlibiHolds /\ NearBodyHolds

(* No two facts of a template share a key: the (not ...) guards hold       *)
(* whatever the firing order, so "the" dossier, case, window, alibi,       *)
(* suspect, accusation or stance of a color is well defined.               *)
Keyed(facts, key(_)) == \A f, g \in facts : key(f) = key(g) => f = g
OfColor(f)  == f.color
OfVictim(f) == f.victim
OfPair(f)   == <<f.color, f.victim>>
OneFactPerKey ==
  /\ Keyed(crew, OfColor) /\ Keyed(stances, OfColor)
  /\ Keyed(cases, OfVictim) /\ Keyed(windows, OfVictim)
  /\ Keyed(accusations, OfVictim)
  /\ Keyed(alibis, OfPair) /\ Keyed(suspects, OfPair)
  /\ \A q, r \in roster : q = r

(***************************************************************************)
(* What every query reads: the fixpoint of fd_run.                         *)
(***************************************************************************)

(* The kill window opens exactly at the victim's latest sighting strictly  *)
(* before the body tick (0 if none), in whatever order sightings, body and *)
(* runs came (cases.clp: update-kill-window-lower).                        *)
LastSeenBefore(v, t) ==
  {s.tick : s \in {x \in About(sightings, v) : x.tick < t}}
WindowIsTight ==
  Fixpoint =>
    \A b \in bodies :
      \E w \in InCase(windows, b.color) :
        /\ w.from \in LastSeenBefore(b.color, w.to) \cup {0}
        /\ \A t \in LastSeenBefore(b.color, w.to) : t <= w.from

(* The pool holds everyone it should: each alive dossiered color other     *)
(* than self and the victim is a suspect or holds a cast-iron alibi, and   *)
(* nobody is both (cases.clp: suspect pool rules).                         *)
PoolIsComplete ==
  Fixpoint =>
    /\ self # Nobody =>
         \A m \in crew, k \in cases :
           (m.status = "alive" /\ m.color \notin {k.victim, self})
           => (IsSuspect(m.color, k.victim) # HasCastIron(m.color, k.victim))
    /\ \A s \in suspects : ~ HasCastIron(s.color, s.victim)

(* A lone suspect is accused, and only a lone suspect.                     *)
LoneSuspectIsAccused ==
  Fixpoint =>
    \A k \in cases :
      LET pool == {s.color : s \in InCase(suspects, k.victim)}
      IN  {x.color : x \in InCase(accusations, k.victim)} =
          IF \E c \in pool : pool = {c} THEN pool ELSE {}

(* Every dossier's status is what the reports imply: ejected over dead     *)
(* over alive; and every color referenced by a report has a dossier        *)
(* (dossier.clp).                                                          *)
Reported == {s.color : s \in sightings} \cup {b.color : b \in bodies} \cup dead
            \cup {e.color : e \in ejections}
Implied(c) == IF About(ejections, c) # {} THEN "ejected"
              ELSE IF c \in dead \/ About(bodies, c) # {} THEN "dead"
              ELSE "alive"
StatusMatchesReports ==
  Fixpoint =>
    /\ taskTicks = {}
    /\ \A c \in Reported : Known(c)
    /\ \A m \in crew : m.status = Implied(m.color)

(* The roster, although its recount is only triggered by crewmember        *)
(* changes and scans ejections it does not match on: the living and the    *)
(* impostors at large are those of the dossiers and of the ejections       *)
(* counted, and the pressure level is the roster's.  A color whose reports *)
(* all call it an impostor has been counted, whichever of them came first, *)
(* and nothing is counted that was not reported; the count is exact unless *)
(* a color's ejection was reported twice, and a second report may go       *)
(* uncounted (suspicion.clp: roster-recount, pressure-derive).             *)
ImpostorReports == {e \in ejections : e.impostor}
SurelyImpostors == {c \in Colors : /\ About(ejections, c) # {}
                                   /\ About(ejections, c) \subseteq ImpostorReports}
EjectedOnce     == \A e, f \in ejections : e.color = f.color => e = f
Counted(r, reports) ==
  LET out  == Cardinality({e \in reports : e.impostor})
      live == Cardinality({m \in crew : m.status = "alive"})
      imps == Larger(0, r.impostors - out)
  IN  /\ r.ejected = out /\ r.aliveImpostors = imps
      /\ r.aliveCrew = Larger(0, live - imps)
RosterIsCurrent ==
  Fixpoint =>
    \A r \in roster :
      /\ crew # {} =>
           /\ \E counted \in SUBSET ejections : Counted(r, counted)
           /\ Cardinality(SurelyImpostors) <= r.ejected
           /\ EjectedOnce => Counted(r, ejections)
      /\ pressure = LevelOf(r.aliveCrew - r.aliveImpostors)

(***************************************************************************)
(* Steps.                                                                  *)
(***************************************************************************)

(* A worse verdict is never overwritten by a better one: a threat stands,  *)
(* with the evidence it was drawn from, until death, ejection or the all-  *)
(* clear; on-task never turns back into off-task or unknown, whatever is   *)
(* sighted or claimed later.  The all-clear ends all of that: no threat is *)
(* drawn after it, and the run that learns of it leaves none for the vote  *)
(* to find (docs/model.md, salience priority; stance.clp).                 *)
ThreatIsLasting ==
  [][/\ \A x \in stances : x.category = "threat" =>
          x \in stances' \/ ~ Alive(x.color) \/ AllImpostorsEjected
     /\ \A x \in stances, y \in stances' :
          (x.category = "on-task" /\ y.color = x.color) =>
            y.category \in {"on-task", "threat"}
     /\ AllImpostorsEjected =>
          \A y \in stances' : y.category = "threat" =>
            y \in stances /\ (phase = "running" => phase' = "running")]_allVars

(* The dead stay dead: no stale or late sighting resurrects a color        *)
(* (dossier.clp: update-last-seen, mark-dead, mark-ejected).               *)
Rank(status) == CASE status = "alive" -> 0 [] status = "dead" -> 1
                  [] status = "ejected" -> 2
NoResurrection ==
  [][\A m \in crew : \E n \in crew' :
       /\ n.color = m.color
       /\ Rank(n.status) >= Rank(m.status)
       /\ n.seen >= m.seen /\ n.tasks >= m.tasks]_allVars

(* A near-body threat is drawn only once the case layer has settled: at    *)
(* that moment no alibi of that color in that case can still turn          *)
(* cast-iron (cases.clp header, stance.clp: stance-threat).                *)
ThreatAfterAlibis ==
  [][\A y \in stances' :
       (y \notin stances /\ y.evidence = "near-body") =>
         \A a \in About(alibis, y.color), w \in windows :
           ~ (Unbreakable(a, w) /\ ~ HasCastIron(a.color, a.victim))]_allVars

(* The rules only ever see the walks of the graph as it stood when the run *)
(* began: Detective implements the same interface as the room graph        *)
(* (fd_clips.c: fd_run, fd_graph.c: fd_graph_publish_distances).           *)
Map == INSTANCE WalkingCosts WITH
  Places <- Place, NoCost <- NoFact,
  table <- walk, published <- distances, outdated <- walkDirty
RulesSeeTheMap == Map!CostsSpec

(***************************************************************************)
(* Liveness: every query returns.  The oscillation guards of the rules     *)
(* (docs/model.md) make the agenda run empty.                              *)
(***************************************************************************)
RunTerminates == phase = "running" ~> phase = "idle"

(***************************************************************************)
(* Statements of the repository the rules do not keep.                     *)
(***************************************************************************)

(* cases.clp: a sighting is a cast-iron alibi "iff dist exceeds the time    *)
(* available on both sides of the sighting".  But only one alibi per color *)
(* and victim is derived: a weak one keeps the unbreakable one out.        *)
ImpossibleIsCleared ==
  Fixpoint =>
    \A s \in sightings, w \in windows :
      LET a == [color |-> s.color, victim |-> w.victim, room |-> s.room,
                tick |-> s.tick]
      IN  (/\ s.color # w.victim /\ s.room # w.room /\ Within(s.tick, w)
           /\ Unbreakable(a, w))
          => HasCastIron(s.color, w.victim)

(* stance.clp: the facts the stance rules read "are fully settled before   *)
(* any verdict is drawn" -- so whoever is named sole suspect must be so    *)
(* with every living, uncleared color that has been sighted in the pool.   *)
AccusedAmongAll ==
  [][\A y \in stances' :
       (y \notin stances /\ y.evidence = "accusation") =>
         \E x \in About(accusations, y.color) :
           \A s \in sightings :
             \/ IsSuspect(s.color, x.victim) \/ HasCastIron(s.color, x.victim)
             \/ s.color \in {x.victim, self}
             \/ Implied(s.color) # "alive"]_allVars
=============================================================================
