------------------------------ MODULE Progress ------------------------------
(***************************************************************************)
(* Why fd_run returns.  Run(-1) fires rules until the agenda is empty, and *)
(* rules undo what others did: a narrower window takes alibis, a change to *)
(* a pool takes its accusation, the all-clear takes the threats.  Work is  *)
(* what is left to do, the sets ordered so that a rule may add to one only *)
(* while it takes from one before it.                                      *)
(***************************************************************************)
EXTENDS DetectiveProps, Sequences

Flag(b) == IF b THEN {b} ELSE {}

(* Dossiers: colors a report names and no dossier does, completions not    *)
(* credited, bodies not taken for deaths, sightings newer than the dossier *)
(* of their color, and how far each status still is from "ejected".        *)
Unknowns   == {c \in Reported \cup {t.color : t \in taskTicks} : ~ Known(c)}
Unnoticed  == {s \in sightings : \E m \in About(crew, s.color) : m.seen < s.tick}
Staying    == {m.color : m \in {x \in crew : x.status # "ejected"}}
Breathing  == {m.color : m \in {x \in crew : x.status = "alive"}}

(* Roster and pressure.                                                    *)
Miscounted == {r \in roster : Recounted(r) # r}
Misjudged  == {r \in roster : LevelOf(r.aliveCrew - r.aliveImpostors) # pressure}

(* Cases: sightings that narrow a window, alibis, clearances, near-body    *)
(* evidence and suspects to derive, suspects without a basis or to be      *)
(* cleared, suspects whose case is open.                                   *)
Narrowing  == {s \in sightings : \E w \in windows : Narrows(s, w)}
Absences   == {p \in sightings \X windows : SeenElsewhere(p[1], p[2])}
Breakable  == {a \in alibis : ~ HasCastIron(a.color, a.victim)}
Scenes     == {p \in sightings \X windows \X cases : AtTheScene(p[1], p[2], p[3])}
Openings   == {p \in crew \X cases : Opens(p[1], p[2])}
Unexplained == {s \in suspects : s.basis = "no alibi yet"}
Unaccused  == {s \in suspects : InCase(accusations, s.victim) = {}}

(* Verdicts: colors whose stance goes, comes, or is on the wrong side of   *)
(* threat, and those whose task verdict is out of date.                    *)
Departed   == {x.color : x \in RetractStanceLHS}
Unsettled  == {x.color : x \in {y \in stances :
                 (y.category = "threat") = AllImpostorsEjected}}
OutOfDate  == {x.color : x \in OffTaskLHS \cup OnTaskLHS}

Work ==
  << Unknowns, taskTicks, BodyImpliesDeathLHS, Unnoticed, Staying, Breathing,
     Flag(roster = {}), Miscounted, Flag(recountDue),
     Flag(pressure = "absent"), Misjudged,
     OpenCaseLHS, InitKillWindowLHS, Narrowing, Absences, Breakable, Scenes,
     Openings, Unexplained, RetractSuspectLHS, Unaccused,
     Departed, StanceEnsureLHS, Unsettled, OutOfDate >>

Fewer(v, w) == v \subseteq w /\ v # w
Less(v, w) ==
  \E i \in DOMAIN w : Fewer(v[i], w[i]) /\ \A j \in 1 .. i - 1 : v[j] \subseteq w[j]

(* K sets, all finite; and a sequence of them that is less at every step.  *)
Piles(K, v)   == DOMAIN v = 1..K /\ \A i \in 1..K : IsFiniteSet(v[i])
Endless(K, w) == \A n \in Nat : Piles(K, w[n]) /\ Less(w[n + 1], w[n])

(* Every rule that fires leaves less to do, whatever it undoes (the        *)
(* oscillation guards of clp/, docs/model.md).                             *)
RulesMakeProgress == [][FireRule => Less(Work', Work)]_allVars
=============================================================================
