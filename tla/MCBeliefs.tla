----------------------------- MODULE MCBeliefs -----------------------------
(***************************************************************************)
(* Small instances of Beliefs: three players, three rooms.                 *)
(***************************************************************************)
EXTENDS BeliefsProps

CONSTANTS me, p1, p2, kitchen, lab, reactor

P3 == {me, p1, p2}
R3 == {kitchen, lab, reactor}
Order == [c \in P3 |-> CASE c = me -> 0 [] c = p1 -> 1 [] c = p2 -> 2]

At(c, r, t) == [color |-> c, room |-> r, tick |-> t]
Says(c, k, r, t) == [color |-> c, kind |-> k, room |-> r, tick |-> t]
Pair(x, y) == [a |-> x, b |-> y]
Out(c, t, imp) == [color |-> c, tick |-> t, impostor |-> imp]

Table(far) ==
  [p \in Place \X Place |->
     IF Nowhere \in {p[1], p[2]} THEN NoFact
     ELSE IF p[1] = p[2] THEN 0
     ELSE IF reactor \in {p[1], p[2]} THEN far ELSE 1]
OneMap  == {Table(3)}

None   == {}
OnlyMe == {me}

(* A murder: p2 is found in the kitchen; p1 was seen there and far away.   *)
CrimeSightings == {At(p1, kitchen, 1), At(p1, reactor, 2), At(p2, kitchen, 2)}
CrimeBodies    == {At(p2, kitchen, 4)}
CrimeClaims    == {Says(p1, "location", kitchen, 3)}
CrimeVotes     == {Pair(p2, p1)}
CrimeVents     == {p1}

(* A meeting: two claims agree, a third is refuted by a sighting.          *)
MeetingSightings == {At(p1, lab, 2)}
MeetingClaims    == {Says(p1, "location", lab, 2), Says(p2, "task", lab, 2),
                     Says(p1, "task", kitchen, 2)}

(* A reveal: p1 accuses and p2 defends an impostor.                        *)
RevealVotes     == {Pair(p1, p2), Pair(p2, p1)}
RevealDefenses  == {Pair(p1, p2)}
RevealEjections == {Out(p2, 5, TRUE)}
=============================================================================
