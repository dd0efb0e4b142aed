---------------------------- MODULE MCDetective ----------------------------
(***************************************************************************)
(* Small instances of Detective for TLC.  The room map has two rooms a few *)
(* ticks apart (kitchen, lab) and one far away (reactor); the rest of the  *)
(* inputs is chosen per question in the .cfg files.                        *)
(***************************************************************************)
EXTENDS Walkers, Reports

CONSTANTS me, p1, p2, p3, kitchen, lab, reactor

C4 == {me, p1, p2, p3}
C3 == {me, p1, p2}
(* The enum order of the players: me first.                                *)
Seats4 == [c \in {me, p1, p2, p3} |->
            CASE c = me -> 0 [] c = p1 -> 1 [] c = p2 -> 2 [] c = p3 -> 3]
Seats3 == [c \in C3 |-> Seats4[c]]
R3 == {kitchen, lab, reactor}
R2 == {kitchen, reactor}

At(c, r, t) == [color |-> c, room |-> r, tick |-> t]

(* A table with the given walking time to and from the reactor.            *)
Table(far) ==
  [p \in Place \X Place |->
     IF Nowhere \in {p[1], p[2]} THEN NoFact
     ELSE IF p[1] = p[2] THEN 0
     ELSE IF reactor \in {p[1], p[2]} THEN far ELSE 1]
OneMap  == {Table(3)}
TwoMaps == {Table(3), Table(1)}
NoMap   == {[p \in Place \X Place |-> NoFact]}

None == {}
OnlyMe == {me}

(* Alibis and the pool: a body in the kitchen at tick 4, its victim seen   *)
(* before, two others seen near, elsewhere or far away.                    *)
CaseSightings == {At(p1, kitchen, 2), At(p1, reactor, 3), At(p2, reactor, 2),
                  At(p3, lab, 1), At(p3, lab, 3)}
AccusedSightings == {At(p1, reactor, 1), At(p2, lab, 2)}
ClearedSightings == {At(p1, lab, 3), At(p1, reactor, 2)}
CaseBodies == {At(p3, kitchen, 4)}
CaseVents == {p1}

(* Round bookkeeping: deaths, ejections and tasks around one sighting each;*)
(* each ejection is reported twice, one of them once with either verdict.  *)
Out(c, t, imp) == [color |-> c, tick |-> t, impostor |-> imp]
Did(c) == [color |-> c, tick |-> 1]
RoundSightings == {At(p1, kitchen, 2), At(p2, kitchen, 1)}
RoundTasks     == {Did(p2)}
RoundDeaths    == {p2}
RoundEjections == {Out(p1, 5, TRUE), Out(p1, 6, TRUE),
                   Out(p2, 5, FALSE), Out(p2, 6, TRUE)}
RoundVents     == {p1, p2}
OneOrTwo       == {1, 2}

(* Two bodies found in one room at one tick, and an alibi that a newly     *)
(* learnt shortcut breaks.                                                 *)
TwinSightings == {At(p1, reactor, 2), At(p2, kitchen, 1), At(p3, lab, 2)}
TwinBodies    == {At(p2, kitchen, 4), At(p3, kitchen, 4)}
============================================================================
