------------------------------ MODULE Walkers ------------------------------
(***************************************************************************)
(* The players behind the reports.  The detector never sees where a player *)
(* is, only where it was sighted, where it says it was and how far apart   *)
(* the rooms are.  What that allows and excludes is a question about the   *)
(* vent check (fd_observe.c: vent_check), the case layer (clp/cases.clp)   *)
(* and the contradictions (clp/claims.clp) together: whoever could have    *)
(* done it stays a suspect, and whoever walks is not taken for a venter or *)
(* a liar.                                                                 *)
(*                                                                         *)
(* A position is a sighting or a claim, read for its room and its tick.    *)
(***************************************************************************)
EXTENDS DetectiveProps

(***************************************************************************)
(* Movement.  Closures and new links change the map during a round and the *)
(* rules judge old positions by the newest map, so it is every map of the  *)
(* round that a walker's positions have to agree with.                     *)
(***************************************************************************)

(* No walk of map m takes a player from one position to the other, in      *)
(* whichever order; rooms the map does not know refute nothing.            *)
TooFast(m, p, q) ==
  LET cost == m[<<p.room, q.room>>]
  IN  p.room # q.room /\ cost # NoFact /\ ~ InTime(cost, p.tick, q.tick)
(* Nor can anybody be in two rooms at once, on any map.                    *)
TwoPlaces(p, q) == p.room # q.room /\ p.tick = q.tick

(* A path says where a player is at the ticks it is defined for; while on  *)
(* its way from one room to the next a player may be in none.              *)
IsPath(path) == path \in [DOMAIN path -> Place] /\ DOMAIN path \subseteq Nat
PositionOn(path, t)     == [room |-> path[t], tick |-> t]
LiesOn(path, p)         == p.tick \in DOMAIN path /\ p.room = path[p.tick]
WalksOn(path, m) ==
  \A t, u \in DOMAIN path :
    ~ TooFast(m, PositionOn(path, t), PositionOn(path, u))
Walks(path) == \A m \in Maps : WalksOn(path, m)

(* What the caller may report of color c is where c was.                   *)
TrulySighted(c, path) == \A s \in About(SightingReports, c) : LiesOn(path, s)

(***************************************************************************)
(* Murder.                                                                 *)
(***************************************************************************)

(* Nothing reported so far excludes that c was in the room of case k at    *)
(* some moment after its victim was last seen: c vented, or could have     *)
(* walked there and away in time for all of its sightings.                 *)
AfterLastSeen(k) ==
  {t \in 0 .. k.tick : \A u \in LastSeenBefore(k.victim, k.tick) : u <= t}
CouldHaveDone(c, k) ==
  \/ About(vents, c) # {}
  \/ \E t \in AfterLastSeen(k) : CouldBeIn(c, k.room, t)

(* An accusation is a proof by elimination: whoever lives and could have   *)
(* done it is in the pool of the case, and if the case names anybody then  *)
(* there is nobody else who could; whichever alibis were found, lost with  *)
(* a window or with the map, and found again (cases.clp: from body-seen to *)
(* solve-case).                                                            *)
CulpritIsNotMissed ==
  (Fixpoint /\ self # Nobody) =>
    \A k \in cases, m \in crew :
      (m.status = "alive" /\ m.color \notin {k.victim, self}
         /\ CouldHaveDone(m.color, k)) =>
        /\ IsSuspect(m.color, k.victim)
        /\ \A x \in InCase(accusations, k.victim) : x.color = m.color

(* What the caller may report of the murder of v in room r at tick t: v    *)
(* was seen at no later tick, and its body in that room and not before.    *)
TrulyReported(v, r, t) ==
  /\ \A s \in About(SightingReports, v) : s.tick <= t
  /\ \A b \in About(BodyReports, v) : b.room = r /\ b.tick >= t

(* What a killer cannot get out of: at no moment is c cleared of the death *)
(* of v, and a run that knows of both leaves c in the pool of the case and *)
(* names nobody else.                                                      *)
StaysSuspected(c, v) ==
  /\ ~ HasCastIron(c, v)
  /\ (Fixpoint /\ self # Nobody /\ Alive(c) /\ c # self /\ InCase(cases, v) # {}) =>
       /\ IsSuspect(c, v)
       /\ \A x \in InCase(accusations, v) : x.color = c

(***************************************************************************)
(* Vents.                                                                  *)
(***************************************************************************)

(* Two sightings of color c that no walk of some map of the round          *)
(* explains, although that map knows a way from one room to the other.     *)
MovedImpossibly(c) ==
  \E p, q \in About(sightings, c), m \in Maps :
    TooFast(m, p, q) /\ m[<<p.room, q.room>>] # Unreachable

VentsNeedMoves ==
  \A x \in vents : x.basis = "inferred" => MovedImpossibly(x.color)
=============================================================================
