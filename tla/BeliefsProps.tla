---------------------------- MODULE BeliefsProps ----------------------------
(***************************************************************************)
(* What the belief layer promises.                                         *)
(***************************************************************************)
EXTENDS Beliefs, Walkers

Held(c, source, k) ==
  \E t \in terms : t.color = c /\ t.source = source /\ t.key = k

SeenBefore(b) == {s.tick : s \in {x \in About(sightings, b.color) : x.tick < b.tick}}
OpensAt(b) == CHOOSE t \in SeenBefore(b) \cup {0} : \A u \in SeenBefore(b) : u <= t
SeenWithin(c, b) ==
  \E s \in About(sightings, c) :
    s.room = b.room /\ OpensAt(b) <= s.tick /\ s.tick <= b.tick
SeenAtScene(c, b) ==
  \E d \in bodies : d.room = b.room /\ d.tick = b.tick /\ SeenWithin(c, d)
ChargedAsSeen ==
  (Settled /\ \A b, d \in bodies : b.color = d.color => b = d) =>
    \A b \in bodies, c \in Colors :
      Held(c, "nearBody", b.color)
        <=> (SeenAtScene(c, b) /\ ~ HasCastIron(c, b.color))
SilenceAsHeard ==
  (Settled /\ claims # {} /\ \A b, d \in bodies : b.color = d.color => b = d) =>
    \A b \in bodies, c \in Colors :
      Held(c, "silentWitness", b.color)
        <=> /\ SeenAtScene(c, b)
            /\ \A x \in About(claims, c) :
                 x.kind = "task" \/ (x.kind = "location" /\ x.room # b.room)
PackScored ==
  Settled =>
    \A a, c \in Colors :
      Held(a, "packCleared", c)
        <=> (a # c /\ [a |-> a, b |-> c] \in accuses /\ About(castIron, c) # {})

(* The charges that a query reads are those of the reports, in whatever    *)
(* order these came and however window and clearances moved in between     *)
(* (suspicion.clp, claims.clp and social.clp over cases.clp).  A color     *)
(* carries the near-body charge of a case exactly if some sighting puts it *)
(* in the kill room between a victim's last sighting and its body, and it  *)
(* is not cleared; two bodies found in one room at one tick are one scene, *)
(* because (near-body) has no victim slot.  Silence counts against a color *)
(* seen at the scene until it speaks of the body or the room.  Piling on a *)
(* cleared color is scored while that color stands cleared, by whichever   *)
(* case.                                                                   *)
ChargesAreTrue == ChargedAsSeen /\ SilenceAsHeard /\ PackScored

(* The pool of belief is the living: whoever died or was ejected has left  *)
(* it, whoever was first seen in this run is in it, with a prior and, as   *)
(* every dossier starts without tasks, the off-task term (suspicion.clp).  *)
PoolIsTheLiving ==
  Settled =>
    /\ W!Pool = {m.color : m \in Living}
    /\ \A m \in Living : Held(m.color, "prior", NoKey) /\ Held(m.color, "offTask", NoKey)

(* A corroboration helps both or neither, and nobody who has been caught   *)
(* in a contradiction, not even for one firing (claims.clp:                *)
(* derive-corroboration, term-co-location-a and -b).                       *)
AlibisAreMutual ==
  /\ \A t \in terms : t.source = "coLocation" =>
       t.color \notin contradicted /\ t.key \notin contradicted
  /\ Settled => \A c, d \in Colors : Held(c, "coLocation", d) => Held(d, "coLocation", c)

(* A reveal re-reads the whole table: whoever defended or accused the      *)
(* revealed impostor is scored, whether the vote came before or after      *)
(* (social.clp).                                                           *)
RetroScored ==
  Settled =>
    \A x \in {y \in ejections : y.impostor} : \A a \in Colors \ {x.color} :
      /\ [a |-> a, b |-> x.color] \in defends => Held(a, "defendImpostor", x.color)
      /\ [a |-> a, b |-> x.color] \in accuses => Held(a, "accuseImpostor", x.color)

(* A claim of color c and a sighting of it that exclude each other, on     *)
(* some map of the round.                                                  *)
Misplaced(c) ==
  \E x \in About(Placed, c), s \in About(sightings, c) :
    TwoPlaces(x, s) \/ \E m \in Maps : TooFast(m, x, s)

(* The two charges that are drawn from how far apart two rooms are rest on *)
(* what no walk explains, for as long as they are held: neither the last   *)
(* sighting of another player or another moment, nor a distance that was   *)
(* never on the map, nor a question asked between two reports turns a      *)
(* walker into a venter or a liar (fd_observe.c: vent_check; claims.clp:   *)
(* derive-contradiction-colocation and -by-distance).                      *)
BlameNeedsTheImpossible ==
  \A t \in terms :
    /\ t.source = "ventInferred" => MovedImpossibly(t.color)
    /\ t.source = "contradiction" => Misplaced(t.color)

(* What the caller may report that color c says of where it was is true.   *)
TellsTrue(c, path) ==
  \A x \in About(ClaimReports, c) : x.kind = "self-report" \/ LiesOn(path, x)

(* What a walker who tells the truth can count on.                         *)
Unblamed(c) ==
  /\ c \notin contradicted
  /\ \A x \in About(vents, c) : x.basis # "inferred"
  /\ \A t \in About(terms, c) : t.source \notin {"ventInferred", "contradiction"}

(* The weights are those of module Weights: terms and pool change only as  *)
(* that interface allows, and what a query reads when its run is over are  *)
(* the weights of the terms and the pool that the run leaves, however many *)
(* runs ago some of them were made (fd_clips.c: fd_run).                   *)
ImplementsWeights ==
  /\ W!WeightsSpec
  /\ [][phase' = "idle" /\ phase = "running" => W!Current']_everyVar

(* Every query returns, with the belief rules on the agenda too.           *)
QueriesReturn == phase = "running" ~> phase = "idle"
=============================================================================
