---------------------------- MODULE WalkingCosts ----------------------------
(***************************************************************************)
(* What the room graph promises the detector: a table of walking costs     *)
(* that changes only through calls of the map API, and a published copy    *)
(* that the rules read, taken from the table as it is when a run begins    *)
(* with the copy out of date.  Detective and RoomGraph both implement it.  *)
(***************************************************************************)
EXTENDS Integers

CONSTANTS
  Places,        \* rooms, and whatever else a sighting can name
  NoCost         \* table entry of a pair of which one room is unknown

VARIABLES
  table,         \* cost per pair, closures applied
  published,     \* the room-distance facts
  outdated       \* the table may have changed since it was published

costVars == <<table, published, outdated>>

Tables == [Places \X Places -> Nat \cup {NoCost}]
Facts(t) == [p \in Places \X Places |-> IF p[1] = p[2] THEN NoCost ELSE t[p]]
NoFacts  == [p \in Places \X Places |-> NoCost]

CostsInit == table \in Tables /\ published = Facts(table) /\ outdated = FALSE

(* A link, a closure, a reopening.                                         *)
Change == table' \in Tables /\ outdated' = TRUE /\ UNCHANGED published

(* The start of a run.                                                     *)
Publish ==
  /\ outdated /\ outdated' = FALSE
  /\ published' = Facts(table)
  /\ UNCHANGED table

(* A new round: the facts are gone, the closures too.                      *)
NewRound == table' \in Tables /\ published' = NoFacts /\ outdated' = TRUE

CostsNext == Change \/ Publish \/ NewRound

CostsSpec == CostsInit /\ [][CostsNext]_costVars
=============================================================================
