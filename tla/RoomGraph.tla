----------------------------- MODULE RoomGraph -----------------------------
(***************************************************************************)
(* src/fd_graph.c: the map of rooms, its closures, the lazily recomputed   *)
(* matrix of shortest walks, and the room-distance facts published from    *)
(* it at the start of a run.                                               *)
(*                                                                         *)
(* A room is its name, so the order in which names are interned, which     *)
(* only numbers the rows, is left out.  A name no sighting could carry is  *)
(* rejected before anything changes and is left out too.                   *)
(*                                                                         *)
(* OpenAtNoCost, ViaLinks, AnyCost, FactsDirtied and ApspDirtied are       *)
(* variants with a plausible mistake; nothing uses them, they show that    *)
(* the checks would notice.                                                *)
(***************************************************************************)
EXTENDS Integers, FiniteSetsExt

CONSTANTS
  RoomNames,        \* names the caller may use
  LinkReports,      \* <<room, room, cost>> of possible fd_add_room_link calls
  RouteReports,     \* <<room, room>> of possible fd_observe_route_* calls
  MaxRooms,         \* FD_MAX_ROOMS
  MaxLinkCost,      \* FD_MAX_LINK_COST
  Inf,              \* FD_INF
  UnreachableCost   \* FD_UNREACHABLE_COST

ASSUME LimitsOK ==
  /\ LinkReports \subseteq RoomNames \X RoomNames \X Int
  /\ RouteReports \subseteq RoomNames \X RoomNames
  /\ MaxRooms \in Nat \ {0} /\ MaxLinkCost \in Nat /\ Inf \in Nat
  /\ UnreachableCost \in Nat
  /\ MaxLinkCost * MaxRooms * 2 <= Inf      \* the static assertion

VARIABLES
  rooms,            \* interned names
  direct,           \* link cost per pair of rooms, Inf without a link
  closed,           \* pairs closed this round
  apsp,             \* shortest walks as last computed
  apspDirty,        \* apsp needs recomputing
  factsDirty,       \* the facts need republishing
  facts             \* (room-distance): cost per published pair

graphVars == <<rooms, direct, closed, apsp, apspDirty, factsDirty, facts>>

Pairs(S) == S \X S
Costs    == 0..Inf
Flip(p)  == <<p[2], p[1]>>

GraphTypeOK ==
  /\ rooms \subseteq RoomNames /\ Cardinality(rooms) <= MaxRooms
  /\ direct \in [Pairs(rooms) -> Costs]
  /\ closed \subseteq Pairs(rooms)
  /\ apspDirty \in BOOLEAN /\ factsDirty \in BOOLEAN
  /\ apsp \in [DOMAIN apsp -> Int] /\ facts \in [DOMAIN facts -> Int]
  /\ ~ apspDirty => DOMAIN apsp = Pairs(rooms)

Nothing == [p \in {} |-> 0]

GraphInit ==
  /\ rooms = {} /\ direct = Nothing /\ closed = {}
  /\ apsp = Nothing /\ apspDirty = FALSE
  /\ factsDirty = FALSE /\ facts = Nothing

(***************************************************************************)
(* graph_recompute_apsp: Floyd-Warshall over the open links.  Row and      *)
(* column k do not change in round k (no cost is negative), so updating in *)
(* place and updating at once come to the same; and so do all orders in    *)
(* which the rooms k can be taken.                                         *)
(***************************************************************************)
OpenAtNoCost == [p \in Pairs(rooms) |-> IF p \in closed THEN 0 ELSE direct[p]]
Open == [p \in Pairs(rooms) |-> IF p \in closed THEN Inf ELSE direct[p]]

Sum(m, n) == IF m = Inf \/ n = Inf THEN Inf ELSE m + n
ViaLinks(d, k, p) == Sum(Open[<<p[1], k>>], Open[<<k, p[2]>>])
Via(d, k, p)      == Sum(d[<<p[1], k>>], d[<<k, p[2]>>])
Matrices(S) == [Pairs(S) -> Costs]
Shorter(m, n) == IF m < n THEN m ELSE n
Relax(S, k) ==
  [d \in Matrices(S) |-> [p \in Pairs(S) |-> Shorter(Via(d, k, p), d[p])]]
Relaxed(S, matrix) == FoldSet(LAMBDA k, d : Relax(S, k)[d], matrix, S)
AllPairs == Relaxed(rooms, Open)

Refreshed == IF apspDirty THEN AllPairs ELSE apsp

(***************************************************************************)
(* fd_graph_path_cost, as the vent check and fd_room_distance call it.     *)
(***************************************************************************)
PathCost(a, b) == IF {a, b} \subseteq rooms THEN Refreshed[<<a, b>>] ELSE Inf

AskDistance ==
  /\ apspDirty /\ rooms # {}
  /\ apsp' = AllPairs /\ apspDirty' = FALSE
  /\ UNCHANGED <<rooms, direct, closed, factsDirty, facts>>

RoomDistance(a, b) == IF PathCost(a, b) = Inf THEN -1 ELSE PathCost(a, b)

(***************************************************************************)
(* fd_add_room_link.  Both rooms are interned before the pair is looked    *)
(* at, so a link that is then rejected may have added rooms.               *)
(***************************************************************************)
AnyCost(c) == c > 0
CostOK(c) == 0 < c /\ c <= MaxLinkCost

Interned(S, r) ==
  IF r \in S \/ Cardinality(S) < MaxRooms THEN S \cup {r} ELSE S

(* direct after its rows and columns were extended to the rooms in S.      *)
Extended(S) ==
  [p \in Pairs(S) |-> IF p \in DOMAIN direct THEN direct[p]
                      ELSE IF p[1] = p[2] THEN 0 ELSE Inf]

Link(d, a, b, c) == [d EXCEPT ![<<a, b>>] = c, ![<<b, a>>] = c]

AddRoomLink ==
  \E l \in LinkReports :
    LET a == l[1]  b == l[2]  c == l[3]
        known    == Interned(Interned(rooms, a), b)
        accepted == a # b /\ {a, b} \subseteq known
    IN  /\ CostOK(c)
        /\ rooms' = known
        /\ direct' = IF accepted THEN Link(Extended(known), a, b, c)
                                 ELSE Extended(known)
        /\ apspDirty'  = (apspDirty \/ accepted \/ known # rooms)
        /\ factsDirty' = (factsDirty \/ accepted)
        /\ UNCHANGED <<closed, apsp, facts>>

(***************************************************************************)
(* fd_observe_route_closed and fd_observe_route_opened.                    *)
(***************************************************************************)
FactsDirtied == UNCHANGED apspDirty /\ factsDirty' = TRUE
ApspDirtied  == apspDirty' = TRUE /\ UNCHANGED factsDirty
Dirtied      == apspDirty' = TRUE /\ factsDirty' = TRUE

BothWays(p) == {p, Flip(p)}
RouteClosed ==
  \E p \in RouteReports \cap Pairs(rooms) :
    /\ direct[p] # Inf /\ p \notin closed
    /\ closed' = closed \cup BothWays(p)
    /\ Dirtied
    /\ UNCHANGED <<rooms, direct, apsp, facts>>

RouteOpened ==
  \E p \in RouteReports \cap closed :
    /\ closed' = closed \ BothWays(p)
    /\ Dirtied
    /\ UNCHANGED <<rooms, direct, apsp, facts>>

(***************************************************************************)
(* fd_run publishes, fd_reset forgets the facts and the closures.          *)
(***************************************************************************)
FactCost(d) == IF d = Inf THEN UnreachableCost ELSE d
FactsOf(d) ==
  [p \in {q \in DOMAIN d : q[1] # q[2]} |-> FactCost(d[p])]

Publish ==
  /\ factsDirty
  /\ apsp' = Refreshed /\ apspDirty' = FALSE
  /\ facts' = FactsOf(Refreshed) /\ factsDirty' = FALSE
  /\ UNCHANGED <<rooms, direct, closed>>

Reset ==
  /\ closed' = {} /\ facts' = Nothing
  /\ Dirtied
  /\ UNCHANGED <<rooms, direct, apsp>>

GraphNext ==
  \/ AskDistance \/ AddRoomLink \/ RouteClosed \/ RouteOpened
  \/ Publish \/ Reset

GraphSpec == GraphInit /\ [][GraphNext]_graphVars
=============================================================================
