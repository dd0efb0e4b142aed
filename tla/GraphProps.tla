----------------------------- MODULE GraphProps -----------------------------
(***************************************************************************)
(* What the room graph promises the detector and its caller.               *)
(***************************************************************************)
EXTENDS RoomGraph

SolvesBellman(d) ==
  \A a, b \in rooms :
    d[<<a, b>>] = Min({Open[<<a, b>>]} \cup
                      {Sum(Open[<<a, k>>], d[<<k, b>>]) :
                         k \in {x \in rooms \ {a} : x # b}})
SumsFit(d) ==
  \A p, q \in Pairs(rooms) :
    (d[p] # Inf /\ d[q] # Inf) => d[p] + d[q] <= Inf

(* The distance of two rooms is the length of a shortest walk over the     *)
(* links as they are now: Bellman's equations, which have no other         *)
(* solution because every link costs something (fd_graph.c: the lazy       *)
(* recomputation, whichever call comes between two changes).  They hold of *)
(* a room and itself too: 0, and the way out and back once a route was     *)
(* closed that leads nowhere else.  No sum on the way there exceeds FD_INF *)
(* and so the int, as links are capped and a shortest walk visits a room   *)
(* once (fd_internal.h: the assertion on FD_MAX_LINK_COST).                *)
ShortestWalks == \E d \in {Refreshed} : SolvesBellman(d) /\ SumsFit(d)

(* While it is not marked for recomputation the matrix is the one the      *)
(* links and closures of the moment give, whatever mix of links, closures, *)
(* questions, runs and rounds came before (fd_graph.c: apsp_dirty).        *)
CacheIsFresh == (~ apspDirty /\ rooms # {}) => apsp = AllPairs

(* Links and closures come in both directions, and only links are closed,  *)
(* so walking back is as long as walking there (fd_graph.c:                *)
(* fd_add_room_link, fd_observe_route_closed, fd_observe_route_opened).    *)
LinksAreMutual ==
  /\ \A p \in Pairs(rooms) :
       direct[p] = direct[Flip(p)] /\ (p \in closed <=> Flip(p) \in closed)
  /\ \A p \in closed : direct[p] # Inf

(* Closing a route never shortens a distance, opening one never lengthens  *)
(* any, and neither asking nor publishing changes an answer (fakedetector.h*)
(* on route closures).                                                     *)
ClosuresOnlySlow ==
  [][(rooms' = rooms /\ direct' = direct) =>
       \A old \in {Refreshed}, new \in {Refreshed'}, p \in Pairs(rooms) :
         /\ closed \subseteq closed' => new[p] >= old[p]
         /\ closed' \subseteq closed => new[p] <= old[p]]_graphVars

(***************************************************************************)
(* The graph implements WalkingCosts.  The table covers all rooms while    *)
(* the facts are out of date and the published ones otherwise: a room that *)
(* a rejected link has interned shows only after the next real change.     *)
(***************************************************************************)
Shown == IF factsDirty THEN {p \in Pairs(rooms) : p[1] # p[2]} ELSE DOMAIN facts
Tabled[d \in [Pairs(rooms) -> Costs]] ==
  [p \in Pairs(RoomNames) |-> IF p \in Shown THEN FactCost(d[p]) ELSE -1]
TableOfWalks == Tabled[AllPairs]
FactTable ==
  [p \in Pairs(RoomNames) |-> IF p \in DOMAIN facts THEN facts[p] ELSE -1]

Abstract == INSTANCE WalkingCosts WITH
  Places <- RoomNames, NoCost <- -1,
  table <- TableOfWalks, published <- FactTable, outdated <- factsDirty

(* The facts are replaced only at the start of a run that finds them out   *)
(* of date, by the walks of that moment, and no change of a walk goes      *)
(* unannounced (fd_graph.c: facts_dirty).                                  *)
ImplementsWalkingCosts == Abstract!CostsSpec
=============================================================================
