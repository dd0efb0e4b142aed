----------------------------- MODULE MCLibrary -----------------------------
(***************************************************************************)
(* fd_create on the shipped rule set and on every rule set one edit away   *)
(* from it, and a short round on each detector that comes of it.           *)
(***************************************************************************)
EXTENDS Ingest

CONSTANTS red, blue, seven, hall, wing, annex, palace, room7, torn, limbo

Rule(templates) == [templates |-> templates, loadable |-> Files]
Without(f, x) == [y \in DOMAIN f \ {x} |-> f[y]]
With(name, slot, value) ==
  Rule([Shipped EXCEPT ![name] = (slot :> value) @@ @])
Edited(name, slot) ==
  LET s == Shipped[name][slot]
  IN  {Rule([Shipped EXCEPT ![name] = Without(@, slot)]),
       With(name, slot, [s EXCEPT !.types = {"FLOAT"}]),
       With(name, slot, [s EXCEPT !.types = @ \cup {"FLOAT"}]),
       With(name, slot, [s EXCEPT !.single = FALSE])}
      \cup (IF s.allowed = {} THEN {} ELSE
              {With(name, slot, [s EXCEPT !.allowed = A]) :
                 A \in {{}, s.allowed \cup {"new"}}
                       \cup {s.allowed \ {v} : v \in s.allowed}
                       \cup {(s.allowed \ {v}) \cup {"new"} : v \in s.allowed}})
Wanted == {t.name : t \in ToSet(SCHEMA)}
Refused ==
  {Rule(Without(Shipped, name)) : name \in Wanted}
  \cup UNION {Edited(p[1], p[2]) :
                p \in UNION {{name} \X DOMAIN Shipped[name] : name \in Wanted}}
Only(v) == [types |-> {"SYMBOL"}, allowed |-> {v}, single |-> TRUE]
Tolerated ==
  {Rule([Shipped EXCEPT !["sighting"] = Without(@, "x")]),
   Rule(Without(Shipped, "ejection")),
   With("self-color", "color", Only("red")),
   With("roster", "n_players", [types |-> {"INTEGER"}, allowed |-> {"6"}, single |-> TRUE]),
   With("case", "note", Only("new"))}
RuleSets ==
  {[templates |-> Shipped, loadable |-> n] : n \in 0 .. Files} \cup Refused \cup Tolerated

Sighted(c, r, t) == [call |-> "player", color |-> c, room |-> r, tick |-> t]
AtRoom(call, c, r) == [call |-> call, color |-> c, room |-> r, tick |-> 9]
Of(call, c) == [call |-> call, color |-> c, tick |-> 9]
Edges(call, c, d) == [call |-> call, color |-> c, target |-> d, tick |-> 9]
Route(call, a, b) == [call |-> call, a |-> a, b |-> b]
Link(a, b, n) == [call |-> "link", a |-> a, b |-> b, cost |-> n]
RoundCalls ==
  {Sighted(blue, hall, 1), Sighted(blue, wing, 2), Sighted(blue, annex, 3),
   Sighted(blue, palace, 3), Sighted(seven, hall, 1), Sighted(NoId, hall, 1),
   Sighted(red, torn, 1),
   [call |-> "self", phase |-> limbo, room |-> hall, tick |-> 9],
   AtRoom("vent", blue, hall), AtRoom("body", red, Absent), AtRoom("task", blue, room7),
   Of("death", NoId), Of("ejection", blue),
   [call |-> "config", impostors |-> 1],
   AtRoom("claim", blue, hall) @@ [kind |-> "location"],
   AtRoom("claim", blue, hall) @@ [kind |-> "rumour"],
   Edges("vote", blue, NoId), Edges("vote", red, blue), Edges("defense", blue, red),
   [call |-> "name", acceptable |-> TRUE], [call |-> "name", acceptable |-> FALSE],
   Of("identity", red), Of("identity", seven), Of("identity", NoId),
   Link(hall, wing, 1), Link(wing, annex, 3), Link(hall, palace, 3), Link(hall, wing, 4),
   Link(hall, hall, 1), Link(torn, wing, 1),
   Route("close", hall, wing), Route("close", hall, hall), Route("open", hall, wing),
   Route("open", hall, torn)}
Sizes == (wing :> 2 @@ annex :> 2 @@ palace :> 5)
         @@ [s \in {red, blue, seven, hall, room7, limbo, Nowhere} |-> 1]
Torn     == {torn}
Numerals == {seven, room7, limbo}
=============================================================================
