------------------------------- MODULE Ingest -------------------------------
(***************************************************************************)
(* What becomes of a call (fd_observe.c, fakedetector.c, fd_clips.c): the  *)
(* order in which arguments are judged, the assertion that may still fail, *)
(* and the counters that tell (fd_ingest_stats).  What the rules make of   *)
(* the facts is the subject of Detective, what a link does to walks of     *)
(* RoomGraph, what a name is of Session.                                   *)
(*                                                                         *)
(* Definitions preceded by a variant with a plausible mistake: see Cases.  *)
(***************************************************************************)
EXTENDS Schema

CONSTANTS
  Calls,        \* the calls that may be made, records with a field "call"
  Nobody,       \* SELF_UNSET
  NoId,         \* an id outside of 0 .. FD_MAX_PLAYERS - 1
  Absent,       \* a room argument that is NULL or empty
  Nowhere,      \* the symbol written for it
  Unsafe,       \* room arguments that fail fd_symbol_ok
  Unassertable, \* arguments that pass it and that a SYMBOL slot refuses
  Size,         \* the share of the buffer a symbol takes
  Buffer,       \* what two symbols may take together
  RoomLimit,    \* FD_MAX_ROOMS
  MaxLinkCost,  \* FD_MAX_LINK_COST
  MaxCalls      \* bound on the counted calls

VARIABLES
  self,         \* fd->self_color
  memory,       \* the facts asserted by the library
  last,         \* last_sighting: per color its newest report
  known,        \* rooms interned in the graph
  links, closed,\* pairs of rooms with a link, with a closure
  tally,        \* ingest_stats
  subject       \* the fact the last call was about

(* A color that fd_players knows, and a room that is a symbol, has a       *)
(* length; ticks are integers.                                             *)
ASSUME CallsAreSized ==
  /\ \A s \in DOMAIN Size : Size[s] \in Nat
  /\ Buffer \in Int /\ Nowhere \in DOMAIN Size
  /\ \A x \in Calls : x.call = "player" =>
       /\ x.tick \in Int
       /\ x.color \in DOMAIN Size \cup {NoId}
       /\ x.room \in DOMAIN Size \cup Unsafe \cup {Absent}

callVars   == <<self, memory, last, known, links, closed, tally, subject>>
ingestVars == <<schemaVars, callVars>>

Counter  == {"total", "accepted", "validation", "self", "assert"}
NoReport == [room |-> Nowhere, tick |-> -1]
Fact(template, symbols, ticks) ==
  [template |-> template, symbols |-> symbols, ticks |-> ticks]
NoSubject == Fact("none", <<>>, <<>>)

IngestInit ==
  /\ SchemaInit
  /\ self = Nobody /\ memory = {} /\ last = <<>>
  /\ known = {} /\ links = {} /\ closed = {}
  /\ tally = [k \in Counter |-> 0] /\ subject = NoSubject

(***************************************************************************)
(* fd_assert_fact: the string must fit, and CLIPS must take it.  A fact    *)
(* that is already there is found again, and counts as asserted.           *)
(***************************************************************************)
Fits(f) == SumFunction([i \in DOMAIN f.symbols |-> Size[f.symbols[i]]]) <= Buffer
Takes(slots, want) ==
  \A s \in DOMAIN want : /\ s \in DOMAIN slots
                         /\ want[s].types \subseteq slots[s].types
                         /\ \/ slots[s].allowed = {}
                            \/ /\ want[s].allowed # {}
                               /\ want[s].allowed \subseteq slots[s].allowed
Accepts(template) ==
  /\ template \in DOMAIN rules.templates
  /\ Takes(rules.templates[template], Shipped[template])
Lands(f) ==
  Fits(f) /\ ToSet(f.symbols) \cap Unassertable = {} /\ Accepts(f.template)

(***************************************************************************)
(* fd_ingest_note_call and fd_ingest_note.                                 *)
(***************************************************************************)
Note(accepted, validation, filtered, dropped) ==
  tally' = [total      |-> tally.total + 1,
            accepted   |-> tally.accepted + accepted,
            validation |-> tally.validation + validation,
            self       |-> tally.self + filtered,
            assert     |-> tally.assert + dropped]
Number(b) == IF b THEN 1 ELSE 0

Invalid == Note(0, 1, 0, 0) /\ subject' = NoSubject
           /\ UNCHANGED <<self, memory, last, known, links, closed>>
OwnColor == Note(0, 0, 1, 0) /\ subject' = NoSubject
            /\ UNCHANGED <<self, memory, last, known, links, closed>>
FiledUnseen(f) ==
  /\ memory' = IF Lands(f) THEN memory \cup {f} ELSE memory
  /\ Note(1, 0, 0, 0) /\ subject' = f
  /\ UNCHANGED <<self, last, known, links, closed>>
Filed(f) ==
  /\ memory' = IF Lands(f) THEN memory \cup {f} ELSE memory
  /\ Note(Number(Lands(f)), 0, 0, Number(~ Lands(f))) /\ subject' = f
  /\ UNCHANGED <<self, last, known, links, closed>>

(***************************************************************************)
(* Tests of the arguments, and the verdict of the first that fails.        *)
(***************************************************************************)
SafeRoom(r) == IF r = Absent THEN Nowhere ELSE r
RoomTest(r) == [ok |-> r \notin Unsafe, verdict |-> "invalid"]
SelfTest(c) == [ok |-> c # self, verdict |-> "own color"]
NameTest(c) == [ok |-> c # NoId, verdict |-> "invalid"]
KindTest(k) == [ok |-> k \in {"location", "task", "self-report"}, verdict |-> "invalid"]

Judged(tests, Accept) ==
  LET failed == {i \in DOMAIN tests : ~ tests[i].ok}
      first  == tests[CHOOSE i \in failed : \A j \in failed : i <= j]
  IN  \/ failed = {} /\ Accept
      \/ failed # {} /\ first.verdict = "invalid" /\ Invalid
      \/ failed # {} /\ first.verdict = "own color" /\ OwnColor

(***************************************************************************)
(* Observation.                                                            *)
(***************************************************************************)
ObserveSelf(x) ==
  Judged(<<RoomTest(x.room)>>,
         Filed(Fact("self-state", <<x.phase, SafeRoom(x.room)>>, <<x.tick>>)))
ObserveVent(x) ==
  Judged(<<RoomTest(x.room), SelfTest(x.color), NameTest(x.color)>>,
         Filed(Fact("vent-suspected",
                    <<x.color, SafeRoom(x.room), SafeRoom(x.room)>>, <<x.tick>>)))
ObserveBody(x) ==
  Judged(<<RoomTest(x.room), NameTest(x.color)>>,
         Filed(Fact("body-seen", <<x.color, SafeRoom(x.room)>>, <<x.tick>>)))
ObserveTaskCompletion(x) ==
  Judged(<<RoomTest(x.room), NameTest(x.color)>>,
         Filed(Fact("task-tick", <<x.color, SafeRoom(x.room)>>, <<x.tick>>)))
ObserveDeath(x) ==
  Judged(<<NameTest(x.color)>>, Filed(Fact("player-dead", <<x.color>>, <<x.tick>>)))
ObserveEjection(x) ==
  Judged(<<NameTest(x.color)>>, Filed(Fact("ejection", <<x.color>>, <<x.tick>>)))
ObserveClaim(x) ==
  Judged(<<RoomTest(x.room), SelfTest(x.color), NameTest(x.color), KindTest(x.kind)>>,
         Filed(Fact("claim", <<x.color, SafeRoom(x.room)>>, <<x.tick>>)))
ObserveVote(x) ==
  Judged(<<SelfTest(x.color), NameTest(x.color), NameTest(x.target)>>,
         Filed(Fact("accuses", <<x.color, x.target>>, <<x.tick>>)))
ObserveDefense(x) ==
  Judged(<<SelfTest(x.color), NameTest(x.color), NameTest(x.target)>>,
         Filed(Fact("defends", <<x.color, x.target>>, <<x.tick>>)))

(* The report becomes the color's last one whether or not it lands; a lost *)
(* vent is counted, and so is the sighting it came with.  Whether the walk *)
(* is longer than the time between is left open.                           *)
Suspicious(prev, x) ==
  /\ prev # NoReport /\ x.tick >= prev.tick /\ prev.room # SafeRoom(x.room)
  /\ {prev.room, SafeRoom(x.room)} \subseteq known
Recorded(x) ==
  LET prev     == IF x.color \in DOMAIN last THEN last[x.color] ELSE NoReport
      room     == SafeRoom(x.room)
      sighting == Fact("sighting", <<x.color, room>>, <<x.tick>>)
      vent     == Fact("vent-suspected", <<x.color, prev.room, room>>,
                       <<prev.tick, x.tick>>)
  IN  /\ \E far \in {FALSE, Suspicious(prev, x)} :
           /\ memory' = memory \cup {f \in {sighting} \cup IF far THEN {vent} ELSE {} :
                                       Lands(f)}
           /\ Note(Number(Lands(sighting)), 0, 0,
                   Number(far /\ ~ Lands(vent)) + Number(~ Lands(sighting)))
      /\ last' = [c \in DOMAIN last \cup {x.color} |->
                    IF c = x.color THEN [room |-> room, tick |-> x.tick] ELSE last[c]]
      /\ subject' = sighting
      /\ UNCHANGED <<self, known, links, closed>>
ObservePlayer(x) ==
  Judged(<<RoomTest(x.room), SelfTest(x.color), NameTest(x.color)>>, Recorded(x))

(* The new roster takes the place of the old one, and is accepted before   *)
(* it is asserted.                                                         *)
Singleton(f) == {g \in memory : g.template # f.template}
                \cup {g \in {f} : Lands(f)}
ObserveRoundConfig(x) ==
  LET roster == Fact("roster", <<>>, <<x.impostors>>)
  IN  /\ memory' = Singleton(roster) /\ subject' = roster
      /\ Note(1, 0, 0, Number(~ Lands(roster)))
      /\ UNCHANGED <<self, last, known, links, closed>>

(***************************************************************************)
(* Identity.                                                               *)
(***************************************************************************)
SetPlayerName(x) ==
  IF x.acceptable
  THEN Note(1, 0, 0, 0) /\ subject' = NoSubject
       /\ UNCHANGED <<self, memory, last, known, links, closed>>
  ELSE Invalid
SetSelf(x) ==
  LET fact == Fact("self-color", <<x.color>>, <<>>)
  IN  Judged(<<NameTest(x.color)>>,
        /\ self' = x.color
        /\ memory' = Singleton(fact) /\ subject' = fact
        /\ Note(Number(Lands(fact)), 0, 0, Number(~ Lands(fact)))
        /\ UNCHANGED <<last, known, links, closed>>)

(***************************************************************************)
(* The graph.  A room is interned even if the link is then refused; a room *)
(* has a link to itself, of cost 0, and a route that is closed already, or *)
(* open already, gives no verdict.                                         *)
(***************************************************************************)
Interned(rooms, r) ==
  IF Cardinality(rooms) < RoomLimit THEN rooms \cup {r} ELSE rooms
AddRoomLink(x) ==
  IF x.cost \notin 1 .. MaxLinkCost \/ {x.a, x.b} \cap (Unsafe \cup {Absent}) # {}
  THEN Invalid
  ELSE LET linked == x.a # x.b /\ {x.a, x.b} \subseteq known'
       IN  /\ known' = Interned(Interned(known, x.a), x.b)
           /\ links' = links \cup (IF linked THEN {{x.a, x.b}} ELSE {})
           /\ Note(Number(linked), Number(~ linked), 0, 0) /\ subject' = NoSubject
           /\ UNCHANGED <<self, memory, last, closed>>
RouteCall(x, changes, after) ==
  \/ ~ ({x.a, x.b} \subseteq known) /\ Invalid
  \/ /\ {x.a, x.b} \subseteq known
     /\ closed' = IF changes THEN after ELSE closed
     /\ Note(Number(changes), 0, 0, 0) /\ subject' = NoSubject
     /\ UNCHANGED <<self, memory, last, known, links>>
CloseRoute(x) ==
  LET pair == {x.a, x.b}
  IN  RouteCall(x, (x.a = x.b \/ pair \in links) /\ pair \notin closed,
                closed \cup {pair})
OpenRoute(x) == RouteCall(x, {x.a, x.b} \in closed, closed \ {{x.a, x.b}})

(***************************************************************************)
(* A round ends: what was learnt in it is forgotten, the map and the       *)
(* counters are not, and fd_reset itself is not counted.                   *)
(***************************************************************************)
ResetKeepsSightings ==
  /\ stage = "alive"
  /\ memory' = {} /\ self' = Nobody /\ closed' = {}
  /\ subject' = NoSubject /\ UNCHANGED <<schemaVars, last, known, links, tally>>
Reset ==
  /\ stage = "alive"
  /\ memory' = {} /\ self' = Nobody /\ last' = <<>> /\ closed' = {}
  /\ subject' = NoSubject /\ UNCHANGED <<schemaVars, known, links, tally>>

Call ==
  /\ stage = "alive" /\ tally.total < MaxCalls
  /\ \E x \in Calls :
       \/ x.call = "self" /\ ObserveSelf(x)
       \/ x.call = "player" /\ ObservePlayer(x)
       \/ x.call = "vent" /\ ObserveVent(x)
       \/ x.call = "body" /\ ObserveBody(x)
       \/ x.call = "task" /\ ObserveTaskCompletion(x)
       \/ x.call = "death" /\ ObserveDeath(x)
       \/ x.call = "ejection" /\ ObserveEjection(x)
       \/ x.call = "config" /\ ObserveRoundConfig(x)
       \/ x.call = "claim" /\ ObserveClaim(x)
       \/ x.call = "vote" /\ ObserveVote(x)
       \/ x.call = "defense" /\ ObserveDefense(x)
       \/ x.call = "name" /\ SetPlayerName(x)
       \/ x.call = "identity" /\ SetSelf(x)
       \/ x.call = "link" /\ AddRoomLink(x)
       \/ x.call = "close" /\ CloseRoute(x)
       \/ x.call = "open" /\ OpenRoute(x)
  /\ UNCHANGED schemaVars

Lifecycle  == SchemaNext /\ UNCHANGED callVars
IngestNext == Lifecycle \/ Call \/ Reset
IngestSpec == IngestInit /\ [][IngestNext]_ingestVars

(***************************************************************************)
(* Properties.                                                             *)
(***************************************************************************)
Raised(k) == tally'[k] - tally[k]

(* The counters tell the truth about every call: it is counted once and    *)
(* gets one verdict at most; one refused, or made in the own color, leaves *)
(* no trace in what the rules or the later calls see; it is accepted just  *)
(* when the fact it was about is in memory afterwards - the roster alone   *)
(* counts as accepted whatever comes of it -, a fact lost is counted as    *)
(* dropped, and nothing else drops than the vent that a sighting implied;  *)
(* a call without any verdict changed nothing; only a counted call adds a  *)
(* fact (fd_ingest_stats, and the early returns of fd_observe.c).          *)
Honest ==
  IF tally'.total = tally.total THEN tally' = tally /\ memory' \subseteq memory
  ELSE
    /\ Raised("total") = 1
    /\ Raised("accepted") + Raised("validation") + Raised("self") <= 1
    /\ Raised("validation") + Raised("self") = 1 =>
         Raised("assert") = 0 /\ UNCHANGED <<self, memory, last, links, closed>>
    /\ subject' # NoSubject =>
         /\ Raised("accepted") = 1 <=> subject' \in memory' \/ subject'.template = "roster"
         /\ Raised("assert") = 0 => subject' \in memory'
         /\ Raised("assert") = 1 =>
              subject' \notin memory' \/ subject'.template = "sighting"
    /\ (\A k \in Counter \ {"total"} : tally'[k] = tally[k]) =>
         UNCHANGED <<self, memory, last, known, links, closed>>
TallyIsExact == [][Honest]_ingestVars

(* An impossible walk was a walk: both sightings that an inferred vent     *)
(* rests on are facts of this round, reported by the color it charges, in  *)
(* the order of their ticks, whatever became of the reports between        *)
(* (fd_observe.c: vent_check; fd_last_sighting_clear in fd_reset).         *)
VentsAreReal ==
  Accepts("sighting") =>
    \A v \in memory :
      v.template = "vent-suspected" /\ Len(v.symbols) = 3 /\ v.symbols[2] # v.symbols[3] =>
        /\ Fact("sighting", <<v.symbols[1], v.symbols[2]>>, <<v.ticks[1]>>) \in memory
        /\ Fact("sighting", <<v.symbols[1], v.symbols[3]>>, <<v.ticks[2]>>) \in memory
        /\ v.ticks[1] <= v.ticks[2]
=============================================================================
