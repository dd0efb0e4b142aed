--------------------------- MODULE IngestProofs ---------------------------
(***************************************************************************)
(* The counters never lie, whatever calls are made, on whatever rule set,  *)
(* and however long the arguments.  The one thing to know beforehand is    *)
(* that memory holds nothing that could not have been asserted: then a     *)
(* fact that is lost was not there before either.                          *)
(***************************************************************************)
EXTENDS Ingest, SumTheorems

MemoryLands == \A f \in memory : Lands(f)
TallyOK     == tally \in [Counter -> Int]
IngestInv   == MemoryLands /\ TallyOK

(* What one step does, as far as the counters can tell.                    *)
Kept == UNCHANGED <<self, memory, last, known, links, closed>>

LEMMA LandsFrame ==
  ASSUME UNCHANGED rules, NEW f
  PROVE  Lands(f)' = Lands(f)
<1>1. Fits(f)' = Fits(f)
  OBVIOUS
<1> QED
  BY <1>1 DEF Lands, Accepts

LEMMA NoteCounts ==
  ASSUME TallyOK,
         NEW a \in 0 .. 1, NEW v \in 0 .. 1, NEW s \in 0 .. 1, NEW d \in 0 .. 2,
         Note(a, v, s, d)
  PROVE  /\ TallyOK'
         /\ tally'.total # tally.total /\ Raised("total") = 1
         /\ Raised("accepted") = a /\ Raised("validation") = v
         /\ Raised("self") = s /\ Raised("assert") = d
<1>1. /\ tally.total \in Int /\ tally.accepted \in Int /\ tally.validation \in Int
      /\ tally.self \in Int /\ tally.assert \in Int
  BY DEF TallyOK, Counter
<1>2. TallyOK'
  BY <1>1 DEF TallyOK, Note, Counter
<1>3. /\ tally'.total = tally.total + 1 /\ tally'.accepted = tally.accepted + a
      /\ tally'.validation = tally.validation + v /\ tally'.self = tally.self + s
      /\ tally'.assert = tally.assert + d
  BY DEF Note
<1> QED
  BY <1>1, <1>2, <1>3 DEF Raised

(* A call that is refused.                                                 *)
LEMMA RefusedIsHonest ==
  ASSUME TallyOK, Invalid \/ OwnColor
  PROVE  Honest /\ TallyOK'
<1>1. PICK v \in 0 .. 1, s \in 0 .. 1 :
        /\ v + s = 1 /\ Note(0, v, s, 0) /\ subject' = NoSubject
        /\ Kept
  <2>1. CASE Invalid
    BY <2>1 DEF Invalid, Kept
  <2>2. CASE OwnColor
    BY <2>2 DEF OwnColor, Kept
  <2> QED
    BY <2>1, <2>2
<1>2. /\ TallyOK' /\ tally'.total # tally.total /\ Raised("total") = 1
      /\ Raised("accepted") = 0 /\ Raised("validation") = v
      /\ Raised("self") = s /\ Raised("assert") = 0
  BY <1>1, NoteCounts
<1> QED
  BY <1>1, <1>2 DEF Honest, Kept

(* A call about a fact: it lands and is accepted, or it does not and is    *)
(* dropped, what else may be in memory.                                    *)
LEMMA FactIsHonest ==
  ASSUME TallyOK, NEW f, NEW d \in 0 .. 2, f.template # "roster",
         subject' = f, f \in memory' <=> Lands(f),
         Note(Number(Lands(f)), 0, 0, d),
         d = Number(~ Lands(f)) \/ (d >= Number(~ Lands(f)) /\ f.template = "sighting")
  PROVE  Honest /\ TallyOK'
<1>1. Number(Lands(f)) \in 0 .. 1 /\ (Number(Lands(f)) = 1 <=> Lands(f))
      /\ Number(~ Lands(f)) = 1 - Number(Lands(f))
  BY DEF Number
<1>2. /\ TallyOK' /\ tally'.total # tally.total /\ Raised("total") = 1
      /\ Raised("accepted") = Number(Lands(f)) /\ Raised("validation") = 0
      /\ Raised("self") = 0 /\ Raised("assert") = d
  BY <1>1, NoteCounts
<1>3. Raised("assert") = 0 => subject' \in memory'
  BY <1>1, <1>2
<1>4. Raised("assert") = 1 => subject' \notin memory' \/ subject'.template = "sighting"
  BY <1>1, <1>2
<1>5. ~ \A k \in Counter \ {"total"} : tally'[k] = tally[k]
  <2>1. tally.accepted \in Int /\ tally.assert \in Int
    BY DEF TallyOK, Counter
  <2>2. tally'.accepted \in Int /\ tally'.assert \in Int
    BY <1>2 DEF TallyOK, Counter
  <2>3. Raised("accepted") # 0 \/ Raised("assert") # 0
    BY <1>1, <1>2
  <2> QED
    BY <2>1, <2>2, <2>3 DEF Raised, Counter
<1> QED
  BY <1>1, <1>2, <1>3, <1>4, <1>5 DEF Honest

(* A call about no fact: accepted, refused or without consequence.         *)
LEMMA FactlessIsHonest ==
  ASSUME TallyOK, NEW a \in 0 .. 1, NEW v \in 0 .. 1, a + v <= 1,
         Note(a, v, 0, 0), subject' = NoSubject,
         v = 1 => UNCHANGED <<self, memory, last, links, closed>>,
         a + v = 0 => Kept
  PROVE  Honest /\ TallyOK'
<1>1. /\ TallyOK' /\ tally'.total # tally.total /\ Raised("total") = 1
      /\ Raised("accepted") = a /\ Raised("validation") = v
      /\ Raised("self") = 0 /\ Raised("assert") = 0
  BY NoteCounts
<1>2. (\A k \in Counter \ {"total"} : tally'[k] = tally[k]) => a + v = 0
  <2>1. tally.accepted \in Int /\ tally.validation \in Int
    BY DEF TallyOK, Counter
  <2> SUFFICES ASSUME tally'.accepted = tally.accepted,
                      tally'.validation = tally.validation
               PROVE  a + v = 0
    BY DEF Counter
  <2> QED
    BY <1>1, <2>1 DEF Raised
<1> QED
  BY <1>1, <1>2 DEF Honest, Kept

(***************************************************************************)
(* The calls.                                                              *)
(***************************************************************************)
LEMMA FiledStep ==
  ASSUME IngestInv, UNCHANGED rules, NEW f, f.template # "roster", Filed(f)
  PROVE  Honest /\ IngestInv'
<1>1. MemoryLands'
  <2> SUFFICES ASSUME NEW g \in memory' PROVE Lands(g)'
    BY DEF MemoryLands
  <2>1. Lands(g)
    BY DEF IngestInv, MemoryLands, Filed
  <2> QED
    BY <2>1, LandsFrame
<1>2. f \in memory' <=> Lands(f)
  BY DEF IngestInv, MemoryLands, Filed
<1>3. Number(~ Lands(f)) \in 0 .. 2
  BY DEF Number
<1>4. Note(Number(Lands(f)), 0, 0, Number(~ Lands(f))) /\ subject' = f
  BY DEF Filed
<1>5. Honest /\ TallyOK'
  BY <1>2, <1>3, <1>4, FactIsHonest DEF IngestInv
<1> QED
  BY <1>1, <1>5 DEF IngestInv

LEMMA RefusedStep ==
  ASSUME IngestInv, UNCHANGED rules, Invalid \/ OwnColor
  PROVE  Honest /\ IngestInv'
<1>1. MemoryLands'
  <2> SUFFICES ASSUME NEW g \in memory' PROVE Lands(g)'
    BY DEF MemoryLands
  <2>1. memory' = memory
    BY DEF Invalid, OwnColor
  <2>2. Lands(g)
    BY <2>1 DEF IngestInv, MemoryLands
  <2> QED
    BY <2>2, LandsFrame
<1>2. Honest /\ TallyOK'
  BY RefusedIsHonest DEF IngestInv
<1> QED
  BY <1>1, <1>2 DEF IngestInv

LEMMA FactlessStep ==
  ASSUME IngestInv, UNCHANGED <<rules, memory>>,
         NEW a \in 0 .. 1, NEW v \in 0 .. 1, a + v <= 1,
         Note(a, v, 0, 0), subject' = NoSubject,
         v = 1 => UNCHANGED <<self, memory, last, links, closed>>,
         a + v = 0 => Kept
  PROVE  Honest /\ IngestInv'
<1>1. MemoryLands'
  <2> SUFFICES ASSUME NEW g \in memory' PROVE Lands(g)'
    BY DEF MemoryLands
  <2>1. Lands(g)
    BY DEF IngestInv, MemoryLands
  <2> QED
    BY <2>1, LandsFrame
<1>2. Honest /\ TallyOK'
  BY FactlessIsHonest DEF IngestInv
<1> QED
  BY <1>1, <1>2 DEF IngestInv

LEMMA RecordedStep ==
  ASSUME IngestInv, UNCHANGED rules, NEW x, Recorded(x)
  PROVE  Honest /\ IngestInv'
<1> DEFINE room     == SafeRoom(x.room)
           prev     == IF x.color \in DOMAIN last THEN last[x.color] ELSE NoReport
           sighting == Fact("sighting", <<x.color, room>>, <<x.tick>>)
           vent     == Fact("vent-suspected", <<x.color, prev.room, room>>,
                            <<prev.tick, x.tick>>)
<1>1. PICK far \in {FALSE, Suspicious(prev, x)} :
        /\ memory' = memory \cup {f \in {sighting} \cup IF far THEN {vent} ELSE {} :
                                    Lands(f)}
        /\ Note(Number(Lands(sighting)), 0, 0,
                Number(far /\ ~ Lands(vent)) + Number(~ Lands(sighting)))
  BY DEF Recorded
<1>2. subject' = sighting
  BY DEF Recorded
<1>3. sighting.template = "sighting"
  BY DEF Fact
<1> HIDE DEF sighting, vent
<1>4. MemoryLands'
  <2> SUFFICES ASSUME NEW g \in memory' PROVE Lands(g)'
    BY DEF MemoryLands
  <2>1. Lands(g)
    BY <1>1 DEF IngestInv, MemoryLands
  <2> QED
    BY <2>1, LandsFrame
<1>5. sighting \in memory' <=> Lands(sighting)
  BY <1>1 DEF IngestInv, MemoryLands
<1>6. /\ Number(far /\ ~ Lands(vent)) \in 0 .. 1
      /\ Number(~ Lands(sighting)) \in 0 .. 1
  BY DEF Number
<1>7. PICK f, d : f = sighting /\ d = Number(far /\ ~ Lands(vent)) + Number(~ Lands(sighting))
  OBVIOUS
<1>8. d \in 0 .. 2 /\ d >= Number(~ Lands(f))
  BY <1>6, <1>7
<1>9. /\ f.template = "sighting" /\ f.template # "roster" /\ subject' = f
      /\ (f \in memory' <=> Lands(f))
  BY <1>2, <1>3, <1>5, <1>7
<1>10. Note(Number(Lands(f)), 0, 0, d)
  BY <1>1, <1>7
<1>11. Honest /\ TallyOK'
  BY <1>8, <1>9, <1>10, FactIsHonest DEF IngestInv
<1> QED
  BY <1>4, <1>11 DEF IngestInv

(* The roster and the self-color take the place of what was there.         *)
LEMMA SingletonLands ==
  ASSUME IngestInv, UNCHANGED rules, NEW f, memory' = Singleton(f)
  PROVE  MemoryLands' /\ (f \in memory' <=> Lands(f))
<1>1. \A g \in memory' : Lands(g)
  BY DEF IngestInv, MemoryLands, Singleton
<1>2. MemoryLands'
  BY <1>1, LandsFrame DEF MemoryLands
<1> QED
  BY <1>1, <1>2 DEF Singleton

LEMMA ConfigStep ==
  ASSUME IngestInv, UNCHANGED rules, NEW x, ObserveRoundConfig(x)
  PROVE  Honest /\ IngestInv'
<1> DEFINE roster == Fact("roster", <<>>, <<x.impostors>>)
<1>1. /\ memory' = Singleton(roster) /\ subject' = roster
      /\ Note(1, 0, 0, Number(~ Lands(roster)))
  BY DEF ObserveRoundConfig
<1>2. roster.template = "roster"
  BY DEF Fact
<1>3. MemoryLands' /\ (roster \in memory' <=> Lands(roster))
  BY <1>1, SingletonLands
<1> HIDE DEF roster
<1>4. /\ Number(~ Lands(roster)) \in 0 .. 2
      /\ (Number(~ Lands(roster)) = 0 <=> Lands(roster))
  BY DEF Number
<1>5. /\ TallyOK' /\ tally'.total # tally.total /\ Raised("total") = 1
      /\ Raised("accepted") = 1 /\ Raised("validation") = 0 /\ Raised("self") = 0
      /\ Raised("assert") = Number(~ Lands(roster))
  BY <1>1, <1>4, NoteCounts DEF IngestInv
<1>6. tally'.accepted # tally.accepted
  BY <1>5 DEF Raised, IngestInv, TallyOK, Counter
<1>7. Raised("assert") = 0 => subject' \in memory'
  BY <1>1, <1>3, <1>4, <1>5
<1>8. Raised("assert") = 1 => subject' \notin memory'
  BY <1>1, <1>3, <1>4, <1>5
<1>9. Raised("accepted") + Raised("validation") + Raised("self") <= 1
      /\ Raised("validation") + Raised("self") # 1
  BY <1>5
<1>10. Honest
  BY <1>1, <1>2, <1>5, <1>6, <1>7, <1>8, <1>9 DEF Honest, Counter
<1> QED
  BY <1>3, <1>5, <1>10 DEF IngestInv

LEMMA SelfStep ==
  ASSUME IngestInv, UNCHANGED rules, NEW x, SetSelf(x)
  PROVE  Honest /\ IngestInv'
<1> DEFINE fact == Fact("self-color", <<x.color>>, <<>>)
<1>1. CASE Invalid \/ OwnColor
  BY <1>1, RefusedStep
<1>2. CASE /\ memory' = Singleton(fact) /\ subject' = fact
           /\ Note(Number(Lands(fact)), 0, 0, Number(~ Lands(fact)))
  <2>1. fact.template # "roster"
    BY DEF Fact
  <2>2. MemoryLands' /\ (fact \in memory' <=> Lands(fact))
    BY <1>2, SingletonLands
  <2> HIDE DEF fact
  <2>3. PICK f : f = fact
    OBVIOUS
  <2>4. Number(~ Lands(f)) \in 0 .. 2
    BY DEF Number
  <2>5. /\ subject' = f /\ (f \in memory' <=> Lands(f)) /\ f.template # "roster"
        /\ Note(Number(Lands(f)), 0, 0, Number(~ Lands(f)))
    BY <1>2, <2>1, <2>2, <2>3
  <2>6. Honest /\ TallyOK'
    BY <2>4, <2>5, FactIsHonest DEF IngestInv
  <2> QED
    BY <2>2, <2>6 DEF IngestInv
<1> QED
  BY <1>1, <1>2 DEF SetSelf, Judged

LEMMA LinkStep ==
  ASSUME IngestInv, UNCHANGED rules, NEW x, AddRoomLink(x)
  PROVE  Honest /\ IngestInv'
<1>1. CASE Invalid
  BY <1>1, RefusedStep
<1>2. CASE /\ \E linked \in BOOLEAN :
                Note(Number(linked), Number(~ linked), 0, 0) /\ (~ linked => links' = links)
           /\ subject' = NoSubject /\ UNCHANGED <<self, memory, last, closed>>
  <2>1. PICK linked \in BOOLEAN :
          Note(Number(linked), Number(~ linked), 0, 0) /\ (~ linked => links' = links)
    BY <1>2
  <2>2. /\ Number(linked) \in 0 .. 1 /\ Number(~ linked) \in 0 .. 1
        /\ Number(linked) + Number(~ linked) = 1
        /\ (Number(~ linked) = 1 => ~ linked)
    BY DEF Number
  <2> QED
    BY <1>2, <2>1, <2>2, FactlessStep
<1>3. Invalid \/
      /\ \E linked \in BOOLEAN :
           Note(Number(linked), Number(~ linked), 0, 0) /\ (~ linked => links' = links)
      /\ subject' = NoSubject /\ UNCHANGED <<self, memory, last, closed>>
  BY DEF AddRoomLink
<1> QED
  BY <1>1, <1>2, <1>3

LEMMA RouteCallStep ==
  ASSUME IngestInv, UNCHANGED rules, NEW x, NEW changes \in BOOLEAN, NEW after,
         RouteCall(x, changes, after)
  PROVE  Honest /\ IngestInv'
<1>1. CASE Invalid
  BY <1>1, RefusedStep
<1>2. CASE /\ Note(Number(changes), 0, 0, 0) /\ subject' = NoSubject
           /\ (~ changes => closed' = closed)
           /\ UNCHANGED <<self, memory, last, known, links>>
  <2>1. Number(changes) \in 0 .. 1 /\ (Number(changes) + 0 = 0 => ~ changes)
    BY DEF Number
  <2>2. Number(changes) + 0 = 0 => Kept
    BY <1>2, <2>1 DEF Kept
  <2> QED
    BY <1>2, <2>1, <2>2, FactlessStep
<1> QED
  BY <1>1, <1>2 DEF RouteCall

LEMMA RouteStep ==
  ASSUME IngestInv, UNCHANGED rules, NEW x, CloseRoute(x) \/ OpenRoute(x)
  PROVE  Honest /\ IngestInv'
<1>1. CASE CloseRoute(x)
  <2> DEFINE pair == {x.a, x.b}
  <2>1. PICK c \in BOOLEAN : c <=> (x.a = x.b \/ pair \in links) /\ pair \notin closed
    OBVIOUS
  <2>2. RouteCall(x, c, closed \cup {pair})
    BY <1>1, <2>1 DEF CloseRoute, RouteCall, Number
  <2> QED
    BY <2>2, RouteCallStep
<1>2. CASE OpenRoute(x)
  <2>1. PICK c \in BOOLEAN : c <=> {x.a, x.b} \in closed
    OBVIOUS
  <2>2. RouteCall(x, c, closed \ {{x.a, x.b}})
    BY <1>2, <2>1 DEF OpenRoute, RouteCall, Number
  <2> QED
    BY <2>2, RouteCallStep
<1> QED
  BY <1>1, <1>2

LEMMA NameStep ==
  ASSUME IngestInv, UNCHANGED rules, NEW x, SetPlayerName(x)
  PROVE  Honest /\ IngestInv'
<1>1. CASE Invalid
  BY <1>1, RefusedStep
<1>2. CASE Note(1, 0, 0, 0) /\ subject' = NoSubject /\ UNCHANGED memory
  BY <1>2, FactlessStep
<1> QED
  BY <1>1, <1>2 DEF SetPlayerName

LEMMA ObservedStep ==
  ASSUME IngestInv, UNCHANGED rules, NEW x,
         \/ ObserveSelf(x) \/ ObserveVent(x) \/ ObserveBody(x)
         \/ ObserveTaskCompletion(x) \/ ObserveDeath(x) \/ ObserveEjection(x)
         \/ ObserveClaim(x) \/ ObserveVote(x) \/ ObserveDefense(x)
  PROVE  Honest /\ IngestInv'
<1>1. \A n, s, t : n # "roster" => Fact(n, s, t).template # "roster"
  BY DEF Fact
<1>2. (\E n, s, t : n # "roster" /\ Filed(Fact(n, s, t))) \/ Invalid \/ OwnColor
  BY DEF Judged, ObserveSelf, ObserveVent, ObserveBody, ObserveTaskCompletion,
         ObserveDeath, ObserveEjection, ObserveClaim, ObserveVote, ObserveDefense
<1>3. ASSUME NEW n, NEW s, NEW t, n # "roster", Filed(Fact(n, s, t))
      PROVE  Honest /\ IngestInv'
  BY <1>1, <1>3, FiledStep
<1> QED
  BY <1>2, <1>3, RefusedStep

LEMMA CallStep ==
  ASSUME IngestInv, Call
  PROVE  Honest /\ IngestInv'
<1>1. UNCHANGED rules
  BY DEF Call, schemaVars
<1>2. PICK x \in Calls :
        \/ (\/ ObserveSelf(x) \/ ObserveVent(x) \/ ObserveBody(x)
            \/ ObserveTaskCompletion(x) \/ ObserveDeath(x) \/ ObserveEjection(x)
            \/ ObserveClaim(x) \/ ObserveVote(x) \/ ObserveDefense(x))
        \/ ObservePlayer(x) \/ ObserveRoundConfig(x) \/ SetPlayerName(x)
        \/ SetSelf(x) \/ AddRoomLink(x) \/ (CloseRoute(x) \/ OpenRoute(x))
  BY DEF Call
<1>3. CASE ObservePlayer(x)
  <2>1. Recorded(x) \/ Invalid \/ OwnColor
    BY <1>3 DEF ObservePlayer, Judged
  <2> QED
    BY <1>1, <2>1, RecordedStep, RefusedStep
<1> QED
  BY <1>1, <1>2, <1>3, ObservedStep, ConfigStep, NameStep, SelfStep, LinkStep, RouteStep

(* Neither the steps of fd_create nor a reset are counted.                 *)
LEMMA QuietStep ==
  ASSUME IngestInv, Lifecycle \/ Reset \/ UNCHANGED ingestVars
  PROVE  Honest /\ IngestInv'
<1>1. UNCHANGED <<rules, tally>> /\ (memory' = memory \/ memory' = {})
  <2>1. CASE Lifecycle
    BY <2>1 DEF Lifecycle, SchemaNext, Create, LoadOne, ValidateTemplate, GiveUp,
                Destroy, Destroyed, callVars
  <2>2. CASE Reset
    BY <2>2 DEF Reset, schemaVars
  <2>3. CASE UNCHANGED ingestVars
    BY <2>3 DEF ingestVars, schemaVars, callVars
  <2> QED
    BY <2>1, <2>2, <2>3
<1>2. Honest
  BY <1>1 DEF Honest
<1>3. MemoryLands'
  <2> SUFFICES ASSUME NEW g \in memory' PROVE Lands(g)'
    BY DEF MemoryLands
  <2>1. Lands(g)
    BY <1>1 DEF IngestInv, MemoryLands
  <2> QED
    BY <1>1, <2>1, LandsFrame
<1> QED
  BY <1>1, <1>2, <1>3 DEF IngestInv, TallyOK

(* Whatever is in memory could be asserted, on the rule set at hand        *)
(* (fd_clips.c: fd_assert_fact; fd_observe.c).                             *)
THEOREM IngestInvAlways == IngestSpec => []IngestInv
<1>1. IngestInit => IngestInv
  BY DEF IngestInit, IngestInv, MemoryLands, TallyOK
<1>2. IngestInv /\ [IngestNext]_ingestVars => IngestInv'
  BY CallStep, QuietStep DEF IngestNext
<1> QED
  BY <1>1, <1>2, PTL DEF IngestSpec

(* The counters tell the truth about every call (fd_ingest_stats): for any *)
(* calls, symbols, buffer and rule set.                                    *)
THEOREM TallyAlwaysExact == IngestSpec => TallyIsExact
<1>1. IngestInv /\ [IngestNext]_ingestVars => [Honest]_ingestVars
  BY CallStep, QuietStep DEF IngestNext
<1> QED
  BY <1>1, IngestInvAlways, PTL DEF IngestSpec, TallyIsExact

(***************************************************************************)
(* An inferred vent rests on two sightings of this round.  The invariant   *)
(* needed is about what the library remembers: the last report of a color  *)
(* is a fact of the round unless no fact could be made of it.              *)
(***************************************************************************)
Sighting(c, room, tick) == Fact("sighting", <<c, room>>, <<tick>>)
Inferred(v) ==
  v.template = "vent-suspected" /\ Len(v.symbols) = 3 /\ v.symbols[2] # v.symbols[3]
Rests(v) ==
  /\ Sighting(v.symbols[1], v.symbols[2], v.ticks[1]) \in memory
  /\ Sighting(v.symbols[1], v.symbols[3], v.ticks[2]) \in memory
  /\ v.ticks[1] <= v.ticks[2]
Remembered(c) ==
  /\ c \in DOMAIN Size /\ last[c].room \in DOMAIN Size /\ last[c].tick \in Int
  /\ LET s == Sighting(c, last[c].room, last[c].tick)
     IN  Lands(s) => s \in memory
LastIsRemembered == \A c \in DOMAIN last : Remembered(c)
VentsRest        == \A v \in memory : Inferred(v) => Rests(v)
VentInv          == Accepts("sighting") => LastIsRemembered /\ VentsRest

(* The length of two and of three symbols.                                 *)
LEMMA TwoFit ==
  ASSUME NEW a \in DOMAIN Size, NEW b \in DOMAIN Size, NEW n, NEW t
  PROVE  Fits(Fact(n, <<a, b>>, t)) <=> Size[a] + Size[b] <= Buffer
<1> DEFINE F == [i \in 1..2 |-> Size[<<a, b>>[i]]]
<1>1. Size[a] \in Nat /\ Size[b] \in Nat
  BY CallsAreSized
<1>2. F[1] = Size[a] /\ F[2] = Size[b] /\ DOMAIN F = 1..2
  OBVIOUS
<1>3. Fact(n, <<a, b>>, t).symbols = <<a, b>> /\ DOMAIN <<a, b>> = 1..2
  BY DEF Fact
<1>4. Fits(Fact(n, <<a, b>>, t)) <=> SumFunctionOnSet(F, 1..2) <= Buffer
  BY <1>2, <1>3, Zenon DEF Fits, SumFunction
<1> HIDE DEF F
<1>5. /\ Integral(F, 1..2) /\ Integral(F, {2})
      /\ 1..2 = {1, 2} /\ (1..2) \ {1} = {2} /\ {2} \ {2} = {}
  BY <1>1, <1>2 DEF Integral
<1>6. IsFiniteSet(1..2) /\ IsFiniteSet({2})
  <2>1. IsFiniteSet(1..2)
    <3>1. 1 \in Int /\ 2 \in Int
      OBVIOUS
    <3> QED BY <3>1, FS_Interval, Zenon
  <2>2. {2} \subseteq 1..2
    OBVIOUS
  <2> QED BY <2>1, <2>2, FS_Subset
<1>7. SumFunctionOnSet(F, 1..2) = F[1] + SumFunctionOnSet(F, {2})
  BY <1>5, <1>6, SumRemove
<1>8. SumFunctionOnSet(F, {2}) = F[2] + SumFunctionOnSet(F, {})
  BY <1>5, <1>6, SumRemove
<1>9. SumFunctionOnSet(F, {}) = 0
  BY SumEmpty
<1> QED
  BY <1>1, <1>2, <1>4, <1>7, <1>8, <1>9

LEMMA ThreeFit ==
  ASSUME NEW a \in DOMAIN Size, NEW b \in DOMAIN Size, NEW c \in DOMAIN Size, NEW n, NEW t
  PROVE  Fits(Fact(n, <<a, b, c>>, t)) <=> Size[a] + Size[b] + Size[c] <= Buffer
<1> DEFINE F == [i \in 1..3 |-> Size[<<a, b, c>>[i]]]
<1>1. Size[a] \in Nat /\ Size[b] \in Nat /\ Size[c] \in Nat
  BY CallsAreSized
<1>2. F[1] = Size[a] /\ F[2] = Size[b] /\ F[3] = Size[c] /\ DOMAIN F = 1..3
  OBVIOUS
<1>3. Fact(n, <<a, b, c>>, t).symbols = <<a, b, c>> /\ DOMAIN <<a, b, c>> = 1..3
  BY DEF Fact
<1>4. Fits(Fact(n, <<a, b, c>>, t)) <=> SumFunctionOnSet(F, 1..3) <= Buffer
  BY <1>2, <1>3, Zenon DEF Fits, SumFunction
<1> HIDE DEF F
<1>5. /\ Integral(F, 1..3) /\ Integral(F, {2, 3}) /\ Integral(F, {3})
      /\ (1..3) \ {1} = {2, 3} /\ {2, 3} \ {2} = {3} /\ {3} \ {3} = {}
      /\ 1 \in 1..3
  BY <1>1, <1>2 DEF Integral
<1>6. IsFiniteSet(1..3) /\ IsFiniteSet({2, 3}) /\ IsFiniteSet({3})
  <2>1. IsFiniteSet(1..3)
    <3>1. 1 \in Int /\ 3 \in Int
      OBVIOUS
    <3> QED BY <3>1, FS_Interval, Zenon
  <2>2. {2, 3} \subseteq 1..3 /\ {3} \subseteq 1..3
    OBVIOUS
  <2> QED BY <2>1, <2>2, FS_Subset
<1>7. SumFunctionOnSet(F, 1..3) = F[1] + SumFunctionOnSet(F, {2, 3})
  BY <1>5, <1>6, SumRemove
<1>8. SumFunctionOnSet(F, {2, 3}) = F[2] + SumFunctionOnSet(F, {3})
  BY <1>5, <1>6, SumRemove
<1>9. SumFunctionOnSet(F, {3}) = F[3] + SumFunctionOnSet(F, {})
  BY <1>5, <1>6, SumRemove
<1>10. SumFunctionOnSet(F, {}) = 0
  BY SumEmpty
<1> QED
  BY <1>1, <1>2, <1>4, <1>7, <1>8, <1>9, <1>10

(* A vent that could be asserted is shorter in neither sighting.           *)
LEMMA VentLands ==
  ASSUME NEW c \in DOMAIN Size, NEW a \in DOMAIN Size, NEW b \in DOMAIN Size,
         NEW t, NEW u, NEW w, Accepts("sighting"),
         Lands(Fact("vent-suspected", <<c, a, b>>, w))
  PROVE  Lands(Sighting(c, a, t)) /\ Lands(Sighting(c, b, u))
<1>1. Size[a] \in Nat /\ Size[b] \in Nat /\ Size[c] \in Nat
  BY CallsAreSized
<1>2. Size[c] + Size[a] + Size[b] <= Buffer /\ Buffer \in Int
  BY ThreeFit, CallsAreSized DEF Lands
<1>3. Size[c] + Size[a] <= Buffer /\ Size[c] + Size[b] <= Buffer
  <2> DEFINE x == Size[a]  y == Size[b]  z == Size[c]
  <2>1. x \in Nat /\ y \in Nat /\ z \in Nat /\ z + x + y <= Buffer
    BY <1>1, <1>2
  <2> HIDE DEF x, y, z
  <2>2. z + x <= Buffer /\ z + y <= Buffer
    BY <1>2, <2>1
  <2> QED BY <2>2 DEF x, y, z
<1>4. Fits(Sighting(c, a, t)) /\ Fits(Sighting(c, b, u))
  BY <1>3, TwoFit DEF Sighting
<1>5. c \notin Unassertable /\ a \notin Unassertable /\ b \notin Unassertable
  <2> DEFINE f == Fact("vent-suspected", <<c, a, b>>, w)
  <2>1. ToSet(f.symbols) \cap Unassertable = {}
    BY DEF Lands
  <2>2. f.symbols = <<c, a, b>>
    BY DEF Fact
  <2>3. c \in ToSet(<<c, a, b>>) /\ a \in ToSet(<<c, a, b>>) /\ b \in ToSet(<<c, a, b>>)
    BY DEF ToSet
  <2> HIDE DEF f
  <2> QED BY <2>1, <2>2, <2>3
<1>6. \A r, v : /\ ToSet(Sighting(c, r, v).symbols) = {c, r}
                /\ Sighting(c, r, v).template = "sighting"
  BY DEF Sighting, Fact, ToSet
<1> DEFINE p == Sighting(c, a, t)  q == Sighting(c, b, u)
<1>7. /\ ToSet(p.symbols) = {c, a} /\ p.template = "sighting"
      /\ ToSet(q.symbols) = {c, b} /\ q.template = "sighting"
  BY <1>6
<1> HIDE DEF p, q
<1>8. ToSet(p.symbols) \cap Unassertable = {} /\ ToSet(q.symbols) \cap Unassertable = {}
  BY <1>5, <1>7
<1>9. Fits(p) /\ Fits(q) /\ Accepts(p.template) /\ Accepts(q.template)
  BY <1>4, <1>7 DEF p, q
<1>10. Lands(p) /\ Lands(q)
  BY <1>8, <1>9 DEF Lands
<1> QED
  BY <1>10 DEF p, q

(* Steps that touch neither a sighting nor what was seen last.             *)
Harmless ==
  /\ UNCHANGED <<rules, last>>
  /\ \A f \in memory : f.template \in {"sighting", "vent-suspected"} => f \in memory'
  /\ \A f \in memory' : f \in memory \/ ~ Inferred(f)

LEMMA HarmlessKeeps ==
  ASSUME VentInv, Harmless
  PROVE  VentInv'
<1> SUFFICES ASSUME Accepts("sighting")'
             PROVE  (LastIsRemembered /\ VentsRest)'
  BY DEF VentInv
<1>1. Accepts("sighting") /\ LastIsRemembered /\ VentsRest
  BY DEF VentInv, Accepts, Harmless
<1>2. \A c, r, t : Sighting(c, r, t) \in memory => Sighting(c, r, t) \in memory'
  BY DEF Harmless, Sighting, Fact
<1>3. \A f : Lands(f)' = Lands(f)
  BY LandsFrame DEF Harmless
<1>4. ASSUME NEW c \in DOMAIN last' PROVE Remembered(c)'
  <2>1. Remembered(c) /\ last' = last
    BY <1>1, <1>4 DEF LastIsRemembered, Harmless
  <2> QED BY <1>2, <1>3, <2>1 DEF Remembered
<1>5. ASSUME NEW v \in memory', Inferred(v) PROVE Rests(v)'
  <2>1. v \in memory /\ Rests(v)
    BY <1>1, <1>5 DEF Harmless, VentsRest
  <2> QED BY <1>2, <2>1 DEF Rests
<1> QED
  BY <1>4, <1>5 DEF LastIsRemembered, VentsRest

LEMMA RecordedVents ==
  ASSUME VentInv, UNCHANGED rules, NEW x \in Calls, x.call = "player",
         x.room \notin Unsafe, x.color # NoId, Recorded(x)
  PROVE  VentInv'
<1> DEFINE room == SafeRoom(x.room)
           c == x.color
           prev == IF c \in DOMAIN last THEN last[c] ELSE NoReport
           sighting == Sighting(c, room, x.tick)
           vent == Fact("vent-suspected", <<c, prev.room, room>>, <<prev.tick, x.tick>>)
<1> SUFFICES ASSUME Accepts("sighting")'
             PROVE  (LastIsRemembered /\ VentsRest)'
  BY DEF VentInv
<1>1. Accepts("sighting") /\ LastIsRemembered /\ VentsRest
  BY DEF VentInv, Accepts
<1>2. c \in DOMAIN Size /\ room \in DOMAIN Size /\ x.tick \in Int
  BY CallsAreSized DEF SafeRoom
<1>3. PICK far \in {FALSE, Suspicious(prev, x)} :
        memory' = memory \cup {f \in {sighting} \cup IF far THEN {vent} ELSE {} : Lands(f)}
  BY DEF Recorded, Sighting
<1>4. /\ DOMAIN last' = DOMAIN last \cup {c}
      /\ last'[c] = [room |-> room, tick |-> x.tick]
      /\ \A d \in DOMAIN last \ {c} : last'[d] = last[d]
  BY DEF Recorded
<1>5. far => prev # NoReport /\ x.tick >= prev.tick
  BY <1>3 DEF Suspicious
<1>6. prev # NoReport => c \in DOMAIN last /\ prev = last[c]
  OBVIOUS
<1>7. far => prev.room \in DOMAIN Size /\ prev.tick \in Int
             /\ (Lands(Sighting(c, prev.room, prev.tick))
                   => Sighting(c, prev.room, prev.tick) \in memory)
  BY <1>1, <1>5, <1>6 DEF LastIsRemembered, Remembered
<1>8. \A f : Lands(f)' = Lands(f)
  BY LandsFrame
<1>9. memory \subseteq memory' /\ (Lands(sighting) => sighting \in memory')
  BY <1>3
<1> HIDE DEF prev, room, c, sighting
<1>10. ASSUME NEW d \in DOMAIN last' PROVE Remembered(d)'
  <2>1. CASE d = c
    <3>1. last'[d] = [room |-> room, tick |-> x.tick]
      BY <1>4, <2>1
    <3>2. last'[d].room = room /\ last'[d].tick = x.tick
      BY <3>1
    <3>3. Lands(Sighting(d, room, x.tick))' => Sighting(d, room, x.tick) \in memory'
      BY <1>8, <1>9, <2>1 DEF sighting
    <3> QED BY <1>2, <2>1, <3>2, <3>3 DEF Remembered
  <2>2. CASE d # c
    <3>1. d \in DOMAIN last /\ last'[d] = last[d]
      BY <1>4, <1>10, <2>2
    <3>2. Remembered(d)
      BY <1>1, <3>1 DEF LastIsRemembered
    <3> QED BY <1>8, <1>9, <3>1, <3>2 DEF Remembered
  <2> QED BY <2>1, <2>2
<1>11. ASSUME NEW v \in memory', Inferred(v) PROVE Rests(v)'
  <2>1. CASE v \in memory
    <3>1. Rests(v)
      BY <1>1, <1>11, <2>1 DEF VentsRest
    <3> QED BY <1>9, <3>1 DEF Rests
  <2>2. CASE v \notin memory
    <3>1. v = sighting \/ (far /\ v = vent /\ Lands(vent))
      BY <1>3, <2>2
    <3>2. v # sighting
      BY <1>11 DEF Inferred, sighting, Sighting, Fact
    <3>3. far /\ v = vent /\ Lands(vent)
      BY <3>1, <3>2
    <3>4. /\ v.symbols[1] = c /\ v.symbols[2] = prev.room /\ v.symbols[3] = room
          /\ v.ticks[1] = prev.tick /\ v.ticks[2] = x.tick
      BY <3>3 DEF Fact
    <3>5. Lands(Sighting(c, prev.room, prev.tick)) /\ Lands(Sighting(c, room, x.tick))
      BY <1>1, <1>2, <1>7, <3>3, VentLands
    <3>6. /\ Sighting(c, prev.room, prev.tick) \in memory'
          /\ Sighting(c, room, x.tick) \in memory'
      BY <1>7, <1>9, <3>3, <3>5 DEF sighting
    <3>7. prev.tick <= x.tick
      BY <1>2, <1>5, <1>7, <3>3
    <3> QED BY <3>4, <3>6, <3>7 DEF Rests
  <2> QED BY <2>1, <2>2
<1> QED
  BY <1>10, <1>11 DEF LastIsRemembered, VentsRest

LEMMA FiledVents ==
  ASSUME NEW f, ~ Inferred(f), UNCHANGED rules, Filed(f)
  PROVE  Harmless
BY DEF Filed, Harmless

LEMMA SingletonVents ==
  ASSUME NEW f, f.template \in {"roster", "self-color"}, UNCHANGED <<rules, last>>,
         memory' = Singleton(f)
  PROVE  Harmless
<1>1. \A g \in memory : g.template \in {"sighting", "vent-suspected"} => g \in memory'
  BY DEF Singleton
<1>2. \A g \in memory' : g \in memory \/ ~ Inferred(g)
  BY DEF Singleton, Inferred
<1> QED
  BY <1>1, <1>2 DEF Harmless

LEMMA OtherCalls ==
  ASSUME UNCHANGED rules, NEW x,
         \/ ObserveSelf(x) \/ ObserveVent(x) \/ ObserveBody(x)
         \/ ObserveTaskCompletion(x) \/ ObserveDeath(x) \/ ObserveEjection(x)
         \/ ObserveClaim(x) \/ ObserveVote(x) \/ ObserveDefense(x)
         \/ ObserveRoundConfig(x) \/ SetPlayerName(x)
         \/ SetSelf(x) \/ AddRoomLink(x) \/ (CloseRoute(x) \/ OpenRoute(x))
  PROVE  Harmless
<1>1. ASSUME UNCHANGED <<memory, last>> PROVE Harmless
  BY <1>1 DEF Harmless
<1>2. ASSUME Invalid \/ OwnColor PROVE Harmless
  BY <1>1, <1>2 DEF Invalid, OwnColor
<1>3. \A n, s, t : n # "vent-suspected" => ~ Inferred(Fact(n, s, t))
  BY DEF Inferred, Fact
<1>4. \A c, r, t : ~ Inferred(Fact("vent-suspected", <<c, r, r>>, t))
  BY DEF Inferred, Fact
<1>5. CASE ObserveSelf(x) \/ ObserveVent(x) \/ ObserveBody(x)
           \/ ObserveTaskCompletion(x) \/ ObserveDeath(x) \/ ObserveEjection(x)
           \/ ObserveClaim(x) \/ ObserveVote(x) \/ ObserveDefense(x)
  <2>1. \/ \E n, s, t : ~ Inferred(Fact(n, s, t)) /\ Filed(Fact(n, s, t))
        \/ Invalid \/ OwnColor
    BY <1>3, <1>4, <1>5
    DEF Judged, ObserveSelf, ObserveVent, ObserveBody, ObserveTaskCompletion,
        ObserveDeath, ObserveEjection, ObserveClaim, ObserveVote, ObserveDefense
  <2> QED BY <1>2, <2>1, FiledVents
<1>6. CASE ObserveRoundConfig(x)
  <2>1. Fact("roster", <<>>, <<x.impostors>>).template = "roster"
    BY DEF Fact
  <2> QED BY <1>6, <2>1, SingletonVents DEF ObserveRoundConfig
<1>7. CASE SetPlayerName(x)
  BY <1>1, <1>2, <1>7 DEF SetPlayerName
<1>8. CASE SetSelf(x)
  <2> DEFINE fact == Fact("self-color", <<x.color>>, <<>>)
  <2>1. fact.template = "self-color"
    BY DEF Fact
  <2>2. Invalid \/ OwnColor \/ (memory' = Singleton(fact) /\ last' = last)
    BY <1>8 DEF SetSelf, Judged
  <2> HIDE DEF fact
  <2> QED BY <1>2, <2>1, <2>2, SingletonVents
<1>9. CASE AddRoomLink(x)
  BY <1>1, <1>2, <1>9 DEF AddRoomLink
<1>10. CASE CloseRoute(x) \/ OpenRoute(x)
  BY <1>1, <1>2, <1>10 DEF CloseRoute, OpenRoute, RouteCall
<1> QED
  BY <1>5, <1>6, <1>7, <1>8, <1>9, <1>10

LEMMA CallVents ==
  ASSUME VentInv, Call
  PROVE  VentInv'
<1>1. UNCHANGED rules
  BY DEF Call, schemaVars
<1>2. PICK x \in Calls :
        \/ x.call = "player" /\ ObservePlayer(x)
        \/ ObserveSelf(x) \/ ObserveVent(x) \/ ObserveBody(x)
        \/ ObserveTaskCompletion(x) \/ ObserveDeath(x) \/ ObserveEjection(x)
        \/ ObserveClaim(x) \/ ObserveVote(x) \/ ObserveDefense(x)
        \/ ObserveRoundConfig(x) \/ SetPlayerName(x)
        \/ SetSelf(x) \/ AddRoomLink(x) \/ (CloseRoute(x) \/ OpenRoute(x))
  BY DEF Call
<1>3. CASE x.call = "player" /\ ObservePlayer(x)
  <2> DEFINE tests == <<RoomTest(x.room), SelfTest(x.color), NameTest(x.color)>>
  <2>1. \/ (\A i \in DOMAIN tests : tests[i].ok) /\ Recorded(x)
        \/ Invalid \/ OwnColor
    BY <1>3 DEF ObservePlayer, Judged
  <2>2. ASSUME \A i \in DOMAIN tests : tests[i].ok
        PROVE  x.room \notin Unsafe /\ x.color # NoId
    <3>1. DOMAIN tests = 1..3 /\ 1 \in 1..3 /\ 3 \in 1..3
      OBVIOUS
    <3>2. tests[1].ok /\ tests[3].ok
      BY <2>2, <3>1
    <3> QED BY <3>2 DEF RoomTest, NameTest
  <2>3. CASE Invalid \/ OwnColor
    BY <1>1, <2>3, HarmlessKeeps DEF Invalid, OwnColor, Harmless
  <2> QED BY <1>1, <1>3, <2>1, <2>2, <2>3, RecordedVents
<1> QED
  BY <1>1, <1>2, <1>3, OtherCalls, HarmlessKeeps

LEMMA QuietVents ==
  ASSUME VentInv, Lifecycle \/ Reset \/ UNCHANGED ingestVars
  PROVE  VentInv'
<1>1. CASE Lifecycle
  <2>1. UNCHANGED <<rules, memory, last>>
    BY <1>1 DEF Lifecycle, SchemaNext, Create, LoadOne, ValidateTemplate, GiveUp,
                Destroy, Destroyed, callVars
  <2> QED BY <2>1, HarmlessKeeps DEF Harmless
<1>2. CASE UNCHANGED ingestVars
  <2>1. UNCHANGED <<rules, memory, last>>
    BY <1>2 DEF ingestVars, schemaVars, callVars
  <2> QED BY <2>1, HarmlessKeeps DEF Harmless
<1>3. CASE Reset
  <2>1. memory' = {} /\ last' = <<>>
    BY <1>3 DEF Reset
  <2> QED BY <2>1 DEF VentInv, LastIsRemembered, VentsRest
<1> QED
  BY <1>1, <1>2, <1>3

(* An impossible walk was a walk: what charges a color with an inferred    *)
(* vent are two sightings of this round (fd_observe.c: vent_check), for    *)
(* any calls, rule set, buffer and lengths of symbols.                     *)
THEOREM VentsAlwaysReal == IngestSpec => []VentsAreReal
<1>1. IngestInit => VentInv
  BY DEF IngestInit, VentInv, LastIsRemembered, VentsRest
<1>2. VentInv /\ [IngestNext]_ingestVars => VentInv'
  BY CallVents, QuietVents DEF IngestNext
<1>3. VentInv => VentsAreReal
  BY DEF VentInv, VentsRest, Inferred, Rests, Sighting, VentsAreReal
<1> QED
  BY <1>1, <1>2, <1>3, PTL DEF IngestSpec

(***************************************************************************)
(* A detector that is handed out went through every row of the schema.     *)
(***************************************************************************)
Validated(k) ==
  \A i \in 1..k : /\ Conforms(SCHEMA[i])
                  /\ SCHEMA[i].cache => SCHEMA[i].name \in cached
Stages == {"called", "loading", "validating", "failed", "alive", "gone"}
SchemaInv ==
  /\ rules \in Deployments /\ stage \in Stages /\ row \in Nat
  /\ stage \in {"called", "gone"} => ~ env /\ cached = {}
  /\ stage \in {"loading", "validating", "failed", "alive"} => env
  /\ stage \in {"called", "loading"} => row = 0
  /\ stage = "validating" => row < Len(SCHEMA) /\ Validated(row)
  /\ stage = "alive" => row = Len(SCHEMA) /\ Validated(row)

LEMMA SchemaLength == Len(SCHEMA) = 22 /\ DOMAIN SCHEMA = 1..22
BY DEF SCHEMA

LEMMA SchemaStep == SchemaInv /\ [IngestNext]_ingestVars => SchemaInv'
<1> SUFFICES ASSUME SchemaInv, [IngestNext]_ingestVars PROVE SchemaInv'
  OBVIOUS
<1> USE DEF SchemaInv, Stages
<1>1. CASE Create
  BY <1>1 DEF Create
<1>2. CASE LoadOne
  <2>1. Len(SCHEMA) > 0 /\ Validated(0)'
    BY SchemaLength DEF Validated
  <2> QED BY <1>2, <2>1 DEF LoadOne
<1>3. CASE ValidateTemplate
  <2>1. /\ stage = "validating" /\ row \in Nat /\ row < Len(SCHEMA) /\ Validated(row)
        /\ row' = row + 1 /\ UNCHANGED <<rules, loaded, env>> /\ Len(SCHEMA) \in Nat
    BY <1>3, SchemaLength DEF ValidateTemplate
  <2>2. PICK t : /\ t = SCHEMA[row + 1]
                 /\ cached' = IF t.cache /\ t.name \in DOMAIN rules.templates
                              THEN cached \cup {t.name} ELSE cached
                 /\ stage' = IF ~ Conforms(t) THEN "failed"
                             ELSE IF row + 1 = Len(SCHEMA) THEN "alive" ELSE stage
    BY <1>3 DEF ValidateTemplate
  <2>3. CASE ~ Conforms(t)
    BY <2>1, <2>2, <2>3
  <2>4. CASE Conforms(t)
    <3>1. t.cache => t.name \in cached'
      BY <2>2, <2>4 DEF Conforms
    <3>2. cached \subseteq cached'
      BY <2>2
    <3>3. \A u : Conforms(u)' = Conforms(u)
      BY <2>1 DEF Conforms
    <3>4. ASSUME NEW i \in 1..(row + 1)
          PROVE  /\ Conforms(SCHEMA[i])
                 /\ SCHEMA[i].cache => SCHEMA[i].name \in cached'
      <4>1. i \in 1..row \/ i = row + 1
        BY <2>1
      <4> QED BY <2>1, <2>2, <2>4, <3>1, <3>2, <4>1 DEF Validated
    <3>5. Validated(row)'
      BY <2>1, <3>3, <3>4 DEF Validated
    <3>6. row + 1 = Len(SCHEMA) \/ row + 1 < Len(SCHEMA)
      BY <2>1
    <3> QED BY <2>1, <2>2, <2>4, <3>5, <3>6
  <2> QED BY <2>3, <2>4
<1>4. CASE GiveUp \/ Destroy
  BY <1>4 DEF GiveUp, Destroy, Destroyed
<1>5. CASE UNCHANGED schemaVars
  <2>1. \A u : Conforms(u)' = Conforms(u)
    BY <1>5 DEF Conforms, schemaVars
  <2>2. \A k : Validated(k)' = Validated(k)
    BY <1>5, <2>1 DEF Validated, schemaVars
  <2> QED BY <1>5, <2>2 DEF schemaVars
<1> QED
  BY <1>1, <1>2, <1>3, <1>4, <1>5
  DEF IngestNext, Lifecycle, SchemaNext, Call, Reset, ingestVars

LEMMA SchemaInvAlways == IngestSpec => []SchemaInv
<1>1. IngestInit => SchemaInv
  BY DEF IngestInit, SchemaInit, SchemaInv, Stages
<1> QED
  BY <1>1, SchemaStep, PTL DEF IngestSpec

(* The rows, by their place.                                               *)
Wants(name, slot, type) ==
  \E t \in ToSet(SCHEMA) : /\ t.name = name /\ t.cache
                           /\ slot \in DOMAIN t.slots /\ t.slots[slot].type = type

Reads(t, slot, type) ==
  t.cache /\ slot \in DOMAIN t.slots /\ t.slots[slot].type = type

LEMMA RowsByPlace ==
  /\ SCHEMA[1].name = "roster" /\ SCHEMA[2].name = "game-pressure"
  /\ SCHEMA[3].name = "crewmember" /\ SCHEMA[4].name = "case"
  /\ SCHEMA[6].name = "vent-suspected" /\ SCHEMA[7].name = "accusation"
  /\ SCHEMA[11].name = "logodds-term"
  /\ SCHEMA[12].name = "suspicion" /\ SCHEMA[13].name = "stance"
  /\ SCHEMA[14].name = "self-color" /\ SCHEMA[15].name = "self-state"
  /\ SCHEMA[16].name = "impostor-found" /\ SCHEMA[17].name = "kill-window"
  /\ SCHEMA[18].name = "alibi" /\ SCHEMA[19].name = "cast-iron-alibi"
  /\ SCHEMA[20].name = "suspect" /\ SCHEMA[21].name = "room-distance"
BY DEF SCHEMA, Row

LEMMA WantsAt ==
  ASSUME NEW i \in 1..22, NEW slot, NEW type, Reads(SCHEMA[i], slot, type)
  PROVE  Wants(SCHEMA[i].name, slot, type)
BY SchemaLength DEF Wants, ToSet, Reads

LEMMA RosterRow ==
  /\ Reads(SCHEMA[1], "n_impostors", "INTEGER") /\ Reads(SCHEMA[1], "alive_crew", "INTEGER")
  /\ Reads(SCHEMA[1], "alive_impostors", "INTEGER")
  /\ Reads(SCHEMA[1], "impostors_ejected", "INTEGER")
BY DEF SCHEMA, Row, Reads, Num

LEMMA PressureRow == Reads(SCHEMA[2], "level", "SYMBOL")
BY DEF SCHEMA, Row, Reads, Levels, OneOf

LEMMA CrewmemberRow ==
  /\ Reads(SCHEMA[3], "color", "SYMBOL") /\ Reads(SCHEMA[3], "status", "SYMBOL")
  /\ Reads(SCHEMA[3], "last_seen_room", "SYMBOL")
  /\ Reads(SCHEMA[3], "last_seen_tick", "INTEGER")
BY DEF SCHEMA, Row, Reads, Statuses, OneOf, Num, Sym

LEMMA CaseRow ==
  /\ Reads(SCHEMA[4], "victim", "SYMBOL") /\ Reads(SCHEMA[4], "room", "SYMBOL")
  /\ Reads(SCHEMA[4], "body_tick", "INTEGER")
BY DEF SCHEMA, Row, Reads, Num, Sym

LEMMA AccusationRow ==
  Reads(SCHEMA[7], "color", "SYMBOL") /\ Reads(SCHEMA[7], "victim", "SYMBOL")
BY DEF SCHEMA, Row, Reads, Sym

LEMMA CastIronRow ==
  Reads(SCHEMA[19], "color", "SYMBOL") /\ Reads(SCHEMA[19], "victim", "SYMBOL")
BY DEF SCHEMA, Row, Reads, Sym

LEMMA SuspectRow ==
  /\ Reads(SCHEMA[20], "color", "SYMBOL") /\ Reads(SCHEMA[20], "victim", "SYMBOL")
  /\ Reads(SCHEMA[20], "basis", "STRING")
BY DEF SCHEMA, Row, Reads, Sym, Str

LEMMA TermRow ==
  /\ Reads(SCHEMA[11], "color", "SYMBOL") /\ Reads(SCHEMA[11], "source", "SYMBOL")
  /\ Reads(SCHEMA[11], "key", "STRING") /\ Reads(SCHEMA[11], "amount", "INTEGER")
BY DEF SCHEMA, Row, Reads, Sym, Str, Num, LogoddsSources, OneOf

LEMMA SuspicionRow ==
  /\ Reads(SCHEMA[12], "color", "SYMBOL")
  /\ Reads(SCHEMA[12], "weight", "INTEGER") /\ Reads(SCHEMA[12], "logodds", "INTEGER")
BY DEF SCHEMA, Row, Reads, Sym, Num

LEMMA StanceRow ==
  /\ Reads(SCHEMA[13], "color", "SYMBOL") /\ Reads(SCHEMA[13], "category", "SYMBOL")
  /\ Reads(SCHEMA[13], "evidence", "SYMBOL") /\ Reads(SCHEMA[13], "rationale", "STRING")
BY DEF SCHEMA, Row, Reads, Sym, Str, Categories, Evidences, OneOf

LEMMA SelfRow ==
  Reads(SCHEMA[15], "phase", "SYMBOL") /\ Reads(SCHEMA[15], "tick", "INTEGER")
BY DEF SCHEMA, Row, Reads, Num, Phases, OneOf

LEMMA WindowRow ==
  /\ Reads(SCHEMA[17], "victim", "SYMBOL")
  /\ Reads(SCHEMA[17], "from_tick", "INTEGER") /\ Reads(SCHEMA[17], "to_tick", "INTEGER")
BY DEF SCHEMA, Row, Reads, Num, Sym

LEMMA AlibiRow ==
  /\ Reads(SCHEMA[18], "color", "SYMBOL") /\ Reads(SCHEMA[18], "victim", "SYMBOL")
  /\ Reads(SCHEMA[18], "at_room", "SYMBOL") /\ Reads(SCHEMA[18], "at_tick", "INTEGER")
BY DEF SCHEMA, Row, Reads, Num, Sym

LEMMA WalkedRows ==
  SCHEMA[6].cache /\ SCHEMA[14].cache /\ SCHEMA[16].cache /\ SCHEMA[21].cache
BY DEF SCHEMA, Row

LEMMA WantedSyms == \A r \in SymReads : Wants(r[1], r[2], "SYMBOL")
<1>1. ASSUME NEW r \in {"crewmember"} \X {"color", "status", "last_seen_room"}
      PROVE  Wants(r[1], r[2], "SYMBOL")
  BY WantsAt, CrewmemberRow, RowsByPlace
<1>2. ASSUME NEW r \in {"stance"} \X {"color", "category", "evidence"}
      PROVE  Wants(r[1], r[2], "SYMBOL")
  BY WantsAt, StanceRow, RowsByPlace
<1>3. Wants("suspicion", "color", "SYMBOL")
  BY WantsAt, TermRow, SuspicionRow, RowsByPlace
<1>4. ASSUME NEW r \in {"logodds-term"} \X {"color", "source"}
      PROVE  Wants(r[1], r[2], "SYMBOL")
  BY WantsAt, TermRow, SuspicionRow, RowsByPlace
<1>5. ASSUME NEW r \in {"case"} \X {"victim", "room"}
      PROVE  Wants(r[1], r[2], "SYMBOL")
  BY WantsAt, CaseRow, RowsByPlace
<1>6. ASSUME NEW r \in {"suspect", "accusation", "cast-iron-alibi"} \X {"color", "victim"}
      PROVE  Wants(r[1], r[2], "SYMBOL")
  BY WantsAt, AccusationRow, CastIronRow, SuspectRow, RowsByPlace
<1>7. ASSUME NEW r \in {"alibi"} \X {"color", "victim", "at_room"}
      PROVE  Wants(r[1], r[2], "SYMBOL")
  BY WantsAt, AlibiRow, RowsByPlace
<1>8. /\ Wants("kill-window", "victim", "SYMBOL") /\ Wants("self-state", "phase", "SYMBOL")
      /\ Wants("game-pressure", "level", "SYMBOL")
  BY WantsAt, WindowRow, SelfRow, PressureRow, RowsByPlace
<1> QED
  BY <1>1, <1>2, <1>3, <1>4, <1>5, <1>6, <1>7, <1>8 DEF SymReads

LEMMA WantedStrings == \A r \in StringReads : Wants(r[1], r[2], "STRING")
<1>1. /\ Wants("stance", "rationale", "STRING") /\ Wants("logodds-term", "key", "STRING")
      /\ Wants("suspect", "basis", "STRING")
  BY WantsAt, StanceRow, TermRow, SuspicionRow, AccusationRow, CastIronRow, SuspectRow, RowsByPlace
<1> QED
  BY <1>1 DEF StringReads

LEMMA WantedInts == \A r \in IntReads : Wants(r[1], r[2], "INTEGER")
<1>1. ASSUME NEW r \in {"roster"} \X {"n_impostors", "alive_crew", "alive_impostors",
                                      "impostors_ejected"}
      PROVE  Wants(r[1], r[2], "INTEGER")
  BY WantsAt, RosterRow, RowsByPlace
<1>2. ASSUME NEW r \in {"suspicion"} \X {"weight", "logodds"}
      PROVE  Wants(r[1], r[2], "INTEGER")
  BY WantsAt, TermRow, SuspicionRow, RowsByPlace
<1>3. ASSUME NEW r \in {"kill-window"} \X {"from_tick", "to_tick"}
      PROVE  Wants(r[1], r[2], "INTEGER")
  BY WantsAt, WindowRow, RowsByPlace
<1>4. /\ Wants("crewmember", "last_seen_tick", "INTEGER")
      /\ Wants("logodds-term", "amount", "INTEGER") /\ Wants("case", "body_tick", "INTEGER")
      /\ Wants("alibi", "at_tick", "INTEGER") /\ Wants("self-state", "tick", "INTEGER")
  BY WantsAt, CrewmemberRow, TermRow, SuspicionRow, CaseRow, AlibiRow, SelfRow, RowsByPlace
<1> QED
  BY <1>1, <1>2, <1>3, <1>4 DEF IntReads

(* What the validation of its rows makes of the rule set.                  *)
Valid == Validated(Len(SCHEMA))

LEMMA EveryRow ==
  ASSUME Valid, NEW t \in ToSet(SCHEMA)
  PROVE  Conforms(t) /\ (t.cache => t.name \in cached)
BY SchemaLength DEF Valid, Validated, ToSet

LEMMA SlotRead ==
  ASSUME Valid, NEW t \in ToSet(SCHEMA), NEW s \in DOMAIN t.slots
  PROVE  /\ t.name \in DOMAIN rules.templates /\ s \in DOMAIN rules.templates[t.name]
         /\ rules.templates[t.name][s].single
         /\ rules.templates[t.name][s].types = {t.slots[s].type}
BY EveryRow DEF Conforms, SlotOK

LEMMA AllReadable ==
  ASSUME Valid, NEW R, NEW type, \A r \in R : Wants(r[1], r[2], type)
  PROVE  Readable(R, type) /\ {r[1] : r \in R} \subseteq cached
<1>1. ASSUME NEW r \in R
      PROVE  /\ r[1] \in DOMAIN rules.templates /\ r[2] \in DOMAIN rules.templates[r[1]]
             /\ rules.templates[r[1]][r[2]].single
             /\ rules.templates[r[1]][r[2]].types = {type} /\ r[1] \in cached
  <2>1. PICK t \in ToSet(SCHEMA) : /\ t.name = r[1] /\ t.cache
                                   /\ r[2] \in DOMAIN t.slots /\ t.slots[r[2]].type = type
    BY DEF Wants
  <2> QED BY <2>1, SlotRead, EveryRow
<1> QED
  BY <1>1 DEF Readable

LEMMA DumpReadable ==
  ASSUME Valid, NEW d \in DumpedSlots
  PROVE  Readable({<<d[1], d[2]>>}, d[3])
<1>1. PICK t \in ToSet(SCHEMA) : \E s \in DOMAIN t.slots : d = <<t.name, s, t.slots[s].type>>
  BY DEF DumpedSlots
<1>2. PICK s \in DOMAIN t.slots : d = <<t.name, s, t.slots[s].type>>
  BY <1>1
<1> QED
  BY <1>2, SlotRead DEF Readable

(* As many allowed symbols as wanted, the wanted among them, are just those.*)
LEMMA AllowedExactly ==
  ASSUME Valid, rules \in Deployments, NEW t \in ToSet(SCHEMA), NEW s \in DOMAIN t.slots,
         t.slots[s].allowed # {}
  PROVE  rules.templates[t.name][s].allowed = t.slots[s].allowed
<1> DEFINE A == rules.templates[t.name][s].allowed  W == t.slots[s].allowed
<1>1. IsFiniteSet(A)
  BY SlotRead, AllowedAreFinite
<1>2. Cardinality(A) = Cardinality(W) /\ W \in SUBSET A
  BY EveryRow DEF Conforms, SlotOK, AllowedOK
<1> HIDE DEF A, W
<1>3. A = W
  BY <1>1, <1>2, FS_Subset
<1> QED
  BY <1>3 DEF A, W

LEMMA VerdictsUnderstood ==
  ASSUME Valid, rules \in Deployments
  PROVE  /\ Understood("stance", "category", ParseCategory)
         /\ Understood("stance", "evidence", ParseEvidence)
         /\ Understood("game-pressure", "level", ParsePressure)
<1>1. /\ 2 \in 1..22 /\ 13 \in 1..22
      /\ SCHEMA[2] \in ToSet(SCHEMA) /\ SCHEMA[13] \in ToSet(SCHEMA)
  BY SchemaLength DEF ToSet
<1>2. /\ "level" \in DOMAIN SCHEMA[2].slots
      /\ "category" \in DOMAIN SCHEMA[13].slots /\ "evidence" \in DOMAIN SCHEMA[13].slots
  BY PressureRow, StanceRow DEF Reads
<1>3. /\ SCHEMA[2].slots["level"].allowed = {"low", "medium", "high", "critical"}
      /\ SCHEMA[13].slots["category"].allowed = {"on-task", "off-task", "threat", "unknown"}
      /\ SCHEMA[13].slots["evidence"].allowed
           = {"none", "accusation", "vent", "near-body", "off-task", "on-task"}
  BY DEF SCHEMA, Row, Levels, Categories, Evidences, OneOf
<1>4. /\ rules.templates["game-pressure"]["level"].allowed
           = {"low", "medium", "high", "critical"}
      /\ rules.templates["stance"]["category"].allowed
           = {"on-task", "off-task", "threat", "unknown"}
      /\ rules.templates["stance"]["evidence"].allowed
           = {"none", "accusation", "vent", "near-body", "off-task", "on-task"}
  <2> DEFINE p == SCHEMA[2]  v == SCHEMA[13]
  <2>1. /\ p \in ToSet(SCHEMA) /\ v \in ToSet(SCHEMA)
        /\ p.name = "game-pressure" /\ v.name = "stance"
        /\ "level" \in DOMAIN p.slots /\ p.slots["level"].allowed # {}
        /\ "category" \in DOMAIN v.slots /\ v.slots["category"].allowed # {}
        /\ "evidence" \in DOMAIN v.slots /\ v.slots["evidence"].allowed # {}
    BY <1>1, <1>2, <1>3, RowsByPlace
  <2> HIDE DEF p, v
  <2>2. rules.templates["game-pressure"]["level"].allowed = p.slots["level"].allowed
    BY <2>1, AllowedExactly
  <2>3. rules.templates["stance"]["category"].allowed = v.slots["category"].allowed
    BY <2>1, AllowedExactly
  <2>4. rules.templates["stance"]["evidence"].allowed = v.slots["evidence"].allowed
    BY <2>1, AllowedExactly
  <2> QED BY <1>3, <2>2, <2>3, <2>4 DEF p, v
<1>5. /\ \A v \in rules.templates["stance"]["category"].allowed : ParseCategory(v) = v
      /\ \A v \in rules.templates["stance"]["evidence"].allowed : ParseEvidence(v) = v
      /\ \A v \in rules.templates["game-pressure"]["level"].allowed : ParsePressure(v) = v
  BY <1>4 DEF ParseCategory, ParseEvidence, ParsePressure, Parsed
<1> QED
  BY <1>5 DEF Understood

(* A detector that fd_create hands out has every slot the library reads,   *)
(* of the type it reads, every verdict a rule can write is understood, and *)
(* no refused detector leaves anything behind (fakedetector.c: fd_create;  *)
(* fd_schema.c), whatever rule set is deployed.                            *)
THEOREM DetectorAlwaysWhole == IngestSpec => []DetectorIsWhole
<1>1. SchemaInv => DetectorIsWhole
  <2> SUFFICES ASSUME SchemaInv PROVE DetectorIsWhole
    OBVIOUS
  <2>1. ASSUME stage = "alive" PROVE env /\ Valid /\ rules \in Deployments
    BY <2>1 DEF SchemaInv, Valid
  <2>2. ASSUME Valid PROVE Walked \subseteq cached
    <3>1. \A i \in {6, 14, 16, 21} : SCHEMA[i] \in ToSet(SCHEMA)
      BY SchemaLength DEF ToSet
    <3> QED BY <2>2, <3>1, WalkedRows, RowsByPlace, EveryRow DEF Walked
  <2>3. ASSUME Valid
        PROVE  /\ Readable(SymReads, "SYMBOL") /\ {r[1] : r \in SymReads} \subseteq cached
               /\ Readable(StringReads, "STRING")
               /\ Readable(IntReads, "INTEGER") /\ {r[1] : r \in IntReads} \subseteq cached
    BY <2>3, WantedSyms, WantedStrings, WantedInts, AllReadable
  <2>4. {r[1] : r \in SymReads \cup IntReads}
          = {r[1] : r \in SymReads} \cup {r[1] : r \in IntReads}
    OBVIOUS
  <2>5. stage = "gone" => ~ env /\ cached = {}
    BY DEF SchemaInv
  <2> QED
    BY <2>1, <2>2, <2>3, <2>4, <2>5, DumpReadable, VerdictsUnderstood DEF DetectorIsWhole
<1> QED
  BY <1>1, SchemaInvAlways, PTL
=============================================================================
