------------------------------ MODULE Session ------------------------------
(***************************************************************************)
(* The life of a detector around its rounds (fakedetector.c) and of the    *)
(* trace it mirrors the engine to (fd_telemetry.c): create, reset and      *)
(* destroy, the name registry, self, the playstyle, the last-sighting      *)
(* slots, the trace stream and who has to close it.                        *)
(*                                                                         *)
(* The C side knows players by id, working memory by the symbol their name *)
(* was when the fact was asserted.  A rejected call changes nothing but a  *)
(* counter and is a stuttering step.                                       *)
(*                                                                         *)
(* The caller keeps to fakedetector.h: names, then self, then observations *)
(* in every round; players are named all or not at all; a stream of its    *)
(* own outlives the trace to it.  A string that does not fit the assertion *)
(* buffer of fd_assert_fact is Overlong.                                   *)
(***************************************************************************)
EXTENDS Integers, FiniteSets

CONSTANTS
  Ids,          \* fd_player ids, 0..FD_MAX_PLAYERS-1
  Players,      \* the ids of a round's players
  Names,        \* symbol-safe strings
  DefaultName,  \* DEFAULT_NAMES
  Overlong,     \* names too long for an assertion
  Unset,        \* no registered name, no self
  Ticks,        \* ticks of sightings
  Streams,      \* streams the caller can open
  Files,        \* streams fopen can return to the library
  NoStream,
  MaxReports    \* bound on the sightings of one round

ASSUME DefaultsDiffer ==
  /\ DefaultName \in [Ids -> Names]
  /\ \A i, j \in Ids : DefaultName[i] = DefaultName[j] => i = j
ASSUME SessionConstants ==
  /\ Ids \subseteq Nat /\ Players \subseteq Ids /\ Overlong \subseteq Names
  /\ Unset \notin Names /\ Unset \notin Ids
  /\ Ticks \subseteq Nat
  /\ Streams \cap Files = {} /\ NoStream \notin Streams \cup Files

VARIABLES
  alive,        \* the handle is valid
  registered,   \* player_names
  selfId,       \* self_color
  selfFacts,    \* symbols with a (self-color) fact
  style,        \* 0 trusting, 1 neutral, 2 paranoid
  facts,        \* (sighting): symbol and tick
  prior,        \* last_sighting, by id
  reported,     \* fd_observe_player calls of the round that passed the filters
  trace,        \* trace_stream and trace_stream_owned
  open,         \* streams that are open
  held          \* streams the caller has opened and not closed

roundState == <<selfId, selfFacts, facts, prior, reported>>
traceState == <<trace, open, held>>
sessionVars == <<alive, registered, roundState, style, traceState>>

NoPrior  == -1
NoTrace  == [stream |-> NoStream, owned |-> FALSE]
Nameless == [i \in Ids |-> Unset]

(* fd_player_name and fd_player_from_name: registered names first.         *)
NameOf(i) == IF registered[i] # Unset THEN registered[i] ELSE DefaultName[i]
Lowest(ids) == CHOOSE i \in ids : \A j \in ids : i <= j
Registrants(n) == {i \in Ids : registered[i] = n}
Defaults(n)    == {i \in Ids : registered[i] = Unset /\ DefaultName[i] = n}
PlayerFromName(n) ==
  IF Registrants(n) # {} THEN Lowest(Registrants(n))
  ELSE IF Defaults(n) # {} THEN Lowest(Defaults(n)) ELSE -1

(* Players are named all or not at all.                                    *)
Conventional ==
  \/ \A i \in Players : registered[i] # Unset
  \/ registered = Nameless

SessionTypeOK ==
  /\ alive \in BOOLEAN /\ registered \in [Ids -> Names \cup {Unset}]
  /\ selfId \in Ids \cup {Unset} /\ selfFacts \in SUBSET Names
  /\ style \in 0..2
  /\ facts \in SUBSET [color : Names, tick : Ticks]
  /\ prior \in [Ids -> Ticks \cup {NoPrior}]
  /\ reported \in SUBSET [id : Players, tick : Ticks]
  /\ trace \in [stream : Streams \cup Files \cup {NoStream}, owned : BOOLEAN]
  /\ open \in SUBSET (Streams \cup Files) /\ held \in SUBSET Streams

RoundForgotten ==
  /\ selfId' = Unset /\ selfFacts' = {}
  /\ facts' = {} /\ reported' = {}
  /\ prior' = [i \in Ids |-> NoPrior]

SessionInit ==
  /\ alive = FALSE
  /\ registered = Nameless /\ style = 1
  /\ selfId = Unset /\ selfFacts = {}
  /\ facts = {} /\ reported = {}
  /\ prior = [i \in Ids |-> NoPrior]
  /\ trace = NoTrace /\ open = {} /\ held = {}

(***************************************************************************)
(* fd_create, fd_reset, fd_destroy.                                        *)
(***************************************************************************)
Create ==
  /\ ~ alive /\ alive' = TRUE
  /\ registered' = Nameless /\ style' = 1 /\ trace' = NoTrace
  /\ RoundForgotten
  /\ UNCHANGED <<open, held>>

ForgetButPrior ==
  /\ selfId' = Unset /\ selfFacts' = {} /\ facts' = {} /\ reported' = {}
  /\ UNCHANGED prior
ForgetRound == RoundForgotten
Reset ==
  /\ alive /\ ForgetRound
  /\ UNCHANGED <<alive, registered, style, traceState>>

(* trace_release_stream: what the library opened it closes.                *)
ClosingAny == open \ {trace.stream}
Released   == IF trace.owned THEN open \ {trace.stream} ELSE open

Destroy ==
  /\ alive /\ alive' = FALSE
  /\ open' = Released /\ trace' = NoTrace
  /\ registered' = Nameless
  /\ RoundForgotten
  /\ UNCHANGED <<style, held>>

(***************************************************************************)
(* Identity and playstyle.                                                 *)
(***************************************************************************)
AnyName(i, n) == TRUE
Free(i, n)    == \A j \in Ids \ {i} : registered[j] # n
SetPlayerName ==
  \E i \in Ids, n \in Names :
    /\ alive /\ Free(i, n)
    /\ reported = {} /\ selfId = Unset
    /\ registered' = [registered EXCEPT ![i] = n]
    /\ UNCHANGED <<alive, roundState, style, traceState>>

(* The old fact is retracted before the new one is tried.                  *)
SetSelf ==
  \E i \in Players :
    /\ alive /\ Conventional /\ reported = {}
    /\ selfId' = i
    /\ selfFacts' = {NameOf(i)} \ Overlong
    /\ UNCHANGED <<alive, registered, style, facts, prior, reported, traceState>>

Clamped(s) == IF s < 0 THEN 0 ELSE IF s > 2 THEN 2 ELSE s
SetPlaystyle ==
  \E s \in -1..3 :
    /\ alive /\ style' = Clamped(s)
    /\ UNCHANGED <<alive, registered, roundState, traceState>>

(***************************************************************************)
(* fd_observe_player: the slot is updated, then the fact is tried.  What   *)
(* self sees of itself is filtered.                                        *)
(***************************************************************************)
Landing(i, t) == {[color |-> n, tick |-> t] : n \in {NameOf(i)} \ Overlong}
ObservePlayer ==
  \E i \in Players, t \in Ticks :
    /\ alive /\ Conventional /\ i # selfId
    /\ Cardinality(reported \cup {[id |-> i, tick |-> t]}) <= MaxReports
    /\ reported' = reported \cup {[id |-> i, tick |-> t]}
    /\ prior' = [prior EXCEPT ![i] = t]
    /\ facts' = facts \cup Landing(i, t)
    /\ UNCHANGED <<alive, registered, selfId, selfFacts, style, traceState>>

(***************************************************************************)
(* The trace.  Beginning one releases the stream of the last.              *)
(***************************************************************************)
TraceBegin ==
  \E s \in held :
    /\ alive
    /\ open' = Released
    /\ trace' = [stream |-> s, owned |-> FALSE]
    /\ UNCHANGED <<alive, registered, roundState, style, held>>

(* fopen may fail: nothing has been touched yet.                           *)
TraceBeginPath ==
  \E f \in Files \ open :
    /\ alive
    /\ open' = Released \cup {f}
    /\ trace' = [stream |-> f, owned |-> TRUE]
    /\ UNCHANGED <<alive, registered, roundState, style, held>>

TraceEnd ==
  /\ alive
  /\ open' = Released
  /\ trace' = NoTrace
  /\ UNCHANGED <<alive, registered, roundState, style, held>>

CallerOpens ==
  \E s \in Streams \ held :
    /\ open' = open \cup {s} /\ held' = held \cup {s}
    /\ UNCHANGED <<alive, registered, roundState, style, trace>>
CallerCloses ==
  \E s \in held \ {trace.stream} :
    /\ open' = open \ {s} /\ held' = held \ {s}
    /\ UNCHANGED <<alive, registered, roundState, style, trace>>

SessionNext ==
  \/ Create \/ Reset \/ Destroy
  \/ SetPlayerName \/ SetSelf \/ SetPlaystyle \/ ObservePlayer
  \/ TraceBegin \/ TraceBeginPath \/ TraceEnd \/ CallerOpens \/ CallerCloses

SessionSpec == SessionInit /\ [][SessionNext]_sessionVars

(***************************************************************************)
(* What the session promises a caller that keeps its side.                 *)
(***************************************************************************)

(* Facts and players correspond: a lookup by id finds exactly what was     *)
(* reported of that id under whatever name it has, a symbol leads back to  *)
(* the one player it stands for -- be it the default of somebody else --   *)
(* and the only self is the current one, who is never watched              *)
(* (fakedetector.c: fd_set_player_name, fd_player_from_name, fd_set_self). *)
NamesAreFaithful ==
  /\ \A i \in Players :
       {f.tick : f \in {g \in facts : g.color = NameOf(i)}} =
       IF NameOf(i) \in Overlong THEN {}
       ELSE {r.tick : r \in {q \in reported : q.id = i}}
  /\ \A f \in facts : \E r \in reported : r.id = PlayerFromName(f.color)
  /\ selfFacts = IF selfId = Unset THEN {} ELSE {NameOf(selfId)} \ Overlong
  /\ \A r \in reported : r.id # selfId

(* The vent check and the rule base remember the same round: a slot is     *)
(* taken exactly if its player was reported since the last reset, with one *)
(* of the ticks reported (fakedetector.c: fd_reset).                       *)
MemoriesAgree ==
  \A i \in Ids :
    LET seen == {r.tick : r \in {q \in reported : q.id = i}}
    IN  IF seen = {} THEN prior[i] = NoPrior ELSE prior[i] \in seen

(* What the library opened is open exactly while it is the trace, what the *)
(* caller opened stays open until the caller closes it, and a trace always *)
(* has an open stream, in whatever order traces begin, end and replace one *)
(* another, up to and beyond fd_destroy (fd_telemetry.c).                  *)
StreamsAreAccounted ==
  /\ open \cap Files = IF trace.owned THEN {trace.stream} ELSE {}
  /\ open \cap Streams = held
  /\ trace.stream # NoStream => alive /\ trace.stream \in open
=============================================================================
