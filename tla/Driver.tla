------------------------------- MODULE Driver -------------------------------
(***************************************************************************)
(* The regression driver (driver.c): scripts of calls and questions,       *)
(* played one after another on one detector, and the answers it expects.   *)
(* The driver itself meets one order of firings, the engine's; here each   *)
(* script is played in every order the saliences allow.                    *)
(*                                                                         *)
(* Calls that change nothing a question is about are left out: phases,     *)
(* trace, rejected arguments, the colors no script names and, in the main  *)
(* round, those sightings of feed_observations that are neither a color's  *)
(* latest, nor inside the kill window, nor part of yellow's vent.          *)
(*                                                                         *)
(* Definitions preceded by a variant with a plausible mistake: see Cases.  *)
(***************************************************************************)
EXTENDS Beliefs, Reports

CONSTANTS
  red, orange, yellow, pink, lime, blue, gray, white, brown, darkTeal, green,
  cafeteria, admin, medbay, storage

VARIABLES
  step,        \* the call of the script that is made next
  answered     \* the question that was answered last

driverVars    == <<step, answered>>
allDriverVars == <<everyVar, driverVars>>

V == INSTANCE VoteDecision WITH
       Players <- Colors, EnumOrder <- Position, Evidence <- LogoddsTerm

(***************************************************************************)
(* The map of setup_graph, and its shortest walks.                         *)
(***************************************************************************)
Links == {cafeteria, admin} :> 50 @@ {cafeteria, medbay} :> 40
         @@ {medbay, storage} :> 50 @@ {medbay, admin} :> 100
Linked ==
  [p \in Place \X Place |->
     IF Nowhere \in Range(p) THEN NoFact ELSE IF p[1] = p[2] THEN 0
     ELSE IF Range(p) \in DOMAIN Links THEN Links[Range(p)] ELSE Unreachable]
Through(t, r) ==
  [p \in DOMAIN t |-> IF t[p] = NoFact THEN NoFact
                      ELSE Min({t[p], t[<<p[1], r>>] + t[<<r, p[2]>>]})]
Skeld == FoldLeft(Through, Linked, SetToSeq(Rooms))

(***************************************************************************)
(* The scripts.                                                            *)
(***************************************************************************)
NewRound           == [call |-> "reset"]
SelfIs(c)          == [call |-> "self", of |-> c]
Sees(c, r, t)      == [call |-> "player", of |-> [color |-> c, room |-> r, tick |-> t]]
Finds(c, r, t)     == [call |-> "body", of |-> [color |-> c, room |-> r, tick |-> t]]
Completes(c, t)    == [call |-> "task", of |-> [color |-> c, tick |-> t]]
Vents(c)           == [call |-> "vent", of |-> c]
VotesOut(c, t)     == [call |-> "ejection",
                       of |-> [color |-> c, tick |-> t, impostor |-> TRUE]]
Impostors(n)       == [call |-> "config", of |-> n]
Claims(c, k, r, t) == [call |-> "claim",
                       of |-> [color |-> c, kind |-> k, room |-> r, tick |-> t]]
Accuses(c, d)      == [call |-> "vote", of |-> [a |-> c, b |-> d]]
Defends(c, d)      == [call |-> "defense", of |-> [a |-> c, b |-> d]]
Ask(question)      == [call |-> "ask", of |-> question]

FeedObservations ==
  <<SelfIs(red), Completes(blue, 30), Completes(blue, 60), Completes(blue, 120),
    Sees(blue, admin, 150), Sees(green, storage, 140), Sees(pink, storage, 170),
    Sees(lime, cafeteria, 175), Sees(yellow, medbay, 100),
    Sees(yellow, admin, 125), Finds(green, storage, 178), Ask("round")>>
PostEjection == <<VotesOut(pink, 250), Ask("ejected")>>
PostReset ==
  <<NewRound, Ask("fresh"), SelfIs(red), Sees(orange, cafeteria, 10),
    Ask("glimpse")>>
StaleAlibi ==
  <<NewRound, SelfIs(red), Sees(brown, admin, 100), Finds(green, storage, 178),
    Ask("wide window"), Sees(green, storage, 130), Ask("narrow window")>>
WeakVsCastIron ==
  <<NewRound, SelfIs(red), Sees(orange, medbay, 100), Sees(white, admin, 90),
    Finds(green, storage, 178), Ask("one glimpse each")>>
ObservedVent ==
  <<NewRound, SelfIs(red), Sees(darkTeal, storage, 60), Vents(darkTeal),
    Ask("vent seen")>>
MultiImpostor ==
  <<NewRound, SelfIs(red), Impostors(2),
    Sees(orange, cafeteria, 60), Sees(blue, cafeteria, 60),
    Sees(lime, cafeteria, 60), Sees(yellow, medbay, 100),
    Sees(yellow, admin, 125), Sees(pink, admin, 150), Finds(green, admin, 178),
    Ask("two at large"), VotesOut(pink, 250), Ask("one at large"),
    VotesOut(orange, 260), Ask("none at large")>>
FlatRound ==
  <<NewRound, SelfIs(red), Impostors(1), Sees(orange, cafeteria, 20),
    Sees(pink, cafeteria, 20), Sees(blue, cafeteria, 20),
    Sees(lime, cafeteria, 20), Ask("flat")>>
Endgame ==
  <<NewRound, SelfIs(red), Impostors(1), Sees(yellow, storage, 40),
    Vents(yellow), Sees(blue, cafeteria, 50), Completes(blue, 52),
    Completes(blue, 70), Ask("endgame")>>
ClaimsLayer ==
  <<NewRound, SelfIs(red), Impostors(1),
    Sees(pink, cafeteria, 10), Sees(yellow, cafeteria, 10),
    Sees(lime, cafeteria, 10), Sees(blue, cafeteria, 10),
    Sees(gray, cafeteria, 10), Sees(brown, cafeteria, 10),
    Sees(pink, storage, 100), Sees(brown, storage, 170),
    Finds(green, storage, 180), Claims(pink, "location", cafeteria, 100),
    Claims(yellow, "self-report", storage, 150),
    Claims(lime, "location", admin, 150), Claims(blue, "location", admin, 160),
    Ask("claims")>>
SocialGraph ==
  <<NewRound, SelfIs(red), Impostors(1),
    Sees(orange, cafeteria, 10), Sees(blue, cafeteria, 10),
    Sees(gray, cafeteria, 10), Sees(lime, cafeteria, 10),
    Sees(white, cafeteria, 10), Sees(pink, cafeteria, 10),
    Sees(brown, admin, 100), Finds(green, storage, 180),
    Accuses(orange, pink), Defends(blue, pink), Accuses(pink, gray),
    Accuses(lime, gray), Accuses(white, brown), Ask("before the reveal"),
    VotesOut(pink, 210), Ask("after the reveal")>>

Script == FeedObservations \o PostEjection \o PostReset \o StaleAlibi
          \o WeakVsCastIron \o ObservedVent \o MultiImpostor \o FlatRound
          \o Endgame \o ClaimsLayer \o SocialGraph
Played(call) == {Script[i].of : i \in {j \in DOMAIN Script : Script[j].call = call}}

(***************************************************************************)
(* Playing: a call changes the memory, a question runs the engine.         *)
(***************************************************************************)
Reported(x) ==
  \/ /\ x.call = "player" /\ ObservePlayer
     /\ sightings' = sightings \cup {x.of}
     /\ lastSighting'[x.of.color] = [room |-> x.of.room, tick |-> x.of.tick]
  \/ x.call = "body" /\ ObserveBody /\ bodies' = bodies \cup {x.of}
  \/ x.call = "task" /\ ObserveTaskCompletion /\ taskTicks' = taskTicks \cup {x.of}
  \/ /\ x.call = "vent" /\ ObserveVent
     /\ vents' = vents \cup {[color |-> x.of, basis |-> "observed"]}
  \/ x.call = "ejection" /\ ObserveEjection /\ ejections' = ejections \cup {x.of}
  \/ x.call = "config" /\ ObserveRoundConfig /\ roster' = {NewRoster(x.of)}
Heard(x) ==
  \/ x.call = "claim" /\ ObserveClaim /\ claims' = claims \cup {x.of}
  \/ x.call = "vote" /\ ObserveVote /\ accuses' = accuses \cup {x.of}
  \/ x.call = "defense" /\ ObserveDefense /\ defends' = defends \cup {x.of}

(* fd_set_self: only the self-color changes.                               *)
SetSelf(c) ==
  /\ phase = "idle" /\ self' = c
  /\ UNCHANGED <<phase, sightings, bodies, ejections, vents, distances,
                 dossierVars, caseVars, roundVars, stances, cVars,
                 testimonyVars, beliefVars>>
(* fd_reset: an empty memory; the graph stays, its facts are due again.    *)
Reset ==
  /\ phase = "idle" /\ UNCHANGED phase
  /\ self' = Nobody
  /\ sightings' = {} /\ bodies' = {} /\ taskTicks' = {} /\ ejections' = {}
  /\ vents' = {} /\ distances' = [p \in Place \X Place |-> NoFact]
  /\ dead' = {} /\ crew' = {} /\ impostorFound' = {}
  /\ cases' = {} /\ windows' = {} /\ alibis' = {} /\ castIron' = {}
  /\ nearBody' = {} /\ suspects' = {} /\ accusations' = {}
  /\ roster' = {} /\ recountDue' = FALSE /\ pressure' = "absent"
  /\ stances' = {}
  /\ UNCHANGED walk /\ walkDirty' = TRUE
  /\ lastSighting' = [d \in Colors |-> NoSighting]
  /\ claims' = {} /\ accuses' = {} /\ defends' = {}
  /\ contradicted' = {} /\ corroborated' = {}
  /\ terms' = {} /\ suspicions' = {}

Play ==
  /\ step \in DOMAIN Script
  /\ \E x \in {Script[step]} :
       \/ Reported(x) /\ UNCHANGED <<testimonyVars, suspicions>> /\ Maintained
       \/ Heard(x) /\ UNCHANGED suspicions /\ Maintained
       \/ x.call = "self" /\ SetSelf(x.of)
       \/ x.call = "reset" /\ Reset
  /\ step' = step + 1 /\ answered' = ""
StartQuery ==
  /\ step \in DOMAIN Script /\ Script[step].call = "ask" /\ FdRun
  /\ UNCHANGED <<testimonyVars, suspicions, driverVars>> /\ Maintained
Fire == (BeliefRule \/ DetectiveRule) /\ UNCHANGED driverVars
Answer == Return /\ step' = step + 1 /\ answered' = Script[step].of

DriverInit == BeliefsInit /\ step = 1 /\ answered = ""
DriverNext == Play \/ StartQuery \/ Fire \/ Answer
DriverSpec == DriverInit /\ [][DriverNext]_allDriverVars

(***************************************************************************)
(* What the driver expects, one operator per check.                        *)
(***************************************************************************)
ExpectStance(c, category, evidence) ==
  StanceNow(c) = category /\ EvidenceNow(c) = evidence
ExpectStatus(cs, status) == \A c \in cs : StatusNow(c) = status
ExpectRisk(style, cs, risk) == \A c \in cs : AloneRisk(style, c) = risk
ExpectPick(style, c, category) ==
  PickVoteTarget(style) = [color |-> c, severity |-> category]
ExpectWeights(f) == [c \in W!Pool |-> W!Weight(c)] = f
Above(c, d) == W!Weight(c) > W!Weight(d)
Window(v) == {<<w.from, w.to>> : w \in InCase(windows, v)}
(* A case file: the kill window, the suspects with what each is held for,  *)
(* the cleared with the alibi quoted, and the name of the murderer.        *)
ExpectCaseFile(v, window, held, cleared, murderer) ==
  /\ v \in {k.victim : k \in cases} /\ Window(v) = {window}
  /\ {<<s.color, s.basis>> : s \in InCase(suspects, v)} = held
  /\ {<<l.color, {<<a.room, a.tick>> : a \in l.quoting}>> : l \in ClearedLines(v)}
       = cleared
  /\ RevealLine(v) = murderer
Advice == V!Decision(V!Scan, (CHOOSE r \in roster : TRUE).impostors, pressure)
ExpectGame(level, win) ==
  /\ pressure = level
  /\ \A r \in roster : V!Win[r.aliveCrew, r.aliveImpostors] = win

CheckStances ==
  /\ ExpectStance(blue, "on-task", "on-task")
  /\ ExpectStance(lime, "off-task", "off-task")
  /\ ExpectStance(pink, "threat", "near-body")
  /\ ExpectStance(yellow, "threat", "vent")
  /\ ExpectStance(green, "unknown", "none")
CheckRoomDistance ==
  /\ walk[<<cafeteria, admin>>] = 50 /\ walk[<<medbay, admin>>] = 90
  /\ walk[<<cafeteria, storage>>] = 90 /\ walk[<<admin, admin>>] = 0
CheckStatuses ==
  ExpectStatus({blue, lime, pink, yellow}, "alive") /\ ExpectStatus({green}, "dead")
CheckRisks ==
  /\ ExpectRisk("neutral", {blue}, "low") /\ ExpectRisk("neutral", {lime}, "medium")
  /\ ExpectRisk("neutral", {pink, yellow}, "high")
  /\ ExpectRisk("neutral", {green, red}, "none")
  /\ ExpectRisk("neutral", {orange}, "unknown")
  /\ ExpectPick("neutral", yellow, "threat")
DemoPlaystyle ==
  /\ ExpectRisk("trusting", {yellow}, "high")
  /\ ExpectRisk("trusting", {lime, blue}, "low")
  /\ ExpectRisk("paranoid", {yellow, lime}, "high")
  /\ ExpectRisk("paranoid", {blue}, "medium")
  /\ AloneRiskBody("trusting", lime) = "off-task"
  /\ AloneRiskBody("paranoid", blue) = "on-task"
  /\ ExpectPick("trusting", yellow, "threat")
DemoMidRound ==
  /\ Occupants(storage) = {pink} /\ Occupants(cafeteria) = {lime}
  /\ Occupants(admin) = {yellow, blue}
  /\ LastSeen(yellow) = [room |-> admin, tick |-> 125]
  /\ LastSeen(orange) = NoSighting
  /\ V!Ranking = <<yellow, pink, lime, blue>>
  /\ RoundStats(0) = [alive |-> 4, dead |-> 1, ejected |-> 0, neverSighted |-> 0,
                      openCases |-> 1, ventSuspicions |-> 1, impostorFound |-> FALSE]
DemoTelemetry ==
  /\ ExpectWeights(yellow :> 570 @@ pink :> 430 @@ lime :> 0 @@ blue :> 0)
  /\ V!Explanations(yellow) =
       {[weight |-> 570, logodds |-> 2150, likelihood |-> 891,
         terms |-> {Term(yellow, "ventInferred", NoKey),
                    Term(yellow, "prior", NoKey), Term(yellow, "offTask", NoKey)}]}
  /\ 2150 = MapThenSumSet(LAMBDA t : W!Amount[t.source], About(terms, yellow))
  /\ V!Explanations(green) = {}

(* fd_dump_state: the facts of every section of the dump, of the slots     *)
(* modelled; none of the social facts is there.  What it says of the       *)
(* victim does hang on the order of firings: a dossier made from the       *)
(* sighting before the death is marked has a prior and an off-task term    *)
(* that stay, and may have taken note of where green was seen.             *)
DumpedBelief ==
  /\ terms \ {Term(green, "prior", NoKey), Term(green, "offTask", NoKey)} =
       {Term(c, "prior", NoKey) : c \in {yellow, pink, lime, blue}}
       \cup {Term(c, "offTask", NoKey) : c \in {yellow, pink, lime, blue}}
       \cup {Term(c, "castIron", green) : c \in {lime, blue}}
       \cup {Term(c, "nearBody", green) : c \in {pink, green}}
       \cup {Term(yellow, "ventInferred", NoKey), Term(blue, "onTask", NoKey)}
  /\ {<<s.color, s.weight, s.logodds>> : s \in suspicions} =
       {<<yellow, 570, 2150>>, <<pink, 430, 750>>, <<lime, 0, -7850>>,
        <<blue, 0, -8350>>}
DumpState ==
  /\ {<<r.impostors, r.aliveCrew, r.aliveImpostors, r.ejected>> : r \in roster}
       = {<<1, 3, 1, 0>>}
  /\ pressure = "high"
  /\ {<<m.color, m.seen, m.room, m.tasks>> : m \in {n \in crew : n.status = "alive"}}
       = {<<yellow, 125, admin, 0>>, <<lime, 175, cafeteria, 0>>,
          <<pink, 170, storage, 0>>, <<blue, 150, admin, 3>>}
  /\ \E m \in crew : /\ crew = {n \in crew : n.status = "alive"} \cup {m}
                     /\ m.color = green /\ m.status = "dead" /\ m.tasks = 0
                     /\ <<m.seen, m.room>> \in {<<-1, Nowhere>>, <<140, storage>>}
  /\ cases = {[victim |-> green, room |-> storage, tick |-> 178]}
  /\ {<<n.color, n.room, n.tick>> : n \in nearBody} =
       {<<pink, storage, 178>>, <<green, storage, 178>>}
  /\ vents = {[color |-> yellow, basis |-> "inferred"]}
  /\ accusations = {} /\ accuses = {} /\ defends = {} /\ contradicted = {}
  /\ DumpedBelief
  /\ {<<s.color, s.category, s.evidence>> : s \in stances} =
       {<<blue, "on-task", "on-task">>, <<pink, "threat", "near-body">>,
        <<lime, "off-task", "off-task">>, <<yellow, "threat", "vent">>}

(* The summary and the case file of the golden output.                     *)
RenderOutputs ==
  /\ SetToSortSeq(SummaryLines, Precedes) =
       <<[color |-> yellow, severity |-> "threat"],
         [color |-> pink, severity |-> "threat"],
         [color |-> lime, severity |-> "off-task"],
         [color |-> blue, severity |-> "on-task"]>>
  /\ Deceased = {green}
  /\ ExpectCaseFile(green, <<140, 178>>,
                    {<<yellow, "vented">>, <<pink, "near body">>},
                    {<<lime, {<<cafeteria, 175>>}>>, <<blue, {<<admin, 150>>}>>}, {})
  /\ AloneRiskBody("neutral", pink) = "near-body"
  /\ AloneRiskBody("neutral", yellow) = "vent"

CheckPostEjection ==
  /\ ExpectStatus({pink}, "ejected") /\ ExpectPick("neutral", yellow, "off-task")
  /\ ExpectStance(yellow, "off-task", "off-task")
  /\ ExpectRisk("neutral", {lime, blue}, "none")
  /\ PickVoteTarget("trusting") = NoTarget
  /\ AloneRiskBody("neutral", lime) = "all impostors ejected"
CheckPostReset ==
  /\ ExpectStatus({pink, green, blue}, "unknown")
  /\ ExpectRisk("neutral", {pink}, "unknown")
  /\ PickVoteTarget("neutral") = NoTarget

Expected(question) ==
  CASE question = "round" ->
         /\ RenderOutputs /\ CheckStances /\ CheckRoomDistance /\ CheckStatuses
         /\ CheckRisks /\ DemoPlaystyle /\ DemoMidRound /\ DemoTelemetry
         /\ DumpState
    [] question = "ejected" -> CheckPostEjection
    [] question = "fresh" -> CheckPostReset
    [] question = "glimpse" ->
         PickVoteTarget("paranoid").color = orange /\ ExpectStatus({white}, "unknown")
    [] question = "wide window" ->
         /\ ExpectCaseFile(green, <<0, 178>>, {}, {<<brown, {<<admin, 100>>}>>}, {})
         /\ ExpectStance(brown, "off-task", "off-task")
    [] question = "narrow window" ->
         /\ ExpectCaseFile(green, <<130, 178>>, {<<brown, "no alibi yet">>}, {},
                           {brown})
         /\ ExpectStance(brown, "threat", "accusation")
    [] question = "one glimpse each" ->
         /\ ExpectCaseFile(green, <<0, 178>>, {<<orange, "partially alibied">>},
                           {<<white, {<<admin, 90>>}>>}, {orange})
         /\ {<<a.room, a.tick>> : a \in FindAlibi(orange, green)} = {<<medbay, 100>>}
         /\ ExpectStance(white, "off-task", "off-task")
         /\ ExpectStance(orange, "threat", "accusation")
    [] question = "vent seen" -> ExpectStance(darkTeal, "threat", "vent")
    [] question = "two at large" ->
         /\ ExpectStance(yellow, "threat", "vent")
         /\ ExpectStance(pink, "threat", "near-body")
         /\ ExpectGame("critical", 133) /\ Above(yellow, lime)
         /\ ExpectWeights(orange :> 167 @@ yellow :> 291 @@ pink :> 210
                          @@ lime :> 166 @@ blue :> 166)
    [] question = "one at large" ->
         /\ ExpectStance(yellow, "threat", "vent")
         /\ ExpectWeights(orange :> 211 @@ yellow :> 369 @@ lime :> 210 @@ blue :> 210)
    [] question = "none at large" ->
         StanceNow(yellow) # "threat" /\ ExpectGame("high", 1000)
    [] question = "flat" ->
         Advice = [target |-> orange, suspicion |-> 250, confidence |-> 0,
                   recommendation |-> "skip"]
    [] question = "endgame" ->
         /\ ExpectGame("critical", 0)
         /\ ExpectWeights(yellow :> 695 @@ blue :> 305)
         /\ Advice = [target |-> yellow, suspicion |-> 695, confidence |-> 390,
                      recommendation |-> "cast"]
    [] question = "claims" ->
         /\ \A c \in {pink, yellow, brown} : Above(c, gray)
         /\ \A c \in {lime, blue} : Above(gray, c)
         /\ ExpectWeights(yellow :> 164 @@ pink :> 256 @@ lime :> 116
                          @@ blue :> 115 @@ gray :> 140 @@ brown :> 209)
    [] question = "before the reveal" ->
         ExpectWeights(orange :> 161 @@ pink :> 161 @@ lime :> 161 @@ blue :> 161
                       @@ gray :> 161 @@ white :> 195 @@ brown :> 0)
    [] question = "after the reveal" ->
         /\ \A c \in {blue, white, lime} : Above(c, orange)
         /\ ExpectWeights(orange :> 135 @@ lime :> 205 @@ blue :> 257
                          @@ gray :> 182 @@ white :> 221 @@ brown :> 0)
    [] OTHER -> answered = ""

(* The driver's verdict does not depend on the engine's conflict           *)
(* resolution: whichever of the activations of equal salience fires first, *)
(* every verdict, weight, case file and dumped fact that the checks of     *)
(* driver.c or its golden output (tests/expected/driver.out) name is the   *)
(* one given, what the dump says of the dead victim excepted (DumpState).  *)
(* Not compared: the wording of the lines, the order of suspects,          *)
(* clearances and facts in them, n-players and the route and ticks of a    *)
(* vent (no slot of the model), the trace and the run counters.            *)
ScenariosHold == Expected(answered)
=============================================================================
