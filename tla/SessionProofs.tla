--------------------------- MODULE SessionProofs ---------------------------
(***************************************************************************)
(* Session keeps its promises for any ids, names, ticks and streams.       *)
(***************************************************************************)
EXTENDS Session, TLAPS

(* No two ids share a registered name; a player may be referred to only    *)
(* while all players are named or none is.                                 *)
RegistryOK ==
  /\ \A i, j \in Ids : (registered[i] = registered[j] /\ registered[i] # Unset)
                       => i = j
  /\ (reported # {} \/ selfId # Unset) => Conventional
  /\ selfId \in Players \cup {Unset}

(* Each fact is a report under its player's name, and each report has a    *)
(* fact unless the name is too long.                                       *)
FactsOK ==
  /\ \A f \in facts : \E r \in reported : f \in Landing(r.id, r.tick)
  /\ \A r \in reported : Landing(r.id, r.tick) \subseteq facts
SelfOK ==
  /\ selfFacts = IF selfId = Unset THEN {} ELSE {NameOf(selfId)} \ Overlong
  /\ \A r \in reported : r.id # selfId

NamesInv == SessionTypeOK /\ RegistryOK /\ FactsOK /\ SelfOK

USE DefaultsDiffer, SessionConstants

LEMMA NameOfType ==
  ASSUME SessionTypeOK, NEW i \in Ids
  PROVE  NameOf(i) \in Names
BY DEF NameOf, SessionTypeOK

LEMMA LandingType ==
  ASSUME SessionTypeOK, NEW i \in Ids, NEW t \in Ticks
  PROVE  Landing(i, t) \in SUBSET [color : Names, tick : Ticks]
BY NameOfType DEF Landing

(***************************************************************************)
(* Under the convention a name stands for one player.                      *)
(***************************************************************************)
LEMMA NamesDiffer ==
  ASSUME SessionTypeOK, RegistryOK, Conventional,
         NEW i \in Players, NEW j \in Players, NameOf(i) = NameOf(j)
  PROVE  i = j
<1>1. CASE \A k \in Players : registered[k] # Unset
  BY <1>1 DEF NameOf, RegistryOK
<1>2. CASE registered = Nameless
  BY <1>2 DEF NameOf, Nameless
<1>. QED BY <1>1, <1>2 DEF Conventional

LEMMA LowestOfOne ==
  ASSUME NEW i \in Ids
  PROVE  Lowest({i}) = i
BY DEF Lowest

LEMMA NameLeadsBack ==
  ASSUME SessionTypeOK, RegistryOK, Conventional, NEW i \in Players
  PROVE  PlayerFromName(NameOf(i)) = i
<1>1. CASE \A k \in Players : registered[k] # Unset
  <2>1. NameOf(i) = registered[i] /\ registered[i] # Unset
    BY <1>1 DEF NameOf
  <2>2. \A j \in Ids : registered[j] = NameOf(i) <=> j = i
    BY <2>1 DEF RegistryOK
  <2>3. Registrants(NameOf(i)) = {i}
    BY <2>2 DEF Registrants
  <2>. QED BY <2>3, LowestOfOne DEF PlayerFromName
<1>2. CASE registered = Nameless
  <2>1. NameOf(i) = DefaultName[i] /\ NameOf(i) # Unset
    BY <1>2 DEF NameOf, Nameless
  <2>2. Registrants(NameOf(i)) = {}
    BY <1>2, <2>1 DEF Registrants, Nameless
  <2>3. Defaults(NameOf(i)) = {i}
    BY <1>2, <2>1 DEF Defaults, Nameless
  <2>. QED BY <2>2, <2>3, LowestOfOne DEF PlayerFromName
<1>. QED BY <1>1, <1>2 DEF Conventional

LEMMA FaithfulFromInv ==
  ASSUME NamesInv
  PROVE  NamesAreFaithful
<1>. USE DEF NamesInv
<1>1. ASSUME NEW i \in Players
      PROVE  {f.tick : f \in {g \in facts : g.color = NameOf(i)}} =
             IF NameOf(i) \in Overlong THEN {}
             ELSE {r.tick : r \in {q \in reported : q.id = i}}
  <2>1. ASSUME NEW f \in facts, f.color = NameOf(i)
        PROVE  /\ NameOf(i) \notin Overlong
               /\ \E r \in reported : r.id = i /\ r.tick = f.tick
    <3>1. PICK r \in reported : f \in Landing(r.id, r.tick)
      BY DEF FactsOK
    <3>2. r.id \in Players /\ f.color = NameOf(r.id) /\ f.tick = r.tick
          /\ f.color \notin Overlong
      BY <3>1 DEF Landing, SessionTypeOK
    <3>3. r.id = i
      BY <2>1, <3>2, NamesDiffer DEF RegistryOK
    <3>. QED BY <2>1, <3>2, <3>3
  <2>2. ASSUME NEW r \in reported, r.id = i, NameOf(i) \notin Overlong
        PROVE  [color |-> NameOf(i), tick |-> r.tick] \in facts
    BY <2>2 DEF FactsOK, Landing
  <2>. DEFINE found    == {f.tick : f \in {g \in facts : g.color = NameOf(i)}}
              expected == {r.tick : r \in {q \in reported : q.id = i}}
  <2>3. CASE NameOf(i) \in Overlong
    BY <2>1, <2>3
  <2>4. CASE NameOf(i) \notin Overlong
    <3>1. \A t \in found : t \in expected
      BY <2>1
    <3>2. ASSUME NEW r \in reported, r.id = i
          PROVE  r.tick \in found
      <4>. DEFINE g == [color |-> NameOf(i), tick |-> r.tick]
      <4>1. g \in facts
        BY <2>2, <2>4, <3>2
      <4>2. g.color = NameOf(i) /\ g.tick = r.tick
        OBVIOUS
      <4>. HIDE DEF g
      <4>. QED BY <4>1, <4>2
    <3>3. \A t \in expected : t \in found
      BY <3>2
    <3>. HIDE DEF found, expected
    <3>4. found = expected
      BY <3>1, <3>3
    <3>. QED BY <2>4, <3>4 DEF found, expected
  <2>. QED BY <2>3, <2>4
<1>2. ASSUME NEW f \in facts
      PROVE  \E r \in reported : r.id = PlayerFromName(f.color)
  <2>1. PICK r \in reported : f \in Landing(r.id, r.tick)
    BY DEF FactsOK
  <2>2. r.id \in Players /\ f.color = NameOf(r.id)
    BY <2>1 DEF Landing, SessionTypeOK
  <2>. QED BY <2>2, NameLeadsBack DEF RegistryOK
<1>. QED BY <1>1, <1>2 DEF NamesAreFaithful, SelfOK

(***************************************************************************)
(* The invariant.                                                          *)
(***************************************************************************)
LEMMA TypeInit == SessionInit => SessionTypeOK
<1>. SUFFICES ASSUME SessionInit PROVE SessionTypeOK
  OBVIOUS
<1>1. registered \in [Ids -> Names \cup {Unset}] /\ prior \in [Ids -> Ticks \cup {NoPrior}]
  BY DEF SessionInit, Nameless
<1>2. trace \in [stream : Streams \cup Files \cup {NoStream}, owned : BOOLEAN]
  BY DEF SessionInit, NoTrace
<1>3. alive \in BOOLEAN
  BY DEF SessionInit
<1>5. style \in 0..2
  BY DEF SessionInit
<1>4. /\ selfId \in Ids \cup {Unset} /\ selfFacts \in SUBSET Names
      /\ facts \in SUBSET [color : Names, tick : Ticks]
      /\ reported \in SUBSET [id : Players, tick : Ticks]
      /\ open \in SUBSET (Streams \cup Files) /\ held \in SUBSET Streams
  BY DEF SessionInit
<1>. QED BY <1>1, <1>2, <1>3, <1>4, <1>5 DEF SessionTypeOK

LEMMA NamesInit == SessionInit => NamesInv
<1>1. SessionInit => RegistryOK
  BY DEF SessionInit, RegistryOK, Nameless
<1>2. SessionInit => FactsOK /\ SelfOK
  BY DEF SessionInit, FactsOK, SelfOK
<1>. QED BY <1>1, <1>2, TypeInit DEF NamesInv

(* What a name stands for changes with the registry only.                  *)
LEMMA SameRegistry ==
  ASSUME registered' = registered
  PROVE  /\ \A i : NameOf(i)' = NameOf(i)
         /\ \A i, t : Landing(i, t)' = Landing(i, t)
         /\ Conventional' = Conventional
BY DEF NameOf, Landing, Conventional

LEMMA ForgottenKeeps ==
  ASSUME NamesInv, RoundForgotten, SessionTypeOK',
         registered' = registered \/ registered' = Nameless
  PROVE  NamesInv'
BY DEF NamesInv, RoundForgotten, RegistryOK, FactsOK, SelfOK, Nameless

LEMMA TypeStep ==
  ASSUME SessionTypeOK, [SessionNext]_sessionVars
  PROVE  SessionTypeOK'
<1>. USE DEF SessionTypeOK, sessionVars, roundState, traceState
<1>1. ASSUME RoundForgotten
      PROVE  /\ selfId' \in Ids \cup {Unset} /\ selfFacts' \in SUBSET Names
             /\ facts' \in SUBSET [color : Names, tick : Ticks]
             /\ reported' \in SUBSET [id : Players, tick : Ticks]
             /\ prior' \in [Ids -> Ticks \cup {NoPrior}]
  BY <1>1 DEF RoundForgotten
<1>2. Nameless \in [Ids -> Names \cup {Unset}]
  BY DEF Nameless
<1>3. NoTrace \in [stream : Streams \cup Files \cup {NoStream}, owned : BOOLEAN]
  BY DEF NoTrace
<1>4. Released \in SUBSET (Streams \cup Files)
  BY DEF Released
<1>5. CASE Create
  BY <1>1, <1>2, <1>3, <1>5 DEF Create
<1>6. CASE Reset
  BY <1>1, <1>6 DEF Reset, ForgetRound
<1>7. CASE Destroy
  BY <1>1, <1>2, <1>3, <1>4, <1>7 DEF Destroy
<1>8. CASE SetPlayerName
  BY <1>8 DEF SetPlayerName
<1>9. CASE SetSelf
  <2>1. PICK i \in Players : selfId' = i /\ selfFacts' = {NameOf(i)} \ Overlong
                             /\ UNCHANGED <<alive, registered, style, facts, prior,
                                            reported, traceState>>
    BY <1>9 DEF SetSelf
  <2>2. NameOf(i) \in Names
    BY NameOfType
  <2>. QED BY <2>1, <2>2
<1>10. CASE SetPlaystyle
  BY <1>10 DEF SetPlaystyle, Clamped
<1>11. CASE ObservePlayer
  <2>1. PICK i \in Players, t \in Ticks :
          /\ reported' = reported \cup {[id |-> i, tick |-> t]}
          /\ prior' = [prior EXCEPT ![i] = t]
          /\ facts' = facts \cup Landing(i, t)
          /\ UNCHANGED <<alive, registered, selfId, selfFacts, style, traceState>>
    BY <1>11 DEF ObservePlayer
  <2>2. Landing(i, t) \in SUBSET [color : Names, tick : Ticks]
    BY LandingType
  <2>. QED BY <2>1, <2>2
<1>12. CASE TraceBegin \/ TraceBeginPath \/ TraceEnd
  <2>1. /\ UNCHANGED <<alive, registered, roundState, style, held>>
        /\ \/ open' = Released
           \/ \E f \in Files : open' = Released \cup {f}
    BY <1>12 DEF TraceBegin, TraceBeginPath, TraceEnd
  <2>2. \/ trace' = NoTrace
        \/ \E s \in Streams \cup Files, b \in BOOLEAN :
             trace' = [stream |-> s, owned |-> b]
    BY <1>12 DEF TraceBegin, TraceBeginPath, TraceEnd
  <2>3. trace' \in [stream : Streams \cup Files \cup {NoStream}, owned : BOOLEAN]
    BY <2>2, <1>3
  <2>4. open' \in SUBSET (Streams \cup Files)
    BY <2>1, <1>4
  <2>. QED BY <2>1, <2>3, <2>4
<1>13. CASE CallerOpens \/ CallerCloses
  BY <1>13 DEF CallerOpens, CallerCloses
<1>14. CASE UNCHANGED sessionVars
  BY <1>14
<1>. QED BY <1>5, <1>6, <1>7, <1>8, <1>9, <1>10, <1>11, <1>12, <1>13, <1>14
           DEF SessionNext

LEMMA NamesStep ==
  ASSUME NamesInv, [SessionNext]_sessionVars
  PROVE  NamesInv'
<1>0. SessionTypeOK'
  BY TypeStep DEF NamesInv
<1>1. CASE Create \/ Reset \/ Destroy
  BY <1>0, <1>1, ForgottenKeeps
     DEF Create, Reset, Destroy, ForgetRound
<1>2. CASE SetPlayerName
  <2>1. PICK i \in Ids, n \in Names :
          /\ Free(i, n) /\ reported = {} /\ selfId = Unset
          /\ registered' = [registered EXCEPT ![i] = n]
          /\ UNCHANGED <<alive, roundState, style, traceState>>
    BY <1>2 DEF SetPlayerName
  <2>2. facts' = {} /\ reported' = {} /\ selfId' = Unset /\ selfFacts' = {}
    BY <2>1 DEF NamesInv, FactsOK, SelfOK, roundState
  <2>3. RegistryOK'
    BY <2>1, <2>2 DEF NamesInv, SessionTypeOK, RegistryOK, Free
  <2>. QED BY <1>0, <2>2, <2>3 DEF NamesInv, FactsOK, SelfOK
<1>3. CASE SetSelf
  <2>1. PICK i \in Players :
          /\ Conventional /\ reported = {} /\ selfId' = i
          /\ selfFacts' = {NameOf(i)} \ Overlong
          /\ UNCHANGED <<alive, registered, style, facts, prior, reported, traceState>>
    BY <1>3 DEF SetSelf
  <2>2. facts = {}
    BY <2>1 DEF NamesInv, FactsOK
  <2>. QED
    BY <1>0, <2>1, <2>2, SameRegistry DEF NamesInv, RegistryOK, FactsOK, SelfOK
<1>4. CASE ObservePlayer
  <2>1. PICK i \in Players, t \in Ticks :
          /\ Conventional /\ i # selfId
          /\ reported' = reported \cup {[id |-> i, tick |-> t]}
          /\ facts' = facts \cup Landing(i, t)
          /\ UNCHANGED <<alive, registered, selfId, selfFacts, style, traceState>>
    BY <1>4 DEF ObservePlayer
  <2>2. FactsOK'
    <3>1. ASSUME NEW f \in facts'
          PROVE  \E r \in reported' : f \in Landing(r.id, r.tick)'
      <4>1. CASE f \in facts
        BY <2>1, <4>1, SameRegistry DEF NamesInv, FactsOK
      <4>2. CASE f \in Landing(i, t)
        <5>. DEFINE r == [id |-> i, tick |-> t]
        <5>1. r \in reported' /\ r.id = i /\ r.tick = t
          BY <2>1
        <5>. QED BY <2>1, <4>2, <5>1, SameRegistry
      <4>. QED BY <2>1, <4>1, <4>2
    <3>2. ASSUME NEW r \in reported'
          PROVE  Landing(r.id, r.tick)' \subseteq facts'
      <4>1. CASE r \in reported
        BY <2>1, <4>1, SameRegistry DEF NamesInv, FactsOK
      <4>2. CASE r = [id |-> i, tick |-> t]
        BY <2>1, <4>2, SameRegistry
      <4>. QED BY <2>1, <4>1, <4>2
    <3>. QED BY <3>1, <3>2 DEF FactsOK
  <2>3. RegistryOK'
    BY <2>1, SameRegistry DEF NamesInv, RegistryOK
  <2>4. SelfOK'
    BY <2>1 DEF NamesInv, SelfOK, NameOf
  <2>. QED BY <1>0, <2>2, <2>3, <2>4 DEF NamesInv
<1>5. CASE \/ SetPlaystyle \/ TraceBegin \/ TraceBeginPath \/ TraceEnd
           \/ CallerOpens \/ CallerCloses \/ UNCHANGED sessionVars
  <2>1. UNCHANGED <<registered, selfId, selfFacts, facts, reported>>
    BY <1>5 DEF SetPlaystyle, TraceBegin, TraceBeginPath, TraceEnd, CallerOpens,
                CallerCloses, sessionVars, roundState
  <2>2. RegistryOK'
    BY <2>1 DEF NamesInv, RegistryOK, Conventional
  <2>3. FactsOK' /\ SelfOK'
    BY <2>1 DEF NamesInv, FactsOK, SelfOK, Landing, NameOf
  <2>. QED BY <1>0, <2>2, <2>3 DEF NamesInv
<1>. QED BY <1>1, <1>2, <1>3, <1>4, <1>5 DEF SessionNext

(* Ids, names and facts correspond in every reachable state.               *)
THEOREM NamesAlwaysFaithful == SessionSpec => []NamesAreFaithful
<1>1. SessionInit => NamesInv
  BY NamesInit
<1>2. NamesInv /\ [SessionNext]_sessionVars => NamesInv'
  BY NamesStep
<1>3. NamesInv => NamesAreFaithful
  BY FaithfulFromInv
<1>. QED BY <1>1, <1>2, <1>3, PTL DEF SessionSpec

(***************************************************************************)
(* Streams.                                                                *)
(***************************************************************************)
StreamsInv ==
  /\ SessionTypeOK /\ StreamsAreAccounted
  /\ trace.owned => trace.stream \in Files
  /\ trace.stream \in Files => trace.owned

LEMMA StreamsStep ==
  ASSUME StreamsInv, [SessionNext]_sessionVars
  PROVE  StreamsInv'
<1>0. SessionTypeOK'
  BY TypeStep DEF StreamsInv
<1>. USE DEF StreamsInv, SessionTypeOK, StreamsAreAccounted, Released, NoTrace,
             sessionVars, traceState
<1>1. CASE Create
  BY <1>0, <1>1 DEF Create
<1>2. CASE Destroy
  BY <1>0, <1>2 DEF Destroy
<1>3. CASE TraceBegin
  BY <1>0, <1>3 DEF TraceBegin
<1>4. CASE TraceBeginPath
  BY <1>0, <1>4 DEF TraceBeginPath
<1>5. CASE TraceEnd
  BY <1>0, <1>5 DEF TraceEnd
<1>6. CASE CallerOpens
  BY <1>0, <1>6 DEF CallerOpens
<1>7. CASE CallerCloses
  BY <1>0, <1>7 DEF CallerCloses
<1>8. CASE \/ Reset \/ SetPlayerName \/ SetSelf \/ SetPlaystyle \/ ObservePlayer
           \/ UNCHANGED sessionVars
  <2>1. UNCHANGED <<alive, trace, open, held>>
    BY <1>8 DEF Reset, SetPlayerName, SetSelf, SetPlaystyle, ObservePlayer
  <2>. QED BY <1>0, <2>1
<1>. QED BY <1>1, <1>2, <1>3, <1>4, <1>5, <1>6, <1>7, <1>8 DEF SessionNext

(* No file leaks, no stream of the caller's is closed, no trace outlives   *)
(* its stream.                                                             *)
THEOREM StreamsAlwaysAccounted == SessionSpec => []StreamsAreAccounted
<1>1. SessionInit => StreamsInv
  BY TypeInit DEF SessionInit, StreamsInv, StreamsAreAccounted, NoTrace
<1>2. StreamsInv /\ [SessionNext]_sessionVars => StreamsInv'
  BY StreamsStep
<1>3. StreamsInv => StreamsAreAccounted
  BY DEF StreamsInv
<1>. QED BY <1>1, <1>2, <1>3, PTL DEF SessionSpec

(***************************************************************************)
(* The two memories of a round.                                            *)
(***************************************************************************)
MemoriesInv == SessionTypeOK /\ MemoriesAgree

LEMMA MemoriesStep ==
  ASSUME MemoriesInv, [SessionNext]_sessionVars
  PROVE  MemoriesInv'
<1>0. SessionTypeOK'
  BY TypeStep DEF MemoriesInv
<1>1. CASE Create \/ Reset \/ Destroy
  BY <1>0, <1>1 DEF Create, Reset, Destroy, ForgetRound, RoundForgotten,
                    MemoriesInv, MemoriesAgree
<1>2. CASE ObservePlayer
  <2>1. PICK i \in Players, t \in Ticks :
          /\ reported' = reported \cup {[id |-> i, tick |-> t]}
          /\ prior' = [prior EXCEPT ![i] = t]
    BY <1>2 DEF ObservePlayer
  <2>. DEFINE seen(j) == {r.tick : r \in {q \in reported : q.id = j}}
  <2>2. ASSUME NEW j \in Ids
        PROVE  IF seen(j)' = {} THEN prior'[j] = NoPrior ELSE prior'[j] \in seen(j)'
    <3>1. CASE j = i
      <4>1. t \in seen(j)'
        <5>. DEFINE r == [id |-> i, tick |-> t]
        <5>1. r \in reported' /\ r.id = j /\ r.tick = t
          BY <2>1, <3>1
        <5>. HIDE DEF r
        <5>. QED BY <5>1
      <4>2. prior'[j] = t
        BY <2>1, <3>1 DEF MemoriesInv, SessionTypeOK
      <4>. QED BY <4>1, <4>2
    <3>2. CASE j # i
      <4>1. seen(j)' = seen(j)
        BY <2>1, <3>2
      <4>2. prior'[j] = prior[j]
        BY <2>1, <3>2 DEF MemoriesInv, SessionTypeOK
      <4>. QED BY <4>1, <4>2 DEF MemoriesInv, MemoriesAgree
    <3>. QED BY <3>1, <3>2
  <2>. QED BY <1>0, <2>2 DEF MemoriesInv, MemoriesAgree
<1>3. CASE \/ SetPlayerName \/ SetSelf \/ SetPlaystyle \/ TraceBegin
           \/ TraceBeginPath \/ TraceEnd \/ CallerOpens \/ CallerCloses
           \/ UNCHANGED sessionVars
  <2>1. UNCHANGED <<prior, reported>>
    BY <1>3 DEF SetPlayerName, SetSelf, SetPlaystyle, TraceBegin, TraceBeginPath,
                TraceEnd, CallerOpens, CallerCloses, sessionVars, roundState
  <2>. QED BY <1>0, <2>1 DEF MemoriesInv, MemoriesAgree
<1>. QED BY <1>1, <1>2, <1>3 DEF SessionNext

(* The vent check never compares with a sighting of another round.         *)
THEOREM MemoriesAlwaysAgree == SessionSpec => []MemoriesAgree
<1>1. SessionInit => MemoriesInv
  BY TypeInit DEF SessionInit, MemoriesInv, MemoriesAgree
<1>2. MemoriesInv /\ [SessionNext]_sessionVars => MemoriesInv'
  BY MemoriesStep
<1>3. MemoriesInv => MemoriesAgree
  BY DEF MemoriesInv
<1>. QED BY <1>1, <1>2, <1>3, PTL DEF SessionSpec
=============================================================================
