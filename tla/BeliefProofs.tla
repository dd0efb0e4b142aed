--------------------------- MODULE BeliefProofs ---------------------------
(***************************************************************************)
(* The belief layer proved: it leaves the fact layers alone, counts each   *)
(* evidence instance once, its logical terms never outlive the facts that  *)
(* called for them, it charges what was seen and heard, its pool is the    *)
(* living, and its rules come to an end.                                   *)
(***************************************************************************)
EXTENDS BeliefsProps, BeliefsProgress, DetectiveProofs

LEMMA StepsOfDetective ==
  ASSUME BeliefsNext \/ UNCHANGED everyVar
  PROVE  [Next]_allVars
<1>1. CASE Call
  BY <1>1 DEF Call, Next
<1>2. CASE Hear
  BY <1>2 DEF Hear, ObserveClaim, ObserveVote, ObserveDefense
<1>3. CASE BeliefRule
  BY <1>3 DEF BeliefRule, RetractSuspicion, ClaimRules, DeriveContradiction,
              DeriveCorroboration, SuspicionEnsure, AssertTerm
<1>4. CASE DetectiveRule
  BY <1>4 DEF DetectiveRule, Next
<1>5. CASE Return
  BY <1>5 DEF Return, Next
<1>6. CASE UNCHANGED everyVar
  BY <1>6 DEF everyVar
<1> QED
  BY <1>1, <1>2, <1>3, <1>4, <1>5, <1>6 DEF BeliefsNext

(* The belief rules write no fact of Detective and start no rule of it     *)
(* early: every behaviour is one of Detective, so what is proved of        *)
(* Detective's Spec holds with claims, votes and weights on the agenda.    *)
THEOREM BeliefsImplementDetective == BeliefsSpec => Spec
<1>1. BeliefsInit => Init
  BY DEF BeliefsInit
<1> QED
  BY <1>1, StepsOfDetective, PTL DEF BeliefsSpec, Spec

(***************************************************************************)
(* How a step changes the terms: one more that was missing, or those whose *)
(* evidence stands after it.                                               *)
(***************************************************************************)
factVars == <<inputVars, dossierVars, caseVars, testimonyVars>>

LEMMA TermStep ==
  ASSUME BeliefsNext \/ UNCHANGED everyVar
  PROVE  \/ UNCHANGED <<terms, factVars>>
         \/ terms' = Standing(terms, Band90Terms')
         \/ /\ \E t \in Missing(PriorTerms) \cup Missing(Band90Terms) :
                 terms' = terms \cup {t}
            /\ UNCHANGED factVars
<1> USE DEF factVars
<1>1. CASE Call \/ Hear \/ DetectiveRule
  BY <1>1 DEF Call, Hear, DetectiveRule, Maintained
<1>2. CASE BeliefRule
  BY <1>2 DEF BeliefRule, RetractSuspicion, SuspicionEnsure, AssertTerm,
              Maintained, allVars, vars
<1>3. CASE Return
  BY <1>3 DEF Return, EndRun, W!Normalize
<1>4. CASE UNCHANGED everyVar
  BY <1>4 DEF everyVar, beliefVars, allVars, vars
<1> QED
  BY <1>1, <1>2, <1>3, <1>4 DEF BeliefsNext

(* An evidence instance is counted once, however often it is re-derived or *)
(* on however many clearances it rests, and in whatever order (templates.  *)
(* clp: logodds-term, one per color, source and key).                      *)
CountedOnce == \A t, u \in terms : SameTerm(t, u) => t = u

(* One term per color, source and key, in every reachable state, however   *)
(* many cases or sightings call for it (templates.clp: logodds-term).      *)
THEOREM EvidenceCountedOnce == BeliefsSpec => []CountedOnce
<1>1. BeliefsInit => CountedOnce
  BY DEF BeliefsInit, W!WeightsInit, CountedOnce
<1>2. CountedOnce /\ [BeliefsNext]_everyVar => CountedOnce'
  <2> SUFFICES ASSUME CountedOnce, BeliefsNext \/ UNCHANGED everyVar
               PROVE  CountedOnce'
    OBVIOUS
  <2>1. CASE UNCHANGED terms
    BY <2>1 DEF CountedOnce, SameTerm
  <2>2. CASE terms' = Standing(terms, Band90Terms')
    BY <2>2 DEF CountedOnce, SameTerm, Standing
  <2>3. ASSUME NEW t \in Missing(PriorTerms) \cup Missing(Band90Terms),
               terms' = terms \cup {t}
        PROVE  CountedOnce'
    BY <2>3 DEF CountedOnce, SameTerm, Missing
  <2> QED
    BY <2>1, <2>2, <2>3, TermStep
<1> QED
  BY <1>1, <1>2, PTL DEF BeliefsSpec

(***************************************************************************)
(* Grounds: a term with a logical CE is always one the facts of the moment *)
(* call for.  Not by a guard of the rules that read it -- each step that   *)
(* changes a fact has to take along the terms it was the ground of.        *)
(***************************************************************************)
Grounded == \A t \in terms : t.source \in Logical => t \in Band90Terms
Untainted == \A p \in corroborated : p.a \notin contradicted /\ p.b \notin contradicted

LEMMA PriorIsPlain ==
  ASSUME NEW t \in PriorTerms
  PROVE  t.source \notin Logical
  BY DEF PriorTerms, Term, Logical

LEMMA SameGrounds ==
  ASSUME UNCHANGED factVars
  PROVE  Band90Terms' = Band90Terms
<1> USE DEF factVars, inputVars, dossierVars, caseVars, testimonyVars, Term,
            About
<1>1. UNCHANGED <<CastIronTerms, VentTerms, AccusationTerms, NearBodyTerms>>
  BY DEF CastIronTerms, VentTerms, AccusationTerms, NearBodyTerms, AtBody,
         HasCastIron
<1>2. UNCHANGED <<OffTaskTerms, OnTaskTerms>>
  BY DEF OffTaskTerms, OnTaskTerms, Living
<1>3. UNCHANGED <<ContradictionTerms, SelfReportTerms, CoLocationTerms, SilentTerms>>
  BY DEF ContradictionTerms, SelfReportTerms, CoLocationTerms, SilentTerms,
         AtBody, Placed, Speaks
<1>4. UNCHANGED <<AccuseImpostorTerms, DefendImpostorTerms, CoAccuseTerms,
                  PackClearedTerms>>
  BY DEF AccuseImpostorTerms, DefendImpostorTerms, CoAccuseTerms,
         PackClearedTerms, Revealed
<1> QED
  BY <1>1, <1>2, <1>3, <1>4 DEF Band90Terms

LEMMA GroundedStep ==
  ASSUME Grounded, BeliefsNext \/ UNCHANGED everyVar
  PROVE  Grounded'
<1>1. CASE UNCHANGED <<terms, factVars>>
  BY <1>1, SameGrounds DEF Grounded
<1>2. CASE terms' = Standing(terms, Band90Terms')
  BY <1>2 DEF Grounded, Standing
<1>3. ASSUME NEW t \in Missing(PriorTerms) \cup Missing(Band90Terms),
             terms' = terms \cup {t}, UNCHANGED factVars
      PROVE  Grounded'
  <2>1. t.source \in Logical => t \in Band90Terms
    BY PriorIsPlain DEF Missing
  <2> QED
    BY <1>3, <2>1, SameGrounds DEF Grounded
<1> QED
  BY <1>1, <1>2, <1>3, TermStep

LEMMA AlwaysGrounded == BeliefsSpec => []Grounded
<1>1. BeliefsInit => Grounded
  BY DEF BeliefsInit, W!WeightsInit, Grounded
<1>2. Grounded /\ [BeliefsNext]_everyVar => Grounded'
  BY GroundedStep
<1> QED
  BY <1>1, <1>2, PTL DEF BeliefsSpec

(***************************************************************************)
(* At the fixpoint every term the facts call for is there.                 *)
(***************************************************************************)
LEMMA QuietHolds ==
  ASSUME ~ Pending90, NEW t \in Band90Terms
  PROVE  Held(t.color, t.source, t.key)
<1>1. Missing(Band90Terms) = {}
  BY DEF Pending90
<1>2. \/ t \in terms
      \/ \E u \in terms : SameTerm(t, u)
  BY <1>1 DEF Missing
<1> QED
  BY <1>2 DEF SameTerm, Held

LEMMA SettledHolds ==
  ASSUME Settled, NEW t \in Band90Terms
  PROVE  Held(t.color, t.source, t.key)
  BY QuietHolds DEF Settled

(* Whoever defended or accused a revealed impostor has been scored by the  *)
(* time a query answers, in whatever order votes and reveal came           *)
(* (social.clp: term-social-accuse-impostor, term-social-defend-impostor). *)
THEOREM AlwaysRetroScored == BeliefsSpec => []RetroScored
<1>1. RetroScored
  <2> SUFFICES ASSUME Settled, NEW x \in ejections, x.impostor,
                      NEW a \in Colors \ {x.color}
               PROVE  /\ [a |-> a, b |-> x.color] \in defends
                           => Held(a, "defendImpostor", x.color)
                      /\ [a |-> a, b |-> x.color] \in accuses
                           => Held(a, "accuseImpostor", x.color)
    BY DEF RetroScored
  <2> DEFINE e == [a |-> a, b |-> x.color]
  <2>1. x.color \in Revealed /\ e.b = x.color /\ e.a = a
    BY DEF Revealed
  <2>2. e \in defends => Term(e.a, "defendImpostor", e.b) \in Band90Terms
    BY <2>1 DEF Band90Terms, DefendImpostorTerms
  <2>3. e \in accuses => Term(e.a, "accuseImpostor", e.b) \in Band90Terms
    BY <2>1 DEF Band90Terms, AccuseImpostorTerms
  <2>4. \A source : /\ Term(e.a, source, e.b).color = a
                    /\ Term(e.a, source, e.b).source = source
                    /\ Term(e.a, source, e.b).key = x.color
    BY DEF Term
  <2> QED
    BY <2>2, <2>3, <2>4, SettledHolds
<1> QED
  BY <1>1, PTL

LEMMA UntaintedStep ==
  ASSUME Untainted, BeliefsNext \/ UNCHANGED everyVar
  PROVE  Untainted'
<1>1. CASE UNCHANGED <<contradicted, corroborated>>
  BY <1>1 DEF Untainted
<1>2. CASE DeriveContradiction
  BY <1>2 DEF DeriveContradiction, WithoutPairs, Untainted
<1>3. CASE DeriveCorroboration
  <2>1. PICK p \in CorroborationLHS : corroborated' = corroborated \cup {p}
    BY <1>3 DEF DeriveCorroboration
  <2>2. p.a \notin contradicted /\ p.b \notin contradicted
    BY DEF CorroborationLHS
  <2>3. contradicted' = contradicted
    BY <1>3 DEF DeriveCorroboration
  <2> QED
    BY <2>1, <2>2, <2>3 DEF Untainted
<1>4. CASE Call \/ Hear \/ DetectiveRule \/ Return \/ UNCHANGED everyVar
  BY <1>1, <1>4 DEF Call, Hear, ObserveClaim, ObserveVote, ObserveDefense,
                    DetectiveRule, Return, everyVar, testimonyVars
<1>5. CASE BeliefRule
  BY <1>1, <1>2, <1>3, <1>5
     DEF BeliefRule, ClaimRules, RetractSuspicion, SuspicionEnsure, AssertTerm,
         testimonyVars
<1> QED
  BY <1>4, <1>5 DEF BeliefsNext

LEMMA CoLocationGround ==
  ASSUME NEW t \in Band90Terms, t.source = "coLocation"
  PROVE  \E p \in corroborated : \/ t.color = p.a /\ t.key = p.b
                                 \/ t.color = p.b /\ t.key = p.a
<1>1. t \notin CastIronTerms \cup VentTerms \cup AccusationTerms \cup NearBodyTerms
  BY DEF CastIronTerms, VentTerms, AccusationTerms, NearBodyTerms, Term
<1>2. t \notin OffTaskTerms \cup OnTaskTerms \cup ContradictionTerms \cup SelfReportTerms
  BY DEF OffTaskTerms, OnTaskTerms, ContradictionTerms, SelfReportTerms, Term
<1>3. t \notin SilentTerms
  BY DEF SilentTerms, Term
<1>4. t \notin AccuseImpostorTerms \cup DefendImpostorTerms \cup CoAccuseTerms
  BY DEF AccuseImpostorTerms, DefendImpostorTerms, CoAccuseTerms, Term
<1>5. t \notin PackClearedTerms
  BY DEF PackClearedTerms, Term
<1>6. t \in CoLocationTerms
  BY <1>1, <1>2, <1>3, <1>4, <1>5 DEF Band90Terms
<1> QED
  BY <1>6 DEF CoLocationTerms, Term

(* A corroboration exculpates both of a pair or neither, and the moment    *)
(* one of them is contradicted it exculpates nobody (claims.clp:           *)
(* derive-corroboration, term-co-location-a, term-co-location-b).          *)
THEOREM AlibisAlwaysMutual == BeliefsSpec => []AlibisAreMutual
<1>1. BeliefsInit => Untainted
  BY DEF BeliefsInit, TestimonyInit, Untainted
<1>2. Untainted /\ [BeliefsNext]_everyVar => Untainted'
  BY UntaintedStep
<1>3. Grounded /\ Untainted => AlibisAreMutual
  <2> SUFFICES ASSUME Grounded, Untainted
               PROVE  AlibisAreMutual
    OBVIOUS
  <2>1. \A t \in terms : t.source = "coLocation" => t \in Band90Terms
    BY DEF Grounded, Logical
  <2>2. ASSUME NEW t \in terms, t.source = "coLocation"
        PROVE  t.color \notin contradicted /\ t.key \notin contradicted
    BY <2>1, <2>2, CoLocationGround DEF Untainted
  <2>3. ASSUME Settled, NEW c, NEW d, Held(c, "coLocation", d)
        PROVE  Held(d, "coLocation", c)
    <3>1. PICK t \in terms : t.color = c /\ t.source = "coLocation" /\ t.key = d
      BY <2>3 DEF Held
    <3>2. PICK p \in corroborated : \/ c = p.a /\ d = p.b
                                    \/ c = p.b /\ d = p.a
      BY <2>1, <3>1, CoLocationGround
    <3>3. Term(d, "coLocation", c) \in Band90Terms
      BY <3>2 DEF Band90Terms, CoLocationTerms
    <3> QED
      BY <2>3, <3>3, SettledHolds DEF Term
  <2> QED
    BY <2>2, <2>3 DEF AlibisAreMutual
<1> QED
  BY <1>1, <1>2, <1>3, AlwaysGrounded, PTL DEF BeliefsSpec

(***************************************************************************)
(* Beliefs implements Weights: what the readers of the weights rely on.    *)
(***************************************************************************)
HeardOK ==
  /\ claims \subseteq Claim /\ accuses \subseteq Edge /\ defends \subseteq Edge
  /\ contradicted \subseteq Colors /\ corroborated \subseteq Edge
TermsOK == terms \subseteq LogoddsTerm
OneSuspicionEach == \A s, u \in suspicions : s.color = u.color => s = u

LEMMA HeardInit == BeliefsInit => HeardOK
  BY DEF BeliefsInit, TestimonyInit, HeardOK

LEMMA HeardStep ==
  ASSUME HeardOK, BeliefsNext \/ UNCHANGED everyVar
  PROVE  HeardOK'
<1> USE DEF HeardOK
<1>1. CASE UNCHANGED testimonyVars
  BY <1>1 DEF testimonyVars
<1>2. CASE Hear
  BY <1>2, TestimonyOK DEF Hear, ObserveClaim, ObserveVote, ObserveDefense
<1>3. CASE DeriveContradiction
  BY <1>3 DEF DeriveContradiction, ContradictionLHS, WithoutPairs, Claimants, Placed,
     Claim
<1>4. CASE DeriveCorroboration
  BY <1>4 DEF DeriveCorroboration, CorroborationLHS, Claimants, Placed, Claim, Edge
<1>5. CASE BeliefRule
  BY <1>1, <1>3, <1>4, <1>5
     DEF BeliefRule, ClaimRules, RetractSuspicion, SuspicionEnsure, AssertTerm
<1>6. CASE Call \/ DetectiveRule \/ Return \/ UNCHANGED everyVar
  BY <1>1, <1>6 DEF Call, DetectiveRule, Return, everyVar
<1> QED
  BY <1>2, <1>5, <1>6 DEF BeliefsNext

LEMMA CallsForTyped ==
  ASSUME TypeOK, HeardOK
  PROVE  PriorTerms \cup Band90Terms \subseteq LogoddsTerm
<1> DEFINE Typed(ts) == ts \subseteq LogoddsTerm
<1> USE DEF TypeOK, HeardOK, LogoddsTerm, Sources, Logical, Key, NoKey, Term
<1>1. Typed(PriorTerms) /\ Typed(OffTaskTerms) /\ Typed(OnTaskTerms)
  BY DEF PriorTerms, OffTaskTerms, OnTaskTerms, Living, Crewmember
<1>2. Typed(CastIronTerms)
  BY DEF CastIronTerms, CastIron
<1>3. Typed(VentTerms)
  BY DEF VentTerms, Vent
<1>4. Typed(AccusationTerms)
  BY DEF AccusationTerms, Accusation
<1>5. Typed(NearBodyTerms) /\ Typed(SilentTerms)
  BY DEF NearBodyTerms, SilentTerms, AtBody, Case, NearBody
<1>6. Typed(ContradictionTerms)
  BY DEF ContradictionTerms
<1>7. Typed(SelfReportTerms)
  BY DEF SelfReportTerms, Claim
<1>8. Typed(CoLocationTerms)
  BY DEF CoLocationTerms, Edge
<1>9. Typed(AccuseImpostorTerms) /\ Typed(DefendImpostorTerms)
  BY DEF AccuseImpostorTerms, DefendImpostorTerms, Edge
<1>10. Typed(CoAccuseTerms)
  BY DEF CoAccuseTerms, Edge
<1>11. Typed(PackClearedTerms)
  <2>1. ASSUME NEW p \in castIron \X accuses
        PROVE  [Term(p[2].a, "packCleared", p[1].color) EXCEPT !.via = p[1].victim]
                 \in LogoddsTerm
    <3>1. p[1] \in CastIron /\ p[2] \in Edge
      BY <2>1
    <3>2. p[1].color \in Colors /\ p[1].victim \in Colors /\ p[2].a \in Colors
      BY <3>1 DEF CastIron, Edge
    <3>3. Term(p[2].a, "packCleared", p[1].color) \in LogoddsTerm
      BY <3>2
    <3> DEFINE t == Term(p[2].a, "packCleared", p[1].color)
    <3>4. \A u \in LogoddsTerm, v \in Key : [u EXCEPT !.via = v] \in LogoddsTerm
      OBVIOUS
    <3>5. t \in LogoddsTerm /\ p[1].victim \in Key
      BY <3>2, <3>3
    <3> HIDE DEF t
    <3>6. [t EXCEPT !.via = p[1].victim] \in LogoddsTerm
      BY <3>4, <3>5
    <3> QED
      BY <3>6 DEF t
  <2> DEFINE F(p) == [Term(p[2].a, "packCleared", p[1].color)
                        EXCEPT !.via = p[1].victim]
  <2>2. \A p \in castIron \X accuses : F(p) \in LogoddsTerm
    BY <2>1
  <2>3. PackClearedTerms = {F(p) : p \in {q \in castIron \X accuses :
                              q[2].b = q[1].color /\ q[2].a # q[1].color}}
    BY Zenon DEF PackClearedTerms
  <2> HIDE DEF F
  <2> QED
    BY <2>2, <2>3
<1> QED
  BY <1>1, <1>2, <1>3, <1>4, <1>5, <1>6, <1>7, <1>8, <1>9, <1>10, <1>11
     DEF Band90Terms

LEMMA TermsStep ==
  ASSUME TypeOK, HeardOK, TermsOK, BeliefsNext \/ UNCHANGED everyVar
  PROVE  TermsOK'
  BY TermStep, CallsForTyped DEF TermsOK, Standing, Missing

LEMMA OneSuspicionStep ==
  ASSUME OneSuspicionEach, BeliefsNext \/ UNCHANGED everyVar
  PROVE  OneSuspicionEach'
<1>1. CASE UNCHANGED suspicions
  BY <1>1 DEF OneSuspicionEach
<1>2. CASE RetractSuspicion
  BY <1>2 DEF RetractSuspicion, OneSuspicionEach
<1>3. CASE SuspicionEnsure
  BY <1>3 DEF SuspicionEnsure, SuspicionEnsureLHS, OneSuspicionEach, W!Pool,
              W!NewSuspicion
<1>4. CASE Return
  BY <1>4 DEF Return, W!Normalize, W!Weighed, OneSuspicionEach
<1>5. CASE BeliefRule
  BY <1>1, <1>2, <1>3, <1>5 DEF BeliefRule, AssertTerm
<1>6. CASE Call \/ Hear \/ DetectiveRule \/ UNCHANGED everyVar
  BY <1>1, <1>6 DEF Call, Hear, DetectiveRule, everyVar, beliefVars
<1> QED
  BY <1>4, <1>5, <1>6 DEF BeliefsNext

LEMMA WeightsStep ==
  ASSUME TypeOK, HeardOK, TermsOK, OneSuspicionEach,
         BeliefsNext \/ UNCHANGED everyVar
  PROVE  W!WeightsNext \/ UNCHANGED <<terms, suspicions>>
<1>1. ASSUME terms' = Standing(terms, Band90Terms'), UNCHANGED suspicions
      PROVE  W!TermsWithdrawn \/ UNCHANGED <<terms, suspicions>>
  BY <1>1 DEF Standing, W!TermsWithdrawn
<1>2. ASSUME NEW t \in Missing(PriorTerms) \cup Missing(Band90Terms),
             terms' = terms \cup {t}, UNCHANGED suspicions
      PROVE  W!TermsAsserted \/ UNCHANGED <<terms, suspicions>>
  <2>1. terms' \in SUBSET LogoddsTerm /\ terms \subseteq terms'
    BY <1>2, CallsForTyped DEF TermsOK, Missing
  <2> QED
    BY <1>2, <2>1 DEF W!TermsAsserted
<1>3. CASE RetractSuspicion
  <2>1. PICK s \in RetractSuspicionLHS : suspicions' = suspicions \ {s}
    BY <1>3 DEF RetractSuspicion
  <2>2. s \in suspicions /\ suspicions' = {u \in suspicions : u.color # s.color}
    BY <2>1 DEF RetractSuspicionLHS, OneSuspicionEach
  <2>3. s.color \in W!Pool
    BY <2>2 DEF W!Pool
  <2> QED
    BY <1>3, <2>2, <2>3 DEF RetractSuspicion, W!RetractSuspicion, W!WeightsNext
<1>4. CASE SuspicionEnsure
  <2>1. SuspicionEnsureLHS \subseteq Colors \ W!Pool
    BY DEF SuspicionEnsureLHS, Living, TypeOK, Crewmember
  <2> QED
    BY <1>4, <2>1 DEF SuspicionEnsure, W!SuspicionEnsure, W!WeightsNext
<1>5. CASE BeliefRule
  BY <1>1, <1>2, <1>3, <1>4, <1>5
     DEF BeliefRule, AssertTerm, Maintained, W!WeightsNext
<1>6. CASE Call \/ Hear \/ DetectiveRule
  BY <1>1, <1>6 DEF Call, Hear, DetectiveRule, Maintained, W!WeightsNext
<1>7. CASE Return \/ UNCHANGED everyVar
  BY <1>7 DEF Return, W!WeightsNext, everyVar, beliefVars
<1> QED
  BY <1>5, <1>6, <1>7 DEF BeliefsNext

(* Normalization keeps the pool.                                           *)
LEMMA WeighedPool == {s.color : s \in W!Weighed(terms, W!Pool)} = W!Pool
<1> DEFINE share == W!Shares(W!LikelihoodOf(terms, W!Pool))
           F(c)  == [color |-> c, logodds |-> W!SumOf(terms, c),
                     weight |-> share[Position[c]]]
<1>1. W!Weighed(terms, W!Pool) = {F(c) : c \in W!Pool}
  BY DEF W!Weighed
<1>2. \A c : F(c).color = c
  OBVIOUS
<1> HIDE DEF F
<1> QED
  BY <1>1, <1>2

(* Only Return ends a run, and it leaves the weights of terms and pool.    *)
LEMMA RunEndsWeighed ==
  ASSUME BeliefsNext, phase = "running", phase' = "idle"
  PROVE  W!Current'
<1>1. ~ (Call \/ Hear)
  BY DEF Call, Hear, Observe, FdRun, ObservePlayer, ObserveVent, ObserveBody,
         ObserveTaskCompletion, ObserveDeath, ObserveEjection,
         ObserveRoundConfig, ChangeGraph, Observing,
         ObserveClaim, ObserveVote, ObserveDefense
<1>2. ~ DetectiveRule
  BY FireByLayer, CaseRulesFrame, StanceRulesFrame, RoundRulesFrame,
     DossierRulesFrame DEF DetectiveRule
<1>3. ~ BeliefRule
  BY DEF BeliefRule, RetractSuspicion, SuspicionEnsure, AssertTerm, ClaimRules,
         DeriveContradiction, DeriveCorroboration, allVars, vars
<1>4. Return
  BY <1>1, <1>2, <1>3 DEF BeliefsNext
<1>5. suspicions' = W!Weighed(terms, W!Pool) /\ terms' = terms
  BY <1>4 DEF Return, W!Normalize
<1>6. W!Pool' = W!Pool
  BY <1>5, WeighedPool DEF W!Pool
<1> QED
  BY <1>5, <1>6 DEF W!Current

(* The terms and weights change only as Weights says: a term is asserted   *)
(* or withdrawn, a color enters or leaves the pool, or the weights are     *)
(* normalized -- never two of these at once -- and every run ends with     *)
(* them normalized (fd_clips.c: fd_run).                                   *)
THEOREM BeliefsImplementWeights == BeliefsSpec => ImplementsWeights
<1> DEFINE Inv == HeardOK /\ TermsOK /\ OneSuspicionEach
<1>1. BeliefsInit => Inv /\ W!WeightsInit
  BY HeardInit DEF BeliefsInit, W!WeightsInit, TermsOK, OneSuspicionEach
<1>2. TypeOK /\ Inv /\ [BeliefsNext]_everyVar
        => Inv' /\ [W!WeightsNext]_(W!weightVars)
  BY HeardStep, TermsStep, OneSuspicionStep, WeightsStep DEF W!weightVars
<1>3. BeliefsSpec => []TypeOK
  BY BeliefsImplementDetective, TypeCorrect, PTL
<1>4. [BeliefsNext]_everyVar =>
        [phase' = "idle" /\ phase = "running" => W!Current']_everyVar
  BY RunEndsWeighed
<1> QED
  BY <1>1, <1>2, <1>3, <1>4, PTL DEF BeliefsSpec, ImplementsWeights, W!WeightsSpec

(***************************************************************************)
(* Charges.                                                                *)
(***************************************************************************)
OneBodyEach == \A b, d \in bodies : b.color = d.color => b = d

(* Where a window opens is determined by the sightings.                    *)
LEMMA OpeningUnique ==
  ASSUME TypeOK, NEW b \in bodies, NEW t \in SeenBefore(b) \cup {0},
         \A u \in SeenBefore(b) : u <= t
  PROVE  OpensAt(b) = t
<1>1. SeenBefore(b) \subseteq Nat
  BY DEF SeenBefore, About, TypeOK, Sighting
<1>2. OpensAt(b) \in SeenBefore(b) \cup {0} /\ \A u \in SeenBefore(b) : u <= OpensAt(b)
  BY DEF OpensAt
<1>3. OpensAt(b) <= t /\ t <= OpensAt(b)
  BY <1>1, <1>2
<1> QED
  BY <1>1, <1>2, <1>3

(* At the fixpoint every body has its case and its window, and the window  *)
(* is the time between the victim's last sighting and the body.            *)
LEMMA SceneOfBody ==
  ASSUME MaintInv, WindowIsTight, CasesAreBodies, OneBodyEach, Fixpoint, NEW b \in bodies
  PROVE  \E k \in cases, w \in windows :
           /\ k.victim = b.color /\ k.room = b.room /\ k.tick = b.tick
           /\ w.victim = b.color /\ w.room = b.room /\ w.to = b.tick
           /\ w.from = OpensAt(b)
<1> USE DEF MaintInv, CaseInv, TypeInv
<1>1. PICK w \in windows :
        /\ w.victim = b.color
        /\ w.from \in LastSeenBefore(b.color, w.to) \cup {0}
        /\ \A t \in LastSeenBefore(b.color, w.to) : t <= w.from
  BY DEF WindowIsTight, InCase
<1>2. PICK k \in cases : k.victim = w.victim /\ k.room = w.room /\ k.tick = w.to
  BY DEF WindowsMatchCases
<1>3. PICK d \in bodies : d.color = k.victim /\ d.room = k.room /\ d.tick = k.tick
  BY DEF CasesAreBodies
<1>4. d = b
  BY <1>1, <1>2, <1>3 DEF OneBodyEach
<1>5. LastSeenBefore(b.color, w.to) = SeenBefore(b)
  BY <1>2, <1>3, <1>4 DEF LastSeenBefore, SeenBefore
<1>6. w.from = OpensAt(b)
  BY <1>1, <1>5, OpeningUnique
<1> QED
  BY <1>1, <1>2, <1>3, <1>4, <1>6

(* At the fixpoint near-body evidence is what the sightings say of the     *)
(* scene, whichever of the windows closing there it rests on.              *)
LEMMA SceneSeen ==
  ASSUME MaintInv, WindowIsTight, CasesAreBodies, OneBodyEach, Fixpoint,
         NEW b \in bodies, NEW c \in Colors
  PROVE  SeenAtScene(c, b) <=>
           \E n \in nearBody : n.color = c /\ n.room = b.room /\ n.tick = b.tick
<1> USE DEF MaintInv, CaseInv, TypeInv
<1>1. ASSUME NEW d \in bodies, d.room = b.room, d.tick = b.tick, SeenWithin(c, d)
      PROVE  \E n \in nearBody : n.color = c /\ n.room = b.room /\ n.tick = b.tick
  <2>1. PICK k \in cases, w \in windows :
          /\ k.victim = d.color /\ k.room = d.room /\ k.tick = d.tick
          /\ w.victim = d.color /\ w.room = d.room /\ w.to = d.tick
          /\ w.from = OpensAt(d)
    BY SceneOfBody
  <2>2. PICK s \in sightings :
          s.color = c /\ s.room = d.room /\ OpensAt(d) <= s.tick /\ s.tick <= d.tick
    BY <1>1 DEF SeenWithin, About
  <2>3. ~ AtTheScene(s, w, k)
    BY AgendaEmptyMeans DEF EvidencePending
  <2>4. Within(s.tick, w)
    BY <2>1, <2>2 DEF Within
  <2>5. \E n \in nearBody : n.color = s.color /\ n.room = k.room /\ n.tick = k.tick
    BY <2>1, <2>2, <2>3, <2>4 DEF AtTheScene
  <2> QED
    BY <1>1, <2>1, <2>2, <2>5
<1>2. ASSUME NEW n \in nearBody, n.color = c, n.room = b.room, n.tick = b.tick
      PROVE  SeenAtScene(c, b)
  <2>1. PICK s \in sightings, v \in windows :
          /\ s.color = c /\ s.room = n.room
          /\ v.room = n.room /\ v.to = n.tick /\ Within(s.tick, v)
    BY <1>2 DEF NearBodyHolds, About, InCase
  <2>2. PICK j \in cases : j.victim = v.victim /\ j.room = v.room /\ j.tick = v.to
    BY DEF WindowsMatchCases
  <2>3. PICK d \in bodies : d.color = j.victim /\ d.room = j.room /\ d.tick = j.tick
    BY DEF CasesAreBodies
  <2>4. PICK w \in windows :
          w.victim = d.color /\ w.from = OpensAt(d) /\ w.to = d.tick
    BY SceneOfBody
  <2>5. w = v
    BY <2>2, <2>3, <2>4 DEF OneWindowPerVictim
  <2>6. OpensAt(d) <= s.tick /\ s.tick <= d.tick
    BY <2>1, <2>4, <2>5 DEF Within
  <2>7. SeenWithin(c, d)
    BY <2>1, <2>2, <2>3, <2>6 DEF SeenWithin, About
  <2> QED
    BY <1>2, <2>1, <2>2, <2>3, <2>7 DEF SeenAtScene
<1> QED
  BY <1>1, <1>2 DEF SeenAtScene

(* The ground of a term is told by its source.                             *)
LEMMA GroundBySource ==
  ASSUME NEW t \in Band90Terms
  PROVE  /\ t.source = "nearBody" => t \in NearBodyTerms
         /\ t.source = "silentWitness" => t \in SilentTerms
         /\ t.source = "packCleared" => t \in PackClearedTerms
         /\ t.source = "ventInferred" => t \in VentTerms
         /\ t.source = "contradiction" => t \in ContradictionTerms
<1>1. \A u \in CastIronTerms : u.source = "castIron"
  BY DEF CastIronTerms, Term
<1>2. \A u \in VentTerms : u.source \in {"ventObserved", "ventInferred"}
  BY DEF VentTerms, Term
<1>3. \A u \in AccusationTerms : u.source = "accusation"
  BY DEF AccusationTerms, Term
<1>4. \A u \in OffTaskTerms \cup OnTaskTerms : u.source \in {"offTask", "onTask"}
  BY DEF OffTaskTerms, OnTaskTerms, Term
<1>5. /\ \A u \in ContradictionTerms : u.source = "contradiction"
      /\ \A u \in SelfReportTerms : u.source = "selfReport"
  BY DEF ContradictionTerms, SelfReportTerms, Term
<1>6. \A u \in CoLocationTerms : u.source = "coLocation"
  BY DEF CoLocationTerms, Term
<1>7. \A u \in AccuseImpostorTerms \cup DefendImpostorTerms \cup CoAccuseTerms :
        u.source \in {"accuseImpostor", "defendImpostor", "coAccuse"}
  BY DEF AccuseImpostorTerms, DefendImpostorTerms, CoAccuseTerms, Term
<1>8. \A u \in NearBodyTerms : u.source = "nearBody"
  BY DEF NearBodyTerms, Term
<1>9. \A u \in SilentTerms : u.source = "silentWitness"
  BY DEF SilentTerms, Term
<1>10. \A u \in PackClearedTerms : u.source = "packCleared"
  BY DEF PackClearedTerms, Term
<1> QED
  BY <1>1, <1>2, <1>3, <1>4, <1>5, <1>6, <1>7, <1>8, <1>9, <1>10 DEF Band90Terms

ChargeInv ==
  /\ MaintInv /\ WindowIsTight /\ CasesAreBodies
  /\ HeardOK /\ Grounded

LEMMA NearBodyCharge ==
  ASSUME ChargeInv, OneBodyEach, Settled, NEW b \in bodies, NEW c \in Colors
  PROVE  Held(c, "nearBody", b.color)
           <=> (SeenAtScene(c, b) /\ ~ HasCastIron(c, b.color))
<1> USE DEF ChargeInv
<1>0. Fixpoint
  BY DEF Settled
<1>1. PICK k \in cases : k.victim = b.color /\ k.room = b.room /\ k.tick = b.tick
  BY <1>0, SceneOfBody
<1>2. \A j \in cases : j.victim = b.color => j = k
  BY <1>1 DEF MaintInv, CaseInv, OneCasePerVictim
<1>3. ASSUME Held(c, "nearBody", b.color)
      PROVE  SeenAtScene(c, b) /\ ~ HasCastIron(c, b.color)
  <2>1. PICK t \in terms : t.color = c /\ t.source = "nearBody" /\ t.key = b.color
    BY <1>3 DEF Held
  <2>2. t \in NearBodyTerms
    BY <2>1, GroundBySource DEF Grounded, Logical
  <2>3. PICK p \in AtBody :
          /\ ~ HasCastIron(p[1].color, p[2].victim)
          /\ t = Term(p[1].color, "nearBody", p[2].victim)
    BY <2>2 DEF NearBodyTerms
  <2>4. p[1].color = c /\ p[2].victim = b.color
    BY <2>1, <2>3 DEF Term
  <2>5. /\ p[1] \in nearBody /\ p[2] \in cases
        /\ p[1].room = p[2].room /\ p[1].tick = p[2].tick
    BY DEF AtBody
  <2>6. p[1].room = b.room /\ p[1].tick = b.tick
    BY <1>1, <1>2, <2>4, <2>5
  <2> QED
    BY <1>0, <2>3, <2>4, <2>5, <2>6, SceneSeen
<1>4. ASSUME SeenAtScene(c, b), ~ HasCastIron(c, b.color)
      PROVE  Held(c, "nearBody", b.color)
  <2>1. PICK n \in nearBody : n.color = c /\ n.room = b.room /\ n.tick = b.tick
    BY <1>0, <1>4, SceneSeen
  <2> DEFINE p == <<n, k>>
  <2>2. p \in AtBody /\ p[1] = n /\ p[2] = k
    BY <1>1, <2>1 DEF AtBody
  <2> HIDE DEF p
  <2>3. Term(p[1].color, "nearBody", p[2].victim) \in NearBodyTerms
    BY <1>1, <1>4, <2>1, <2>2 DEF NearBodyTerms
  <2>4. Term(c, "nearBody", b.color) \in Band90Terms
    BY <1>1, <2>1, <2>2, <2>3 DEF Band90Terms
  <2> QED
    BY <2>4, SettledHolds DEF Term
<1> QED
  BY <1>3, <1>4

LEMMA SilenceCharge ==
  ASSUME ChargeInv, OneBodyEach, Settled, claims # {}, NEW b \in bodies, NEW c \in Colors
  PROVE  Held(c, "silentWitness", b.color)
           <=> /\ SeenAtScene(c, b)
               /\ \A x \in About(claims, c) :
                    x.kind = "task" \/ (x.kind = "location" /\ x.room # b.room)
<1> USE DEF ChargeInv
<1>0. Fixpoint
  BY DEF Settled
<1>1. PICK k \in cases : k.victim = b.color /\ k.room = b.room /\ k.tick = b.tick
  BY <1>0, SceneOfBody
<1>2. \A j \in cases : j.victim = b.color => j = k
  BY <1>1 DEF MaintInv, CaseInv, OneCasePerVictim
<1>3. ~ Speaks(c, b.room) <=>
        \A x \in About(claims, c) :
          x.kind = "task" \/ (x.kind = "location" /\ x.room # b.room)
  <2>1. \A x \in claims : x.kind \in {"location", "task", "self-report"}
    BY DEF HeardOK, Claim
  <2> QED
    BY <2>1 DEF Speaks, About
<1>4. ASSUME Held(c, "silentWitness", b.color)
      PROVE  SeenAtScene(c, b) /\ ~ Speaks(c, b.room)
  <2>1. PICK t \in terms : t.color = c /\ t.source = "silentWitness" /\ t.key = b.color
    BY <1>4 DEF Held
  <2>2. t \in SilentTerms
    BY <2>1, GroundBySource DEF Grounded, Logical
  <2>3. PICK p \in AtBody :
          /\ ~ Speaks(p[1].color, p[2].room)
          /\ t = Term(p[1].color, "silentWitness", p[2].victim)
    BY <2>2 DEF SilentTerms
  <2>4. p[1].color = c /\ p[2].victim = b.color
    BY <2>1, <2>3 DEF Term
  <2>5. /\ p[1] \in nearBody /\ p[2] \in cases
        /\ p[1].room = p[2].room /\ p[1].tick = p[2].tick
    BY DEF AtBody
  <2>6. p[1].room = b.room /\ p[1].tick = b.tick /\ p[2].room = b.room
    BY <1>1, <1>2, <2>4, <2>5
  <2> QED
    BY <1>0, <2>3, <2>4, <2>5, <2>6, SceneSeen
<1>5. ASSUME SeenAtScene(c, b), ~ Speaks(c, b.room)
      PROVE  Held(c, "silentWitness", b.color)
  <2>1. PICK n \in nearBody : n.color = c /\ n.room = b.room /\ n.tick = b.tick
    BY <1>0, <1>5, SceneSeen
  <2> DEFINE p == <<n, k>>
  <2>2. p \in AtBody /\ p[1] = n /\ p[2] = k
    BY <1>1, <2>1 DEF AtBody
  <2> HIDE DEF p
  <2>3. Term(p[1].color, "silentWitness", p[2].victim) \in SilentTerms
    BY <1>1, <1>5, <2>1, <2>2 DEF SilentTerms
  <2>4. Term(c, "silentWitness", b.color) \in Band90Terms
    BY <1>1, <2>1, <2>2, <2>3 DEF Band90Terms
  <2> QED
    BY <2>4, SettledHolds DEF Term
<1> QED
  BY <1>3, <1>4, <1>5

LEMMA PackCharge ==
  ASSUME ChargeInv, Settled, NEW a \in Colors, NEW c \in Colors
  PROVE  Held(a, "packCleared", c)
           <=> (a # c /\ [a |-> a, b |-> c] \in accuses /\ About(castIron, c) # {})
<1> USE DEF ChargeInv
<1> DEFINE F(p) == [Term(p[2].a, "packCleared", p[1].color) EXCEPT !.via = p[1].victim]
           P    == {q \in castIron \X accuses : q[2].b = q[1].color /\ q[2].a # q[1].color}
<1>1. PackClearedTerms = {F(p) : p \in P}
  BY Zenon DEF PackClearedTerms
<1>2. \A p : /\ F(p).color = p[2].a /\ F(p).source = "packCleared"
             /\ F(p).key = p[1].color
  BY DEF Term
<1> HIDE DEF F
<1>3. ASSUME Held(a, "packCleared", c)
      PROVE  a # c /\ [a |-> a, b |-> c] \in accuses /\ About(castIron, c) # {}
  <2>1. PICK t \in terms : t.color = a /\ t.source = "packCleared" /\ t.key = c
    BY <1>3 DEF Held
  <2>2. t \in PackClearedTerms
    BY <2>1, GroundBySource DEF Grounded, Logical
  <2>3. PICK p \in P : t = F(p)
    BY <1>1, <2>2
  <2>4. p[2].a = a /\ p[1].color = c /\ p[2].b = c /\ a # c
    BY <1>2, <2>1, <2>3
  <2>5. p[1] \in castIron /\ p[2] \in accuses
    OBVIOUS
  <2>6. p[2] = [a |-> a, b |-> c]
    BY <2>4, <2>5 DEF HeardOK, Edge
  <2> QED
    BY <2>4, <2>5, <2>6 DEF About
<1>4. ASSUME a # c, [a |-> a, b |-> c] \in accuses, About(castIron, c) # {}
      PROVE  Held(a, "packCleared", c)
  <2>1. PICK i \in castIron : i.color = c
    BY <1>4 DEF About
  <2> DEFINE e == [a |-> a, b |-> c]
             p == <<i, e>>
  <2>2. p \in P /\ p[1] = i /\ p[2].a = a
    BY <1>4, <2>1
  <2> HIDE DEF e, p
  <2>3. F(p) \in Band90Terms
    BY <1>1, <2>2 DEF Band90Terms
  <2> QED
    BY <1>2, <2>1, <2>2, <2>3, SettledHolds
<1> QED
  BY <1>3, <1>4

(* The charges a query reads are those of the reports, in whatever order   *)
(* these came and however windows and clearances moved in between          *)
(* (term-near-body, term-silent-witness, term-social-pack-cleared).        *)
THEOREM ChargesAlwaysTrue == BeliefsSpec => []ChargesAreTrue
<1>1. BeliefsInit => HeardOK
  BY HeardInit
<1>2. HeardOK /\ [BeliefsNext]_everyVar => HeardOK'
  BY HeardStep
<1>3. ChargeInv => ChargesAreTrue
  BY NearBodyCharge, SilenceCharge, PackCharge
  DEF ChargesAreTrue, ChargedAsSeen, SilenceAsHeard, PackScored, OneBodyEach
<1>4. MaintInv /\ WindowIsTight /\ CasesAreBodies /\ HeardOK /\ Grounded => ChargeInv
  BY DEF ChargeInv
<1> QED
  BY <1>1, <1>2, <1>3, <1>4, AlwaysGrounded, BeliefsImplementDetective, MaintAlways,
     WindowAlwaysTight, CasesAlways, PTL DEF BeliefsSpec

(***************************************************************************)
(* Blame.  A contradiction is for good and a vent stays, so what they rest *)
(* on has to stay too: reports are never forgotten, and the map that       *)
(* refuted a claim is one of the round even when it is no longer in force. *)
(***************************************************************************)
ClaimsReported == claims \subseteq ClaimReports
Contradicted   == \A c \in contradicted : Misplaced(c)
TermsOfLiars   == \A t \in terms : t.source = "contradiction" => t.color \in contradicted

LEMMA SightingsStay ==
  ASSUME [Next]_allVars
  PROVE  sightings \subseteq sightings'
<1>1. CASE FireRule
  BY <1>1, FireByLayer, CaseRulesFrame, DossierRulesFrame, RoundRulesFrame,
     StanceRulesFrame DEF inputVars
<1>2. CASE Observe
  BY <1>2, ObserveEffect
<1>3. CASE FdRun \/ EndRun \/ UNCHANGED allVars
  BY <1>3 DEF FdRun, EndRun, allVars, vars, inputVars
<1> QED
  BY <1>1, <1>2, <1>3 DEF Next

(* Who is newly contradicted, and who is heard.                            *)
LEMMA TestimonyStep ==
  ASSUME BeliefsNext \/ UNCHANGED everyVar
  PROVE  /\ claims \subseteq claims'
         /\ ClaimsReported => ClaimsReported'
         /\ \/ contradicted' = contradicted
            \/ \E c \in ContradictionLHS : contradicted' = contradicted \cup {c}
<1>1. CASE UNCHANGED testimonyVars
  BY <1>1 DEF testimonyVars, ClaimsReported
<1>2. CASE Hear
  BY <1>2 DEF Hear, ObserveClaim, ObserveVote, ObserveDefense, ClaimsReported
<1>3. CASE ClaimRules
  BY <1>3 DEF ClaimRules, DeriveContradiction, DeriveCorroboration, ClaimsReported
<1>4. CASE BeliefRule
  BY <1>1, <1>3, <1>4 DEF BeliefRule, RetractSuspicion, SuspicionEnsure, AssertTerm
<1> QED
  BY <1>1, <1>2, <1>4 DEF BeliefsNext, Call, DetectiveRule, Return, everyVar

(* What the rule reads is a pair of positions that some map of the round   *)
(* excludes.                                                               *)
LEMMA RefutedIsMisplaced ==
  ASSUME TypeInv, HeardOK, MemoryIsReported, NEW c \in ContradictionLHS
  PROVE  Misplaced(c)
<1>1. PICK x \in About(Placed, c), s \in sightings : SameTick(x, s) \/ TooFar(x, s)
  BY DEF ContradictionLHS, Refuted
<1>2. x.color = c /\ x \in Claim /\ s \in Sighting
  BY DEF About, Placed, HeardOK, TypeInv, TypeOK
<1>3. s \in About(sightings, c) /\ x.room # s.room
  BY <1>1, <1>2 DEF SameTick, TooFar, Elsewhere, About
<1>4. CASE SameTick(x, s)
  BY <1>3, <1>4 DEF SameTick, TwoPlaces, Misplaced
<1>5. CASE TooFar(x, s)
  <2>1. PICK m \in Maps : distances = Published(m)
    BY DEF MemoryIsReported
  <2>2. <<x.room, s.room>> \in Place \X Place
    BY <1>2 DEF Claim, Sighting
  <2> DEFINE d == m[<<x.room, s.room>>]
  <2>3. distances[<<x.room, s.room>>] = d
    BY <1>3, <2>1, <2>2 DEF Published
  <2>4. d \in Int
    BY <2>2, MapsAreTables DEF WalkTable, NoFact
  <2>5. d # NoFact /\ d > Abs(s.tick - x.tick)
    BY <1>5, <2>3 DEF TooFar
  <2>6. x.tick \in Int /\ s.tick \in Int
    BY <1>2 DEF Claim, Sighting
  <2> HIDE DEF d
  <2>7. ~ InTime(d, x.tick, s.tick)
    BY <2>4, <2>5, <2>6 DEF Abs, InTime
  <2>8. TooFast(m, x, s)
    BY <1>3, <2>5, <2>7 DEF TooFast, d
  <2> QED
    BY <1>3, <2>8 DEF Misplaced
<1> QED
  BY <1>1, <1>4, <1>5

LEMMA ContradictedStep ==
  ASSUME TypeInv, HeardOK, MemoryIsReported, Contradicted,
         BeliefsNext \/ UNCHANGED everyVar
  PROVE  Contradicted'
<1>1. sightings \subseteq sightings'
  BY StepsOfDetective, SightingsStay
<1>2. claims \subseteq claims'
  BY TestimonyStep
<1>3. \A c : Misplaced(c) => Misplaced(c)'
  BY <1>1, <1>2 DEF Misplaced, About, Placed
<1> QED
  BY <1>3, TestimonyStep, RefutedIsMisplaced DEF Contradicted

LEMMA LiarStep ==
  ASSUME TermsOfLiars, BeliefsNext \/ UNCHANGED everyVar
  PROVE  TermsOfLiars'
<1>1. contradicted \subseteq contradicted'
  BY TestimonyStep
<1>2. CASE terms' \subseteq terms
  BY <1>1, <1>2 DEF TermsOfLiars
<1>3. ASSUME NEW t \in Missing(PriorTerms) \cup Missing(Band90Terms),
             terms' = terms \cup {t}
      PROVE  TermsOfLiars'
  <2>1. t.source = "contradiction" => t \in ContradictionTerms
    BY GroundBySource DEF Missing, PriorTerms, Term
  <2>2. t.source = "contradiction" => t.color \in contradicted
    BY <2>1 DEF ContradictionTerms, Term
  <2> QED
    BY <1>1, <1>3, <2>2 DEF TermsOfLiars
<1> QED
  BY <1>2, <1>3, TermStep DEF Standing

BlameInv == ClaimsReported /\ Contradicted /\ TermsOfLiars

LEMMA BlameAlways == BeliefsSpec => []BlameInv
<1>1. BeliefsInit => HeardOK /\ BlameInv
  BY HeardInit DEF BeliefsInit, TestimonyInit, W!WeightsInit, BlameInv,
                   ClaimsReported, Contradicted, TermsOfLiars
<1>2. HeardOK /\ [BeliefsNext]_everyVar => HeardOK'
  BY HeardStep
<1>3. HeardOK /\ MaintInv /\ MemoryIsReported /\ BlameInv /\ [BeliefsNext]_everyVar
        => BlameInv'
  BY ContradictedStep, LiarStep, TestimonyStep DEF BlameInv, MaintInv
<1> QED
  BY <1>1, <1>2, <1>3, BeliefsImplementDetective, MaintAlways, ReportedAlways,
     PTL DEF BeliefsSpec

(* Nobody is charged with an inferred vent or a contradiction whose        *)
(* reports some walk on each map of the round explains, in no state, also  *)
(* after the map has changed (fd_observe.c: vent_check; claims.clp:        *)
(* derive-contradiction-colocation and -by-distance).                      *)
THEOREM BlameAlwaysNeedsTheImpossible == BeliefsSpec => []BlameNeedsTheImpossible
<1>1. ASSUME MaintInv, Grounded, BlameInv, VentsNeedMoves
      PROVE  BlameNeedsTheImpossible
  <2> SUFFICES ASSUME NEW t \in terms
               PROVE  /\ t.source = "ventInferred" => MovedImpossibly(t.color)
                      /\ t.source = "contradiction" => Misplaced(t.color)
    BY DEF BlameNeedsTheImpossible
  <2>1. ASSUME t.source = "ventInferred"
        PROVE  MovedImpossibly(t.color)
    <3>1. t \in VentTerms
      BY <1>1, <2>1, GroundBySource DEF Grounded, Logical
    <3>2. PICK x \in vents :
            t = Term(x.color, IF x.basis = "observed" THEN "ventObserved"
                              ELSE "ventInferred", NoKey)
      BY <3>1 DEF VentTerms
    <3>3. x.color = t.color /\ x.basis # "observed"
      BY <2>1, <3>2 DEF Term
    <3>4. x \in Vent
      BY <1>1 DEF MaintInv, TypeInv, TypeOK
    <3> QED
      BY <1>1, <3>3, <3>4 DEF VentsNeedMoves, Vent
  <2>2. ASSUME t.source = "contradiction"
        PROVE  Misplaced(t.color)
    BY <1>1, <2>2 DEF BlameInv, TermsOfLiars, Contradicted
  <2> QED
    BY <2>1, <2>2
<1> QED
  BY <1>1, AlwaysGrounded, BlameAlways, VentsAlwaysNeedMoves, MaintAlways,
     BeliefsImplementDetective, PTL

(* A player who walks, whose sightings are true and who tells the truth    *)
(* about where it was, is never suspected of a vent nor caught in a        *)
(* contradiction, and carries neither term, whatever others are seen to do *)
(* or say (fd_observe.c: vent_check; claims.clp).                          *)
THEOREM HonestNeverBlamed ==
  ASSUME NEW c \in Colors, NEW path, IsPath(path), Walks(path),
         TrulySighted(c, path), TellsTrue(c, path)
  PROVE  BeliefsSpec => []Unblamed(c)
<1>1. ASSUME NEW m \in Maps, NEW p, NEW q, LiesOn(path, p), LiesOn(path, q)
      PROVE  ~ TooFast(m, p, q) /\ ~ TwoPlaces(p, q)
  <2>1. ~ TooFast(m, PositionOn(path, p.tick), PositionOn(path, q.tick))
    BY <1>1 DEF Walks, WalksOn, LiesOn
  <2> QED
    BY <1>1, <2>1 DEF TooFast, TwoPlaces, PositionOn, LiesOn
<1>2. ASSUME MemoryIsReported, BlameInv, VentsNeedMoves, BlameNeedsTheImpossible
      PROVE  Unblamed(c)
  <2>1. \A s \in About(sightings, c) : LiesOn(path, s)
    BY <1>2 DEF MemoryIsReported, TrulySighted, About
  <2>2. \A x \in About(Placed, c) : LiesOn(path, x)
    BY <1>2 DEF BlameInv, ClaimsReported, TellsTrue, Placed, About
  <2>3. ~ MovedImpossibly(c)
    BY <1>1, <2>1 DEF MovedImpossibly
  <2>4. ~ Misplaced(c)
    BY <1>1, <2>1, <2>2, MapsAreTables DEF Misplaced
  <2>5. c \notin contradicted
    BY <1>2, <2>4 DEF BlameInv, Contradicted
  <2> QED
    BY <1>2, <2>3, <2>4, <2>5 DEF Unblamed, VentsNeedMoves, BlameNeedsTheImpossible, About
<1> QED
  BY <1>2, ReportedAlways, BlameAlways, VentsAlwaysNeedMoves,
     BlameAlwaysNeedsTheImpossible, BeliefsImplementDetective, PTL

(***************************************************************************)
(* The pool.  A suspicion is about somebody known other than self; and     *)
(* nobody gets credit for a task before the off-task term has been called  *)
(* for, because a dossier waits for the terms of the last one.             *)
(***************************************************************************)
PoolKnown == \A s \in suspicions : self # Nobody /\ s.color # self /\ Known(s.color)
OffTaskFirst == \A m \in Living : m.tasks = 0 \/ Held(m.color, "offTask", NoKey)

LEMMA SelfStays ==
  ASSUME [Next]_allVars
  PROVE  self' = self
<1>1. CASE FireRule
  BY <1>1, FireByLayer, CaseRulesFrame, DossierRulesFrame, RoundRulesFrame,
     StanceRulesFrame DEF inputVars
<1>2. CASE Observe \/ FdRun \/ EndRun \/ UNCHANGED allVars
  BY <1>2 DEF Observe, ObservePlayer, ObserveVent, ObserveBody,
     ObserveTaskCompletion, ObserveDeath, ObserveEjection, ObserveRoundConfig,
     ChangeGraph, Observing, FdRun, EndRun, allVars, vars, inputVars
<1> QED
  BY <1>1, <1>2 DEF Next

(* Terms without logical support stay.                                     *)
LEMMA PlainTermsStay ==
  ASSUME BeliefsNext \/ UNCHANGED everyVar,
         NEW t \in terms, t.source \notin Logical
  PROVE  t \in terms'
  BY TermStep DEF Standing

LEMMA CrewWaits ==
  ASSUME BeliefsNext \/ UNCHANGED everyVar
  PROVE  crew' = crew \/ (DossierRules /\ ~ Pending90)
<1> SUFFICES ASSUME crew' # crew
             PROVE  DossierRules /\ ~ Pending90
  OBVIOUS
<1>1. ~ (CaseRules \/ RosterRules \/ PressureRules \/ StanceRules)
  BY CaseRulesFrame, RoundRulesFrame, StanceRulesFrame DEF dossierVars
<1>2. ~ (Observe \/ FdRun \/ EndRun)
  BY DEF Observe, ObservePlayer, ObserveVent, ObserveBody,
     ObserveTaskCompletion, ObserveDeath, ObserveEjection, ObserveRoundConfig,
     ChangeGraph, Observing, FdRun, EndRun, dossierVars
<1>3. DetectiveRule
  BY <1>2 DEF BeliefsNext, Call, Hear, ObserveClaim, ObserveVote, ObserveDefense,
     BeliefRule, RetractSuspicion, ClaimRules, DeriveContradiction,
     DeriveCorroboration, SuspicionEnsure, AssertTerm, Return, everyVar,
     allVars, vars, dossierVars
<1>4. Quiet10 /\ DossierRules
  BY <1>1, <1>3 DEF DetectiveRule, FireRule, CaseRules, StanceRules
<1> QED
  BY <1>3, <1>4 DEF DetectiveRule, Free, Quiet10, Quiet20

LEMMA OffTaskDue ==
  ASSUME OffTaskFirst, ~ Pending90, NEW m \in Living
  PROVE  Held(m.color, "offTask", NoKey)
<1>1. CASE m.tasks = 0
  <2> DEFINE t == Term(m.color, "offTask", NoKey)
  <2>1. t \in Band90Terms
    BY <1>1 DEF OffTaskTerms, Band90Terms
  <2>2. t.color = m.color /\ t.source = "offTask" /\ t.key = NoKey
    BY DEF Term
  <2> HIDE DEF t
  <2>3. Held(t.color, t.source, t.key)
    BY <2>1, QuietHolds
  <2> QED
    BY <2>2, <2>3
<1> QED
  BY <1>1 DEF OffTaskFirst

LEMMA OffTaskStep ==
  ASSUME TypeInv, DossierInv, OffTaskFirst, BeliefsNext \/ UNCHANGED everyVar
  PROVE  OffTaskFirst'
<1>1. [Next]_allVars /\ self' = self
  BY StepsOfDetective, SelfStays
<1>2. ASSUME NEW c, Held(c, "offTask", NoKey)
      PROVE  Held(c, "offTask", NoKey)'
  <2>1. PICK t \in terms : t.color = c /\ t.source = "offTask" /\ t.key = NoKey
    BY <1>2 DEF Held
  <2>2. t \in terms'
    BY <2>1, PlainTermsStay DEF Logical
  <2> QED
    BY <2>1, <2>2 DEF Held
<1>3. CASE crew' = crew
  <2>1. Living' = Living
    BY <1>1, <1>3 DEF Living
  <2> QED
    BY <1>2, <2>1 DEF OffTaskFirst
<1>4. CASE DossierRules /\ ~ Pending90
  <2>1. ASSUME NEW m \in Living
        PROVE  Held(m.color, "offTask", NoKey)
    BY <1>4, OffTaskDue
  <2>2. \A m \in crew : m.status = "alive" /\ m.color # self /\ self # Nobody
                         => Held(m.color, "offTask", NoKey)'
    BY <1>2, <2>1 DEF Living
  <2>3. SUFFICES ASSUME NEW n \in crew', n.status = "alive", n.color # self,
                        self # Nobody
                 PROVE  n.tasks = 0 \/ Held(n.color, "offTask", NoKey)'
    BY <1>1 DEF OffTaskFirst, Living
  <2>4. ASSUME NEW m \in crew, Continues(n, m)
        PROVE  Held(n.color, "offTask", NoKey)'
    <3>1. m.status = "alive" /\ m.color = n.color
      BY <2>3, <2>4 DEF Continues, Rank, TypeInv, TypeOK, Crewmember, Status
    <3> QED
      BY <2>2, <2>3, <3>1
  <2>5. \A m \in crew : Continues(m, m)
    BY ContinuesItself DEF TypeInv, TypeOK
  <2>6. n.tasks = 0 \/ \E m \in crew : Continues(n, m)
    BY <1>4, <2>3, <2>5, DossierEffect DEF TypeInv, DossierInv
  <2> QED
    BY <2>4, <2>6
<1> QED
  BY <1>3, <1>4, CrewWaits

LEMMA PoolKnownStep ==
  ASSUME TypeInv, DossierInv, PoolKnown, BeliefsNext \/ UNCHANGED everyVar
  PROVE  PoolKnown'
<1>1. [Next]_allVars /\ self' = self
  BY StepsOfDetective, SelfStays
<1>2. ASSUME NEW c, Known(c)
      PROVE  Known(c)'
  BY <1>1, <1>2, CrewContinues DEF Known, About, Continues
<1>3. ASSUME NEW s \in suspicions'
      PROVE  self # Nobody /\ s.color # self /\ Known(s.color)
  <2>1. CASE s \in suspicions
    BY <2>1 DEF PoolKnown
  <2>2. CASE SuspicionEnsure
    <3>1. PICK c \in SuspicionEnsureLHS : suspicions' = suspicions \cup {W!NewSuspicion(c)}
      BY <2>2 DEF SuspicionEnsure
    <3>2. self # Nobody /\ c # self /\ Known(c)
      BY DEF SuspicionEnsureLHS, Living, Known, About
    <3>3. s \in suspicions \/ s.color = c
      BY <3>1 DEF W!NewSuspicion
    <3> QED
      BY <2>1, <3>2, <3>3
  <2>3. CASE Return
    <3>1. s.color \in W!Pool
      BY <2>3, WeighedPool DEF Return, W!Normalize
    <3> QED
      BY <3>1 DEF PoolKnown, W!Pool
  <2>4. CASE ~ Return /\ ~ SuspicionEnsure
    <3>1. suspicions' \subseteq suspicions
      BY <2>4 DEF BeliefsNext, Call, Hear, DetectiveRule, BeliefRule,
         RetractSuspicion, AssertTerm, everyVar, beliefVars
    <3> QED
      BY <2>1, <3>1
  <2> QED
    BY <2>2, <2>3, <2>4
<1> QED
  BY <1>1, <1>2, <1>3 DEF PoolKnown

(* When a query answers, the pool of belief is the living: whoever died or *)
(* was ejected has left it, and every living color is in it with a prior   *)
(* and an off-task term, whatever it has done since (suspicion.clp:        *)
(* suspicion-ensure, suspicion-retract-dead, term-off-task).               *)
THEOREM PoolAlwaysTheLiving == BeliefsSpec => []PoolIsTheLiving
<1>1. BeliefsInit => PoolKnown /\ OffTaskFirst
  BY DEF BeliefsInit, Init, WMInit, W!WeightsInit, PoolKnown, OffTaskFirst, Living
<1>2. TypeInv /\ DossierInv /\ PoolKnown /\ OffTaskFirst /\ [BeliefsNext]_everyVar
        => PoolKnown' /\ OffTaskFirst'
  BY PoolKnownStep, OffTaskStep
<1>3. TypeInv /\ DossierInv /\ PoolKnown /\ OffTaskFirst => PoolIsTheLiving
  <2> SUFFICES ASSUME TypeInv, DossierInv, PoolKnown, OffTaskFirst, Settled
               PROVE  /\ W!Pool = {m.color : m \in Living}
                      /\ \A m \in Living : /\ Held(m.color, "prior", NoKey)
                                            /\ Held(m.color, "offTask", NoKey)
    BY DEF PoolIsTheLiving
  <2>1. ~ Pending200 /\ ~ Pending95 /\ ~ Pending90
    BY DEF Settled
  <2>2. {m.color : m \in Living} \subseteq W!Pool
    BY <2>1 DEF Pending95, SuspicionEnsureLHS
  <2>3. ASSUME NEW s \in suspicions
        PROVE  s.color \in {m.color : m \in Living}
    <3>1. PICK m \in crew : m.color = s.color
      BY DEF PoolKnown, Known, About
    <3>2. m.status = "alive"
      BY <2>1, <3>1 DEF Pending200, RetractSuspicionLHS, About
    <3> QED
      BY <3>1, <3>2 DEF PoolKnown, Living
  <2>4. ASSUME NEW m \in Living
        PROVE  Held(m.color, "prior", NoKey)
    <3> DEFINE t == Term(m.color, "prior", NoKey)
    <3>1. t \in PriorTerms
      BY DEF PriorTerms
    <3>2. t.color = m.color /\ t.source = "prior" /\ t.key = NoKey
      BY DEF Term
    <3> HIDE DEF t
    <3>3. t \in terms \/ \E u \in terms : SameTerm(t, u)
      BY <2>1, <3>1 DEF Pending95, Missing
    <3> QED
      BY <3>2, <3>3 DEF SameTerm, Held
  <2>5. ASSUME NEW m \in Living
        PROVE  Held(m.color, "offTask", NoKey)
    BY <2>1, OffTaskDue
  <2> QED
    BY <2>2, <2>3, <2>4, <2>5 DEF W!Pool
<1>4. BeliefsSpec => [](TypeInv /\ DossierInv)
  BY BeliefsImplementDetective, DossierAlways
<1> QED
  BY <1>1, <1>2, <1>3, <1>4, PTL DEF BeliefsSpec

(***************************************************************************)
(* fd_run returns: the work of both layers is finite, and every firing     *)
(* makes it less (NoEndlessRun says that this ends).                       *)
(***************************************************************************)
LEMMA AllWorkIs ==
  /\ DOMAIN AllWork = 1..30 /\ DOMAIN AllWork' = 1..30
  /\ \A i \in 1..25 : AllWork[i] = Work[i] /\ AllWork'[i] = Work'[i]
  /\ AllWork[26] = ContradictionLHS /\ AllWork'[26] = ContradictionLHS'
  /\ AllWork[27] = CorroborationLHS /\ AllWork'[27] = CorroborationLHS'
  /\ AllWork[28] = RetractSuspicionLHS /\ AllWork'[28] = RetractSuspicionLHS'
  /\ AllWork[29] = SuspicionEnsureLHS /\ AllWork'[29] = SuspicionEnsureLHS'
  /\ AllWork[30] = Missing(PriorTerms \cup Band90Terms)
  /\ AllWork'[30] = Missing(PriorTerms \cup Band90Terms)'
<1>1. /\ DOMAIN AllWork = 1..30 /\ DOMAIN AllWork' = 1..30
      /\ \A i \in 1..25 : AllWork[i] = Work[i] /\ AllWork'[i] = Work'[i]
      /\ \A i \in 26..30 : AllWork[i] = LaterWork[i - 25] /\ AllWork'[i] = LaterWork'[i - 25]
  BY DEF AllWork
<1>2. /\ AllWork[26] = LaterWork[1] /\ AllWork'[26] = LaterWork'[1]
      /\ AllWork[27] = LaterWork[2] /\ AllWork'[27] = LaterWork'[2]
      /\ AllWork[28] = LaterWork[3] /\ AllWork'[28] = LaterWork'[3]
      /\ AllWork[29] = LaterWork[4] /\ AllWork'[29] = LaterWork'[4]
      /\ AllWork[30] = LaterWork[5] /\ AllWork'[30] = LaterWork'[5]
  BY <1>1
<1> QED
  BY <1>1, <1>2 DEF LaterWork

LEMMA AllDecided ==
  ASSUME NEW i \in 1..30, Fewer(AllWork'[i], AllWork[i]),
         \A j \in 1 .. i - 1 : AllWork'[j] \subseteq AllWork[j]
  PROVE  Less(AllWork', AllWork)
  BY AllWorkIs DEF Less

(* Claims, then the pool, then the terms: each is due until it is done.    *)
LEMMA BeliefRuleWork ==
  ASSUME OneDossier, BeliefRule
  PROVE  Less(AllWork', AllWork)
<1>1. UNCHANGED <<allVars, claims, accuses, defends>>
  BY DEF BeliefRule, RetractSuspicion, ClaimRules, DeriveContradiction,
     DeriveCorroboration, SuspicionEnsure, AssertTerm, testimonyVars
<1>2. UNCHANGED <<self, sightings, crew, distances, vents, castIron, accusations, nearBody,
                  cases, ejections>>
  BY <1>1 DEF allVars, vars, inputVars, dossierVars, caseVars
<1>3. \A j \in 1..25 : AllWork'[j] \subseteq AllWork[j]
  <2>1. \A j \in 1..21 : NoMoreAt(j)
    BY <1>1, CaseWorkKept DEF allVars, vars, inputVars, dossierVars, roundVars
  <2>2. UNCHANGED <<Departed, StanceEnsureLHS, Unsettled, OutOfDate>>
    <3>1. UNCHANGED <<stances, crew, roster>>
      BY <1>1 DEF allVars, vars, dossierVars, roundVars
    <3> QED BY <3>1 DEF Departed, StanceEnsureLHS, Unsettled, OutOfDate, RetractStanceLHS,
               OffTaskLHS, OnTaskLHS, AllImpostorsEjected, About
  <2>3. \A j \in 22..25 : NoMoreAt(j)
    BY <2>2, WorkIs, WorkIsAfter DEF NoMoreAt
  <2> QED BY <2>1, <2>3, AllWorkIs DEF NoMoreAt
<1>4. UNCHANGED <<Claimants, Placed>> /\ \A c : Refuted(c)' = Refuted(c)
  BY <1>1, <1>2 DEF Claimants, Placed, Refuted, About, SameTick, TooFar, Elsewhere
<1>5. CASE DeriveContradiction
  <2>1. PICK c \in ContradictionLHS : contradicted' = contradicted \cup {c}
    BY <1>5 DEF DeriveContradiction
  <2>2. Fewer(ContradictionLHS', ContradictionLHS)
    BY <1>4, <2>1 DEF ContradictionLHS, Fewer
  <2> QED BY <1>3, <2>2, AllDecided, AllWorkIs
<1>6. CASE DeriveCorroboration
  <2>1. PICK p \in CorroborationLHS :
          corroborated' = corroborated \cup {p} /\ contradicted' = contradicted
    BY <1>6 DEF DeriveCorroboration
  <2>2. \A q : Vouches(q)' = Vouches(q)
    BY <1>1, <1>4 DEF Vouches, About
  <2>3. ContradictionLHS' = ContradictionLHS
    BY <1>4, <2>1 DEF ContradictionLHS
  <2>4. CorroborationLHS' \subseteq CorroborationLHS /\ p \notin CorroborationLHS'
    BY <1>4, <2>1, <2>2 DEF CorroborationLHS
  <2>5. /\ Fewer(AllWork'[27], AllWork[27])
        /\ \A j \in 1..26 : AllWork'[j] \subseteq AllWork[j]
    BY <1>3, <2>3, <2>4, AllWorkIs DEF Fewer
  <2> QED BY <2>5, AllDecided
<1>7. ASSUME UNCHANGED <<contradicted, corroborated>>
      PROVE  \A j \in 1..27 : AllWork'[j] \subseteq AllWork[j]
  <2>1. \A q : Vouches(q)' = Vouches(q)
    BY <1>1, <1>4 DEF Vouches, About
  <2>2. UNCHANGED <<ContradictionLHS, CorroborationLHS>>
    BY <1>4, <1>7, <2>1 DEF ContradictionLHS, CorroborationLHS
  <2> QED BY <1>3, <2>2, AllWorkIs
<1>8. CASE RetractSuspicion
  <2>1. PICK s \in RetractSuspicionLHS : suspicions' = suspicions \ {s}
    BY <1>8 DEF RetractSuspicion
  <2>2. Fewer(RetractSuspicionLHS', RetractSuspicionLHS)
    BY <1>2, <2>1 DEF RetractSuspicionLHS, Fewer
  <2>3. \A j \in 1..27 : AllWork'[j] \subseteq AllWork[j]
    BY <1>7, <1>8 DEF RetractSuspicion, testimonyVars
  <2> QED BY <2>2, <2>3, AllDecided, AllWorkIs
<1>9. CASE SuspicionEnsure
  <2>1. PICK c \in SuspicionEnsureLHS : suspicions' = suspicions \cup {W!NewSuspicion(c)}
    BY <1>9 DEF SuspicionEnsure
  <2> DEFINE new == W!NewSuspicion(c)
  <2>2. new.color = c
    BY DEF W!NewSuspicion
  <2> HIDE DEF new
  <2>3. suspicions' = suspicions \cup {new}
    BY <2>1 DEF new
  <2>4. W!Pool' = W!Pool \cup {c} /\ c \notin W!Pool
    BY <2>1, <2>2, <2>3 DEF W!Pool, SuspicionEnsureLHS
  <2>5. Living' = Living
    BY <1>2 DEF Living
  <2>6. Fewer(SuspicionEnsureLHS', SuspicionEnsureLHS)
    BY <2>1, <2>4, <2>5 DEF SuspicionEnsureLHS, Fewer
  <2>7. \A m \in About(crew, c) : m.status = "alive"
    BY <2>1 DEF SuspicionEnsureLHS, Living, About, OneDossier, Keyed, OfColor
  <2>8. RetractSuspicionLHS' \subseteq RetractSuspicionLHS
    BY <1>2, <2>2, <2>3, <2>7 DEF RetractSuspicionLHS, About
  <2>9. /\ Fewer(AllWork'[29], AllWork[29])
        /\ \A j \in 1..28 : AllWork'[j] \subseteq AllWork[j]
    <3>1. \A j \in 1..27 : AllWork'[j] \subseteq AllWork[j]
      BY <1>7, <1>9 DEF SuspicionEnsure, testimonyVars
    <3> QED BY <2>6, <2>8, <3>1, AllWorkIs
  <2> QED BY <2>9, AllDecided
<1>10. ASSUME NEW ts, ts \subseteq PriorTerms \cup Band90Terms, AssertTerm(ts)
       PROVE  Less(AllWork', AllWork)
  <2>1. PICK t \in Missing(ts) : terms' = terms \cup {t}
    BY <1>10 DEF AssertTerm
  <2>2. UNCHANGED <<testimonyVars, suspicions>>
    BY <1>10 DEF AssertTerm
  <2> DEFINE due == PriorTerms \cup Band90Terms
  <2>3. due' = due
    BY <1>1, <2>2, SameGrounds DEF allVars, vars, factVars, PriorTerms, Living, inputVars,
       dossierVars
  <2>4. Missing(due)' = {u \in due \ terms' : ~ \E v \in terms' : SameTerm(u, v)}
    BY <2>3 DEF Missing
  <2>5. t \in Missing(due)
    BY <1>10, <2>1 DEF Missing
  <2> HIDE DEF due
  <2>6. Fewer(Missing(due)', Missing(due))
    BY <2>1, <2>4, <2>5 DEF Missing, Fewer
  <2>7. UNCHANGED <<RetractSuspicionLHS, SuspicionEnsureLHS>>
    BY <1>2, <2>2 DEF RetractSuspicionLHS, SuspicionEnsureLHS, Living, W!Pool, About
  <2>8. /\ Fewer(AllWork'[30], AllWork[30])
        /\ \A j \in 1..29 : AllWork'[j] \subseteq AllWork[j]
    <3>1. \A j \in 1..27 : AllWork'[j] \subseteq AllWork[j]
      BY <1>7, <2>2 DEF testimonyVars
    <3> QED BY <2>6, <2>7, <3>1, AllWorkIs DEF due
  <2> QED BY <2>8, AllDecided
<1> QED
  BY <1>5, <1>6, <1>8, <1>9, <1>10 DEF BeliefRule, ClaimRules

(* Every rule that fires leaves less to do, those of the belief layer and  *)
(* those of the fact layers between them, whatever logical terms go with   *)
(* their evidence (suspicion.clp, claims.clp, social.clp).                 *)
THEOREM BeliefsAlwaysMakeProgress == BeliefsSpec => BeliefsMakeProgress
<1>1. ASSUME MaintInv, DossierInv, KeyInv, DetectiveRule PROVE Less(AllWork', AllWork)
  <2>1. Less(Work', Work)
    BY <1>1, FiringWork DEF DetectiveRule
  <2>2. PICK i \in 1..25 : Fewer(Work'[i], Work[i])
                           /\ \A j \in 1 .. i - 1 : Work'[j] \subseteq Work[j]
    BY <2>1, WorkIs DEF Less
  <2>3. /\ i \in 1..30 /\ Fewer(AllWork'[i], AllWork[i])
        /\ \A j \in 1 .. i - 1 : AllWork'[j] \subseteq AllWork[j]
    BY <2>2, AllWorkIs
  <2> QED BY <2>3, AllDecided
<1>2. MaintInv /\ (TypeInv /\ DossierInv) /\ (TypeInv /\ DossierInv /\ KeyInv /\ VerdictInv)
        => [DetectiveRule \/ BeliefRule => Less(AllWork', AllWork)]_everyVar
  BY <1>1, BeliefRuleWork DEF DossierInv
<1> QED
  BY <1>2, BeliefsImplementDetective, MaintAlways, DossierAlways, VerdictAlways, PTL
  DEF BeliefsMakeProgress

(* What has been heard and concluded is finite.                            *)
HeardIsFinite ==
  /\ IsFiniteSet(claims) /\ IsFiniteSet(accuses) /\ IsFiniteSet(defends)
  /\ IsFiniteSet(contradicted) /\ IsFiniteSet(corroborated)
  /\ IsFiniteSet(suspicions)

LEMMA ImageFinite ==
  ASSUME NEW S, IsFiniteSet(S), NEW g
  PROVE  IsFiniteSet({g[x] : x \in S})
<1> DEFINE T == {g[x] : x \in S}
           f == [x \in S |-> g[x]]
<1>1. f \in [S -> T] /\ \A t \in T : \E x \in S : f[x] = t
  OBVIOUS
<1> HIDE DEF f, T
<1>2. f \in Surjection(S, T)
  BY <1>1 DEF Surjection
<1>3. IsFiniteSet(T)
  BY <1>2, FS_Surjection
<1> QED
  BY <1>3 DEF T

LEMMA HeardFinite == BeliefsSpec => []HeardIsFinite
<1>1. BeliefsInit => HeardIsFinite
  <2> SUFFICES ASSUME BeliefsInit PROVE HeardIsFinite
    OBVIOUS
  <2>1. suspicions = {}
    BY DEF BeliefsInit, W!WeightsInit
  <2> QED BY <2>1, FS_EmptySet DEF BeliefsInit, TestimonyInit, HeardIsFinite
<1>2. ASSUME NEW S, NEW T, IsFiniteSet(S), AtMostOneNew(T, S) PROVE IsFiniteSet(T)
  <2>1. PICK x : T \subseteq S \cup {x}
    BY <1>2 DEF AtMostOneNew
  <2>2. T \in SUBSET (S \cup {x})
    BY <2>1
  <2> QED BY <1>2, <2>2, FS_AddElement, FS_Subset
<1>3. /\ \A S : AtMostOneNew(S, S)
      /\ \A S, x : AtMostOneNew(S \cup {x}, S)
      /\ \A S, T : T \subseteq S => AtMostOneNew(T, S)
  BY DEF AtMostOneNew
<1>4. ASSUME HeardIsFinite, [BeliefsNext]_everyVar PROVE HeardIsFinite'
  <2>1. /\ AtMostOneNew(claims', claims) /\ AtMostOneNew(accuses', accuses)
        /\ AtMostOneNew(defends', defends) /\ AtMostOneNew(contradicted', contradicted)
        /\ AtMostOneNew(corroborated', corroborated)
    <3>1. CASE Hear
      BY <1>3, <3>1 DEF Hear, ObserveClaim, ObserveVote, ObserveDefense
    <3>2. CASE ClaimRules
      BY <1>3, <3>2 DEF ClaimRules, DeriveContradiction, DeriveCorroboration, WithoutPairs
    <3>3. CASE UNCHANGED testimonyVars
      BY <1>3, <3>3 DEF testimonyVars
    <3> QED BY <1>4, <3>1, <3>2, <3>3 DEF BeliefsNext, Call, DetectiveRule, Return,
               BeliefRule, RetractSuspicion, SuspicionEnsure, AssertTerm, everyVar
  <2>2. IsFiniteSet(suspicions')
    <3>0. IsFiniteSet(suspicions)
      BY <1>4 DEF HeardIsFinite
    <3>1. CASE RetractSuspicion \/ SuspicionEnsure \/ UNCHANGED suspicions
      <4>1. AtMostOneNew(suspicions', suspicions)
        BY <1>3, <3>1 DEF RetractSuspicion, SuspicionEnsure
      <4> QED BY <1>2, <3>0, <4>1
    <3>2. CASE Return
      <4> DEFINE share == W!Shares(W!LikelihoodOf(terms, W!Pool))
                 g == [c \in W!Pool |-> [color |-> c, logodds |-> W!SumOf(terms, c),
                                         weight |-> share[Position[c]]]]
      <4>1. suspicions' = {g[c] : c \in W!Pool}
        BY <3>2 DEF Return, W!Normalize, W!Weighed
      <4> HIDE DEF g
      <4>2. IsFiniteSet(W!Pool)
        BY <3>0, ColorsFinite DEF W!Pool
      <4> QED BY <4>1, <4>2, ImageFinite
    <3> QED BY <1>4, <3>1, <3>2 DEF BeliefsNext, Call, Hear, DetectiveRule,
               BeliefRule, AssertTerm, everyVar, beliefVars
  <2> QED BY <1>2, <1>4, <2>1, <2>2 DEF HeardIsFinite
<1> QED
  BY <1>1, <1>4, PTL DEF BeliefsSpec

(* The terms the facts call for, rule by rule.                             *)
LEMMA DueTermsFinite ==
  FactsAreFinite /\ HeardIsFinite => IsFiniteSet(PriorTerms \cup Band90Terms)
<1> SUFFICES ASSUME FactsAreFinite, HeardIsFinite
             PROVE  IsFiniteSet(PriorTerms \cup Band90Terms)
  OBVIOUS
<1> USE DEF FactsAreFinite, HeardIsFinite
<1>0. ASSUME NEW S, NEW T, IsFiniteSet(S), T \subseteq S PROVE IsFiniteSet(T)
  <2>1. T \in SUBSET S
    BY <1>0
  <2> QED BY <1>0, <2>1, FS_Subset
<1>1. IsFiniteSet(PriorTerms) /\ IsFiniteSet(OffTaskTerms) /\ IsFiniteSet(OnTaskTerms)
  <2> DEFINE P == [m \in crew |-> Term(m.color, "prior", NoKey)]
             F == [m \in crew |-> Term(m.color, "offTask", NoKey)]
             N == [m \in crew |-> Term(m.color, "onTask", NoKey)]
  <2>1. Living \subseteq crew
    BY DEF Living
  <2>2. /\ PriorTerms \subseteq {P[m] : m \in crew}
        /\ OffTaskTerms \subseteq {F[m] : m \in crew}
        /\ OnTaskTerms \subseteq {N[m] : m \in crew}
    BY <2>1 DEF PriorTerms, OffTaskTerms, OnTaskTerms
  <2> HIDE DEF P, F, N
  <2>3. /\ IsFiniteSet({P[m] : m \in crew}) /\ IsFiniteSet({F[m] : m \in crew})
        /\ IsFiniteSet({N[m] : m \in crew})
    BY ImageFinite
  <2> QED BY <1>0, <2>2, <2>3
<1>2. IsFiniteSet(CastIronTerms) /\ IsFiniteSet(VentTerms) /\ IsFiniteSet(AccusationTerms)
  <2> DEFINE I == [i \in castIron |-> Term(i.color, "castIron", i.victim)]
             V == [x \in vents |-> Term(x.color, IF x.basis = "observed" THEN "ventObserved"
                                                 ELSE "ventInferred", NoKey)]
             A == [x \in accusations |-> Term(x.color, "accusation", x.victim)]
  <2>2. /\ CastIronTerms = {I[i] : i \in castIron}
        /\ VentTerms = {V[x] : x \in vents}
        /\ AccusationTerms = {A[x] : x \in accusations}
    BY DEF CastIronTerms, VentTerms, AccusationTerms
  <2> HIDE DEF I, V, A
  <2> QED BY <2>2, ImageFinite
<1>3. IsFiniteSet(NearBodyTerms) /\ IsFiniteSet(SilentTerms)
  <2> DEFINE B == [p \in nearBody \X cases |-> Term(p[1].color, "nearBody", p[2].victim)]
             S == [p \in nearBody \X cases |-> Term(p[1].color, "silentWitness", p[2].victim)]
  <2>1. AtBody \subseteq nearBody \X cases
    BY DEF AtBody
  <2>2. /\ NearBodyTerms \subseteq {B[p] : p \in nearBody \X cases}
        /\ SilentTerms \subseteq {S[p] : p \in nearBody \X cases}
    <3>1. \A p \in nearBody \X cases :
             /\ B[p] = Term(p[1].color, "nearBody", p[2].victim)
             /\ S[p] = Term(p[1].color, "silentWitness", p[2].victim)
      OBVIOUS
    <3> HIDE DEF B, S
    <3>2. NearBodyTerms \subseteq {B[p] : p \in nearBody \X cases}
      BY <2>1, <3>1 DEF NearBodyTerms
    <3>3. SilentTerms \subseteq {S[p] : p \in nearBody \X cases}
      BY <2>1, <3>1 DEF SilentTerms
    <3> QED BY <3>2, <3>3
  <2> HIDE DEF B, S
  <2>3. IsFiniteSet(nearBody \X cases)
    BY FS_Product
  <2>4. /\ IsFiniteSet({B[p] : p \in nearBody \X cases})
        /\ IsFiniteSet({S[p] : p \in nearBody \X cases})
    <3> DEFINE P == nearBody \X cases
    <3> SUFFICES IsFiniteSet({B[p] : p \in P}) /\ IsFiniteSet({S[p] : p \in P})
      OBVIOUS
    <3>1. IsFiniteSet(P)
      BY <2>3
    <3> HIDE DEF P
    <3> QED BY <3>1, ImageFinite
  <2> QED BY <1>0, <2>2, <2>4
<1>4. IsFiniteSet(ContradictionTerms) /\ IsFiniteSet(SelfReportTerms) /\ IsFiniteSet(CoLocationTerms)
  <2> DEFINE C == [c \in contradicted |-> Term(c, "contradiction", NoKey)]
             R == [x \in claims |-> Term(x.color, "selfReport", NoKey)]
             L == [p \in corroborated |-> Term(p.a, "coLocation", p.b)]
             M == [p \in corroborated |-> Term(p.b, "coLocation", p.a)]
  <2>2. /\ ContradictionTerms = {C[c] : c \in contradicted}
        /\ SelfReportTerms \subseteq {R[x] : x \in claims}
        /\ CoLocationTerms = {L[p] : p \in corroborated} \cup {M[p] : p \in corroborated}
    BY DEF ContradictionTerms, SelfReportTerms, CoLocationTerms
  <2> HIDE DEF C, R, L, M
  <2>3. /\ IsFiniteSet({C[c] : c \in contradicted}) /\ IsFiniteSet({R[x] : x \in claims})
        /\ IsFiniteSet({L[p] : p \in corroborated}) /\ IsFiniteSet({M[p] : p \in corroborated})
    BY ImageFinite
  <2> QED BY <1>0, <2>2, <2>3, FS_Union
<1>5. IsFiniteSet(AccuseImpostorTerms) /\ IsFiniteSet(DefendImpostorTerms)
  <2> DEFINE A == [e \in accuses |-> Term(e.a, "accuseImpostor", e.b)]
             D == [e \in defends |-> Term(e.a, "defendImpostor", e.b)]
  <2>2. /\ AccuseImpostorTerms \subseteq {A[e] : e \in accuses}
        /\ DefendImpostorTerms \subseteq {D[e] : e \in defends}
    BY DEF AccuseImpostorTerms, DefendImpostorTerms
  <2> HIDE DEF A, D
  <2>3. IsFiniteSet({A[e] : e \in accuses}) /\ IsFiniteSet({D[e] : e \in defends})
    BY ImageFinite
  <2> QED BY <1>0, <2>2, <2>3
<1>6. IsFiniteSet(CoAccuseTerms)
  <2> DEFINE C == [p \in accuses \X accuses |-> Term(p[2].a, "coAccuse", <<p[1].a, p[1].b>>)]
  <2>2. CoAccuseTerms \subseteq {C[p] : p \in accuses \X accuses}
    <3>1. \A p \in accuses \X accuses : C[p] = Term(p[2].a, "coAccuse", <<p[1].a, p[1].b>>)
      OBVIOUS
    <3> HIDE DEF C
    <3> QED BY <3>1 DEF CoAccuseTerms
  <2> HIDE DEF C
  <2>3. IsFiniteSet(accuses \X accuses)
    BY FS_Product
  <2>4. IsFiniteSet({C[p] : p \in accuses \X accuses})
    <3> DEFINE P == accuses \X accuses
    <3> SUFFICES IsFiniteSet({C[p] : p \in P})
      OBVIOUS
    <3>1. IsFiniteSet(P)
      BY <2>3
    <3> HIDE DEF P
    <3> QED BY <3>1, ImageFinite
  <2> QED BY <1>0, <2>2, <2>4
<1>7. IsFiniteSet(PackClearedTerms)
  <2> DEFINE K == [p \in castIron \X accuses |->
                     [Term(p[2].a, "packCleared", p[1].color) EXCEPT !.via = p[1].victim]]
  <2>2. PackClearedTerms \subseteq {K[p] : p \in castIron \X accuses}
    <3>1. \A p \in castIron \X accuses :
             K[p] = [Term(p[2].a, "packCleared", p[1].color) EXCEPT !.via = p[1].victim]
      OBVIOUS
    <3> HIDE DEF K
    <3> QED BY <3>1 DEF PackClearedTerms
  <2> HIDE DEF K
  <2>3. IsFiniteSet(castIron \X accuses)
    BY FS_Product
  <2>4. IsFiniteSet({K[p] : p \in castIron \X accuses})
    <3> DEFINE P == castIron \X accuses
    <3> SUFFICES IsFiniteSet({K[p] : p \in P})
      OBVIOUS
    <3>1. IsFiniteSet(P)
      BY <2>3
    <3> HIDE DEF P
    <3> QED BY <3>1, ImageFinite
  <2> QED BY <1>0, <2>2, <2>4
<1> QED
  BY <1>1, <1>2, <1>3, <1>4, <1>5, <1>6, <1>7, FS_Union DEF Band90Terms

(* There is never more than finitely much left to do, with claims, votes   *)
(* and defenses heard, however many (fd_observe_claim, fd_run).            *)
THEOREM BeliefWorkAlwaysFinite == BeliefsSpec => []Piles(30, AllWork)
<1>1. ASSUME FactsAreFinite, HeardIsFinite PROVE Piles(30, AllWork)
  <2> USE <1>1 DEF HeardIsFinite, FactsAreFinite
  <2>0. ASSUME NEW S, NEW T, IsFiniteSet(S), T \subseteq S PROVE IsFiniteSet(T)
    <3>1. T \in SUBSET S
      BY <2>0
    <3> QED BY <2>0, <3>1, FS_Subset
  <2>1. IsFiniteSet(Claimants)
    <3>1. IsFiniteSet(Placed)
      <4>1. Placed \subseteq claims
        BY DEF Placed
      <4> QED BY <2>0, <4>1
    <3> QED BY <3>1, ColorsFinite DEF Claimants
  <2>2. IsFiniteSet(ContradictionLHS)
    <3>1. ContradictionLHS \subseteq Claimants
      BY DEF ContradictionLHS
    <3> QED BY <2>0, <2>1, <3>1
  <2>3. IsFiniteSet(CorroborationLHS)
    <3> DEFINE P == Claimants \X Claimants
               g == [p \in P |-> [a |-> p[1], b |-> p[2]]]
    <3>1. CorroborationLHS \subseteq {g[p] : p \in P}
      <4>1. ASSUME NEW q \in CorroborationLHS PROVE \E p \in P : q = g[p]
        <5>1. q \in [a : Claimants, b : Claimants]
          BY DEF CorroborationLHS
        <5>2. <<q.a, q.b>> \in P /\ q = [a |-> q.a, b |-> q.b]
          BY <5>1
        <5> QED BY <5>2
      <4> HIDE DEF g, P
      <4> QED BY <4>1
    <3>2. IsFiniteSet(P)
      BY <2>1, FS_Product
    <3> HIDE DEF g, P
    <3>3. IsFiniteSet({g[p] : p \in P})
      BY <3>2, ImageFinite
    <3> QED BY <2>0, <3>1, <3>3
  <2>4. IsFiniteSet(RetractSuspicionLHS)
    <3>1. RetractSuspicionLHS \subseteq suspicions
      BY DEF RetractSuspicionLHS
    <3> QED BY <2>0, <3>1
  <2>5. IsFiniteSet(SuspicionEnsureLHS)
    <3>1. IsFiniteSet({m.color : m \in crew})
      BY ColorsFinite
    <3>2. SuspicionEnsureLHS \subseteq {m.color : m \in crew}
      BY DEF SuspicionEnsureLHS, Living
    <3> QED BY <2>0, <3>1, <3>2
  <2>6. IsFiniteSet(Missing(PriorTerms \cup Band90Terms))
    <3>1. Missing(PriorTerms \cup Band90Terms) \subseteq PriorTerms \cup Band90Terms
      BY DEF Missing
    <3> QED BY <2>0, <3>1, DueTermsFinite
  <2>7. \A i \in 1..25 : IsFiniteSet(AllWork[i])
    BY WorkFinite, AllWorkIs DEF Piles
  <2>8. ASSUME NEW i \in 1..30 PROVE IsFiniteSet(AllWork[i])
    BY <2>2, <2>3, <2>4, <2>5, <2>6, <2>7, AllWorkIs
  <2> QED BY <2>8, AllWorkIs DEF Piles
<1> QED
  BY <1>1, HeardFinite, FiniteAlways, BeliefsImplementDetective, PTL
=============================================================================
