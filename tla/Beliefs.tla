------------------------------ MODULE Beliefs ------------------------------
(***************************************************************************)
(* The joint belief: every settled piece of evidence is a (logodds-term),  *)
(* every living color but self has a (suspicion), and fd_run ends with the *)
(* normalization of the weights (clp/suspicion.clp, claims.clp,            *)
(* social.clp; fd_clips.c).  The layer reads the facts of Detective and    *)
(* writes none of them.                                                    *)
(*                                                                         *)
(* Its rules interleave with those of Detective by salience: 200 and 140   *)
(* with the round and case layers, 95 and 90 between the threat verdicts   *)
(* and the task verdicts.                                                  *)
(***************************************************************************)
EXTENDS Testimony

CONSTANT Position      \* colors' positions in the fd_player enum
VARIABLES terms, suspicions

beliefVars == <<terms, suspicions>>
everyVar   == <<allVars, testimonyVars, beliefVars>>

NoKey   == Nobody
Key     == Colors \cup {NoKey} \cup Colors \X Colors
Logical == {"castIron", "ventObserved", "ventInferred", "accusation",
            "nearBody", "coLocation", "silentWitness", "packCleared"}
Sources == Logical \cup
           {"prior", "offTask", "onTask", "contradiction", "selfReport",
            "accuseImpostor", "defendImpostor", "coAccuse"}
(* via: the case of the clearance that supports a packCleared term.        *)
LogoddsTerm == [color : Colors, source : Sources, key : Key, via : Key]

W == INSTANCE Weights WITH
       Players <- Colors, EnumOrder <- Position, Evidence <- LogoddsTerm

ASSUME PositionIsInjective ==
  /\ Position \in [Colors -> Nat]
  /\ \A c, d \in Colors : Position[c] = Position[d] => c = d

Term(c, source, k) == [color |-> c, source |-> source, key |-> k, via |-> NoKey]

(***************************************************************************)
(* The terms the current facts call for, one set per rule.                 *)
(***************************************************************************)
Living == IF self = Nobody THEN {}
          ELSE {m \in crew : m.status = "alive" /\ m.color # self}

PriorTerms      == {Term(m.color, "prior", NoKey) : m \in Living}
CastIronTerms   == {Term(i.color, "castIron", i.victim) : i \in castIron}
VentTerms       == {Term(x.color, IF x.basis = "observed" THEN "ventObserved"
                                  ELSE "ventInferred", NoKey) : x \in vents}
AccusationTerms == {Term(x.color, "accusation", x.victim) : x \in accusations}
AtBody == {p \in nearBody \X cases : p[1].room = p[2].room /\ p[1].tick = p[2].tick}
NearBodyTerms   == {Term(p[1].color, "nearBody", p[2].victim) : p \in
                     {q \in AtBody : ~ HasCastIron(q[1].color, q[2].victim)}}
OffTaskTerms    == {Term(m.color, "offTask", NoKey) :
                      m \in {n \in Living : n.tasks = 0}}
OnTaskTerms     == {Term(m.color, "onTask", NoKey) :
                      m \in {n \in Living : n.tasks >= OnTaskTasks}}

ContradictionTerms == {Term(c, "contradiction", NoKey) : c \in contradicted}
SelfReportTerms    == {Term(x.color, "selfReport", NoKey) : x \in claims \ Placed}
CoLocationTerms    == {Term(p.a, "coLocation", p.b) : p \in corroborated}
                      \cup {Term(p.b, "coLocation", p.a) : p \in corroborated}
SpeaksOfBody(c, room) == \E x \in About(claims, c) : x.kind = "self-report"
Speaks(c, room) == \E x \in About(claims, c) :
                     x.kind = "self-report" \/ (x.kind = "location" /\ x.room = room)
SilentTerms     == IF claims = {} THEN {}
                   ELSE {Term(p[1].color, "silentWitness", p[2].victim) : p \in
                          {q \in AtBody : ~ Speaks(q[1].color, q[2].room)}}

Revealed == {e.color : e \in {x \in ejections : x.impostor}}
AccusedByImpostorTerms == {Term(e.b, "accuseImpostor", e.a) :
                             e \in {x \in accuses : x.a \in Revealed /\ x.a # x.b}}
AccuseImpostorTerms == {Term(e.a, "accuseImpostor", e.b) :
                          e \in {x \in accuses : x.b \in Revealed /\ x.a # x.b}}
DefendImpostorTerms == {Term(e.a, "defendImpostor", e.b) :
                          e \in {x \in defends : x.b \in Revealed /\ x.a # x.b}}
CoAccuseTerms == {Term(p[2].a, "coAccuse", <<p[1].a, p[1].b>>) : p \in
                   {q \in accuses \X accuses : /\ q[1].a \in Revealed
                                               /\ q[1].b = q[2].b
                                               /\ q[1].a # q[2].a}}
PackClearedTerms ==
  {[Term(p[2].a, "packCleared", p[1].color) EXCEPT !.via = p[1].victim] : p \in
     {q \in castIron \X accuses : q[2].b = q[1].color /\ q[2].a # q[1].color}}

Band90Terms ==
  CastIronTerms \cup VentTerms \cup AccusationTerms \cup NearBodyTerms
  \cup OffTaskTerms \cup OnTaskTerms \cup ContradictionTerms
  \cup SelfReportTerms \cup CoLocationTerms \cup SilentTerms
  \cup AccuseImpostorTerms \cup DefendImpostorTerms \cup CoAccuseTerms
  \cup PackClearedTerms

(* The (not (logodds-term ...)) guard: once per color, source and key.     *)
SameTerm(t, u) == t.color = u.color /\ t.source = u.source /\ t.key = u.key
Missing(ts)  == {t \in ts \ terms : ~ \E u \in terms : SameTerm(t, u)}

(* Terms with a logical CE go with their evidence.                         *)
Unsupported(ts, grounds) == ts
Standing(ts, grounds) == {t \in ts : t.source \in Logical => t \in grounds}
Maintained == \E grounds \in {Band90Terms'} : terms' = Standing(terms, grounds)

(***************************************************************************)
(* Rules.                                                                  *)
(***************************************************************************)
RetractEjectedLHS ==
  {s \in suspicions : \E m \in About(crew, s.color) : m.status = "ejected"}
RetractSuspicionLHS ==
  {s \in suspicions : \E m \in About(crew, s.color) : m.status # "alive"}
RetractSuspicion ==
  /\ \E s \in RetractSuspicionLHS : suspicions' = suspicions \ {s}
  /\ UNCHANGED <<allVars, testimonyVars, terms>>

EnsureDeadToo      == {m.color : m \in {n \in crew : n.color # self}} \ W!Pool
SuspicionEnsureLHS == {m.color : m \in Living} \ W!Pool
SuspicionEnsure ==
  /\ \E c \in SuspicionEnsureLHS : suspicions' = suspicions \cup {W!NewSuspicion(c)}
  /\ UNCHANGED <<allVars, testimonyVars, terms>>

AssertTerm(ts) ==
  /\ \E t \in Missing(ts) : terms' = terms \cup {t}
  /\ UNCHANGED <<allVars, testimonyVars, suspicions>>

Pending200 == RetractSuspicionLHS # {}
Pending95  == SuspicionEnsureLHS # {} \/ Missing(PriorTerms) # {}
Pending90  == Missing(Band90Terms) # {}

BeliefRule ==
  /\ phase = "running"
  /\ \/ Quiet250 /\ RetractSuspicion
     \/ Quiet150 /\ ~ Pending200 /\ ClaimRules /\ UNCHANGED suspicions /\ Maintained
     \/ /\ Quiet100 /\ ~ Pending200 /\ ~ ClaimPending
        /\ \/ SuspicionEnsure
           \/ AssertTerm(PriorTerms)
           \/ ~ Pending95 /\ AssertTerm(Band90Terms)

(* A rule of Detective fires unless a belief rule of a higher salience is  *)
(* due.                                                                    *)
Free ==
  /\ Pending200 => ~ Quiet200
  /\ ClaimPending => ~ Quiet140
  /\ (Pending95 \/ Pending90) => ~ Quiet100
DetectiveRule ==
  /\ Free /\ FireRule
  /\ UNCHANGED <<testimonyVars, suspicions>> /\ Maintained

(***************************************************************************)
(* Calls.                                                                  *)
(***************************************************************************)
Call ==
  /\ Observe \/ FdRun
  /\ UNCHANGED <<testimonyVars, suspicions>> /\ Maintained
Hear ==
  /\ ObserveClaim \/ ObserveVote \/ ObserveDefense
  /\ UNCHANGED suspicions /\ Maintained

Settled == /\ Fixpoint
           /\ ~ (Pending200 \/ ClaimPending \/ Pending95 \/ Pending90)
ReturnUnweighed ==
  Settled /\ EndRun /\ UNCHANGED <<testimonyVars, beliefVars>>
Return ==
  /\ Settled /\ EndRun
  /\ W!Normalize
  /\ UNCHANGED testimonyVars

BeliefsInit == Init /\ TestimonyInit /\ W!WeightsInit
BeliefsNext == Call \/ Hear \/ BeliefRule \/ DetectiveRule \/ Return
BeliefsSpec == BeliefsInit /\ [][BeliefsNext]_everyVar
FairBeliefsSpec ==
  BeliefsSpec /\ WF_everyVar(BeliefRule \/ DetectiveRule \/ Return)
============================================================================
