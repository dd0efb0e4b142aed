------------------------------ MODULE Reports ------------------------------
(***************************************************************************)
(* What the detector writes for people (fd_render.c): the summary before a *)
(* vote, the case file and the reason behind a risk, as the lines they     *)
(* consist of.  Wording and truncation to the caller's buffer are left     *)
(* out; a stance's rationale is told apart by its evidence.                *)
(*                                                                         *)
(* Definitions preceded by a variant with a plausible mistake: see Cases.  *)
(***************************************************************************)
EXTENDS Queries, SequencesExt

(***************************************************************************)
(* fd_render_vote_summary: one line per stance, category by category and   *)
(* within a category in the order of the enum, and a footer with the       *)
(* deceased.  Precedes(l, m): line l is printed before line m.                *)
(***************************************************************************)
CategoryMildFirst == <<"on-task", "off-task", "threat", "unknown">>
CategoryOrder     == <<"threat", "off-task", "on-task", "unknown">>

SummaryLines ==
  {[color |-> c, severity |-> StanceNow(c)] :
     c \in {d \in Colors \ {self} : About(stances, d) # {}}}
Precedes(l, m) ==
  \E i, j \in DOMAIN CategoryOrder :
    /\ l.severity = CategoryOrder[i] /\ m.severity = CategoryOrder[j]
    /\ i < j \/ (i = j /\ EnumOrder[l.color] < EnumOrder[m.color])

Deceased == {c \in Colors : StatusNow(c) \in {"dead", "ejected"}}

(***************************************************************************)
(* fd_alone_risk_rationale: the renderer has its own copy of fd_alone_risk *)
(* and of its table.                                                       *)
(***************************************************************************)
RiskTable ==
  [trusting |-> <<"low", "low", "low", "high">>,
   neutral  |-> <<"medium", "low", "medium", "high">>,
   paranoid |-> <<"medium", "medium", "high", "high">>]
StanceIndex == [x \in Category |->
  CASE x = "unknown" -> 1 [] x = "on-task" -> 2 [] x = "off-task" -> 3
    [] x = "threat" -> 4]
AloneRiskNow(style, c) ==
  IF c = self \/ c \in Deceased THEN "none"
  ELSE IF ~ Known(c) THEN (IF style = "paranoid" THEN "medium" ELSE "unknown")
  ELSE IF AllImpostorsEjected THEN "none"
  ELSE RiskTable[style][StanceIndex[StanceNow(c)]]

AloneRiskBody(style, c) ==
  IF c = self THEN "that's you"
  ELSE IF AloneRiskNow(style, c) = "none" /\ AllImpostorsEjected
       THEN "all impostors ejected"
  ELSE IF StatusNow(c) # "alive" THEN StatusNow(c)
  ELSE EvidenceNow(c)

(***************************************************************************)
(* fd_render_case: a section per open case with the body, the kill window, *)
(* the suspects, the cleared and, once the field has narrowed to one, the  *)
(* name of the murderer.  A cleared line quotes an alibi, if there is one. *)
(***************************************************************************)
SuspectLines(v)  == {s.color : s \in InCase(suspects, v)}
FindAlibi(c, v)  == {a \in alibis : a.color = c /\ a.victim = v}
WeaklyCleared(v) == {[color |-> a.color, quoting |-> {a}] : a \in InCase(alibis, v)}
ClearedLines(v)  == {[color |-> i.color, quoting |-> FindAlibi(i.color, v)] :
                       i \in InCase(castIron, v)}
RevealLine(v)    == {x.color : x \in InCase(accusations, v)}

(***************************************************************************)
(* What the reports promise.                                               *)
(***************************************************************************)

(* Everything a caller can read of the verdicts is of one mind, although   *)
(* the vote works from lists of priorities, the risk from a table, the     *)
(* prose from another copy of that table and the summary from a list of    *)
(* categories of its own: the target of a vote is the first line of the    *)
(* summary the style would vote for; a trusting policy votes exactly when  *)
(* being alone with somebody is a high risk to it, and the reason given    *)
(* for such a risk is incriminating evidence; everybody with a dossier is  *)
(* in exactly one of the lines, the footer and the seat of self            *)
(* (fd_query.c: fd_pick_vote_target, fd_alone_risk; fd_render.c).          *)
VotesMatchRisks ==
  Fixpoint =>
    LET listed   == {l.color : l \in SummaryLines}
        dossiers == {m.color : m \in crew}
    IN  /\ listed \cap Deceased = {}
        /\ listed \cup (Deceased \ {self}) = dossiers \ {self}
        /\ \A style \in Playstyle :
             LET vote  == PickVoteTarget(style)
                 worth == {l \in SummaryLines : l.severity \in Range(Priority[style])}
                 high  == {c \in listed : AloneRisk(style, c) = "high"}
             IN  /\ IF worth = {} THEN vote = NoTarget
                    ELSE vote \in worth /\ \A l \in worth \ {vote} : Precedes(vote, l)
                 /\ high # {} => vote.color \in high
                 /\ style = "trusting" /\ vote # NoTarget => vote.color \in high
                 /\ \A c \in Colors : /\ AloneRiskNow(style, c) = AloneRisk(style, c)
                                      /\ AloneRisk("trusting", c) = "high" =>
                                           AloneRiskBody(style, c) \in
                                             {"accusation", "vent", "near-body"}

(* Each section of the case file can be read on its own: whoever lives and *)
(* is neither the reader nor the victim is either a suspect or cleared;    *)
(* who is cleared was really seen in another room inside the kill window   *)
(* the section prints; and a murderer is named exactly when one suspect is *)
(* left, and is that suspect (fd_render.c: fd_render_case).                *)
CaseFileIsTrue ==
  (Fixpoint /\ self # Nobody) =>
    \A k \in cases :
      LET v       == k.victim
          cleared == {l.color : l \in ClearedLines(v)}
          others  == {m.color : m \in {n \in crew : n.status = "alive"}}
                     \ {v, self}
      IN  /\ others \subseteq SuspectLines(v) \cup cleared
          /\ SuspectLines(v) \cap cleared = {}
          /\ \A l \in ClearedLines(v) : \E a \in l.quoting, w \in InCase(windows, v) :
               /\ a.room # w.room /\ Within(a.tick, w)
               /\ [color |-> l.color, room |-> a.room, tick |-> a.tick] \in sightings
          /\ \A c \in Colors : c \in RevealLine(v) <=> SuspectLines(v) = {c}
=============================================================================
