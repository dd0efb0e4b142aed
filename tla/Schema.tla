------------------------------- MODULE Schema -------------------------------
(***************************************************************************)
(* How a detector comes to be: fd_create loads a rule set, embedded or     *)
(* from a directory somebody may have edited, and refuses it unless the    *)
(* templates have the slots the C code depends on (fakedetector.c,         *)
(* fd_schema.c).  The queries then read those slots unchecked.             *)
(*                                                                         *)
(* Definitions preceded by a variant with a plausible mistake: see Cases.  *)
(***************************************************************************)
EXTENDS Integers, SequencesExt

CONSTANTS
  Deployments    \* rule sets: their templates and how many files load

VARIABLES
  rules,         \* the deployment fd_create was called on
  stage,         \* where fd_create is; "alive" and "gone" are its outcomes
  loaded,        \* number of files loaded
  row,           \* number of rows of the schema validated
  env,           \* whether the CLIPS environment exists
  cached         \* names of the templates whose pointers are set

(* A template allows finitely many symbols for a slot, or any.             *)
ASSUME AllowedAreFinite ==
  \A d \in Deployments : \A n \in DOMAIN d.templates :
    \A s \in DOMAIN d.templates[n] : IsFiniteSet(d.templates[n][s].allowed)

schemaVars == <<rules, stage, loaded, row, env, cached>>

(***************************************************************************)
(* The schema: per slot its only type and, if the library parses its       *)
(* value, the allowed values.  Slots are written with _ for the hyphen.    *)
(***************************************************************************)
Sym == [type |-> "SYMBOL", allowed |-> {}]
Num == [type |-> "INTEGER", allowed |-> {}]
Str == [type |-> "STRING", allowed |-> {}]
OneOf(values) == [type |-> "SYMBOL", allowed |-> values]

Phases     == OneOf({"pregame", "playing", "voting", "results", "gameover"})
Statuses   == OneOf({"alive", "dead", "ghost", "ejected", "unknown"})
Levels     == OneOf({"low", "medium", "high", "critical"})
Categories == OneOf({"on-task", "off-task", "threat", "unknown"})
Evidences  == OneOf({"none", "accusation", "vent", "near-body", "off-task", "on-task"})
LogoddsSources ==
  OneOf({"prior", "cast-iron", "near-body", "vent-observed", "vent-inferred",
         "accusation", "off-task", "on-task", "contradiction", "self-report",
         "co-location", "silent-witness", "social-accuse-impostor",
         "social-defend-impostor", "social-co-accuse", "social-pack-cleared"})
Edge == [a |-> Sym, b |-> Sym, tick |-> Num]

NoSection == ""       \* not part of fd_dump_state
Row(name, section, slots) ==
  [name |-> name, section |-> section, slots |-> slots, cache |-> TRUE]
Uncached(name, section, slots) ==
  [Row(name, section, slots) EXCEPT !.cache = FALSE]
SCHEMA == <<
  Row("roster", "round model",
      [n_players |-> Num, n_impostors |-> Num, alive_crew |-> Num,
       alive_impostors |-> Num, impostors_ejected |-> Num]),
  Row("game-pressure", "round model", [level |-> Levels]),
  Row("crewmember", "dossier",
      [color |-> Sym, status |-> Statuses, last_seen_tick |-> Num,
       last_seen_room |-> Sym, visible_tasks |-> Num]),
  Row("case", "case evidence", [victim |-> Sym, room |-> Sym, body_tick |-> Num]),
  Uncached("near-body", "case evidence", [color |-> Sym, room |-> Sym, tick |-> Num]),
  Row("vent-suspected", "case evidence",
      [color |-> Sym, from_room |-> Sym, to_room |-> Sym, delta_tick |-> Num,
       tick |-> Num, basis |-> OneOf({"inferred", "observed"})]),
  Row("accusation", "case evidence", [victim |-> Sym, color |-> Sym]),
  Uncached("accuses", "social / testimony", Edge),
  Uncached("defends", "social / testimony", Edge),
  Uncached("contradiction", "social / testimony", [color |-> Sym, basis |-> Str]),
  Row("logodds-term", "belief",
      [color |-> Sym, source |-> LogoddsSources, key |-> Str, amount |-> Num]),
  Row("suspicion", "belief",
      [color |-> Sym, weight |-> Num, logodds |-> Num, basis |-> Str]),
  Row("stance", "verdict",
      [color |-> Sym, category |-> Categories, evidence |-> Evidences,
       rationale |-> Str]),
  Row("self-color", NoSection, [color |-> Sym]),
  Row("self-state", NoSection,
      [tick |-> Num, phase |-> Phases, room |-> Sym, kill_ready |-> OneOf({"t", "nil"})]),
  Row("impostor-found", NoSection, [color |-> Sym, tick |-> Num]),
  Row("kill-window", NoSection,
      [victim |-> Sym, from_tick |-> Num, to_tick |-> Num, room |-> Sym]),
  Row("alibi", NoSection, [color |-> Sym, victim |-> Sym, at_room |-> Sym, at_tick |-> Num]),
  Row("cast-iron-alibi", NoSection, [color |-> Sym, victim |-> Sym]),
  Row("suspect", NoSection, [color |-> Sym, victim |-> Sym, basis |-> Str]),
  Row("room-distance", NoSection, [from |-> Sym, to |-> Sym, cost |-> Num]),
  Uncached("claim", NoSection,
      [color |-> Sym, kind |-> OneOf({"location", "task", "self-report"}),
       room |-> Sym, tick |-> Num]) >>

(***************************************************************************)
(* The templates clp/templates.clp declares: those of the schema, as the   *)
(* schema wants them, and the raw observations and (corroboration).        *)
(***************************************************************************)
Declared(slots) ==
  [s \in DOMAIN slots |-> [types |-> {slots[s].type}, allowed |-> slots[s].allowed,
                           single |-> TRUE]]
Raw ==
  "sighting" :> [tick |-> Num, color |-> Sym, room |-> Sym, x |-> Num, y |-> Num]
  @@ "body-seen" :> [tick |-> Num, color |-> Sym, room |-> Sym, x |-> Num, y |-> Num]
  @@ "task-tick" :> [tick |-> Num, color |-> Sym, room |-> Sym]
  @@ "player-dead" :> [color |-> Sym, tick |-> Num]
  @@ "ejection" :> [color |-> Sym, tick |-> Num, was_impostor |-> OneOf({"t", "nil"})]
  @@ "corroboration" :> [color_a |-> Sym, color_b |-> Sym, room |-> Sym]
RowOf(name) == CHOOSE t \in ToSet(SCHEMA) : t.name = name
Shipped ==
  [name \in {t.name : t \in ToSet(SCHEMA)} \cup DOMAIN Raw |->
     Declared(IF name \in DOMAIN Raw THEN Raw[name] ELSE RowOf(name).slots)]

(***************************************************************************)
(* Validation.                                                             *)
(***************************************************************************)
AllowedPresent(slot, want) ==
  want.allowed # {} => want.allowed \subseteq slot.allowed
AllowedOK(slot, want) ==
  want.allowed # {} => /\ Cardinality(slot.allowed) = Cardinality(want.allowed)
                       /\ want.allowed \subseteq slot.allowed
SlotOK(slot, want) ==
  slot.single /\ slot.types = {want.type} /\ AllowedOK(slot, want)
Conforms(t) ==
  /\ t.name \in DOMAIN rules.templates
  /\ \A s \in DOMAIN t.slots :
       /\ s \in DOMAIN rules.templates[t.name]
       /\ SlotOK(rules.templates[t.name][s], t.slots[s])

(***************************************************************************)
(* fd_create, step by step: anything that fails takes the environment and  *)
(* the detector with it.  The pointer of a template is cached before the   *)
(* template's slots are looked at.                                         *)
(***************************************************************************)
Files == 7

SchemaInit ==
  /\ rules \in Deployments
  /\ stage = "called" /\ loaded = 0 /\ row = 0 /\ env = FALSE /\ cached = {}

Create ==
  /\ stage = "called"
  /\ \/ env' = TRUE /\ stage' = "loading"
     \/ UNCHANGED env /\ stage' = "gone"
  /\ UNCHANGED <<rules, loaded, row, cached>>
LoadOne ==
  /\ stage = "loading"
  /\ IF loaded = rules.loadable THEN stage' = "failed" /\ UNCHANGED loaded
     ELSE /\ loaded' = loaded + 1
          /\ stage' = IF loaded' = Files THEN "validating" ELSE stage
  /\ UNCHANGED <<rules, row, env, cached>>
ValidateTemplate ==
  /\ stage = "validating"
  /\ \E t \in {SCHEMA[row + 1]} :
       /\ cached' = IF t.cache /\ t.name \in DOMAIN rules.templates
                    THEN cached \cup {t.name} ELSE cached
       /\ stage' = IF ~ Conforms(t) THEN "failed"
                   ELSE IF row + 1 = Len(SCHEMA) THEN "alive" ELSE stage
  /\ row' = row + 1
  /\ UNCHANGED <<rules, loaded, env>>
Destroyed ==
  /\ stage' = "gone" /\ env' = FALSE /\ cached' = {}
  /\ UNCHANGED <<rules, loaded, row>>
GiveUp  == stage = "failed" /\ Destroyed
Destroy == stage = "alive" /\ Destroyed

SchemaNext == Create \/ LoadOne \/ ValidateTemplate \/ GiveUp \/ Destroy

(* fd_dump_state: a row is printed under its section, each slot read by    *)
(* the accessor of its type.                                               *)
DumpedSlots ==
  UNION {{<<t.name, s, t.slots[s].type>> : s \in DOMAIN t.slots} :
           t \in {u \in ToSet(SCHEMA) : u.section # NoSection}}

(* fd_parse_category, fd_parse_evidence and parse_pressure: a symbol the   *)
(* code does not know counts as the default.                               *)
Parsed(sym, known, default) == IF sym \in known THEN sym ELSE default
ParseCategory(sym) == Parsed(sym, {"on-task", "off-task", "threat"}, "unknown")
ParseEvidence(sym) ==
  Parsed(sym, {"accusation", "vent", "near-body", "off-task", "on-task"}, "none")
ParsePressure(sym) == Parsed(sym, {"critical", "high", "medium"}, "low")

(***************************************************************************)
(* What the C code relies on: the slots it reads by name, each with the    *)
(* type of the accessor, fd_fact_symbol or fd_fact_int, it reads it with.  *)
(***************************************************************************)
SymReads ==
  {"crewmember"} \X {"color", "status", "last_seen_room"}
  \cup {"stance"} \X {"color", "category", "evidence"}
  \cup {<<"suspicion", "color">>}
  \cup {"logodds-term"} \X {"color", "source"}
  \cup {"case"} \X {"victim", "room"}
  \cup {"suspect", "accusation", "cast-iron-alibi"} \X {"color", "victim"}
  \cup {"alibi"} \X {"color", "victim", "at_room"}
  \cup {<<"kill-window", "victim">>, <<"self-state", "phase">>,
        <<"game-pressure", "level">>}
StringReads ==
  {<<"stance", "rationale">>, <<"logodds-term", "key">>, <<"suspect", "basis">>}
IntReads ==
  {"roster"} \X {"n_impostors", "alive_crew", "alive_impostors", "impostors_ejected"}
  \cup {"suspicion"} \X {"weight", "logodds"}
  \cup {"kill-window"} \X {"from_tick", "to_tick"}
  \cup {<<"crewmember", "last_seen_tick">>, <<"logodds-term", "amount">>,
        <<"case", "body_tick">>, <<"alibi", "at_tick">>, <<"self-state", "tick">>}
(* Templates the code walks through its pointers without reading a slot.   *)
Walked == {"self-color", "impostor-found", "vent-suspected", "room-distance"}
Readable(slots, type) ==
  \A r \in slots :
    /\ r[1] \in DOMAIN rules.templates
    /\ r[2] \in DOMAIN rules.templates[r[1]]
    /\ rules.templates[r[1]][r[2]].single
    /\ rules.templates[r[1]][r[2]].types = {type}
Understood(template, slot, Parse(_)) ==
  \A v \in rules.templates[template][slot].allowed : Parse(v) = v

(* A detector that fd_create hands out can be asked anything: whatever     *)
(* rule set it was given, every slot the queries, the renderer and the     *)
(* dump read is there, of one field, and of the type they read it with -   *)
(* the accessors take the value for that type unseen -, every verdict a    *)
(* rule can write is one the parsers know, and no query meets a template   *)
(* pointer that is not set; a detector refused leaves nothing behind       *)
(* (fd_schema.c: validate_template; fakedetector.c: fd_create).            *)
DetectorIsWhole ==
  /\ stage = "alive" =>
       /\ env
       /\ Readable(SymReads, "SYMBOL") /\ Readable(StringReads, "STRING")
       /\ Readable(IntReads, "INTEGER")
       /\ \A d \in DumpedSlots : Readable({<<d[1], d[2]>>}, d[3])
       /\ Understood("stance", "category", ParseCategory)
       /\ Understood("stance", "evidence", ParseEvidence)
       /\ Understood("game-pressure", "level", ParsePressure)
       /\ Walked \cup {r[1] : r \in SymReads \cup IntReads} \subseteq cached
  /\ stage = "gone" => ~ env /\ cached = {}
=============================================================================
