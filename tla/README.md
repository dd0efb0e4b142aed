# fakedetector: TLA+ models, checks and proofs

fakedetector is a C library around an embedded CLIPS engine that plays detective in a social-deduction
game. The caller reports what it sees (sightings, bodies, tasks, vents, deaths, ejections, claims, votes);
a rule base in `clp/` turns the reports into facts (dossiers, cases, alibis, suspects, accusations,
verdicts, log-odds terms); queries run the engine to its fixpoint and read the result. This directory
models the rule base, the truth maintenance it relies on, and the C code around it.

## 1. Inventory

| component | code | state it keeps | operations | interacts with |
|---|---|---|---|---|
| fact schema | `clp/templates.clp`, `src/fd_schema.c` | the deftemplates; a C table that validates them at load and caches template pointers | load, validate, refuse | every other part |
| observation calls | `src/fd_observe.c` | `last_sighting` per color, ingest counters | `fd_observe_*`: judge the arguments, normalise the room, detect impossible moves, assert a fact, count the verdict | asserts into working memory; reads the graph |
| room graph | `src/fd_graph.c` | interned rooms, `base` and `link` costs, lazily recomputed `apsp`, `facts_dirty` | `fd_add_room_link`, `fd_observe_route_closed/opened`, `fd_room_distance`, publish | publishes `room-distance` facts at the start of a run |
| run loop | `src/fd_clips.c` | - | `fd_run`: publish, `Run(-1)`, normalise the weights | called by every query |
| dossier layer | `clp/dossier.clp` | `crewmember`, `player-dead`, `impostor-found`, `near-body` | 9 rules, salience 0 (`attach-near-body`: 140) | feeds cases, round model, stances |
| case layer | `clp/cases.clp` | `case`, `kill-window`, `alibi`, `cast-iron-alibi`, `suspect`, `accusation` | 12 rules, salience 130..150, with logical supports | reads sightings, bodies, distances, vents, dossiers |
| round model | `clp/suspicion.clp` | `roster`, `game-pressure` | ensure, recount, derive | reads dossiers and ejections; gates the stances |
| stance layer | `clp/stance.clp` | `stance` | 8 rules, salience 250..-10 | reads cases, vents, dossiers, roster |
| suspicion terms | `clp/suspicion.clp`, `clp/claims.clp`, `clp/social.clp` | `logodds-term`, `suspicion`, `claim`, `contradiction`, `corroboration`, `accuses`, `defends` | 23 rules: prior and evidence terms, claim checks, votes and defenses; salience 200, 140, 95, 90 | reads every layer above, writes none |
| suspicion weights | `src/fd_clips.c` | `weight` per color | logistic table, largest-remainder normalisation to 1000 | after every run |
| queries | `src/fd_query.c` | - | vote target, ranking, win probability, vote decision, explanations, alone-risk, last seen, occupants, round statistics | run first, then read facts |
| lifecycle and names | `src/fakedetector.c` | self, playstyle, name registry, ingest counters | create, reset, set_self, destroy | reset clears the round and keeps map and names |
| rendering | `src/fd_render.c` | - | vote summary, case file, the reason behind a risk | reads facts, with tables of its own |
| regression driver | `src/driver.c` | - | eleven scripted rounds, their questions and the expected answers | calls the API |
| telemetry | `src/fd_telemetry.c` | trace stream and its ownership | fact dump, trace start and stop | called by lifecycle |
| Crewrift profile, benchmarks, Python bindings | `src/fd_profile.c`, `src/perf.c`, `bindings/python` | - | callers of the API | - |
| CLIPS | `vendor/clips` | facts, agenda, logical dependencies | assert, retract, modify, run | vendored; what the detector relies on is modelled (`Ingest!Accepts`, `Driver!Fire`) |

What makes the system hard:

* **Order of reports.** A detector learns late: a body before or after the sightings of its victim,
  sightings out of tick order, an ejection of somebody never mentioned before, several batches between
  two runs. Every conclusion has to come out the same.
* **Truth maintenance.** Conclusions are supported logically by facts that other rules modify. A modify
  retracts and asserts; it takes every dependent conclusion with it and may start a loop.
* **Salience.** Verdicts are drawn at 120..100, between the case band (150..130) and the dossiers (0).
* **Fixpoint.** `Run(-1)` has no limit: two rules that undo each other hang the caller.
* **Stale C-side state.** The vent check compares with the last *reported* sighting and the graph *as it
  is now*; the roster counts facts it does not match on; the graph's distances are a cache, and the
  published ones a cache of that.
* **Two copies of one rule.** The renderer has its own risk table, the summary its own order of categories, the vote its
  lists of priorities, and the C side its own description of the templates, which somebody may edit.
* **Verdicts on a call.** A call can be refused by an argument, be about the own color, or be accepted and then lost when the
  fact is asserted; some calls assert two facts or replace one.
* **One order pinned.** The expected answers of the driver were recorded under the engine's depth strategy.

What makes each component correct:

* dossier: one dossier per color, status as the reports imply, no resurrection;
* cases: conclusions never outlive premises, windows tight, pools complete, a case is closed exactly
  when one suspect is left, and nobody is named while another could have done it;
* round model: counts and pressure are those of the facts;
* stances: exactly the living have one, a threat lasts until death, ejection or the all-clear, and is
  never drawn from evidence that is still being revised;
* run loop: it returns;
* graph: the distances are shortest walks over the links as they are now; a closure never shortens one;
* terms and weights: terms follow their evidence, nobody is charged with a lie or a vent that a walk explains, weights are a distribution over the living;
* queries: the vote decision, the ranking, the vote target and the risks tell one story; a vote is cast on a majority of the
  suspicion only;
* rendering: what is written is what the facts say and what the queries answer;
* fact schema: a detector that is handed out can be read everywhere; one that is refused leaves nothing behind;
* observation calls: every call is counted once, with the verdict it deserves; an inferred vent is a walk between two sightings;
* driver: the expected answers hold whichever activation fires first;
* lifecycle: reset forgets the round and nothing else; a symbol stands for one player; a trace closes what it opened and
  only that.

## 2. Modules

| module | models | EXTENDS |
|---|---|---|
| `WorkingMemory` | the facts (one set of records per deftemplate), the engine's phase, `TypeOK`, the state after create or reset | Integers, FiniteSets |
| `Cases` | `cases.clp` and `attach-near-body` | WorkingMemory |
| `Dossier` | the other rules of `dossier.clp` | WorkingMemory |
| `RoundModel` | `roster-*` and `pressure-*` of `suspicion.clp`, the all-impostors-ejected gate | WorkingMemory |
| `Stances` | `stance.clp` | RoundModel |
| `Detective` | the API calls, `fd_run` and the agenda; composes the three layers | Cases, Dossier, Stances |
| `DetectiveProps` | what the rule base promises, and statements of its documents that it does not keep | Detective |
| `Walkers` | the players behind the reports: paths, walks, who could have done it; what the cases, the vent check and the contradictions promise them | DetectiveProps |
| `Progress`, `BeliefsProgress` | what is left to do in a run, as a sequence of sets, and that every firing makes it less | DetectiveProps; Beliefs, Progress |
| `WalkingCosts` | the interface between the graph and its readers: the walks change, the published facts are brought up to date | Integers |
| `RoomGraph` | `fd_graph.c`: interning, links, closures, the lazily recomputed all-pairs matrix, publishing, the round reset | Integers, FiniteSets, TLC |
| `GraphProps`, `MCRoomGraph` | what the graph promises; small instances | RoomGraph |
| `Likelihood` | the logistic table and largest-remainder rounding, as operators | FiniteSetsExt |
| `Weights` | `(logodds-term)` and `(suspicion)` as their readers see them: terms come and go, colors join and leave, `fd_normalize_suspicion` | Likelihood |
| `WeightsProps` | what the weights promise | Weights |
| `VoteDecision` | the readers of the weights in `fd_query.c`: ranking, explanations, vote decision, win probability; what they promise | Weights, SequencesExt |
| `MCWeights` | small instances of both | WeightsProps, VoteDecision |
| `Queries` | the readers of the verdicts and dossiers in `fd_query.c`: vote target, alone-risk, last seen, room occupants, round statistics; what they promise | Detective, Sequences |
| `Reports` | `fd_render.c`: the lines of the vote summary and the case file, the reason behind a risk; that they tell the story of the queries | Queries, SequencesExt |
| `Testimony` | `fd_observe_claim/vote/defense`, contradictions and corroborations of `claims.clp` | Detective |
| `Beliefs` | the term rules of `suspicion.clp`, `claims.clp` and `social.clp`, interleaved with `Detective`'s by salience; `fd_run` with its normalisation | Testimony, INSTANCE Weights |
| `BeliefsProps`, `MCBeliefs` | what the belief layer promises; small instances | Beliefs, Walkers |
| `MCDetective` | small instances | Walkers, Reports |
| `Driver` | the scripts and the checks of `driver.c`, played on the whole rule base | Beliefs, Reports, INSTANCE VoteDecision |
| `MCDriver` | the driver's own players and calls | Driver |
| `Schema` | `fd_schema.c` and `fd_create`: load, validate row by row, cache, give up; what the C code reads by name | Integers, SequencesExt |
| `Ingest` | what becomes of a call: `fd_observe.c`, the setters of `fakedetector.c`, the verdicts of `fd_graph.c`, `fd_assert_fact`, the counters | Schema |
| `MCLibrary` | the shipped rule set, those one edit away from it, and good and bad calls | Ingest |
| `Session` | `fakedetector.c` and the stream of `fd_telemetry.c`: create, reset, destroy, names, self, playstyle, the last-sighting slots, traces; what they promise | Integers, FiniteSets |
| `MCSession` | a small instance | Session |
| `SumTheorems` | what sums and folds over finite sets and sequences are; lemmas only | FiniteSetsExt, TLAPS |
| `TypeProofs`, `DetectiveProofs`, `GraphProofs`, `WeightProofs`, `BeliefProofs`, `SessionProofs`, `IngestProofs` | the theorems | the component's properties, TLAPS |

Composition. `Detective` and `RoomGraph` both implement `WalkingCosts`: the first sees the graph as a table of walks that
may be exchanged between runs, the second computes that table. `Beliefs` runs on top of `Detective` -- its steps are steps of
`Detective` or leave the facts of `Detective` alone -- and implements `Weights`, which says all a reader of the weights may
rely on. The refinement mappings are the identity on the shared variables.

Queries are operators, not actions: each runs the engine first and then only reads, so `Queries` and `Reports` evaluate them at
the fixpoint and `VoteDecision` on normalized weights. `Driver` puts all of them on one state: its script makes the calls, each
question is a run of the engine, and the answers are read when it returns. `Session` stands beside `Detective`: it follows one detector through its rounds and
keeps of the engine only the symbols of the sighting and self facts, which is where the C side and working memory can drift
apart. What `fakedetector.h` asks of a caller -- set self before observing, name all players or none, close no stream the trace
writes to -- are guards of its actions.

`Ingest` stands on `Schema` because an assertion depends on the rule set: the detectors that come alive there are the ones the
calls are made on. It looks at the boundary where `Detective`, `RoomGraph` and `Session` begin: which arguments get through, in
which order they are judged, and what is left behind when the last step fails. Whether a walk is too fast for the time between
two sightings is decided by the map in `Detective` and left open in `Ingest`.

Correspondence. A fact is a record; `(assert f)` adds it to its set (CLIPS ignores a duplicate), `(modify)`
is retract and assert. A rule is a left-hand side (a predicate on the facts it joins, or the set of facts
it matches) and an action that fires one match; whatever truth maintenance retracts in consequence is part
of the action: narrowing a window takes the alibis, the cast-iron alibis and the near-body facts that
rested on it; a vent takes its color's cast-iron alibis; republishing the distances takes all of them; a
change to a suspect pool takes its accusation. `PROJECT.json` maps every definition to its lines.

`Detective` alternates between phase `"idle"`, in which the caller observes, and `"running"`, entered by
`FdRun` and left when the agenda is empty. The saliences are a chain of guards, `Quiet250`, `Quiet200`, ...:
a rule fires only if no rule of a higher salience has an activation. Among equal saliences any activation
may fire, which covers the engine's depth strategy and any other one. `roster-recount` matches a
crewmember fact and the roster, but computes the same roster for each: the model keeps one bit,
`recountDue`, for "an activation has not fired yet".

A belief rule is the set of terms the facts of the moment call for (`NearBodyTerms`, ...): firing it asserts one that is
`Missing`. Terms whose rule has a logical CE leave `terms` in the step that removes their ground (`Maintained`, a conjunct of
every action that changes facts); the others stay. The ticks of votes and defenses, which no rule reads, are left out, and a
`packCleared` term carries the case of the clearance that supports it (`via`), because it falls with that clearance even if
the color is cleared of another case too.

Some definitions are preceded by a variant with a plausible mistake (`NarrowsOnce`, `KeepingNearBody`,
`EjectsAlive`, ...). Nothing uses the variants; put in the place of the definition that follows, each makes
the property it is listed with in `PROJECT.json` fail, which shows that the property is about the code.

## 3. Runs

| run | question | instance |
|---|---|---|
| `case` | do conclusions and their premises stay together, are windows tight, is whoever could have done it in the pool and nobody else accused, are closed cases right, rooms listing whoever is in them, while reports, vents and runs interleave? | 4 colors, 3 rooms, 5 possible sightings, a body, a vent; the far room is 3 ticks away |
| `round` | do dossiers, roster, pressure and verdicts follow deaths, ejections, tasks and sightings in every order, and do vote target and risk agree in every playstyle? | 3 colors, 2 rooms, 2 sightings, 2 colors ejected, each reported at two ticks (one an impostor in both reports, one in the second only), a death, a task done up to twice, 2 vents, 1 or 2 impostors |
| `twin` | two bodies in one room at one tick, a shortcut learnt between runs: is evidence kept exactly while its window stands, is nobody cleared who could have been there, by the map of the moment or through a vent, does every run return? | 4 colors, 3 rooms, 3 sightings, a vent, 2 maps |
| `graph` | are walks shortest, is every cache as fresh as its readers assume, do closures only lengthen walks? | 5 room names on a map with room for 4, a path with a chord, two costs, every order of links, closures, questions, runs, rounds |
| `weights` | are the weights a fair, whole, monotone division of 1000, does the vote decision follow the ranking, is `w(n, m)` exact? | 3 colors, every set of terms from a list that reaches both clamps and the empty likelihood, every pool; every pressure level and number of impostors; up to 12 players |
| `crime` | do charges follow the final picture, does every charge of a lie or a vent have positions no walk explains, is the pool the living, are the weights every query reads current? | 3 colors, 3 rooms, 3 sightings, one body, a vent, a claim, a vote |
| `meeting` | are alibis mutual and untainted, does a reveal re-score old votes, does every query return? | 3 colors, 3 claims, a sighting, 2 votes, a defense, a reveal |
| `session` | do symbols and players correspond, are both memories of a round emptied together, is every stream closed by whoever opened it? | 3 ids, 2 of them players, 3 defaults, a fresh and an overlong name, 2 ticks, 2 sightings a round, a stream of the caller, 2 files |
| `driver` | do the eleven rounds of `driver.c` give the expected verdicts, weights, case files and dumped facts in every order of firings? | the driver's own: 11 players, 4 rooms, its map, 89 calls, 16 sets of questions |
| `library` | is a detector whole when it is handed out, does each call get the verdict it deserves, is an inferred vent a walk? | the shipped rule set, each one edit of a slot away from it, partly loadable ones; up to `MaxCalls` = 4 counted calls, good and bad, and a reset |
| `accused_among_all`, `impossible` | statements of the documents that the code does not keep, section 6 | the smallest instance that shows it |

`EvidenceHolds` is `AlibiHolds` and `NearBodyHolds`. `PoolIsComplete`, on which `CulpritIsNotMissed` rests, has a theorem and no run
of its own.

Bounds. A case needs a victim, an observer and two suspects before "one suspect left" and "cleared" are different
questions: four colors. Three rooms make near, far and kill room distinct. Ticks go to 4 around a body at
tick 4, so a window can be narrowed twice, and a sighting can be inside, on either edge of, and outside it. Tables have
a distance on either side of the slack, so that both strong and weak alibis arise. `MaxTasks` is
`?*on-task-tasks*`, the only value the rules compare with. Reports may repeat without limit.
`graph` has one name more than the map has room for, so that a link can fail between its two internings, and a path of
three links, so that a walk has two rooms on the way. The runs of `Beliefs` report no tasks: the task terms are withdrawn by
nothing and read by nothing else.

`session` needs a third id that is no player, whose default name a player may take, and two files, so that one trace can
replace another; `MaxReports` = 2 sightings in a round are enough for two players to be confused. `MaxCrew` = 12 and
`MaxImpostors` = 6 bound the recursion of `w(n, m)`; `WinIsExact` compares it with a count of all histories, which takes no
division, so every rounding shows.

`round` reports each ejection twice, which the API allows: only then can a report come in that changes no crewmember, and two
reports count one color twice. A second body in `crime`, as a second victim or in another room, takes TLC beyond the time of
a run in every form tried; that a pack-on-cleared term whose clearance falls is derived again from a clearance of another case, and
never held twice, is `ChargesAlwaysTrue` with `EvidenceCountedOnce`, for any number of bodies, and is not exercised by a run.

`driver` takes every constant from the driver; the only freedom is which of the activations of equal salience fires, and the
choice is open at each of the runs its questions start. Compared are the answers of all its checks, and of the golden output the
lines of the summary and the case files (window, suspects and their bases, clearances and the alibi they quote, murderer), the
reasons of the risks it prints, occupants, ranking, round statistics, terms, weights, pressure, win probabilities and the facts of the dump. Not
compared: wording, the order of facts and of the lines of a case file, and what the model has no slot for (n-players, the
route and ticks of a vent), the trace and the run counters. `library` needs two sightings, a vent between them and one call more:
`MaxCalls` = 4. `RoomLimit` = 3 and `MaxLinkCost` = 3 stand for 32 and a million, so that an interning and a cost can fail;
`Buffer` = 4 is the buffer of `fd_assert_fact` in units in which a plain symbol takes one, so that one overlong name alone, or a
long room beside another, does not fit. The templates, slots and allowed values are those of the shipped rule set.

Deadlock is checked everywhere but in `driver`, whose script ends, and `library`, where a destroyed detector takes no calls. In
the other runs of the rule base an idle state can always start a run, and a run can always fire or end.

Fairness. `FairSpec` asks for `WF(FireRule \/ EndRun)` only: `Run(-1)` loops in C until the agenda is empty,
so inside a query the engine does take its next step. Nothing is asked of the caller.

## 4. Proofs

All for every value of the constants, from the named assumptions of the modules:

* `WorkingMemory`, `Detective`: nobody is no color, nowhere is no room, at least one task makes on-task, reports and maps are
  well typed;
* `RoomGraph`: reports are about names of rooms, the limits are numbers, and two walks through all rooms fit below `FD_INF`,
  which is the static assertion of `fd_internal.h`;
* `Weights`: no two players have the same enum; terms are about players, come from the channels of the code and are finitely
  many; `Queries` asks the same of the enum it sorts by;
* `Testimony`, `Session`: claims and votes are well typed; default names differ, and so on at each module's `ASSUME`;
* `Schema`, `Ingest`: a slot allows finitely many symbols or any; a color or room that gets as far as an assertion has a length.

* `TypeProofs`: `TypeCorrect`. One lemma per layer, one step per rule. Frame lemmas say which variables a layer leaves
  alone; `FireByLayer` reduces a rule firing to its layer.
* `DetectiveProofs`: `EvidenceAlwaysHolds` (alibis and near-body facts), `CastIronAlwaysHolds`, `AccusationsAlwaysHold`. None of
  these is inductive alone. The invariant is `MaintInv`: type correctness; one case and one window per victim; every
  window repeats the room and tick of its case (so that near-body evidence, which joins both, can be traced to the
  window); and the properties themselves. The step that matters is the narrowing of a window: of the facts that name the
  victim nothing survives, and what names other victims rests on other windows because windows are unique per victim.
  `ClearedAlwaysInnocent` says what that is worth: from one unbreakable alibi it follows that no moment of the window allows its
  holder to have been in the kill room, so whoever could have walked there and away in time is never cleared.
  `KeysAlwaysUnique` adds the keys of the other facts, each kept by the `(not ...)` of the one rule that asserts it.
  `DeadStayDead` rests on `DossierInv`: one dossier per color, which says no more than the reports do (its status has a
  report behind it, its place and tick are a sighting). `DossierEffect` reduces the nine rules to two shapes, a new dossier
  or one replaced by its continuation, and everything said of dossiers is proved over those. `ThreatsAlwaysLast` and
  `ThreatsAlwaysAfterAlibis` go over the ways a verdict is drawn or taken back (`VerdictGuards`); the second reads the salience of
  the rule: at 100 nothing of the case layer is left on the agenda. The first needs `OnTaskEarned`, an invariant: who is
  on-task has a dossier with that many tasks, and tasks are never taken away, so the off-task rule cannot take it back;
  and after the all-clear a run does not end while a threat is left.
  At the fixpoint: `StatusAlwaysReported` and `OccupantsAlwaysCurrent` (with `DossierInv` and an empty agenda a dossier says
  exactly what the reports imply, whatever their order); `PoolAlwaysComplete`, `LoneSuspectAlwaysAccused`, `WindowAlwaysTight`: at
  an empty agenda the negated left-hand sides, together with `MaintInv`, give the property. `CaseFileAlwaysTrue` puts them
  together as the reader of the case file sees them: everybody who lives is a suspect or cleared, a cleared line quotes a
  sighting elsewhere inside the window printed above it, and a murderer is named exactly when one suspect is left.
  `RosterAlwaysCurrent` is about a count that is kept by two rules and by a bit. The fixpoint alone does not give it: the engine
  forgets an activation once it has fired, so an up-to-date roster has to be carried from the recount to the fixpoint.
  `RosterInv` does: when no recount is due, either the roster is about to be made or it counts the living as they are and a
  set of reported ejections that covers every crewmember marked ejected. It is a set of reports and not all of them, because a second
  report of an ejected color changes no crewmember and starts no recount. Under an empty agenda every reported color is marked, so at
  the fixpoint the set misses no color, whence the bounds of `RosterIsCurrent`; if no color has two reports it is all of them.
  `VotesAlwaysMatchRisks` puts vote target, risk, reason and summary side by side. Each walks a list of its own, so the proof
  shows first that they walk the same colors: at the fixpoint exactly the living have a stance (`VerdictInv`: a stance is about
  a color with a dossier, a threat has incriminating evidence; both inductive over `VerdictEffect`, what any verdict rule does).
  `CulpritNeverMissed` reads the case layer as a whole: at every fixpoint whoever lives and could have done it -- it vented, or
  some moment after the victim was last seen allows it to have been in the kill room and to have walked to and from all of its
  sightings -- is in the pool, and if the case names anybody it names that one. The window covers every such moment
  (`WindowCovers`, from `WindowsOpenAtSightings`: a window opens at 0 or at a reported sighting of its victim), so nobody who
  could have done it is cleared (`CulpritUncleared`, from `ClearedAlwaysInnocent`), so the complete pool holds it, and an accused
  color is alone in its pool. An accusation is a proof by elimination, whatever was retracted on the way.
  `KillerNeverCleared` says it of the killer, in every state and not only at a fixpoint. Its hypotheses are about the world
  the caller reports: a path that is a walk on every map of the round (`Walks`), along which the killer stood in the kill room at
  some moment; sightings of the killer lie on that path, the victim is not seen after that moment, its body not before and in that room.
  `ReportedAlways` (nothing is in memory but reports and tables that were once the map) carries them to the facts.
  They are not empty: on the inputs of run `twin` the player p3 on the way from `lab` at tick 2 to `kitchen` at tick 3 meets
  them with p2 as its victim. `VentsAlwaysNeedMoves`: an inferred vent has two sightings that some map
  of the round does not reconcile. It needs `LastIsSighting`, that the slot on the C side remembers a sighting which is
  also a fact, in every state, although one is written by the call and the other read by the rules.
  Why a run ends (`RulesAlwaysMakeProgress`, `WorkAlwaysFinite`, `NoEndlessRun`). Rules undo what others did: a narrower
  window takes alibis, near-body facts and clearances, a change to a pool its accusation, the all-clear the threats, and a firing that
  changes nothing but a bit (`roster-recount`) is still a firing. `Work` lists what is left to do as 25 finite sets, in the
  order dossiers, roster, pressure, cases, verdicts; each rule takes from one set and adds only to later ones, so
  `Less(Work', Work)`, lexicographically. The order is not that of the saliences (dossier rules fire last and write what all others
  read), which is why the oscillation guards have to be right and not just the priorities. `NoEndlessRun`: no sequence of finite
  sets, any number at a time, gets less for ever -- the cardinalities of the first pile never rise and so stand still from some point,
  then those of the second. With fairness this is `RunTerminates`, but the last step, from "fires finitely often" to "returns",
  needs `ENABLED`, and TLC takes it.
* `TypeProofs!DetectiveImplementsWalkingCosts`: each step of `Detective` is a change of the walks, a publication or a
  stutter of `WalkingCosts`, and publication is exact.
* `SumTheorems`: sums and folds of the community modules take the elements of a set in an order nobody knows, and the provers
  cannot use an induction theorem. Every induction here is a proof that there is no least counterexample (`LeastSubset`,
  `LeastNumber`). What the other modules use: a fold exists and unfolds from its last element; a sum loses any element it is
  asked to, is linear, monotone, counts, and does not change under an injection; a fold over a sequence goes prefix by prefix;
  in a strict order exactly k elements have fewer than k ahead of them.
* `GraphProofs`: `GraphTypeCorrect` and `LinksAlwaysMutual` (invariant: the shape of the matrices, symmetric links and closures,
  closures only on links) and `CacheAlwaysFresh` (an up-to-date flag means that the matrix is the one the links and closures
  give). `WalksAlwaysShortest` is the correctness of `graph_recompute_apsp`. The relaxation is a fold over the rooms, and the
  invariant of its rounds (`Walks`) is that no detour through a room taken so far is shorter than the entry, and that each entry
  is a link, or a link to such a room followed by an entry. With all rooms taken these are the equations of shortest walks. A
  finite entry is at most `MaxLinkCost` per room nearer to its end (`WalkBound`). `WalksAlwaysDetermined`: nothing else
  does, because costs are positive -- of two solutions that differ, the pair with the least entry is a contradiction -- so the order of
  the rooms is irrelevant. `SumsAlwaysFit`: in no round do two finite entries add up to more than `FD_INF`, so the addition
  neither overflows nor passes for unreachable. `ClosuresAlwaysSlow` compares the matrices before and after a step round by
  round. `GraphImplementsWalkingCosts` maps the finished matrix and the published facts to the tables of `WalkingCosts`.
  `StrollsAlwaysInReach` is what the distances mean to a player: whoever goes from room to room over open links and needs for
  each at least its cost, waiting where it likes, is between any two of its stops no faster than the matrix, and never in a
  room the matrix calls unreachable. The proof goes back from the later stop, one link at a time; that a link and a
  finite walk after it are a finite walk (`LinkBefore`) takes the bound of `WalkBound`. It is the ground for the hypothesis
  `Walks` above: a player who moves on the links is a walker on the table they give.
* `WeightProofs`: `LogisticInRange`, `LogisticMonotone` (within a cell of the table by monotone division, across cells by the
  points, beyond them by the clamps). Largest-remainder rounding, for any finite pool and any likelihoods with a positive total:
  `SharesSumToWhole` (the remainders add up to as many whole units as are left over, fewer than there are players, and that
  many are served), `SharesWithinOne`, `SharesFollowLikelihood`, `SharesFollowGain` (when one likelihood rises alone, the others'
  quotients fall, and what they get back in units is never more than they lost). On these, `SharesAlwaysFair` and
  `WeightsAlwaysFollowEvidence` for every reachable state: the likelihood is monotone in the sum of the evidence, the share in
  the likelihood, and the state after a run has shares computed from the terms it leaves. `DecisionAlwaysMatches`: the
  insertion sort of the ranking and the scan of the decision are folds over the same pool; the proof carries the agreement of
  best, runner-up and target with the head of the sorted prefix. `CastsAlwaysMajorities` follows from the sum of 1000 and from
  the loss multipliers, which fall from 4 to 1 as the pressure rises.
* `BeliefProofs`: `BeliefsImplementDetective`, with which every theorem about `Detective` holds with claims, votes and
  weights on the agenda; `BeliefsImplementWeights` (invariant: types, and one suspicion per color, without which retracting
  one fact would not empty a color's place; and only `Return` ends a run, all frames considered); `EvidenceCountedOnce`; `AlwaysRetroScored` from the empty agenda alone;
  `AlibisAlwaysMutual` from two invariants, `Grounded` (a term with a logical CE is one the facts call for *now*, which
  every fact-changing step has to maintain) and `Untainted` (no corroboration of a contradicted color).
  `ChargesAlwaysTrue` composes most of the above: a term is grounded in (near-body), cases and claims (`Grounded`), those in
  sightings inside a window (`MaintInv`), the window opens at the victim's latest sighting (`WindowIsTight`), and a case is a
  body somebody reported (`CasesAreBodies`); the empty agenda gives the other direction. `PoolAlwaysTheLiving` needs
  `OffTaskFirst`, which is about order: a term of salience 90 goes before the dossier rules at 0, so nobody is credited with a
  task before the off-task term is in, and the term, which no fact supports, stays.
  `BlameAlwaysNeedsTheImpossible`: whoever carries the term of an inferred vent or of a contradiction has two sightings, or
  a claim and a sighting, that some map of the round does not reconcile. A contradiction is not withdrawn (section 6), so the invariant
  `BlameInv` remembers for every contradicted color the pair that refuted it, and sightings and claims are shown to stay for the round
  (`SightingsStay`). `HonestNeverBlamed`: a player who walks on every map of the round, whose
  sightings are true and who tells the truth about where it was, is never contradicted, never inferred to have vented, and
  carries neither term -- in every state, whatever others do or say.
  `BeliefsAlwaysMakeProgress` and `BeliefWorkAlwaysFinite` continue the argument of `RulesAlwaysMakeProgress`: contradictions,
  corroborations, suspicions to retract and to open, and terms to assert come after the 25 sets, because no belief rule writes a
  fact of `Detective`. Terms that go with their evidence, and may then be due again, go in a firing that takes from an earlier set.
* `SessionProofs`: `NamesAlwaysFaithful` from `NamesInv`: no two ids share a registered name, a player is referred to only while
  all are named or none is, and each fact is a report under the name its player has *now*. The lemma behind it,
  `NameLeadsBack`, needs the convention: without it a name like `p3` given to another id would answer for id 3.
  `MemoriesAlwaysAgree` is inductive with the types; `StreamsAlwaysAccounted` needs in addition that an owned stream is a file
  and the trace of a live handle.
* `IngestProofs`: `TallyAlwaysExact`, for any calls, rule sets and buffers, from `IngestInvAlways`: what is in memory could have
  been asserted (without it a fact lost now could be there from before, and the counter would call a fact in memory dropped),
  and the counters are numbers. The proof goes call by call through the order in which the arguments are judged.
  `VentsAlwaysReal`: a vent is inferred from the slot that remembers a color's last sighting, and the slot is filled before the
  sighting is asserted. `LastIsRemembered` says when the fact is in memory all the same: if the pair is short enough for the
  vent's own, longer fact to be accepted, the shorter sighting was. `DetectorAlwaysWhole`: the loop has validated every row before
  (`SchemaInv`), and every name, slot and symbol the C code reads is in a row; the rows are gone through one by one.

Checked by TLC only: `WinIsExact`, which compares two recursive definitions over numbers of players and is nothing but
induction over data; `ScenariosHold`, the script of one driver with its constants; `RunTerminates` and `QueriesReturn`, because
liveness is out of the prover's reach, as is `ENABLED`. Of these two the part that is proved is that firings come to an end.

## 5. What is left out

* Slots and facts that only feed prose (positions, rationales, `delta-tick`), the wording of prose, its header with phase and
  tick, and its truncation to the caller's buffer.
* Negative ticks: `from` of a fresh window is 0 and the caller's ticks count from 0.
* The room of a corroboration and the ticks of votes and defenses; two vents of one color and basis, which are two terms of
  one amount in the code when they differ in room or tick, are one fact here.
* `fd_run_stats_get`, which counts firings and times them; the text of the fact dump and the trace.
* `src/perf.c`, which times the API on random rounds; `src/fd_profile.c`, lookups of the names of one game; the Python bindings.
* In `Driver`: the calls that no question is about, the checks of the trace and of the embedded rules, run statistics.
* In `Schema`: why a file does not load (the parser is CLIPS'); rule sets more than one edit away from the shipped one. In
  `Ingest`: positions, which are not judged; the rules, which run only in a query.
* Players who move: `Walkers` speaks of paths that are walks on every map of the round, not of a player who takes each link
  while it is open and a map that changes under its feet; section 6 says what that would change.
* In `Session`: rooms of sightings (they are in `Detective`), the round configuration, allocation failure. One kind of
  overlong name stands for every assertion that does not fit its buffer. The playstyle is read by queries only and is a
  parameter of `Queries`.
* Callers who do not keep the order of calls that `fakedetector.h` asks for; section 6 says what happens to some of them.
* The engine's conflict resolution: over-approximated, so a property that held only thanks to the depth strategy
  would show up as violated.

## 6. Disagreements between the code and its documents

Each with a run that shows it:

* `AccusedAmongAll`: dossiers appear at salience 0, after the verdicts of salience 120. A color first sighted in the same batch
  as the body is not a suspect yet when `solve-case` and `stance-accuse` fire; the accusation of the other color is
  withdrawn later in the same run, its threat verdict is not. `stance.clp:15` says the facts the stance rules read are
  fully settled before any verdict is drawn.
* `ImpossibleIsCleared`: `derive-alibi` keeps one alibi per color and victim, the first it meets. If that one is weak -- an
  earlier run saw only that sighting -- a later sighting no walk reconciles with the murder does not clear its color, against
  `cases.clp:93` (cleared "iff dist exceeds the time available on both sides of the sighting").

Met while modelling, but of less weight or on inputs a careful caller avoids; no run is kept for them:

* A suspect who dies stays a suspect (`cases.clp:123`). `templates.clp:129` calls a suspect an alive color.
* An impostor first mentioned by its ejection gets no `impostor-found`, against `fakedetector.h:311`.
* Closing a known room against itself is accepted (`fd_graph.c:222`), and its distance to itself is then not 0, against
  `fakedetector.h:475`.
* One ejection reported at two ticks counts twice in the roster (`suspicion.clp:55`), so the all-clear can fire with an
  impostor left, against `fakedetector.h:344`.
* `vent_check` judges a walk by the map of the moment of the report (`fd_observe.c:75`). Who has passed a door before it closes
  and is sighted behind it afterwards is charged with a vent, and a killer who left through it may be cleared by the longer way
  around. `fakedetector.h:458` says that closures only affect future vent checks, which is what the code does; it is why the theorems
  about walkers ask for a walk on every map of the round.
* A second ejection report of an ejected color changes no crewmember and is not counted until one changes, against
  `suspicion.clp:42`. (`RosterIsCurrent` says what is left: the roster counts some set of reports that leaves no reported color
  out, all of them if no color has two. In run `round`, where each color has two, it does not always count all.)
* A link rejected after its rooms were interned (`fd_graph.c:192`) leaves a room without published distances and no
  flag that says so, against `fd_internal.h:63`.
* Sums -5350, -5350, 2650 weigh 6, 5, 989; without the second color the first weighs 5. The comment at `fd_clips.c:302`
  promises that clearing a color raises every survivor. The loss is one unit of 1000.
* The off-task term fires at salience 90 on the zero of a fresh dossier, before salience 0 credits a completion reported in
  the same batch; every color carries the term, against `suspicion.clp:194`.
* A claim refuted by distance stays refuted when a link or an opened route shortens the walk and no sighting refutes it any
  more, against `claims.clp:10` ("cannot be explained away").
* The pressure level calls an odd surplus hotter than the even one above it, because "adding one townsperson can help the
  mafia" (`suspicion.clp:71`, `docs/model.md:205`). By `w(n, m)` that speaks for the opposite: two crewmates and one impostor win
  333 of 1000, three win 250; four win 466, five 375.
* `fd_round_stats_get` subtracts all dossiers from the players other than self (`fd_query.c:568`). Self has one after its own
  death, ejection or task is reported, and `never_sighted` is then one short, against `fakedetector.h:691`.
* `fakedetector.h:615` limits a name to 63 bytes; `fd_set_player_name` checks no length. A name too long for the
  buffer of `fd_assert_fact` is accepted and every observation of its player is lost.
* `fakedetector.h:125` calls a player safe when "impostor already found this round"; `fd_alone_risk` asks for all impostors of the
  roster. `fd_clips.c:240` says the two agree with one impostor; they do not when it is ejected unseen.
* The loss multiplier at the highest pressure is 1, so a vote is still cast on more than half of the suspicion only
  (`CastsAreMajorities`); the comment at `fd_query.c:421` says that near parity "a best-guess vote becomes correct".
* Near-body evidence names a room and a tick, not a victim (`dossier.clp:68`). Of two bodies in one room at one tick, a color
  seen inside the window of one only is near both and is charged for both (`ChargesAreTrue` says so), against
  `dossier.clp:50`: sighted "during the case's kill window".
* After the all-clear a neutral or paranoid `fd_pick_vote_target` may still name an off-task or on-task color, whose risk is none.
* A name registered after self was set leaves the self fact under the old name, and a name equal to another player's default
  aliases the two unless all players are named; both are outside the order of calls `fakedetector.h` asks for.
* `fd_schema.c:4` says one table names every template and slot the C side depends on. `sighting`, `body-seen`, `task-tick`,
  `player-dead`, `ejection` and `corroboration`, which it writes or reads, are not in it: a rule set whose `sighting` has lost a
  slot loads, and every sighting is then dropped. Nor does a list of allowed values fail where the table has none.
* A report repeated is found again by `AssertString` and counts as accepted, against `fd_clips.c:58`, which expects a null for a
  duplicate.
* A name or room like `7` passes `fd_symbol_ok` and is refused by the SYMBOL slot: every fact it is written into is lost.
  `fd_set_self` with such a name keeps the color on the C side and has no fact of it in memory. `fd_observe_self` with a phase
  out of range writes `unknown`, which the slot never allows.
* One call may count two drops, when a sighting and the vent it implied are both lost; a round configuration counts as accepted
  even if the roster is lost; `fd_set_player_name` is counted although the list in `fakedetector.h` leaves it out.
* The golden output pins what the dump says of the dead victim (`tests/expected/driver.out:43` and the `logodds-term` lines): last
  seen at -1, nowhere, a near-body term and no other. That hangs on the order in which the engine takes activations of salience 0. A
  dossier made from the sighting before the death is marked carries a prior and an off-task term for the rest of the round, and
  may have taken note of the sighting; run `driver` reaches both. No weight or verdict depends on it.
* The summary says "Suspects: none (all alive crewmates alibied)" also when self was never set and no pool was opened
  (`fd_render.c:284`).

## 7. Plan

1. Facts, case layer, dossier, round model, stances, the run loop. *Done.*
2. Theorems on type correctness, truth maintenance, dossiers, keys, verdicts and the fixpoint, and on what the belief layer
   charges. *Done.*
3. `RoomGraph` and `WalkingCosts`. *Done.*
4. `Likelihood` and `Weights`. *Done.*
5. `Testimony` and `Beliefs`, with the refinements to `Detective` and `Weights`. *Done.*
6. `Session`: create, reset, set_self, the name registry, the trace stream, with its theorems. *Done.*
7. `Queries`, `VoteDecision` and `Reports`: every query and everything rendered from it. *Done.*
8. `Schema` and `Ingest`: from a rule set to a detector, from a call to a fact and a verdict. *Done.*
9. `Driver`: the regression rounds in every order of firings. *Done.*
10. `Walkers`: players who obey the map; what the cases, the vent check and the contradictions promise them. *Done.*
11. Theorems on the distances, the rounding, the decision, the roster and the verdicts; on why a run ends. *Done.*
