# TLA+ models of the Champions team-building session

The repository is a conversational team builder: a command line session in which a
user states an idea, picks candidates, confirms complete builds, locks or reopens
single attributes and states requirements ("no duplicate items", "every Pokemon must
be Water") until six slots are complete. The session is a LangGraph state machine
over one persisted record (`RecommenderState`), driven by one line of user text per
turn. Everything a user can lose - a pinned attribute, a requirement, a confirmed
build - lives in that record and is rewritten by some twenty graph nodes. Around it
are the prompt loop with its checkpoints, the language model calls, a calculator
service, live usage data, caches, an evaluation arm in which a model edits the team
with guarded tools, and scheduled jobs that publish data on `main`. These modules
model the record first, then what surrounds it.

## Inventory

| component | source under `src/` | state it keeps | what is hard | what makes it correct | module |
|---|---|---|---|---|---|
| Requirements and axis supersede | `recommender/constraint_enforcement.py` | `constraints`, `constraints_superseded` | undo log of list indexes; two notions of "same axis" | active hard requirements agree; the log never goes stale | `ConstraintAxis` |
| Team draft | `recommender/nodes.py`, `state.py` | `team_draft`, `superseded`, `rejected`, `archetype` | four writers of one attribute; reopening by other writes; undo stacks that outlive resets | team clauses; nothing pinned is lost; refused turns change nothing | `TeamDraft` |
| Value validation, reconciliation, proposals | `team_validation.py`, `reconcile.py`, `propose.py` | none | reopens attributes of several slots in one turn | only misfits are reopened, each with an undo entry | `TeamDraft` |
| Turn graph and screens | `graph.py`, `nodes.py`, `nodes_classify.py`, `slot_fill.py` | `pending_presentation`, `pending_slot_intent`, `provisional_slot` | a confirmation refers to a build and a slot that may have changed | what is confirmed is what was shown | `TurnSession` |
| Intent classification | `turn_intent.py` | none | one extraction carries several requests and one intent | no half of a request is lost without a question | `IntentResolution` |
| Command line, checkpoints | `cli.py`, `session.py`, `checkpointer.py` | a checkpoint per node in SQLite, a copy in memory | exceptions between nodes, restarts, two processes | what the user sees is what is stored | `CliSession`, `SavedSession` |
| Candidates and slates | `team_candidates.py`, `slot_fill.py`, `nodes_classify.py` | `rejected`, `team_completion_preference` | greedy passes that share what they have used; bans of earlier turns | what was turned down does not come back | `CandidateSlate` |
| Spread arithmetic | `nodes_classify.py`, `slot_fill.py`, `sp_convert.py`, `recommend.py` | none | points moved in several turns; rounding; 0..32 per stat, 66 in all | what the user named is kept, the budget is met | `SpreadDialogue`, `SpreadFill` |
| LLM calls | `llm_invoke.py`, `llm_provider.py`, `tool_log.py` | abandoned flag, log | late answers of a worker nobody waits for | what is told is logged; late answers stay silent | `LlmInvoke` |
| Calculator service | `calc_service.py`, `calc_supervisor.py`, `services/calc` | child process, port | busy or foreign processes, failed starts | one child; stopped is gone | `CalcService` |
| Live usage | `usage_live.py`, `usage_spreads.py` | bounded caches | retries, kinds of failure, what may be remembered | only what a site has is cached | `LiveUsage` |
| Matchup memo | `matchup.py` | a memo per session, two LRU caps | evaluation outside the lock, eviction under a context | no answer of another session, exact counts | `MatchupMemo` |
| Resolved-build cache | `resolved_builds.py`, `recommend.py`, writers in `scripts/extract_usage` | a JSON file per regulation | read, long work, write; rows of different worth | more is not replaced by less | `ResolvedBuilds` |
| Evaluation arm: batches | `scripts/eval/part_g_arm/state/request_set_runner.py`, `calc_infra.py` | `progress.json`, `run_record.json` | kills, resumes, a calculator that fails in the middle of a row | only clean attempts are scored | `RequestRun` |
| Evaluation arm: guarded turns | `scripts/eval/part_g_arm/state/guard_*.py`, `set_slot_tool.py`, `tools.py` | team, screen, last question | permissions recomputed per call; stale screens; batches | nothing is replaced unasked | `ArmTurn` |
| Scheduled data jobs | `scripts/ci`, `.github/workflows` | files and markers on `main`, an open pull request | late months, partial failures, concurrent pushes, lost runners | main only grows; green means up to date; proposals are not lost | `UsageRollover`, `PushToMain`, `CompendiumRefresh` |
| Role tables, usage statistics, regulation registry, text, the other extraction and analysis scripts | the rest of `recommender/`, `scripts/` | static tables | data volume | - | - |

The nodes of the turn graph interact through `RecommenderState` only:
`classify_input` turns a line and the pending screen into an intent and a payload,
one handler node writes the draft, requirements or screen, `route_team_phase`
chooses a discovery node by the number of complete slots, and discovery may call
`fill_team_draft` and puts the next screen up. Nodes of one turn run one after the
other; a checkpoint is written after each. A node may call the model (`LlmInvoke`),
the calculator (`CalcService`, through `MatchupMemo`), the usage sites (`LiveUsage`)
and the build cache (`ResolvedBuilds`), none of which reads the record. The
evaluation arm drives the same handlers by tools instead of the graph. The scheduled
jobs meet the session only through the files on `main`.

## Modules

`ConstraintAxis` - the requirement list and its undo log. `RecordRequirement` is
`apply_constraint_axis_supersede` with the append, `RestoreAxis` is
`restore_constraint` with `restore_constraint_axis`, `ResetAxis` the part of
`reset_team` that concerns them. A predicate is reduced to what competes: hard or
soft, kind, scope, normalised value. Two rules differ in the code and in the model:
a statement replaces requirements of the axis with *another* value (`Losers`), a
restore displaces *every* other one (`Displaced`) without logging it.

`TeamDraft` - extends it with the team. One action is one user turn that reaches the
handler of the same name: `apply_lock` (single and batch, with the batch's refusal
to lock a clashing pair and the clearing of rejections), `commit_full_slot`,
`unlock_locked_slot`, `record_constraint`, `handle_claim_correction`,
`restore_constraint`, `handle_archetype_change`, `record_rejection`,
`restore_superseded`, `reset_team`, `bad_slot`, and `fill_team_draft` for the
proposals that discovery nodes make afterwards. A slot has the attributes species,
item and moveset, whose values rules read, and any others from `OtherAttrs`. Species
carry a dex number, a Mega stone or None, the type sets of their reachable formes
and their possible abilities; `Clashes` is the kit table of reconcile's tier 1.
Which attributes a theme rejects is judged by data tables and is any subset of the
pinned ones, an over-approximation; the theme itself is an input of
`handle_archetype_change`.

`TurnSession` - the same session seen from its screens. `classify_input` takes a
reply on a pending screen to an intent (one action per kind of screen, and `GapFill`
for what the language model makes of a reply: any intent it is offered that the
gates let through), then one action per graph node runs until `node` is END again.
The variables are the keys of the record that the confirmation protocol reads:
`pending_presentation` with the screens it holds under a question,
`pending_slot_intent`, `provisional_slot`, `slot_commit_error`,
`bootstrap_intake_complete`, `turn_intent`, and the draft. A slot of the draft is
reduced to how much of it is locked and the build it holds, a build to its kit and
whether its spread keeps the budget. Fingerprints stand for what they hash, so the
model compares the thing itself. `before` is a history variable: the screen the turn
answers. Legality, the team rules and discovery may go either way, and every handler
may refuse, so the model allows refusals the code would not give; what it never
allows is a success the code refuses. Where `TeamDraft` says which values a handler
writes, `TurnSession` says what becomes of the screen; the two share the handlers'
names.

Three pairs of rules look alike and differ, in the code and in the model: most
actionable intents clear the screen during classification, a lock or a restore only
when it succeeds; a refused slot handler ends the turn, a refused candidate or
rejection goes on to discovery; the spread question stores the build being edited as
the provisional one, the item question leaves the previous one there.

`IntentResolution` - one call of `parse_turn_intent`: the facts the code reads from
the text (an option signal, a stat, a named value), the flat record the model
returns or the failure of the call, and the intent with its payload that comes out.
Repairs from the text, compound requests, questions and the filters of `_finalize`
are one operator each, in the order of the code, and `Resolved` is the code's chain
of conditions: the first that holds decides. A nature stands for an ability,
`"constraint"` for every intent that clears the screen at once; `MaxOptions` and
`MaxFilled` bound a record, both 2 in the run. The "moveset" alias and payloads that
only copy fields are left out.

`CandidateSlate` - `discover_multi_locked` from the merged evidence to the screen,
and every reply that changes what the next slate may hold. `Cut`, `Ranked`,
`Attacker`, `Balanced` and `Support` are the functions of `team_candidates.py`;
`Sticky` and `Banned` what a ban matches; the actions are the replies. A track is
ordered once for the cut, where a soft constraint earns a bonus, and once for the
selection, and each discovery may find other orders: the keys compare numbers from
usage and calculator data, and any order over-approximates them. The second diversification pass is dead code: it
asks for more than the first, so nothing is left for it. Ownership and mechanical
requirements are left out, and a ban names one need, as the classifier produces it.

`SavedSession`, `CliSession` - the promise and the program. `SavedSession` says that
turns recorded in a thread only grow and that a user is shown a thread as it was
recorded when it was shown. `CliSession` has the database with a checkpoint per
node, the processes' copies in memory, `:new`, resume by newest incomplete thread,
lines that raise between two nodes, interrupts and restarts. A view has what
`is_incomplete` reads: whether the team is full, the screen, and whether a build
waits (`pending_slot_intent` or `provisional_slot`). `Promised` is the
refinement: `record` is the union of a thread's turns that its last checkpoint
holds, `view` the copy the loop prints from.

`LlmInvoke` - `invoke_with_timeout` and its two callers. Caller and worker are
processes: the worker tests the abandoned flag and then writes, the caller's wait
ends and then it sets the flag, so both orders occur. A provider never returns, or
returns something usable or not, or raises one of three classes.

`CalcService` - the service as a process (booting, listening, busy, draining) and
both owners, chosen by `Manager`: the context manager on a port of its own and the
supervisor on the fixed port, where a foreign service may listen. A busy process
answers no poll and handles no signal until it is free.

`LiveUsage` - one lookup is up to six requests at two sites. `Failures` lists how a
request may go wrong; `Fetch` is one attempt, and what follows it (retry, raise,
remember, fall back) is the code's. Caches are bounded and drop the entry least
recently used.

`MatchupMemo` - the operations under the lock are one action each; the evaluation
between a miss and its store is not under the lock, may fail, and other contexts run
meanwhile. The orders of use are sequences without repetition: `ToEnd` moves a
session or a key to the end, as `move_to_end` does. A result is represented by its
request and the context that evaluated it, so a result of another session can be
told. The key leaves out the fields of a build that no caller sets
(`matchup.py:210`); requests stand for those that callers make. The command line does bind a memo, through the graph's nodes.

`ResolvedBuilds` - a writer reads a row, works, reads the file again, replaces its
row and writes the file back. Rows are reduced to who wrote them, whether they hold
a rationale, their spread, nature and `verified`. One process: nothing locks the
files (two are a hazard with a note). The files are the current one (`mc`), which
looks in the one before it (`mb`), and that in the oldest (`ma`). A writeup of a
regulation's own is fetched for `mb` and `ma`, one adapted from another game for `mb`
(`fetch_smogon_writeups.py:419`). `Played` are the regulations of the sessions.
Nothing calls `archive_regulation`.

`SpreadDialogue` - the points that `TurnSession` reduces to "keeps the budget":
edits of one stat or of all, options, the automatic correction, both questions, and
defer. `SpreadFill` - the two completion loops, a point per step, with the numbers
of the code.

`RequestRun` - `run_batch` with pings, preflight, reruns, halts and the progress
file, under kills at any step and resumes. `ArmTurn` - a turn of the guarded arm
with the run flags wrapper, draft and guard on: the parsed message, what it allows,
every tool call, and the question that may end it. Species and item stand for the
seven attributes of a slot, since the clauses over the team are about these;
`"read"` stands for all tools that only read and for refusals below the guard, and a
dict whose action is None for no request. The tools for requirements and the
archetype and the judge's retry are left out. What the parser, the model and a seed
may hand to a turn is `InputsAssumption`: sub-requests of the schema, and teams that
keep the clauses. The calls of the run include one that drafts a slot, replaces what
it drafted and gives the item to another slot: such calls, and no others, can make
two slots share an item (`ItemsStayApart`, and `TeamClauses` among the divergences).

`UsageRollover` - the daily job and its workflow: what a run owes, fetches, writes,
refuses, alarms about and commits although it failed. Months have the same number of
days. The `already_grafted` branch of `process_pair` cannot be reached from the
workflow; dry runs and files of another format are left out. A published month that
is refused for dropping too far keeps the job red until a later month replaces it.
`PushToMain` - the script every job publishes with: fetch, stash, rebase, push,
unstash, retry. A commit changes regions of files, the lines that git merges as one:
a rebase or a pop stops where both sides changed a region, and puts changes of
different regions together silently, of one file too. So what is never overwritten is
a change to the same lines; that nobody saw a commit beside what its file had become
is among the divergences (`FilesAreSeen`). A failed fetch or stash ends the script (`set -e`: the results
`fetch_failed` and `stash_refused`); only pushes are retried, until `gave_up`.
Untracked leftovers and the deepening of a shallow clone are left out.
`CompendiumRefresh` - the gate, the rebuild, the critic, the pull request and the
marker. The 18 categories are one `Content` per snapshot, the age of the marker is
counted in days up to `Spacing`, and the branch for a missing fingerprint is left
out (the marker is in the repository). Two history variables say what maintainers did:
`closed`, the newest snapshot whose request they closed, and `overtaken`, what a run
or the marker had looked at when an older request was merged. A snapshot judged is
lost in these two cases only, since a check that finds nothing new compares with its
own checkout, and only until a newer one is judged.

Components that share no state are not interleaved. Where several are checked in one
run, the `MC` module is their sum: a variable `part` says which component a
behaviour belongs to, that component's `Next` runs, and the variables of the others
keep an initial state. A property of one part is stated for the behaviours of that
part (`part = "fill" => ...`), fairness is that of the component (`WF_v(part = x /\
...)`), and the theorems are about the sum itself, which is what the run checks.
`MCTeamDraft` and `MCTurnSession` are plain instances; `MCTeamRules` and `MCArm` are
sums of instances of one module with different constants. The properties of `MCArm`
are those of `ArmTurn` itself, which do not depend on what the two parts differ in.

## Runs

| run | instance | properties |
|---|---|---|
| `draft_clauses` | two slots (symmetric), a forme pair sharing a dex number, a Mega and its stone, a Choice item that clashes with a moveset | `DraftIsSound` (types, `SpeciesClause`, `ItemClause`, `MegaHoldsItsStone`, `SpeciesOnlyLocked`); `KitStaysPlayable`: only a restore makes a kit that cannot be played; `PinnedIsRecoverable`: what a turn reopens is on its undo stack |
| `draft_rules` | one slot under type and item requirements, under ability requirements, under a theme with rejections; the requirement list by itself up to four | `AxesAreSound` (`AxisTypeOK`, `AxisAgrees`, `LogRestorable`, `LoggedAreInactive`); `AxisNeverEmptied`: only a reset empties an axis; `ReconcilingIsComplete`: a requirement takes hold in its own turn, what it or a theme reopens is recoverable |
| `session` | two slots; three kits: playable, with a status move under a Choice item, with a Choice Scarf and Trick Room too | `ScreensAreBacked` (`TypeOK`, `QuestionsHoldABuild`, `WaitingBuildIsBacked`); `OnlyShownBuildsCommit`; `RefusedTurnKeepsScreen`; `WaitingBuildSurvives` |
| `session_phases` | three slots, one kit | `OffersAreForOpenSlots` in all phases; `EveryTurnEnds` |
| `replies` | dialogue: six stats with a cap of 2 and a budget of 6, corrections of 1; intent: every text and every record with up to two options and two values, one turn; fill: the game's numbers, EV sources of three totals, partial builds, three role spreads; slate: five species of four families, 36 assignments of kits, two pairs of rankings chosen anew by each discovery, slates of three | `DialogueIsSound` (`TypeOK`, `QuestionIsCurrent`); `EditsAreKept` (`NamedStatsAreKept`, `OneStatPays`); `NothingIsDropped` (`EditsHaveAValue`, `EditIsNotDropped`, `SelectionIsNotDropped`, `TextBeatsArithmetic`); `FillIsFair` (`EndsOnBudget`, `OrderIsKept`, `RoleComesFirst`); `SlateIsSound` (`OptionsAreApart`, `BansHold`, `SupportIsFull`, `NewNeedsFirst`) |
| `programs` | command line: one process, two threads, three lines; push script: two jobs, two merges, three attempts, one fault | `ThreadsAreSound` (types, `OneThreadToResume`, `ShownIsStored`, `SavedWhenTold`); `Promised`: the refinement of `SavedSession`; `DeadEndsAreForever`; `PushIsSafe` (`CommitsAreUnique`, `NothingIsOverwritten`, `ZeroMeansPublished`, `GivingUpIsEarned`); `ProgramsEnd` |
| `services` | batch: two rows, one rerun, three interruptions, two crashes, one kill; two model calls; the application's manager with two spawns and the supervisor with three; usage: three species, a live regulation and one without, three attempts, caches of two, with sites that fail as the code expects and in every way | `BatchIsHonest` (`ScoredIsClean`, `HaltLeavesTheRow`, `ZeroMeansComplete`); `FinishedIsFrozen`; `CallsAreLogged`; `LateAnswersAreSilent`; `ProcessesAreTracked` (`OneChild`, `StoppedIsGone`); `UsageIsTrue` (`CacheIsTruth`, `RecentlyUsedStay`, `NoForeignSpreads`); `CallsEnd` |
| `stores` | memo: two workers and three threads (symmetric), two memos of two entries, three fields, three calls; builds: two builds, the three files, sessions of `mb`, a spread and a short one | `MemosAreRight` (`TypeOK`, `MissesAreInserts`, `AnswersAreRight`); `MemosAreKept` (`SessionsAreSeparate`, `DroppedInTurn`, `FirstResultStays`); `BuildsAreSound` (types, `NatureFitsSpread`); `RowsOnlyImprove` (`VerifiedRowsStay`, `SubstanceStays`, `KnowledgeStays`) |
| `arm` | two slots, two items, two calls a turn; drafts: two species, one model round, no screen at first; screens: three species, two rounds | `ArmIsSound` (`TypeOK`, `SpeciesClause`, `OffersAreNotRejected`, `ItemsStayApart`); `UserDecides` (`ReadOnlyTurnsWriteNothing`, `ReplacedOnlyIfAsked`, `QuestionsLiveOneTurn`); `StaleScreensAreRefused` (`PicksAreFromThisTeam`, `CommitsReplaceWhatWasSeen`); `TurnsEnd` |
| `jobs` | refresh: three snapshots, spacing 2, one forced run, two faults; rollover: months of four days (short below 2, loud from day 2 to 6), 14 days, one regulation over three of them, tables of 2 or 4 battles, a forced run, a manual push and a fault | `ProposalsAreSound` (types, `ProposalsAreNotLost`, `OnlyClearedRolesAreProposed`); `MonthsAreSafe` (`PushesMoveForward`, `FullMonthsStay`, `GreenMeansNothingOverdue`); `JobsSettle` (`UsageIsJudged`, `ChecksStop`, `PublishedMonthsArrive`, `MissingMonthsFallSilent`) |
| `kept_conflict`, `run_retry` | the session's and the batch's | violated, see Findings |

Bounds. `MaxConstraints` bounds the requirement list and `MaxSuperseded` each undo
stack. Every clause relates at most two slots, so two slots reach every pair; the
undo stack matters through its top; three requirements on an axis are needed for a
restore that displaces a requirement another one displaced, and four are allowed.
The draft's runs split the features because requirements, themes and rejections act
on the draft independently of the team clauses. The session runs need no bound:
screens nest at most two deep, which `TypeOK` checks (a question may be answered
with a question, but it then holds the same build). With two slots the multi-locked
phase does not occur; `session_phases` has three for it, and one kit since discovery
never looks at one. A kit that clashes on both counts is needed to tell the conflict
the user may keep from the one nobody may.

`MaxTurns` lines of a command line are three because a line that raises, the one
after it and one on another thread are all that meet. Two model calls: an abandoned
worker beside its successor. Three spawns allow a start, a restart and another one.
In `CandidateSlate`, `CutSize` 2 stands for the code's 10 and a locked member is
added once, because only the families it brings matter. A cap of 2 and a budget of 6
leave a spread the room above and below that 32 and 66 do; `SpreadFill` runs with
the real numbers. Two memos and two entries with one more of each than fits reach
every eviction. `ArmTurn` separates drafts (one model round) from screens (two),
with at most two calls a turn. `RequestRun` needs as many crashes as exceed the batch's budget
without exceeding a row's. Faults, kills, forced runs and manual pushes of the jobs
are counted, each at least once more than a single failure needs.

The session, the arm and the jobs never stop, and their runs check deadlock. The
others do not, and their cfg says so: in `draft_clauses` and `draft_rules` a refused
turn may be the last one the bounds leave, and a script, a batch, a completion, a
bounded sequence of calls and a cache whose rows are all final do stop.

## Fairness

- `TurnSession`: weak fairness of the graph's steps, because `graph.invoke` runs
  node after node by itself until END; not of classification, since the user may
  walk away.
- `CliSession`: weak fairness of a process's node, answer or exception, by the
  same argument; nothing is assumed of lines typed, interrupts or restarts.
- `LlmInvoke`: of the caller (a deadline is a timer) and of a worker whose
  provider returned; a provider that never returns is a state with no step.
- `CalcService`: of the manager's own steps; strong fairness of the deadline,
  because polls interleave with it but a clock is not stopped by them. None of
  the service, which may hang.
- `LiveUsage`, `SpreadFill`, `RequestRun`, `ArmTurn`: of the running program's
  own steps (a loop with no wait); none of failures, kills or the user.
- `PushToMain`: of each running script. Main moving under it is not fair.
- `UsageRollover`, `CompendiumRefresh`: of the steps of a run and of the daily
  start, which the scheduler gives; strong fairness of the next day, since a run
  may disable it for a while; in the second also of the maintainers repairing the
  criteria a red run names, which `UsageIsJudged` needs, and nothing else of them
  (they need not merge).

In `ConstraintAxis`, `TeamDraft`, `SpreadDialogue`, `CandidateSlate`,
`ResolvedBuilds` and `MatchupMemo` every action is somebody's choice; nothing has to
happen.

## Proofs

Eight modules named `_proof` hold the theorems, one per group of components, each
for every value of the constants that the named assumptions allow. Together they
state thirty-four of the forty properties the passing runs check. The argument is
always the same: an invariant that is inductive (`IInv` or a name of its own), one lemma
per action, under it one step per conjunct, and the property as a consequence. An
action property uses the invariant in the state before the step.

`TeamDraft_proof` begins with the requirements by themselves, for any kinds, scopes,
values and lists of any length: `AxesStaySound` (active hard requirements of an axis
agree; every snapshot still describes its row, is inactive and is unique) and
`AxesStayHeld` (only a reset empties an axis). None of the parts is inductive alone:
a restore needs to know that the row it revives is a competing one, that it is the
only snapshot of that row, and that the rest of the log keeps describing rows it does
not touch. `AxisInv` is their conjunction. Then the draft, for any number of slots,
species, items and values: `DraftStaysSound`, `RequirementsStaySound` (the
requirements in the composition), `KitStays`, `PinnedStaysRecoverable` and
`RequirementsTakeHold`. `TeamInv` is `TypeOK`, `AxisInv` and the four clauses. Two
lemmas carry every handler: *installing* validated values in one slot keeps the
clauses, and *weakening* the draft (any reopening, rejection or reset) keeps them.
The Mega rule needs the assumption that no stone clashes with a moveset
(`TeamAssumption`): then the batch handler never drops a stone it has just validated;
in the code the clashing items are the Choice items, which are not stones.
`RequirementsTakeHold` also needs `Grounded`: a requirement on abilities is recorded
only where slots have an ability.

`TurnSession_proof`, for any kits and any number of slots: `ScreensStayBacked`,
`OffersStayOpen`, `OnlyShownCommits`, `RefusalKeepsScreen`, `WaitingBuildIsKept`.
`Core` says what holds between any two nodes: the types, that a screen has one of
few shapes (a question holds a confirmation or nothing; only the question which stat
pays may be asked over another question), that a build that waits is backed by the
intent and the provisional build of the same slot over the same contents, that
offers are for open slots, and that a slot that is locked whole holds a build.
`NodeInv` says what each node may rely on when it runs: which screen the reply was
to (`ScreenOfNode`), what the draft looks like (`TeamOfNode`), whether the screen is
still the one the turn answers (`ScreenIsKept`, `RefusalsPass`) and whether the
waiting build may be gone (`BuildIsKept`). Every node is shown to hand the next one
what that one relies on.

`Programs_proof`. `CliResumesOneThread` holds for any number of processes;
`CliKeepsPromise` (the program implements `SavedSession`), `ThreadsStaySound`,
`CliDeadEndsAreForever` and `CliForgetsNothing` for a single process with any
threads and turns: with two processes what was shown can be overwritten, see the
divergences. The refinement needs `InStep`, that a running graph works on the
history stored for its thread; what was shown is the invariant `ShownIsOnDisk` of
the abstract specification, proved there and carried over; `Shown` adds that the
prompt's copy agrees with the checkpoint (`Mirrored`). `PushStaysSafe` holds for any
number of jobs and maintainers, any regions, attempts and faults: `PushInv` says that
main has each commit once and no clash (`Apart`, `Unclashing`) and what each job
knows: how much of main it has seen and stands on (`Placed`), that a fetch shows it
its own commit if that is there (`Aware`: a push may have been taken although its
answer was lost), that no attempt stashes twice (`Stowed`), that until its commit is
on main it stands on no change it clashes with (`Fresh`), and that every attempt
behind it met a failure or somebody else's commit (`Earned`).

`Services_proof`. `BatchStaysHonest`, `FinishedStaysFrozen`: for any number of rows,
reruns, interruptions, crashes and kills. `IInv` relates the file to the memory of
the process that writes it: the runner holds what the file calls finished
(`Carried`), rows are finished in order (`InOrder`), a batch that goes on has budget
left (`Budgeted`), and it closes only because it halted, was stopped or has no rows
left (`Closing`). `CallsStayLogged`, `LateAnswersStaySilent`: for any number of
calls; `LlmInv` says of each call what the log must hold given where caller and
worker are. `ProcessesStayTracked`: for both managers and any number of spawns;
`CalcInv` has one holder of the port (`OneHolder`), that the process a manager owns
or is stopping is the one it spawned last (`HoldsTheLast`), that the supervisor owns
or is stopping every child that runs (`Tracked`), and that after a stop that
returned none does (`Stopped`). `UsageStaysTrue`: for any species, regulations,
attempts and cache bound; `SitesInv` says that both caches hold the keys used last,
a record each (`Fits`), and what the lookup under way may still ask. The truth of
the cache is one choice of the set of records it may hold; for sites that fail in
every way the same lemmas are used with a wider set, and only that truth is lost.

`Replies_proof`. `DialogueStaysSound`, `EditsStayKept`: for any cap, budget,
threshold and offered spreads; `IInv` adds that while a partial edit is open, what
it named has its value in the build shown or attempted (`NamedSoFar`), and that at
most one other stat has changed (`PaidSoFar`). `NothingGetsDropped`: for records
with any number of options and filled fields; `IntentInv` relates the result to the
text and the record it was made of. `FillsStayFair`: for the game's numbers (32, 66,
8, 508, 252) and any EV source, partial build and role spread: while converting, no
stat has fewer points than its EVs round to nor fewer than a stat with fewer EVs,
and of a full source what is spent and what is needed make 66; while allocating, no
stat has fewer points than before nor more than the larger of that and its target.
`SlatesStaySound`: for any species, families, needs, evidence, rankings and replies,
any cuts and sizes. `SlateInv` relates the screen to what it was made of (the focus,
rejections, bans and members); `SoundFor` is what that gives: options of the pool,
families apart, no banned support option, and for support a slate as full as the
candidates allow and in the order of the passes. A pass over n candidates is
described by `Grown`: it adds to the selection it was given, what it adds brings
something new (unless it is the second pass), and it passes nobody over without a
reason. So an option that brings nothing new comes from the second pass, after
which the first had ended with room left.

`Stores_proof`. `MemosStayRight`, `MemosStayKept`: for any caps, threads, sessions
and calls; `MemoInv` has the order in which the resident sessions were last used,
that a memo has an entry per key and as many as were ever missed or as it may hold,
that a session that is not resident has none, and that an answer is for what was
asked while the evaluation is outside the lock. `BuildsStaySound`,
`RowsOnlyGetBetter`: for any builds and spreads and one writer at a time;
`BuildsInv` says that what a writer has read is still what it replaces.

`Jobs_proof`. `ProposalsStaySound`: for any number of snapshots, any contents and
spacing; `RefreshInv` carries that no marker or checkout is ahead of main
(`NothingIsAhead`), that main still has what a run checked out unless something newer
was merged or something older that overtook it (`CheckoutHolds`), and that a marker
is pushed only behind what it says (`MarkerIsBacked`: a cancelled runner leaves a
request without a marker, never the reverse). That a merge under a run can lose what
the run judged is part of the property, which names it, and of the divergences
(`NoOpIsClean`); `ClearedInv` that a job past the critic was cleared. `MonthsStaySafe`:
for any calendar, schedule and tables; `MonthInv` says that the tree of a run holds
nothing older than its checkout (`Forward`), that unless forced a full month's file
is still one (`Full`), and that what a green run is through with is not overdue
(`Caught`).

`Arm_proof`, for any number of slots, calls and answers, any messages and any calls
of `set_slot`: `UserStaysInCharge`, `StaleScreensStayRefused` and `ArmStaysSound`.
`set_slot` checks its
requests one after the other on a copy, in which what they set is locked and a
changed species clears the slot, and writes another team, in which it is a draft and
a slot is cleared only if the team before the call held a species there. `Faithful`
relates the two after any number of requests: the copy keeps the clauses, each
written species is the copy's, a slot no request was for is untouched, a call that
replaces nothing loses no species, and each written item is the copy's or nothing,
except in an overlaid slot, one that a request replaces and another before it was for
(`Overlaid`). `Permitted` says what any tool may do to team, screen and
rejections; each tool is shown to do only that, and every property follows from it
and from what the turn allows. In an overlaid slot the copy
is cleared, the written slot is not, and the item it keeps is one the next request
may be given. Nothing in the code prevents such a call, so nothing is assumed: the
species clause holds all the same, and of items the theorem says that two slots come
to share one in no other way.

Assumptions on constants are named in the modules that declare them, and TLC
evaluates them in the runs: sizes and budgets are natural numbers, `None` and its
like are no values (`NoneAssumption`, `CliAssumption`, `BuildsAssumption`,
`NothingAssumption`), tables are functions on what they are about. Those that say
more: no stone clashes with a moveset (`TeamAssumption`), a script makes at least one
attempt (`PushAssumption`), an EV source spends at most the 510 of a game, or gives a
stat more than 252 (`SourcesAssumption`), and a seed's team keeps the clauses
(`InputsAssumption`).

Model-checked only:
- liveness (`EveryTurnEnds`, `ProgramsEnd`, `CallsEnd`, `TurnsEnd`, `JobsSettle`), which
  TLAPS cannot reach;
- `ReconcilingIsComplete` as a whole, a sum over the three instances the run
  checks side by side. What it says of one draft is proved for any constants: its
  conjunct `TakesHold` is `RequirementsTakeHold`, and `Kept` is
  `PinnedStaysRecoverable`.

What walks a list (the requests of `set_slot`, the candidates of a slate) is a
recursive function of the index, and its proofs are inductions over that one
function. The library states induction over an operator, so here it is made on the
set of the numbers for which the statement holds (`SetInduction`, from `WFMin`).

What the proofs changed. The resolution of an intent was a `CASE` with overlapping
guards, of which TLC takes the first and TLA+ leaves open; the proof failed and it
is now the chain of conditions of the code. The rollover's calendar did not say that
its markers for "no file" differ from every file. A request of the arm could name
slots, messages and screens of any shape; the inputs now have types, and the case in
which two slots share an item is named by the property. The passes of a slate were folds
over filtered lists; they are recursive functions of the index, as the code's loops.

## Findings

Two are runs whose property states the quoted line; TLC's trace is the story.

| run | the source says | what happens |
|---|---|---|
| `kept_conflict` | `docs/architecture_decisions.md:8149`: "keep the conflict deliberately" | the commit (`nodes.py:892`) checks without the waiver and refuses every such build |
| `run_retry` | `request_set_runner.py:71`: no silent retry | "item_timeout" contains the marker "Timeout": a slow model counts as a calculator failure and the row is run again |

Other places where the code and what is said of it part were met while modelling.
Each is a formula at the end of its module (`Module!Formula`), no run checks it and
no theorem states it; TLC finds it violated when it is added to the run of the
module, with the instance the first column names where that differs.

| formula | the source says | what happens |
|---|---|---|
| `TeamDraft!RestoreIsALock` | `docs/architecture_decisions.md:4919`: a restore goes "via the same lock machinery" | it validates and locks but does not reconcile: lock an item, lock a moveset that clashes (the item is reopened), restore the item, and the clash is locked |
| `TeamDraft!LockedIsNotRejected` | `nodes.py:941`: a locked species can never also be rejected | only `apply_lock` enforces it; `commit_full_slot` and `restore_superseded` do not |
| `TurnSession!DeferRestoresBuild` | `docs/architecture_decisions.md:8117`: deferring "restores the prior build state" | the question has already replaced `provisional_slot` (`nodes_classify.py:936`), the defer branch restores the screen only, and confirming it is refused as stale; `OnlyShownBuildsCommit` holds because the commit compares fingerprints |
| `CliSession!KeepsLastCheckpoint` | a design document: "state remains last successful checkpoint" | after a line that raises, the loop shows the state of the turn before, while finished nodes have written theirs |
| `CliSession!SavedWhenTold` with two processes | `docs/cli.md:62`: "Session saved under thread" | a second process resumes the same thread and writes a later checkpoint without the turn |
| `CliSession!RepairReopens` | `present_text.py:414`: "check the calc service, or use :new" | once discovery failed without a question, every line is refused whatever the service does |
| `CliSession!DeferIsAPause` | `docs/architecture_decisions.md:9960`: defer is a pause | deferring a question shown beside a discovery error closes the thread |
| `LlmInvoke!OneLinePerCall` | `llm_invoke.py:75`: the flag suppresses a late log | a deadline between the worker's test and its write leaves two lines of one call |
| `LlmInvoke!TimeoutMeansDeadline` | `llm_invoke.py:27`: raised when a call exceeds the timeout | a TimeoutError of the provider is caught as the deadline |
| `RequestRun!ResumeIsPossible` | `request_set_runner.py:72`: resume skips finished rows | a kill during a save leaves a file no resume can read |
| `CalcService!RestartIsFresh` | `calc_supervisor.py:122`: restart starts a fresh process | the busy old process still answers the poll that ends the wait, and then closes |
| `CalcService!NothingIsLeftBehind` | `docs/architecture_decisions.md:165`: SIGTERM on exit | a service not healthy in time makes `__enter__` raise, and nobody stops it |
| `SpreadDialogue!UntouchedStatPays` | `docs/architecture_decisions.md:8115`: an untouched stat pays | an edit that arrives as a full spread touches nothing, so the correction may undo it |
| `LiveUsage!CacheIsTruth` with failures of kind `throttled` | `usage_spreads.py:206`: only legitimate misses are cached | 429 is None like 404 and is remembered |
| `LiveUsage!LookupsDoNotRaise` with failures of kind `torn` | `usage_live.py:31`, `:104`: transport failures are retried, then LiveFetchError | a body that ends early or is not UTF-8 raises something else |
| `ArmTurn!ReplacedOnlyWhenConfirmed` | `set_slot_tool.py:587`: replacing needs a confirmation | any message after the question is taken for one |
| `ArmTurn!TeamClauses` | `set_slot_tool.py:221`, `:581`: clauses are checked against the projection | a slot named twice is compared with the team before the call: one item on two slots (`ItemsStayApart` names it) |
| `ArmTurn!CurrentScreensCanBePicked` | `guard_allowed.py:292`: screens are stamped when created or refreshed | build screens are not, and unstamped is stale: no option can be picked |
| `ArmTurn!DraftsAreNotWiped` | `prompt_guard.md:6`: ask before clearing a draft | turning an option down clears the species drafted there since |
| `UsageRollover!FinalMonthIsFetched` with a regulation that ends with a month | `docs/architecture_decisions.md:3055`: the final month is fetched as catch-up | a regulation without a file at its end is not looked at again |
| `PushToMain!RejectedPushIsRetried` | `push_to_main.sh:54`: restore the stash, try again | an unmerged pop makes the next `git stash push` fail, and the script dies with attempts unused |
| `PushToMain!FilesAreSeen` | `push_to_main.sh:41`: a rebase that conflicts is the one refusal | git merges changes of different lines of a file silently: a commit lands beside a change to its file that its job never saw, and nothing looks at the two together |
| `CompendiumRefresh!NoOpIsClean` | `docs/architecture_decisions.md:11352`: "a critic-clear run with no real semantic change is a clean no-op" | its marker says main has what it judged; an older request merged while it ran, or left open and merged later, takes that back, and the gate sees nothing to do |
| `CompendiumRefresh!OnlyNewUsageIsChecked` | `docs/architecture_decisions.md:4769`: never fires when nothing has changed | a flagged check keeps the fingerprint and is repeated every spacing |
| `CompendiumRefresh!OpenRequestIsCurrent` | `compendium-refresh-gate.yml:96`: the request is from current usage | a later check without a difference leaves the older request open |
| `ResolvedBuilds!VerifiedIsConfirmed` | `docs/architecture_decisions.md:2684`: verified is confirmed | stored as verified after a failed or skipped calculator run |
| `ResolvedBuilds!PrecedentIsKept` | `docs/architecture_decisions.md:2658`: synthesis only without precedent | an adapted build is stored over a writeup of the same key without a lookup |
| `ResolvedBuilds!PrecedentIsFound` | `docs/architecture_decisions.md:2835`: the chain prevents missing valid data | a computed row of the current file hides the writeup of the older one |
| `ResolvedBuilds!NatureStays` | `docs/architecture_decisions.md:7988`: a nature tied to a row | fetching the writeup again writes a row without it |
| `IntentResolution!NothingElseEditShaped` | `turn_intent.py:541`: one field "and nothing else edit-shaped" | a selection with an item and moves is resolved as the item; the moves are gone |
| `IntentResolution!CompoundNamesAnOption` | `turn_intent.py:1223`: compound only when the text names an option | the test is made for single-field edits only |
| `CandidateSlate!NoMoreIsTrue` | `slot_fill.py:1796`: "No more candidates for this slot." | the cut to ten comes before the bans: ten banned candidates hide the rest |
| `CandidateSlate!EvidenceIsMerged` | `team_candidates.py:420`: evidence is merged by species | a beneficiary that also serves a need loses its condition evidence |

## Plan

1. `ConstraintAxis`, `TeamDraft`, `TurnSession`, the prompt loop, the model calls, the
   calculator, live usage, spreads, the caches, the evaluation arm, the scheduled
   jobs, intents and slates: modelled and checked.
2. Proved: the safety properties of all of these.
3. Left to prove: `ReconcilingIsComplete` over the sum of its instances, the refinement
   of `SavedSession` with what it keeps under two processes, and the same properties
   of what item 4 adds.
4. Left to model: the tools of the arm for requirements, the single-locked slate,
   the other gates of the scheduled jobs.

## Not modelled

- Text: prompts, explanations, phrase rules, layout. Where a phrase decides what
  happens its result is an input.
- Scores: role tables and their generation, usage statistics, the simulated
  exchange of two builds, the keys candidates are ranked by. They are functions
  of large static tables and of damage numbers; what depends on their result
  takes it as a free choice.
- The regulation registry (lookup tables read once), the other
  extraction scripts (they read a site and write a table once; those that fetch
  writeups, roll usage over, refresh the compendium or publish are modelled), and the analysis scripts under
  `scripts/eval` that are not part of a run.
- The damage calculator, a vendored library.
