# VKCA academy platform: TLA+ models, checks and proofs

The repository holds the VKCA cricket-academy platform: a FastAPI/PostgreSQL
backend (`src/backend/src`), its operator scripts and ARQ worker
(`src/backend/scripts`), and a React frontend (`src/frontend/src`). This
directory models the parts whose correctness depends on the order of events,
checks them with TLC on small instances and proves theorems about them with
TLAPS for every value of the constants.

Status: six parts are modelled and checked: the durable background-work pipeline,
the RAG indexing runs it leads to, match scoring, login sessions with the login
limiter, the calendar, and the academy's teams, people and performances. Their safety
properties are theorems, proved for every instance (section 6), but for those a run shows violated. Three
of the parts implement an abstract specification of what they promise (`DurableIntents`, `CorpusIndex`,
`TokenFamilies`), which is proved as well.

## 1. Inventory

| Component | State | Operations | What is hard | What makes it correct |
|---|---|---|---|---|
| Background-work outbox (`services/background_jobs/outbox.py`) | `background_work_items` rows: state, version, lease, run_after, attempt counters, payload, keys | stage, claim, mark, renew, recover, requeue | versioned updates by actors that read earlier; two partial unique indexes; coalescing into rows others are about to claim | no accepted intent lost; one holder per version; bounded attempts; every row settles |
| Dispatcher (`dispatcher.py`, `scripts/background_dispatcher.py`) | a claimed batch in memory | recover and claim in one transaction, enqueue, mark | exit between claim, enqueue and mark; a broker error after Redis accepted; two dispatchers | late marks never land; claims are recovered |
| Worker runtime (`runtime.py`) | a running row per ARQ slot | reload, claim, renew, run the handler, persist the outcome | duplicate delivery; lease expiry while the handler runs; slots of a process share their lease owner | a stale outcome never completes or retries newer work |
| ARQ queue and Redis (external) | jobs by id | enqueue once per id, deliver, defer, lose | at-least-once delivery, restarts | nothing is assumed of it |
| Retry policy, registry, contracts (`retry.py`, `registry.py`, `contracts.py`) | none | classify, back-off, validate | attempt limit at equality, mixed-version deployments | finite retries |
| RAG indexing (`services/rag/indexing.py`) | source states with version and lease, documents, chunks, runs | claim, embed, re-validate, activate, fail, mark missing | provider call between two transactions, lease takeover, source changed meanwhile, death of a run | an outdated plan never lands; states and documents agree; after a completed run nothing stale is searchable and nothing allowed is hidden |
| RAG registry and dependency closure (`services/rag/registry.py`) | none (registry frozen at start) | resolve impact, closure, validate targets | bounds, cycles | every dependent source is a target |
| Match scoring (`services/scoring/service.py`) | match with locked policy and rosters, innings with deliveries, revisions and transitions, persisted projection | configure, start, append, correct, choose batter or bowler, retire, complete | match and innings versions beside each other; corrections that change the past; completion at a boundary | stored state = replay of the history; result = what the innings say |
| Scoring rules and replay (`rules.py`, `replay.py`, `policy.py`, `projections.py`) | none (pure) | validate policy and facts, fold deliveries | strike, overs, last wicket, targets, extras, refused histories | the score adds up; blocking states tell the truth |
| Authentication sessions (`auth_service.py`, `token_service.py`, `user_service.py`, `middleware/auth.py`) | accounts, sessions with current and exchanged token hashes | login, refresh, logout, revoke, disable, change password or role | concurrent refreshes; a revocation beside them; version numbers computed from what was read | an exchange has one winner; a replay ends the session; revoked stays revoked |
| Login rate limiter (`rate_limiter.py`) | failures per key, process-local | check, record, prune | check and record apart, window edge | failures exceed the limit by the logins in flight at most |
| Calendar (`calendar_service.py`, `calendar_recurrence.py`) | events, series, exceptions | create, edit, delete one, occurrence or series | February 29; exceptions that no longer occur after a rule change; versions of both; the index that follows | no orphan exception; a range shows what the rule means; the index is never silently old |
| Teams, coaches, players, accounts (`team_service.py`, `coach_service.py`, `player_service.py`, `player_account_service.py`, `occ.py`) | versioned rows and links | create, update, add, normalise, remove, assign, link | roster position by MAX + 1 without a lock or a unique constraint; repairs confirmed on what was read earlier | no team below the minimum; a repair that is offered works |
| Matches and performances (`match_service.py`, `performance_service.py`) | performances, aggregates | batch submit, recompute, derive from deliveries | recomputation under advisory locks; deadlocks | aggregates = those of the committed performances |
| Data quality (`data_quality_rules.py`, `data_quality_service.py`) | none | evaluate, offer and apply repairs, audit scoring | rules and services check the same in different words | what a finding offers is accepted and removes it |
| Business audit, dashboard, routes, schemas, migrations | append-only rows, or none | record, query | none of their own | contracts and constraints are used by the models of what they feed; else section 7 |
| Frontend API client (`shared/api/client.ts`) | access token, refresh in flight, expiry flag | request, refresh, expire | a late refresh against logout or login | not modelled, section 7 |

Interactions: every academy mutation stages a RAG reconciliation intent in its
own database transaction (`rag/registry.py` `RagMutationStager`), so mutation
and intent commit or roll back together. The dispatcher process moves row ids to
the ARQ queue, worker processes run them, and the handler calls RAG indexing.
Data quality reads every component's rows and repairs rosters and assignments through
their services; scoring projects performance rows; an account's disablement and a
player's deactivation revoke login sessions.
PostgreSQL rows are the only shared state that is trusted; the queue is a hint.

`PROJECT.json` lists each component with its status, and the hazards at the
lines where they bite; one that no property covers has a note that says why.

## 2. Modules

| Module | What it holds |
|---|---|
| `Outbox` | The row (`models/background_work_item.py`), the sets of states, the two unique indexes as predicates, and for each lifecycle method of `BackgroundJobOutbox` the operator that says what it writes. No variables. |
| `BackgroundWork` | The state machine: staging transactions, dispatchers, the queue, worker slots, operators and time; the properties; the mapping to `DurableIntents`. |
| `DurableIntents` | The abstract promise: an accepted intent is open until it is served or visibly failed, and nothing takes it back. |
| `MCBackgroundWork` | Model values, key assignments and symmetry sets for TLC. |
| `BackgroundWorkProofs` | Each write operator of `Outbox` keeps a row well typed with its lease pair, moves the version by one and takes back no intent. Type correctness of the pipeline, its inductive safety invariant and the four safety theorems, the two action properties, and the refinement of `DurableIntents`. |
| `RagIndexing` | Indexing runs of one registered source type over its rows, index states and documents: paging, comparison, claims, embedding, re-validation, activation, withdrawal, sweep; the properties; the mapping to `CorpusIndex`. |
| `CorpusIndex` | The abstract promise to those who search: what is shown of a source only moves forward, and of a source the index has caught up with nothing but its present content is shown. |
| `MCRagIndexing` | Model values, scopes, profiles and sets of changes for TLC. |
| `RagIndexingProofs` | What a step does to one source's state and document; type correctness, and the theorems that rest on versions alone. |
| `RagIndexingSafety` | What a completed run guarantees: nothing stale is served, nothing allowed is hidden or missing; the refinement of `CorpusIndex`. |
| `ScoringPolicy` | Pure: capability profiles, policy validation, retirements, completion modes, targets and results (`policy.py`, `rules.py`, `schemas/scoring.py`). |
| `ScoringReplay` | Pure: validation of a delivery's facts and the fold of a history into an innings state (`replay.py`), blocks and projections. |
| `MatchScoring` | The scoring commands of one match over both; the audit of the scoring graph and the table constraints; the properties. |
| `MCMatchScoring` | Profiles, rosters, observations and bounds for TLC. |
| `ScoringReplayProofs` | What a replay leaves of any history: the folds as sequences of states, and what every delivery and every transition preserves. |
| `MatchScoringProofs` | The inductive invariant of a match and its innings, and the theorems about them. |
| `CalendarRecurrence` | Pure: the proleptic Gregorian calendar on day ordinals, `OccursOn`, expansion, and `RuleMeans`, the definition they are compared with. |
| `Calendar` | Event, occurrence and series commands, range and instance reads, the calendar's data-quality rules, and the search index that follows; the properties. |
| `CalendarProofs` | That expansion finds what the rule means, and the inductive invariants of calendar, views and index with the theorems about them. |
| `MCCalendar` | Dates around 29 February 2024, payloads, rules and ranges for TLC. |
| `AuthSessions` | Accounts, profiles, sessions, tokens and the limiter; every request in its steps; the properties; the mapping to `TokenFamilies`. |
| `TokenFamilies` | The abstract promise about refresh tokens: each login's tokens are handed out one after the other, each once and for the one before, until the family is over for good. |
| `MCAuthSessions` | Workloads for TLC. |
| `AuthSessionsProofs` | The inductive invariants of sessions, limiter and ages, the theorems about them, and the refinement of `TokenFamilies`. |
| `Squads` | Teams and rosters, players, coaches and assignments; the roster rules of the data-quality scan and the repairs they offer. |
| `Performances` | Extends `Squads` with matches, batches of performances, their aggregates and the rows scoring derives. |
| `MCAcademy` | One academy with its workloads for TLC. |
| `AcademyProofs` | The version argument for rosters, the lock argument for aggregates, types, and that offered repairs work, with their theorems. |

`BackgroundWork` and `RagIndexing` are joined only by what each promises the other:
the handler's outcome is nondeterministic in the first, a run may start, die or be
repeated at any moment in the second. `Calendar` stops at the announcement of
an occurrence (`pending`), which is the intent the first carries. `Squads` and
`AuthSessions` both hold accounts: the first as coaches with their assignments,
the second as owners of sessions.

A definition under a comment `Mutation:` or `Mutant:` is a
plausible bug in the definition after it. `PROJECT.json` substitutes each one and
TLC must then find a property violated; none takes part in the models as they stand.

### State and code: background work

* `rows[w]` is one row of `background_work_items`. `lease` and `delay` are the
  ticks left until `lease_expires_at` and `run_after`; zero means reached. The
  code only compares these times with the present and takes the smaller of two,
  so a moving origin loses nothing and time needs no horizon. `dispatches`,
  `executions`, `manualRetries` are the three counters, `key` the coalescing key
  and `idem` the idempotency key. `payload` is the set of intents merged into the
  row: the registered coalescer (`coalesce_rag_reconciliation_payloads`) keeps
  the union of the targets, or, above its bound, a request to check everything.
* `request[r]` is a business transaction in the middle of `stage()`: it has found
  a candidate and will merge (`merge`), has found none and will insert
  (`insert`), or lost the unique index and looks again (`resolve`). It keeps the
  version and payload it read. Outcome `failed` is a mutation that rolled back
  with its intent (`BackgroundWorkConflictError`, `BackgroundCoalescingError`).
* `todo`, `sent`, `failed` are a dispatcher's batch in `dispatch_once`: claimed and
  not enqueued, enqueued and not marked, refused by the broker and not marked.
* `slot[k]` is one ARQ job slot in `BackgroundWorkerRuntime._execute`: `read`
  between reload and claim, `claimed` before the lease renewal, `running` during
  the handler, `ended` with an outcome and with `live`, the lease predicate at the
  time taken before the update. Slots of a process have one `worker_id`.
* `jobs[w]` is the ARQ job of the row (its id is a function of the row id):
  ticks until it may start, or `NoJob`. `handled` is a history variable.

Actions are database transactions or single awaits: everything a transaction
does is one action, and whatever the code carries from one to the next is in
`request`, `todo`, `sent`, `failed` or `slot`. `ClaimBatch` is recovery and claim
together because `dispatch_once` runs both in one transaction.

### Abstractions: background work

* The batch limit (1 to 500) is never reached by the instances.
* The dispatcher's live-lease predicate compares the lease it took with the time
  it took it at (`reference`), so it always holds and is left out. The worker's
  uses a time taken after the handler, kept in `live`.
* Recovery handles its rows by lease expiry. The model does not keep that order:
  a batch is atomic, and the fairness of `Settling` asks for a recovery only when
  it succeeds in any order (`AnyOrderCommits`).
* ARQ is not assumed to run a job in one slot at a time: delivery is at least once.
* A cancelled job (shutdown) stays in the queue; any other result uses it up. Any
  handler error after which the row is retrying defers the job, by the
  back-off that was picked.
* The registry is fixed for a deployment. `Unregistered` keys stand for a row of a
  job type this process does not know, as in a mixed-version deployment.
* `stage_manual_trigger` and `stage_scoring_refresh` stage like any request.
* Rows without a coalescer and with equal payloads are not modelled: the one
  registered job type has a coalescer.

### State and code: RAG indexing

* `source[s]` is what the registered loader would return for an authoritative
  row: absent, ineligible or eligible, and a revision that stands for its
  `source_version` fingerprint. `Change` is a domain transaction.
* `state[s]` is the row of `rag_source_states`: status (`none`: no row), version,
  claim (`claimed_by_run_id`), whether the lease is live, the observed revision and the
  embedding profile. `Claimed`, `Created`, `Activated`, `Failed`, `Staled`,
  `Unsearchable` are the writes of `RagIndexingStateService`, each with its bump of
  the version; their `WHERE` clauses are `Claimable`, `HoldsClaim`, `StillAsRead` and
  `MayActivate`. `doc[s]` is the active document with its chunks.
* `run[r]` is the call of `run()` or of a targeted run: the stage, the loader's cursor, the
  keys seen, the loaded page, the decisions of `compare_source_candidate` with the
  versions they were taken at, the plans (`_SourcePlan`: version after the claim and
  revision embedded), whether a source has failed.
* `fresh` and `clean` are history variables: the sources that have been reconciled by
  a completed run that started after their last change, and for an active run the
  sources that have not changed since it started.

A run interleaves at its commits and reads: `Load`, `ReadStates`, `CommitPage` (one
transaction with all invalidations, rebuild marks and claims of the page), the embedding
call, `Reload` (the second `load_batch`), and then per plan, in key order, `Activate`,
`ActivateFails`, `Postpone` or `Withdraw`; then the next page, and at the end `ReadMissing` and
`CommitSweep`. `RunFails` is an exception or the death of the process at any of these.

### Abstractions: RAG indexing

* One source type. The definitions of a run are processed one after the other and
  share nothing but the run's counters, which only tell completed from partial.
* Pages are cut by key order and `PageSize`, which is 100 in the code. A targeted
  run loads all its keys as one page. `ActiveOnly` is the player loader, which leaves
  ineligible rows out of a traversal.
* The states and documents of a page are read in one action, as are a page's rows
  (one query each, under read committed).
* A lease is live or expired, and expires at any moment. Nothing renews one:
  `renew_claim` has no caller.
* The status `pending` never shows: the state is created and claimed in one
  transaction. Builder and chunking versions are fixed, as they are for a deployment; the
  embedding profile is not.
* After an activation that rolled back, the handler either marks the source failed
  or fails the run (the expired instance may raise when it is read): `ActivateFails`
  and `RunFails`.
* A change always makes a new revision. A row that goes back to an earlier content has an
  earlier fingerprint in the code; what was built from it is then right again.
* Counters, telemetry and provider usage are left out.

### State and code: match scoring

* `match` is the Match row with its locked policy (`cap`) and participants,
  `innings` its innings in order. An innings is its row, its deliveries
  (`deliveries[n]` is the sequence of revisions of an attempt, the last one active),
  its `transitions`, and the persisted projection: `state`, `block` and `links`.
* Every command of `ScoringService` takes the Match row lock first and commits at its
  end, so each is one action; a refused command rolls back and is no step. What can
  be old is the request: `views[v]` holds the innings versions at match version v,
  and a command is composed at any of these views (`saw`). `lastSaw` is a history variable.
* `ReplayInnings` folds the active facts exactly as `replay_innings` does: facts are
  validated, runs, extras and wickets applied, strike rotated, the over closed, completion
  evaluated, and the transitions whose position is reached are applied in between. A
  history the code refuses is a state that `Fails`; a correction that ends an innings
  early with deliveries left makes it `reconciliation_required`.
* `refreshes` are the match versions a RAG refresh was staged for.
* `InningsIssues` is `data_quality_service`'s audit of one innings against a fresh replay.
  `RowsFitTables` are the CHECK constraints of `016_match_scoring_domain.py`.

Abstractions: a participant is a value, with its side; authorization, scorer names, times and
the rendered scorecard are left out; the business audit is append-only. Two definitions are shorter than
their code and equal to it: `Advances` derives the match result after every accepted change, while the
choice of a batter or bowler and a retirement do not call `_finish_derived_match` (none of them completes an
innings); `RecordedMode` does not count the wickets again that `_completion_kind_from_history`
counts (a completion is recorded only when no automatic reason holds, so they are below the limit).

### State and code: calendar

* A date is its ordinal in the proleptic Gregorian calendar; month and day are
  computed from it, so February 29 and the fall-back to the 28th are the code's.
* `events[e]` is the event row with its scope rows and, for a series, the rule with the derived
  columns and the exceptions by original date. An exception is a deletion or a complete
  replacement, with its own version.
* `view` is what a client loaded at some time (`Look`); a command is composed from it
  or from the present rows, and carries the versions it finds there. Each command
  locks the event row to its commit, so it is one action.
* `pending` are the occurrence identities announced to the index and not yet
  reconciled, `corpus` the indexed content with its fingerprint.

Abstractions: title, description and location are left out; a text differs when its version
does. A reconciliation reads and writes at once: `RagIndexing` has its interleavings.

### State and code: login sessions

* `accounts`, `players` and `sessions` are rows; `sessions[s]` keeps the current
  token, those already exchanged and the version. A token is its number of issue.
* `requests[r]` is a request in flight with the rows it has read. It reads, waits,
  decides and writes in separate steps; the guarded `UPDATE ... WHERE` of a refresh, logout or revocation is one step with
  the commit, while a command on an account or a profile claims its row's version
  first (`AccountClaim`, `PlayerClaim`), holds the lock, and commits with the revocations.
* `attempts` and `lastCleanup` are the limiter; `now` moves by `Tick`.

Abstractions: token encoding, hashing and CSRF are left out; a login knows the password or not. The account row
and the profile it is linked to are read in one step. `RejectTokenReuse` writes without a
comparison, as the code does. A command that sets a column to the value it read does not write it (`Written`),
and a revocation writes the version of the caller's own session as it was read when the request was authenticated (`Loaded`). An access token is valid for `AccessLifetime` after the session's last refresh.

### State and code: academy

* `teams`, `players`, `coaches` are rows, `roster[t]` the positions in `team_players`,
  `assigned` is `team_coaches`. `Context` is what the rules and the services read.
* `requests[r]` is a command between its read and its write. `update_team` claims the version and then
  validates, so its first step holds the row lock (`Locked`) and its second replaces
  the roster; `add_player_to_team` reads the last position without a lock; a repair is
  matched with a present finding, read and checked, and then claimed at the version the
  finding named.
* `rows` are the performance rows and `stats` the aggregates. A batch inserts all its rows,
  then takes an advisory lock per player, format and table, and recomputes one aggregate
  after another; its writes are visible at its commit. `InsertWaitsFor` and `WaitsFor`
  say who waits for whom, `DeadlockAbort` is PostgreSQL breaking a cycle.

Abstractions: the five queries of `load_context` and the reads of one service call are one
step; nothing deletes a team; the versions of `stats` and of a performance row are left out (under the
advisory lock their comparison cannot fail); deriving rows from deliveries
reads and writes in one step; overs are counted in tenths, as the decimal the code sums (the same number for
overs of at most ten balls). `Normal` stands for two comparisons, `lower(trim(...))` of team names in the
service and NFKC with case folding in the rules, with the date of birth of a player; a model name is all of these
together. `update_team` deletes, inserts and commits in one step, as no other transaction sees the roster in between.

## 3. Properties

| Property | Meaning |
|---|---|
| `TypeOK` | Types, and the lease pair: an owner exactly in the leased states. |
| `StaleClaimsFenced` | A slot or dispatcher whose version is still the row's is its only holder, and the row is in the state it claimed. |
| `CompletedWorkWasHandled` | A completed row carries no intent no handler succeeded for, those merged later included. |
| `NoAcceptedIntentLost` | A committed intent was handled or is on a row that is not completed. |
| `AttemptBudget` | Executions never exceed the limit between two manual requeues, dispatches stay below twice the limit. |
| `RunningRowLeftToHolder` | While its lease runs, a running row is changed only by the slot that claimed that version. |
| `TerminalWorkRests` | Completed rows never change; dead rows change only by a counted manual requeue. |
| `WorkSettles` | Every staged row reaches completed or dead, with nothing assumed of workers, queue or operators. |
| `KeepsDurableIntents` | The pipeline implements `DurableIntents`. |
| `ExpiredWorkRecovered` | What the documentation promises of expired leases; violated, section 5. |

RAG indexing:

| Property | Meaning |
|---|---|
| `TypeOK` | Types of rows, states, documents and of what runs carry. |
| `PlansFenced` | While a state has the version a plan recorded, it is indexing and claimed by the plan's run. `mark_source_unsearchable` only compares the version, so this is what keeps a slow run from withdrawing another's work. |
| `IndexConsistent` | Hidden states have no searchable document; a current state has one of its observed revision and profile; claims are on indexing states only. |
| `KeepsCorpusIndex` | The runs implement `CorpusIndex`: a step edits one source, publishes a content of one that is not older than the one shown, withholds some, catches up with some, or leaves what is shown alone; after catching up only the present content is published. |
| `NoStaleContentServed` | After a completed run that began after the last change of a source, no older content of it is searchable, and none if it is not allowed; runs that began earlier do not bring it back. |
| `ReconciledSourceSearchable` | After such a run an eligible source is searchable. Violated in general, section 5; holds where rows are only revised and removed. |
| `HiddenOnlyIfNotAllowed` | A source that is eligible and unchanged since the active runs started is not hidden. Violated in general, section 5; holds where rows are only revised and removed. |
| `ProfilesReplacedByRebuilds` | A document's vectors give way to those of another embedding profile only by a full or targeted run of that profile which holds the source. |

Match scoring:

| Property | Meaning |
|---|---|
| `TypeOK` | Types of match, innings, views. |
| `StoredScoreIsReplay` | The audit of any stored innings finds nothing but an innings left for reconciliation; every dismissal is linked to the active delivery that made it. |
| `ScorecardBalances` | Runs add up by batters and extras, by overs and by bowlers; balls and wickets too; and no correction leaves an over with two bowlers, a bowler past the quota, or consecutive overs of one bowler. |
| `ResultFollowsInnings` | A decided match has all its innings, a winner that leads by the margin recorded, and a chase that reached its target with the wickets recorded in hand; none, if the winning run cost the last one. |
| `BlockHasAnswer` | The blocks shown are true: "none" when the next ball can be bowled, and for every other block the command that lifts it is accepted. Sides too small for their format and quotas that end in mid-over are excepted by name (section 5). |
| `RowsFitTables` | No reachable row violates a constraint of the migration, which would turn an accepted command into an error. |
| `StaleNeverCommits` | An accepted command was composed at the present match version, although most carry only their innings' version. |
| `ChangedCardAnnounced` | A change to the card of a finished match stages a refresh. |

Calendar:

| Property | Meaning |
|---|---|
| `TypeOK` | Types, with the constraints of the calendar tables. |
| `SeriesCoherent` | Derived columns fit the first date, and every exception belongs to an occurrence of the rule. |
| `RangesShowCalendar` | A range shows each occurrence `RuleMeans` places in it, once and as the single read resolves it, but for the events the first-date filter drops (section 5). |
| `VersionsIdentifyContent` | While the versions a client holds are the stored ones, the content is what it loaded, even if an exception was removed and saved again. |
| `CorpusNeverStale` | An indexed future occurrence shows what the calendar shows, or is announced. |

Login sessions:

| Property | Meaning |
|---|---|
| `TypeOK` | Types of rows, tokens, limiter and requests. |
| `TokensTracked` | Every token ever issued is its session's current one or one it remembers, once. |
| `LimitHolds` | Live failures of a key exceed the limit by the other logins in flight at most. |
| `KeepsTokenFamilies` | The sessions implement `TokenFamilies`: a step opens a family, gives one that is not over its next token, ends some, or leaves all alone. |
| `ReplayEndsSession` | A request that decides on a token another one has exchanged ends the session. |
| `OnlyReactivationActivates` | A disabled account becomes active by a reactivation only. |

Academy:

| Property | Meaning |
|---|---|
| `TypeOK` | Types of rows; members, performances and aggregates belong to rows that exist. |
| `RosterNeverShort` | No team has fewer members than the minimum. |
| `OfferedRepairsWork` | While nothing changes, a repair a finding offers is accepted and removes that finding, and every disorder of a roster has a finding. |
| `StatsMatchPerformances` | Aggregates are those of the player's committed performances, whichever batches waited, deadlocked or were refused - until a match is replaced or derived from deliveries. |

## 4. Runs and bounds

Every run uses the modules as they are; a `.cfg` only gives constants values and
names properties. Deadlock is not checked anywhere: when every request is done,
every row terminal and the queue empty, the system has nothing to do.

| Run | Instance | Question |
|---|---|---|
| `Redelivery` | 1 row, 2 requests of one key, 2 dispatchers, 2 slots of one process | Can an older claim act for a newer one? |
| `Successor` | 2 rows, two intents of one key, 1 dispatcher, 1 slot | Merge or successor: is an intent lost, are attempts bounded? |
| `Lifecycle` | 2 rows with different keys, one unregistered, 3 requests of which two submit the same idempotent intent, 2 dispatchers, 1 slot, manual requeue allowed, handler lease longer than the claim's | Do terminal rows rest, whatever late mark or outcome arrives? |
| `Settling` | 1 row staged for now or for later, fair dispatcher and clock | Does every row settle? |
| `BlockedRecovery` | a running row and its active successor | Is expired work always recovered? (no) |
| `RagOverlap` | 1 source, an incremental, a full and a targeted run, all kinds of change | Does an outdated plan land, does anything stale stay searchable? |
| `RagPages` | 2 sources on 2 pages, a traversal of the old embedding profile, a targeted run of the new one, revisions and removals | Is every eligible source searchable after a completed run, are only the others hidden, and does the old profile never come back? |
| `RagPageShift` | 2 sources on 2 pages, one traversal, one insertion | Does re-validation hide only what is gone? (no) |
| `Scoring` | 1 match in each profile: T20 (3 balls, 1 correction), one-day (2 balls, 1 correction, 2 retirements), a longer chase of full sides and one of two players a side (4 balls), test of four innings (1 ball, 1 correction), an "other" with two-ball overs, one with a quota of one over and one of half an over, and two refused configurations | Do score, result, blocks, audit and tables agree after any history? |
| `Calendar` | 1 event, 4 usable rules and payloads beside refused ones, 2 clock times, 3 ranges | Do rule, exceptions, ranges, versions and index agree after any history? |
| `Sessions` | 3 requests in flight, 2 accounts, 2 profiles, 7 workloads | Do tokens and revocations survive every interleaving? |
| `Academy` | 2 requests in flight, 2 teams, 4 players, 3 coaches, 2 matches, 2 formats, 6 workloads | Do rosters, repairs and aggregates survive every interleaving? |

Why the bounds suffice for what they ask (background work): the code compares each row with at most
one other (the unique indexes), an update races with at most one competing
claim at a time, and the version makes all older claims alike; two rows, two
slots and two dispatchers make each such pair. `MaxAttempts` is 1 or 2, so the
limit is met from below and at equality. Delays and leases are 0 to 2 ticks:
zero, running, and longer than the other one are the cases the comparisons
distinguish. Versions and dispatch counters have no explicit cap: attempts,
manual requeues and merges are finite, so each row's history is finite, and TLC
explores all of it. Symmetry (of rows, of dispatchers, of the slots of one process) is used in runs
of safety properties only: `KeepsDurableIntents` is `Init /\ [][Next]_status`, and
a permutation of rows or slots does not change the status of an intent.
`KeepsCorpusIndex` and `KeepsTokenFamilies` have the same form; the one maps to nothing that names a run, the other to
nothing that names a request.

For RAG indexing: the states of two sources meet only in the paging and in
the order of settling, so one source with three overlapping runs shows the races of
the protocol and two sources with a page of one show the paging; a full page, an
empty last page and a short page all occur. `MaxRev` = 2 lets each row change
once at any moment of any run (longer histories are covered by the theorems of section 6). Versions have no cap: every run makes
finitely many writes. With one embedding profile `Rebuilds` plays no part and the two traversals of
`RagOverlap` are alike, hence its symmetry; the two profiles are those of `RagPages`. Runs end, so deadlock is not checked.

Scoring: an over is one ball, an innings two and a side three players with two wickets (constants of
the code's standard, `MCStd`), so over, innings, quota, last wicket and target meet within
three balls; a delivery is a single, a two-run wide, a bowled wicket or a run-out with a bye at the far end, and
one that validation refuses. The longer chase is there for a winning run that costs the last wicket, the pairs for
a side that runs out of batters before its format ends the innings. `Bounds` caps balls, corrections and retirements per profile, as
their product is what grows; `RunMax` is 4. The test match has four innings, hence
follow-on targets and completion by boundary.

Calendar: dates are real ordinals around 29 February 2024; the fallback of the yearly series is 28
February 2025. Occurrence commands may name these two originals: the second weekly
occurrence and the fallback. `MaxDates` is 9 days instead of the projection's 45, one week and its
edge. `MaxVersion` and `MaxSaves` are 2, so a version can be old, current, or come up
again. The ranges begin before, on and after the first date.

Sessions: requests are interchangeable, and three are enough for a token used twice beside a
revocation. Ages are in ticks: `Window` 2, `Lifetime` 3, `Inactivity` 2, `AccessLifetime` 1, each
reached and passed. `MaxAttempts` is 2 instead of 5. A workload names how many calls of each kind
come; `Tick` is one of them. Section 6 has the theorems for any workload.

Academy: `MinRoster` 1 and `MaxRoster` 3 instead of 7 and 15, each met and crossed; the first
team starts with two members in positions -1 and 0, one of them inactive; names `alpha` and `Alpha` are
alike to the rules and different to the duplicate check. Of two requests each can
overtake the other at every step; the workloads give the pairs.

No fairness is used outside background work: all other properties are of safety.

Fairness (`FairSpec` of `BackgroundWork`): time passes; `dispatch_forever` keeps polling, so a
dispatcher that can run a cycle whose recovery commits eventually does, and it
finishes the batch it holds. It may exit any number of times in between. Weak
fairness is enough, and nothing is assumed of workers, the queue or operators:
`WorkSettles` must follow from leases alone. Two rows of one key are excluded
from `Settling` on purpose: that is the case of `BlockedRecovery`.

## 5. Disagreements found while modelling

* `BlockedRecovery`. A running row leaves the active slot of its coalescing key,
  and `stage()` deliberately gives the key a successor. If the running row's
  lease then expires while the successor is active, `recover_expired_leases` sets
  it to `retrying`, an active state, and
  `uq_background_work_items_active_coalescing` rejects the update. Only
  `BackgroundWorkConflictError` is caught, so the transaction it shares with
  `claim_dispatch_batch` rolls back; the next cycle does the same. `docs/background-jobs.md:49`
  and FR-021 (`specs/013-background-jobs-foundation/spec.md:316`) promise that
  expired work becomes executable again.
* `RagPageShift`. `_process_page` re-validates its plans against a second
  `load_batch` from the same cursor and takes a planned source that this page does not
  hold for deleted (`services/rag/indexing.py:1285`). Pages are cut by order and limit:
  a row inserted with a smaller key while the text was embedded pushes the last planned
  source of a full page off it. The existing, unchanged source is marked `deleted` and
  its document hidden; the traversal goes on after the old cursor with the key in
  `seen_keys`, so the run completes. `specs/012-rag-indexing-foundation/spec.md:691` says of
  these statuses that the source is no longer allowed in the corpus. The next run repairs it.
The following were met while reading and modelling and have no run. Where a property would fail
because of one, its statement excludes the case by name.

* An intent merged into an existing row leaves its idempotency key nowhere (`outbox.py:207`). After that
  row has left the active states a duplicate is staged a second time, while the contract
  (`specs/013-background-jobs-foundation/contracts/background-jobs.md:56`) says a duplicate
  key returns the existing logical row. Handlers are idempotent, so the cost is a repeated reconciliation.
* `_reconcile_missing` (`rag/indexing.py:1463`) compares the keys of pages loaded earlier with the
  states at the end of the run: a source that appeared after its page was loaded and that another
  run has indexed since is marked `deleted`. The next run repairs it. (`ReconciledSourceSearchable` is checked
  where rows are only revised and removed.)
* A correction that ends an innings early leaves it `reconciliation_required`
  (`scoring/replay.py:628`) with the completion reason it has; the audit calls the pair a lifecycle
  disagreement (`data_quality_service.py:829`). `StoredScoreIsReplay` allows these two reports for such an innings.
* The quota of an "other" format is any number of legal balls (`schemas/scoring.py:106`). When it runs out in mid-over,
  every delivery is refused (`scoring/policy.py:137`), no bowler can be chosen before the over ends, and
  `derive_innings_blocking_state` (`scoring/replay.py:146`) still says `none`, which
  `specs/014-match-scoring-domain/spec.md:183` reserves for an innings that can accept the next valid scoring
  operation. Only the end of the innings helps. `BlockHasAnswer` excepts such quotas (`QuotaSplitsOver`).
* A configuration needs only one participant a side (`schemas/scoring.py:386`), while an innings of fixed overs ends
  with ten wickets or its last ball. A shorter side ends up waiting for a batter who is not there, and one with too few
  bowlers for a bowler; such a match can only be abandoned. `BlockHasAnswer` names both (`FullSide`, `CanBowlOut`).
* `list_events` loads events whose first date is not after the range (`calendar_service.py:1147`). An
  occurrence moved before the first date of its series is not shown in a range that ends before that
  date, though the single read and the index know it. `RangesShowCalendar` compares with the loaded events.
* `confirm_exception_removals` (`calendar_service.py:583`) confirms whatever exceptions the new rule invalidates
  at the time it runs, not the ones the coach was shown.
* A login that has verified the password when a disablement or a password change lists the
  sessions, and inserts its own after, keeps it (`auth_service.py:197`); `docs/auth-api-security.md:41` says
  these commands revoke every session. The access of a disabled account is refused on each request; after a password
  change the session lives on.
* A disablement without a version that read the account as already disabled writes its version and not
  `is_active`, which the ORM sees unchanged (`user_service.py:153`). A reactivation committed in between stays: the account is
  active after the later of the two commands was to disable it.
* Profile edits, role and password changes write `version_number + 1` of the row they have read, without
  comparing it (`routes/auth.py:246`, `routes/users.py:102`, `routes/users.py:231`, `user_service.py:145`). Two
  of them can give one number to two contents, so a comparison by an assignment update can pass on a row the coach never saw.
* `update_team` keeps the roster it compares with for the audit from before its claim (`team_service.py:225`): a player
  added in between is removed without a mention.
* `remove_inactive_player` (`team_service.py:545`) checks that the player is inactive and then claims the
  team's version, which a reactivation does not move: the player may be active again when removed.
* Two concurrent additions to a roster get the same position (`team_service.py:394`). The scan reports it, and
  `OfferedRepairsWork` says the repair works.
* A change of a match's format (`match_service.py:182`) and rows derived from deliveries leave the
  aggregates as they were until the player's next batch; `StatsMatchPerformances` names both. Overs
  such as 4.3 are summed as decimals.

## 6. Proofs

### Background work

`TypeCorrect` proves `Spec => []TypeOK` for all constants that satisfy the named
assumptions. `TypeOK` is not inductive: a merge writes to the row the request has
read, a slot to the row it claimed, and `TypeOK` does not say that these exist.
`Typed` adds that a merging request and a non-idle slot name a row. The argument
goes in three layers: first each write operator of `Outbox` keeps a row sound
(typed, with its lease pair); a lemma per actor shows its steps keep the rows, and
one that they keep what the actor remembers; frame lemmas say which variables an
actor leaves alone. `TypedInit` and `TypedNext` put these together.

The second part of `BackgroundWorkProofs` proves the four safety invariants of section 3 for all
constants: `Fencing` (`StaleClaimsFenced`), `Completion`
(`CompletedWorkWasHandled`), `Durability` (`NoAcceptedIntentLost`) and `Budget`
(`AttemptBudget`). The inductive invariant is `Safe`. The argument:

1. `RowMove(x, y)` lists every change of a row except its
   completion, and `StepMoves` shows that each step of `Next` moves each row that way
   or completes it. Two facts about what actors remember are needed for this: the
   candidate a request merges into is, if its version still stands, the row as it
   was read (`MergesBehind`), and a dispatcher's or worker's predicates hold.
2. `MovePreserves` is about rows alone: a move never lowers the version, changes
   state, owner and payload only with the version, and takes back no intent
   (`Advances`); keeps the idempotency key's intent in the payload (`Founded`);
   and keeps the counters within `WithinBudget`, which says for each state how far
   they can have come. `AttemptBudget` alone is not inductive: it does not
   say that a row which may be claimed again is strictly below its bounds.
3. So what an actor has read is the row as it stands, or older for good
   (`StaysBehind`). `SlotChange` splits what can become of a slot into keeping,
   reading and taking; a taking slot gets a version nobody has seen, which gives
   `Fencing`.
4. `Completion` adds `SuccessesHandled` (a success that waits to be persisted is
   counted) and that a slot whose version stands has read the present payload.
   `Durability` adds `AcceptedCarried`: each committed intent is in some payload; for
   a duplicate because of `Founded`.

The last part proves what steps may never do, `TerminalRest`
(`TerminalWorkRests`) and `LeaseRespected` (`RunningRowLeftToHolder`), and
`Refinement` (`KeepsDurableIntents`: every step of the pipeline is a step of
`DurableIntents` or leaves every intent's status alone). `Safe` is not enough for
these, and `Settled` adds two facts:

1. `Resting`: a row that does not wait has no delay, and a finished one no lease.
   Without it the passing of time would change finished rows. It holds because a
   dispatcher claims, and a worker executes, only rows whose delay has passed, and
   because a merge never lengthens one.
2. `Promised`: whatever is in a payload, in a slot's copy of one or handled was
   accepted before. A handler that counted an intent nobody had committed would
   serve it before it was open; a duplicate that resolves to a row finds its intent
   already accepted.

`SettledStep` sorts the steps into four kinds: work goes on (`Fail` or a stutter),
a handler returns (`Serve`), an operator revives a dead row (`Reopen`), a request
commits (`Accept`, or `Reopen` when a merge gives a failed intent a live row
again). `StandingIs` shows that the mapping's status "lost" is never taken.

TLC checks the same properties on the instances of section 4.

### RAG indexing

`IndexTypes` (`TypeOK`), `PlansAlwaysFenced` (`PlansFenced`), `IndexAlwaysConsistent`
(`IndexConsistent`) and `ContentOnlyMovesForward` (`ContentMovesForward`: no step replaces a document by an older one) hold for any
sources, runs, scopes, profiles, page size and bound on changes that satisfy
`RagIndexingAssumption`. The argument:

1. `StepMoves`: a step does one of five things to a source's state and document:
   `Rests` (at most its lease expires), `Taken`, `Released`, `Withdrawn`, `Renewed`. Types
   follow for states and documents from this alone, since each write leaves a typed row.
2. `StepReads`: what a run comes to plan and hold of a source is what it had,
   nothing, the row as it is now, or a plan with the version the step has just written
   under the run's claim.
3. `PlansFenced` is not inductive: it says nothing of a plan that is behind, which
   could catch up. `PlansOrdered` adds that a plan's version is at most the
   state's; every move but `Rests` raises the state's version (`VersionMoves`, which needs
   `EmptyRows`: a row not yet there has version 0), so a plan that is behind stays behind.
4. `ContentMovesForward` needs that an activated plan is not older than the
   document. `NothingFromTheFuture`: no document, page or plan is ahead of its source.
   `ReloadedIsNewer`: after the second load, and as long as the run's version
   stands, the document is not newer than the page; the activation requires that page and
   plan have one revision. The second load reads the row after the claim, and the document
   cannot change under the claim without a new version.

`RagIndexingSafety` proves what a completed run vouches for. `NoStaleContentIsServed`
(`NoStaleContentServed`) holds without further hypotheses:

1. A source is `Reflected` when its searchable content is its present one and no run
   holds its claim together with a page on which it is not as it is now. The second half makes it
   inductive: a run that loaded an old page and still has the claim would bring the old content back.
   While a source rests nobody loads such a page, and every write of its state ends the claims
   (`StalePageKept`), so what is reflected stays so (`ReflectedStays`).
2. `RunsKeepTrack`: a run that would vouch for a source has reflected it already or still
   has it ahead (`StillAhead`, stage by stage). A run gives up vouching for a source that changes, and for all
   that it could not finish; what is left is that each stage either passes the
   source on or settles it.
3. `Decide` is a chain of alternatives, as in `compare_source_candidate`: exactly one branch answers a row.

`OnlyTheDisallowedIsHidden` (`HiddenOnlyIfNotAllowed`) and `ReconciledIsSearchable`
(`ReconciledSourceSearchable`) have the hypothesis `NothingAppears`: rows are revised, made ineligible and removed, but none is
added or made eligible again. It is a statement about `Changes`, the run `RagPages` satisfies it, and
`RagPageShift` shows that the properties fail without it (section 5). `InSight` is the argument: pages
are cut by order and limit, so as long as no row comes before it a planned source is still on its page when the
page is loaded again (`HeldOnChange`), and the traversal has seen it or will; `CommitSweep` hides only what was not seen.

`RunsKeepCorpusIndex` (`KeepsCorpusIndex`) is the refinement of `CorpusIndex`, without further hypotheses. It
joins what the first two arguments give. `ShowingSteps` sorts the steps by what they show: a change of a row,
an activation, a withdrawal, the end of a run; all else (reading, claiming, embedding, losing a claim) is
a stutter. An activation publishes (`ActivationPublishes`) because `ReloadedIsNewer` bounds it from below,
`NothingFromTheFuture` from above, and `FreshReflected` leaves no stale page of a source that
was caught up. The end of a run catches up (`FinishCatchesUp`) by the same invariant in the state it leads to.

`OnlyRebuildsReplace` (`ProfilesReplacedByRebuilds`) holds without further hypotheses as well. `ProfileInv` says that a
state has its document's profile (`ProfilesAgree`), and that a run whose decision (`DecidedByRight`) or plan (`PlannedByRight`)
is at the present version of the state may replace the profile that is there (`MayPut`). A rebuild by another run
moves the version, and the claim and the activation compare it.

### Match scoring

`MatchScoringProofs` proves all the properties of section 3, for configurations, observations,
openings and bounds of any kind that satisfy five assumptions: `StdAssumption` and `RunMaxAssumption` (the
standard policies have positive numbers, totals have a bound), `ConfigurationsAssumption` and `ObservationsAssumption`
(requests have the shapes their schemas admit; nothing is assumed about whether they are
accepted), and `NoneAssumption`, which keeps the absent value apart from the others.

None of the properties is inductive: they speak of states without saying where these come
from. The inductive invariant `Inv` says it:

1. `Played`: every stored innings is one step of a match replay, of its own active deliveries and
   transitions, with the target the innings before it give, corrected from some attempt
   or from none (`StepOf`, `IsStep`). Innings after one that has not ended are unplayed and wait.
2. `RowKept`: rows have their types, and every revision ever made, superseded ones too, was checked for its shape and wicket.
3. `Concluded`: the result of a decided match is what its innings give, and an undecided one has none to give.
4. `Viewed`: views only hold versions an innings has had; while the match is in progress, no view but
   the last holds the present version of the live innings.

Replay is a fold over deliveries, inside it one over transitions, and around it one over innings. The first
lemmas (`AfterAttemptTrace`, `ReplayInningsTrace`, `ReplayMatchTrace`) turn each fold into a sequence of
states, so that what every delivery and every transition preserves (`Good`, with its parts for people, overs,
extras and falls of wickets: `DeliveredGood`, `TransitGood`, `CountedGood`) holds at the end. They are
`ScoringReplayProofs`, which knows nothing of commands. Sums over
people, overs and deliveries are argued position by position in the same way.

* `StaleRequestsRefused` is `Viewed`, `ScorecardsBalance` is `Good` at the end of a replay,
  and `ResultsFollow` is `Concluded` with the target read from `Played`.
* `StoredScoresReplay`: the audit replays without a correction what was stored by replays that had one. Two
  replays of one source that both succeed agree (`ReplaysAgree`), and one that neither fails nor stops is the
  same from wherever it is corrected (`UnhaltedAgree`); so an audited innings is the audit's own replay.
  That `Links` names the last active delivery that dismissed a batter needs that a delivery applied after it did not.
* `RowsAlwaysFit`: table constraints compare columns that different commands write. Each follows from what
  the accepted configuration, the checks of a revision and `Good` say of them; a total is bounded because
  `RunsFit` is asked of each delivery and `RebuiltRunsFit` of each correction.
* `ChangedCardsAnnounced`: a correction that changes no fact stages nothing, so its replay must give the card
  that is there: `SameReplay` shows it innings by innings, since each target depends on the innings before it.

* `BlocksHaveAnswers` (`BlockHasAnswer`) says of the present what the others say of the past: that play can go on. It needs
  two more invariants.
  * `Told`: beside the state of every innings of a match in progress is the block that this state has. It holds because every command
    writes both together and a correction rewrites every innings it replays.
  * `Onward`, which every replay preserves (`ReplayOnward`). The bowler did not bowl the over before and had balls
    left when this one began (`Rested`). Everyone's balls are whole overs, but for those the bowler has bowled of the
    over in progress (`WholeOvers`); so a quota of whole overs does not run out in mid-over. A vacant end has
    somebody who left it, and two vacant ends two, one of them retired hurt (`Vacancies`). An
    innings that its balls would end has a ball left (`BallsLeft`).

  The rest counts. Where balls end an innings, everyone but the bowler at rest having used the quota would mean more balls than
  the innings has (`OtherBowlerLeft`); where wickets end it, a side with more players than wickets that nobody is retired hurt of
  has somebody who has not batted (`NextBatterLeft`). Formats whose ends are not automatic have a command that ends the innings
  (`AcceptedIsGenerous`). The exceptions of section 5 are those in which the counting fails: `FullSide`, `CanBowlOut`
  and `QuotaSplitsOver` are hypotheses of these lemmas.

### Login sessions

For any accounts, profiles, addresses, requests, limits, ages and workloads that satisfy
`AuthAssumption` (finitely many requests in flight, a limit of at least one), `AuthSessionsProofs` proves all
the properties of section 3. The inductive invariant of sessions is
`Inv == Typed /\ Located /\ Tracked /\ ReadsBehind`:

1. The chain of a session is the tokens it has exchanged and then the one it accepts. `ChainsGrow`: a
   step leaves it, or appends one token that nobody has yet.
2. `ReadsBehind`: what a refresh has read of a session is an initial segment of its chain, and the token it is
   about to exchange was the last one of that.
3. A version number may repeat, because each writer adds one to what it read. So the version
   fences nothing; but a refresh also compares the current token, and `RotatesAsRead` shows that an
   initial segment of a chain without repetition that ends in the present token is the whole chain. Hence
   an exchange loses no token (`AllTokensTracked`).
4. `SessionsKeepTokenFamilies` (`KeepsTokenFamilies`) maps `StepKinds`, the list of what a step can do to sessions,
   to the steps of `TokenFamilies`: a login opens a family, a rotation exchanges a token (`RotationExchanges`), and all
   other writes end families or show nothing (`KeepingEnds`). That the rotation appends to the history rather than
   replacing it is `RotatesAsRead` again: the code writes `row.rotated` as it was read before.
5. `RevocationIsFinal` (a revoked session stays revoked, keeps its tokens and its last use; all but the last also
   follow from the refinement), `ReplayIsFatal`, `NoSessionSpared` and `DisabledStaysDisabled` are action
   properties that follow from `Inv` step by step. `NoSessionSpared` (`RevocationsSpareNone`: the commit of a revoking command
   revokes each session it listed) is no more than what one commit does and has no run; section 5 names the login it says nothing of.
6. `LimitAlwaysHolds` (`LimitHolds`): the check reads the limiter, and the failure is recorded after
   the password was verified, so the recorded failures alone are not bounded by anything inductive. `Counted` bounds
   the failures of a key that still count and the logins between check and verdict
   together, by `MaxAttempts - 1` and the number of requests. The check adds a login only below the limit,
   a failure turns one into the other, and pruning, which drops by age what `Live` does
   not count, changes neither.
7. `AccountTypesHold` (`TypeOK`) adds `Dated`: nothing a session or a request holds is newer than the
   present, and every token is one that was issued. `TypeOK` asks for ages that have passed and
   tokens that exist, and refreshes compute with both.

### Calendar

For any events, payloads, rules, ranges, times and bounds that satisfy `CalendarAssumption`,
`CalendarProofs` proves all the properties of section 3.

1. `ExpansionMeansRule` is about the arithmetic alone: the expansion, which jumps from the
   start of a range by steps of the interval, gives the dates that `RuleMeans` gives. It rests on the
   Gregorian calendar on day ordinals (`YearBounds` and its like for months), with
   February 29 among the yearly and the 31st among the monthly rules.
2. `Typed` says that rows satisfy the constraints of their tables, and `RowSound` that a
   series agrees with its event: derived columns describe the first date, each exception's
   original date is one the rule gives. It is inductive because an edit of the rule
   removes the exceptions it orphans, once confirmed, and refuses otherwise. `SeriesStayCoherent` and
   `RangesAlwaysRight` are consequences, the second with 1.
3. `VersionsAlwaysIdentify` needs `ViewBehind`: what a client has loaded `Precedes` what is stored, that is, its
   versions are lower, or equal with the same content. An exception's version alone may
   come back; then the event's version has moved.
4. `CorpusStaysFresh` needs `CorpusBehind`: a document comes from a state of the calendar that precedes the present
   one, and if its versions are the present ones so is what it shows. So a document that
   differs from the calendar is one whose event has moved since, and that step
   announced it.

### Academy

For any teams, players, coaches, matches, submitted lists, batches and requests under `RosterAssumption`
and `PerformanceAssumption`, `AcademyProofs` proves the four properties of section 3. Tables may have any finite size.

1. `NoTeamFallsShort` (`RosterNeverShort`). A removal is safe when it is checked and may not be when it commits;
   its claim protects it. `Fenced`: the version of a repair in flight is at most its team's, and if they are
   still equal, the members a removal leaves are enough. Every step that writes rosters is one of three
   (`Writes`): it adds a member, founds a team that did not exist, or moves the version up. The first only adds to what
   remains, the second concerns no repair in flight, and after the third the repair is behind for good.
   `CreatedOnce` is needed because a creation in flight assumes that its team does not exist.
2. `AggregatesMatch` (`StatsMatchPerformances`). The property speaks of players none of whose
   matches were replaced and none of whose rows were derived; such a player, once lost, is never plain
   again (`PlainBefore`). `Tallies` is the invariant: no two batches hold one lock
   (`HeldApart`); a batch has written, or has yet to write, every aggregate its rows belong to; and what it has written is
   right for the rows that will be there when it commits, its own on top of the present ones. Another
   batch that commits meanwhile has rows under other keys, because the locks of their aggregates are held apart.
3. `AcademyTypes` (`TypeOK`) needs that sums and extremes over tables of any size have the types of
   their columns, and that a batch, a replacement and a derivation refer to players and matches that are there. The
   attempt showed that the model's derivation took players from nowhere; the participants' foreign
   key is now its guard.
4. `RepairsWork` (`OfferedRepairsWork`). The ranks of any finite roster are 1 to its size, each
   once (`Rank` counts those before a member), so a normalized roster has no fault, and a roster
   without faults is its own normalization. The rest compares, rule by rule, what the scan finds with what
   the services check when the repair is confirmed.

### Induction

Statements about sums, ranks and sequences of any length need induction, and the
library's induction theorems take an operator as a parameter. Where a proof needs one it argues by least counterexample: `LeastNumber`
gives a least element of a set of numbers, from the well-foundedness of the
order (`WFMin`), and the set is that of the sizes or positions at which the statement fails. It applies to recursive
functions and to folds whose unfolding is a lemma; recursive operators stay outside.

### Left to TLC

* Out of the prover's reach: `WorkSettles` (liveness under fairness).
* The two properties that a run shows violated (section 5).

## 7. Not modelled, and why

* RAG embedding, provider and retrieval: network I/O and read-only scoped queries. The dependency
  closure and the resolution of a mutation's impact are queries as well.
* The business audit log appends in its caller's transaction; dashboard and role scope only read.
* Routes and middleware translate; of the schemas, those of scoring, calendar and performances are guards
  of the commands they feed. Of the migrations, those of scoring and calendar are constraints the
  properties check; the others define columns the models' types have.
* The creation of a player's account together with the profile adds a fresh row of each.
* The browser client and the pages. The refresh exchange they take part in is `AuthSessions`; that the client starts
  only one refresh at a time is not modelled.
* Formatting, wording, logging, telemetry, ordering and paging of lists.

## 8. Plan

1. `RagIndexing` under `BackgroundWork`: reconciliation work that a mutation stages brings `CorpusIndex` to catch up with
   the source after its last mutation.
2. `ApiClient`: single-flight refresh, logout and expiry in the browser, over the server of `AuthSessions`.
3. `Squads` and `AuthSessions` over one accounts row, to show what the unguarded versions of section 5 let through.
