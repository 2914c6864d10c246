# TLA+ model of Power Web OS

Power Web OS finds and watches companies ("radars"). A user queues a run, a
worker executes it against paid external providers, and the stored artifacts
feed signal monitoring, playbooks, power-web handoffs, people search and
reviews. This directory holds TLA+ modules for the parts of that program whose
correctness depends on order, concurrency, failure or competing limits, the TLC
configurations that check them and the TLAPS proofs about them. File references
are relative to the repository root.

## 1. Inventory

| Component | State | Operations | Interacts with | Hard part | Modelled |
|---|---|---|---|---|---|
| Run lifecycle: `api/radar_routes.py`, `api/signal_monitoring_routes.py`, `application/persisted_live_radar.py`, `application/radar/signal_monitoring/runtime.py`, `jobs/radar_jobs.py`, `persistence/` | run rows, outputs, event journal, broker queue, the SQLite write transaction | queue a run (two pipelines), load, start, announce, publish, fail | API -> database -> broker -> worker -> database; pollers read | processes interleave at commits, idempotency, crash, redelivery, lock timeouts, partial failure | `RadarRunLifecycle`, `RadarRunContract`, `RadarRunLifecycleProofs` |
| External-call budget and work admission: `application/radar/shared/budgets/`, `candidate_discovery/search_expansion/work_scheduler.py`, `execution/task_runner.py`, `integrations/live_radar_openrouter.py`, `integrations/openrouter_discovery_planner.py` | call and retry counters, reserve slices, protected and guaranteed tasks, first calls used | reserve a call of each role, retry, look up, admit an item, execute it | planner, staged execution and providers share one budget object per run | overlapping limits and reservations, ids that come back, overruns known only afterwards | `ExternalCallBudget`, `ExternalCallBudgetProofs` |
| Candidate-discovery pipeline, checkpoints and semantic task budget: `candidate_discovery/execution/`, `checkpoints/` | results so far, candidate scope, tasks per key and in total, semantic reserve, attempts of a recovery, stop reason | discover, retry what is useless, recover, run gates, iterate coverage, expand, hand over | both budgets, providers, signal monitoring | recovery loops that must stop, decisions recorded in one place and acted on in another | `CandidateDiscoveryRun`, `CandidateDiscoveryProofs` |
| Candidate universe: `candidate_discovery/universe/`, `execution/merge.py`, `execution/finalization*.py`, `execution/public_surface.py`, `dossier/` surface projector | sources, observations, gaps, links; public rows, universe, ledger, rejected list | merge a task's answer, extract from retrieved pages, promote, reconcile, store | every task of a discovery run; stored surface and dossiers | answers merge in any order, names have several spellings, a cap, promotion after the merge | `CandidateUniverse`, `CandidateDiscoveryProofs` |
| Signal-monitoring executor: `signal_monitoring/source_strategy.py`, `planning.py`, `scheduling.py`, `executor.py`, `budgets.py`, `checkpoints.py`, `revisions.py`, `cross_criterion.py` | plan, ledger, receipts, observations, six counters, verdicts | select sources, plan, schedule, search with retry and backup, reuse, review, revise, project | lifecycle worker, provider | several tasks in several lanes decide one verdict, six budgets, a revision loop | `SignalMonitoringPlan`, `SignalMonitoringRun`, `SignalMonitoringRunProofs` |
| Signal series: `signal_monitoring/input_assembler.py`, `history.py`, `windows.py`, `evidence.py`, `runtime.py` | frozen inputs, watermarks and source keys of earlier outputs | freeze an input, search, judge an answer, publish, crash, start again | stored outputs of earlier runs | runs of one series overlap, dates before indexing, answers that mix known and new or are of no use | `SignalMonitoringSeries`, `SignalMonitoringSeriesProofs` |
| Sales playbook: `application/sales_playbook/`, `persistence/sales_playbook_repositories.py` | products, drafts, published versions | create, save, publish, restore, activate, archive | power-web handoff | reads without a snapshot, optimistic revisions | `SalesPlaybook`, `PowerWebHandoffProofs` |
| Power-web handoff: `power_web_discovery/handoff.py`, `persistence/power_web_handoff_repositories.py` | policy versions, handoffs by key | update the policy, preflight, hand off | playbook, candidate and signal runs | stale policy, idempotency, products that change between two reads | `PowerWebHandoff`, `PowerWebHandoffProofs` |
| People search: `power_web_discovery/people_search/` | title hypotheses, lane decisions, receipts, leads, budgets | propose, plan, search, retry, revise, review coverage | handoff, planner and search provider | a lane lost on the way, a negative that was not searched, revisions that replace results | `PeopleSearchStage`, `PeopleSearchStageProofs` |
| Providers and registries: `integrations/` | none of their own | ask a model, look up a registry | the budgets | retries, answers that cannot be read | their calls and outcomes |
| Frontend: `frontend/src/features/icp-radar/application/` | the catalog request, definitions, selected, active and latest run of each radar, what is shown of it, the run being polled | refresh, reconnect, load, select, run, poll, save, review | API, screens | answers late, out of order or lost; refs and states written one by one; retries and a poll that must end | `RadarBackendController`, `RadarBackendControllerProofs`; the other hooks are not, see section 6 |
| Radar definition update, review decisions, roadmap store, output-summary reconciliation | versions, last decision per candidate, files | edit, activate, repair | API, runs | the definition a queued run executes | no, see section 6 |
| Read side, dossiers, technical trace, benchmark and evaluation, legacy radar and board, deployment | none, or projections | read, convert | stored rows | data shape, not order | no |

What makes each modelled component correct:

* **Lifecycle.** One run per idempotency key; a worker never receives a run it
  cannot load; a run seen as completed has its output and stays as it is; the
  journal has no gap and no duplicate and tells the status; a signal run works
  on a completed source; a queued run ends.
* **Budget.** No limit is exceeded on any path; the two counters of a call
  agree; a reservation that was promised is still there when it is needed;
  what is known only after a call overruns by at most that call.
* **Candidate discovery.** Every recovery and with it every run ends; a stop
  for review, wherever it was recorded, reaches the signal handoff; a stopped
  run costs nothing more; the reserve overdraws the total by no more than
  itself.
* **Candidate universe.** Whatever is delivered, in any order, is listed in the
  end under some name; a site is not shown as a company; evidence collected is
  not lost by a merge; what is rejected is not accepted.
* **Signal run.** A negative verdict has been searched for in every required
  lane; evidence that was found is reported whatever the order of the tasks;
  ledger, receipts, observations and counters tell one story; the run ends.
* **Signal series.** A run is fed by earlier completed runs of its own series
  only; known evidence is not published again; evidence indexed late is found
  by a later run although the watermark has passed it.
* **Playbook and handoff.** What is published was validated and never changes;
  policy versions form one line; a key answers one request; a handoff pins
  versions the policy binds and that were published.
* **People search.** No demanded lane disappears from the result; a role is
  reported as empty only if its lanes were searched; the report agrees with
  the receipts; the four budgets hold.
* **Frontend.** The run reviews are saved for is the one shown as selected, of
  this radar; what is shown is the output of a completed run; a loaded
  definition is not replaced by a summary; one catalog request at a time is
  current, and without the user everything comes to rest.

## 2. Modules

`RadarRunContract` is the abstract specification: what a client that polls
`GET /radar-runs/{id}` may rely on. `RadarRunLifecycle` implements it through
`Contract == INSTANCE RadarRunContract WITH status <- ..., published <- output`.
`PowerWebHandoff` composes with `SalesPlaybook`: it extends it, and its
next-state relation is one of theirs, whose steps leave the other's variables
alone. `SignalMonitoringPlan` is a pure module that computes what
`SignalMonitoringRun` executes. The `MC...` modules give small instances and
symmetry sets to TLC; the `...Proofs` modules hold the theorems (section 5).

### RadarRunLifecycle

| Variable | Code |
|---|---|
| `run`, `output`, `journal` | committed rows of `radar_runs`, the two output tables, `radar_run_events` |
| `writer` | the process whose session has flushed and not committed: SQLite allows one |
| `queue`, `sends` | messages waiting in the broker, messages the API has sent |
| `accepted` | runs named in a 202 reply |
| `client`, `worker` | what a request handler or a Celery task holds between two steps |
| `used` | how much of each bound is spent |

A request finds its key (`ClientFindsExisting`) or prepares a row, flushes it,
commits and sends (`ClientPrepares`, `ClientInsert`, `ClientCommit`,
`ClientEnqueue`, or `ClientSendFails`, `ClientTimesOut`). A worker takes a
message, loads the run, rejects or starts it, reads the next sequence number,
announces, and publishes or fails (`WorkerReceive` ... `WorkerFailAfterUpsert`).
The two pipelines differ where the code differs: the candidate worker commits
its started event before the providers, the signal worker does not; only the
candidate worker has artifact events and can fail after the upsert; only the
signal service refuses the key of another pipeline and needs a completed source.

Uncommitted rows are not part of `run`, `output` and `journal`: what a
transaction will write is in `client` or `worker` and appears when it commits.
This is the isolation SQLite gives, and it is why a rollback is no more than
forgetting. Four places merge statements, each under the write lock or without
an observer between them: `update_status` (read and write), the publication of
a task (upsert, events, status), the failure of a task (status and event), and
the insertion of a run with its queued event. The artifact events stand for one
event. An exception outside the `try` of a worker (a sequence number taken
meanwhile, a lock timeout) is a rollback that ends the task. A signal run
without an input snapshot cannot be created and its branch is left out. The
statuses `waiting_human` and `cancelled` are never set. Every request asks for
the same radar; the candidate service ignores radar and pipeline when it finds
a key, which `Reusable` keeps.

### ExternalCallBudget

One run, one thread. `calls`, `retries`, `slices` are the counters of
`RadarExternalCallBudget`; `units` is the lane's total reserve; `protected`,
`guaranteed`, `firstUsed` are its three task collections. `phase` follows the
run: planning, regular tasks, admission of a portfolio, its execution. An item
is a pair of base task and number, which is what a recall-expansion task id is
(`search_expansion/service.py:113`), so a second portfolio has the same items.
`attempt` separates the first call of a provider round from its fallback.

A call and the searches its answer reports are one step: nothing runs between
them. A provider error that aborts the run needs no action, since a behaviour
may stop anywhere. Records kept for diagnostics (exhaustion events, retry
records, overruns) influence nothing and are left out. A regular call that is
refused changes only such records and is no step; a retry that is refused has
spent its retry and is one. `SkipItem` stands for the semantic task budget. How
many retries and fallbacks an answer asks for is left open: any number the
budget lets through.

### CandidateDiscoveryRun

One run in one thread: staged execution from the accepted plan to the hand-over
to signal monitoring.

| Variable | Code |
|---|---|
| `settings`, `coverage` | task budget, useful-result and checkpoint settings of the task context; coverage tasks of the plan |
| `stage`, `todo`, `tries` | where `run_staged_radar_execution` is, tasks still to be taken up, useless-result retries of the task at hand |
| `gate` | one pass of `execute_gate_tasks`: its task, the candidates left, the scope threaded from task to task |
| `found`, `scope`, `before`, `iteration` | accumulated sources, observations and metadata; `candidate_scope`; names before a coverage iteration and the number of iterations |
| `pending`, `ran` | expansion variants or cross-checks left to run; expansion tasks executed and skipped |
| `attempts` | retries, repairs and revisions of the recovery at hand |
| `spent`, `total`, `reserve`, `exhausted` | the counters of `RadarTaskBudget` |
| `stopped`, `stops`, `handoff` | `stopped_for_review_reason`; a stop decision was recorded; the hand-over |

Discovery tasks (`Discover`), names read from retrieved sources (`Extract`) and
cross-checks (`CrossCheckOne`) come first; the checkpoint after discovery asks
for a retry, a repair, a revision, a targeted expansion, a salvage or a stop
(`RetrySource` ... `StopRecovery`, `PlanTargetedExpansion`, `ExpandTargeted`)
until it is satisfied or a limit is used up (`EndRecovery`). Gates run per
candidate (`TakeGate`, `RunGate`), coverage iterates while it finds new names
(`Cover`, `EndCoverage`, `EndNewNames`), the expansion portfolio follows
(`PlanExpansion`, `Expand`), then the second recovery and the review before
signal monitoring (`ReviewHandoff`). Every web task passes the budget first
(`Accept`, `Refuse`, `AcceptOnReserve`, `RefuseReserved`).

An answer is reduced to what the checkpoints tell apart: names added and
rejected, whether a source is linked, extraction issues, gaps, coverage risk.
Smoke limits and the external budget are left out (the latter is
`ExternalCallBudget`; its refusals of expansion tasks are a free choice here);
what registries, retrieval and the target selection decide is a free choice
too.

### CandidateUniverse

What the tasks of `CandidateDiscoveryRun` bring home and what becomes of it.

| Variable | Code |
|---|---|
| `phase`, `tasks` | discovery, coverage, closing, finalized, saved; tasks executed |
| `sources`, `retrieved`, `observations`, `gaps` | the accumulated result: sources, pages retrieved, merged observations, universe gaps |
| `review`, `linked` | sites and gaps to review, sites linked to an account |
| `delivered` | history: every entity a provider named, and as what |
| `surface`, `ledger`, `rejected`, `stored` | public rows, collections a name is listed in, rejected summaries, rows the projector keeps |

`RunTask` merges an answer, `RunCoverageTask` also turns its gaps into
observations, `ExtractRetrieved` reads names from the pages retrieved so far,
once after discovery and once after coverage, `Finalize` caps, promotes, reviews and lists, `Save` drops noise. Every merge
resolves all observations again, as `merge_result` does, so sites and accounts
found in any order meet.

A reference is the rank of a page in its answer and starts again with every
call, as in the code, so two pages can share one; a registry record has its
own. Names are `Spellings` without regard to case, and which of them are equal
without their legal form, contain one another or suggest a type is a constant.
Left out: rules joined by OR, scores, reasons and signals of a candidate, the
upgrade by official sources, cross-checks (they bring answers like any other
task), the entities a benchmark profile or `review_needed_upstream_entities`
appends to the universe (`finalization_universe.py:25`, `:73`), and the entity
type, reason, blocking flags and earlier acceptance that promotion asks about
(`public_surface.py:362-370`): in the model a public row with evidence is
accepted.

### SignalMonitoringPlan and SignalMonitoringRun

`SignalMonitoringPlan` computes, for candidates, criteria, source cards and a
policy, the selected sources (`SelectSources`), the tasks (`PlanTasks`), and
what is accepted and scheduled (`BuildPlan`). It is used by the MC module, in
stages, to make the inputs of the run.

| Variable | Code |
|---|---|
| `plan` | accepted plan, schedule and limits |
| `phase`, `queue`, `pending`, `call` | position in `SignalMonitoringExecutor.execute`: tasks left, revisions left, the provider call in flight |
| `ledger`, `receipts`, `observations`, `spent` | source-lane ledger, search receipts, task observations, budget counters |
| `verdict`, `advanced`, `completion` | checkpoint outcome per pair, lanes whose watermark moves, completion state |

A task is skipped or requested; the answer is readable (`AnswerReadable`) or
not, then retried, sent to the backup provider or given up (`RetryCall`,
`BackUpCall`, `GiveUp`). `FirstCheckpoint` orders revisions, which run like
tasks (`RequestRevision`, `SkipRevision`), `Close` reuses evidence for other
criteria, reviews again and projects. `Review` is the checkpoint as the code
writes it: the first rule that fits decides. Findings are classes of payloads;
evidence is told apart by whether an earlier run knew its source.

### SignalMonitoringSeries

`today` and `item` are the world: days, the date of each piece of evidence,
the day it can be found from and whether its date can be established. `run` is
a run row with its frozen input snapshot (`asOf`, `start`, `marks`, `known`) and
its progress (`todo`, `searched`, `found`); `output` is what completed runs have
stored, with what is reported as new (`fresh`), all confirmed evidence
(`evidence`) and the source keys on record (`keys`) apart; `crashes` counts lost
workers. `QueueRun` freezes the input, `StartRun` begins or begins again,
`CompleteRun`, `FailRun` and `CrashRun` end an execution. A run found "lost" is
one a dead worker left running and whose message comes back.

A task ends in one of three ways. `EvaluateAnswer`: the answer cites any part of
what the source has indexed, dated inside the window or not, and is judged as a
whole. One source known from before makes all of it a duplicate
(`IsDuplicate`), and an answer that is observed or needs a review puts every
source it cites on record (`Recorded`). `DropAnswer`: the search has its receipt,
so the watermark moves, but the answer is unreadable, over the verification
budget, rejected or a literal repeat, and nothing of it is kept. `SearchFails`:
there is no receipt of a search. The search engines may leave anything out.

`after` (the runs completed when a run was queued) and `full` (the sources
whose evaluated answer left nothing out that was due) are history the
properties refer to and no step depends on. Left out: the reuse of evidence for
other criteria, revised queries and the verdict of the pair, which
`SignalMonitoringRun` has, and sources that fit no item.

### SalesPlaybook and PowerWebHandoff

Every request has a session of its own: it reads, decides, flushes under the
write lock and commits. `editor` and `caller` hold what a request has read.
Reads take no snapshot, so a step of another request may come between any two;
a flush writes the columns that differ from what was loaded (`Changed`), which
is what the unit of work does and why two requests can mix their columns.
Products, drafts and versions are `product`, `draft` and `versions`; the policy
is `policies`, whose head is its last version; handoffs are stored by key.
`HandoffIsAdmitted` and the others refer to `admitted`, the policy version the
preflight saw, which the code has as a local value. One Radar and one candidate
are modelled: nothing in the code relates two of them. A candidate that is not
found, not completed or without provenance is "ineligible".

### PeopleSearchStage

`stage` follows `PeopleSearchExecutor`: planning, initial tasks, revisions, then
how it ended. `planCalls` and `accepted` are the title planner's retries and
accepted hypotheses; `decision` the status of each lane decision; `todo` and
`task` the work at hand; `receipt`, `revised` and `leads` what was found;
`spent` and `exhausted` the budget. A lane decision is a number, its place in
the plan; its task and its revised task share it. The stage fails when
the planner cannot be reached, when a demand is left without a usable title or
a proposed one is too long, and when the call budget of a task is gone before
its first attempt.

### RadarBackendController

The hook `useRadarBackend` of one browser tab. JavaScript runs one handler at a
time, so an action is what runs between two awaits; between them anything else
may happen.

| Variable | Code |
|---|---|
| `catalog`, `catalogState`, `mode`, `busy` | the refs `catalogRequestGeneration`, `catalogRequest`, `catalogRetryTimer`, `catalogRetryAttempt` (first attempt or later); `catalogState.status`; `runState` |
| `apiCatalog`, `details`, `definition` | what is known of a radar (nothing, summary, definition) in the catalog shown and in `detailsByRadarId`; the request number, the loaded flag and the state of its definition |
| `selected`, `active`, `latest`, `explicit` | the four selection records, each with the run as the client last saw it |
| `artifact`, `resources` | the run that is shown of a radar, with its dossier or without; the runs whose dossier is reported as loaded |
| `calls` | API calls in flight, answered or to be sent again by a timer |
| `runs` | the server's runs |

`Serve` answers a call from what the server knows then, the handler of the
answer comes later: `CatalogAnswered`, `DefinitionAnswered`, `OutputAnswered`,
`SelectionAnswered`, `QueueAnswered`, `PollAnswered` and the others, one per
continuation. `CatalogFails` and `CallFails` lose a call before or after it was
served; a catalog failure falls back to the demo and may ask again
(`RetryTimer`). `Remount` is the cleanup of the effect and its next run, which
abandons the request in flight.

What the screens' effects call is counted as the user's: any operation may be
called at any time. Every radar has an active definition, and a completed run
has an output, as `RadarRunContract` says. A state update takes effect where it
is requested. `selectRadarRunById` is `SelectRadarRun` with the radar of the
run. The three review operations differ in their request only. Run history,
configuration, preflight report and messages are display only.

## 3. Runs

| Run | Instance | Shows |
|---|---|---|
| `one_worker` | 3 runs, 1 key or none, 2 concurrent requests, 4 requests, 1 worker, each fault once | one run per key, commit before send and before a 202, journal tells status, source stays completed, the contract |
| `two_workers` | 2 runs, 1 key or none, 2 concurrent requests, 3 requests, 2 workers, 1 redelivery, nothing lost | dense journal and completed-has-output when two tasks of one run interleave; a queued run ends |
| `call_limits` | total 5, planner 1, web 3, recall 3, searches 3, one retry per task, 2 items per portfolio, reserve up to 2, up to 2 searches per call | all properties of the budget |
| `candidate_run` | 1 discovery and 1 gate task, 0 or 1 coverage tasks, 2 names, 5 answers, 3 settings, 1 variant, 1 cross-check, 2 iterations, universe 2 | a stop reaches the hand-over and ends the spending, the reserve bounds the overdraft, the run ends |
| `candidate_universe` | 4 names (a company in two spellings, a site, a name without type), 1 registry number, 2 pages, 1 record, 2 required criteria, 8 answers, 4 tasks, cap of 2 | nothing disappears, sites stay off the surface, evidence is kept |
| `rejected_accepted` | the same | finding: a rejected company is stored as accepted |
| `signal_run` | 7 inputs of candidates, criteria, sources and limits, every finding and failure | negatives are covered, evidence is reported, the audit adds up, the run ends |
| `signal_series` | 2 runs, 2 series, 2 sources of one lane, 2 items, explicit look-back and overlap of 1 day, policy look-back of none, 2 days, delay up to 1, 1 crash, answers citing any set of items or dropped | isolation of series, no republication by mixed answers, late evidence is found behind a watermark that has moved |
| `people_search` | 1 demand, 3 lanes, 5 titles, 4 proposals, 3 settings, up to 2 sources per answer | no lane disappears, negatives are searched |
| `stale_draft` | 1 product, 2 editors, 4 revisions, 2 versions | finding: two saves of one revision both succeed |
| `power_web_handoff` | 1 product, 2 editors, 2 callers, 1 key, 2 policy versions, 1 signal run, 3 candidate statuses, 5 revisions, 2 versions, constraint `Bounded` | policy line, keys, admission, only validated drafts are published |
| `browser` | 2 radars with a completed run each, 1 opened by the user, 3 runs, 3 operations, 1 failure, 1 poll before the deadline | one catalog request is current, selection is sound, definitions stay, the page comes to rest |

Why the bounds are enough. Three runs allow a source, a signal run on it and a
run that competes for a key; two requests are all it takes for two to race; one
fault of each kind already combines with every state, and repeated faults only
repeat the states after the first (a worker returns to idle, a client too). Two
tasks of one run need a redelivery and two workers; crashes and timeouts on top
of them are covered by the proofs, which have no bound. In the budget every limit is
small enough to be reached before another one in some behaviour, retries and
fallbacks make more calls than any limit, the second item is optional or
guaranteed, and a second portfolio reuses the ids of the first. The limits of
`call_limits` include 0 (source verification); the proofs cover all others.

In `candidate_run` the settings reach the total limit, the limit per key and the
reserve in turn, each recovery action has its limit at 0 and above it, and the
five answers raise every condition the checkpoints ask about; a second
iteration and a second recovery are enough for counters that start again.

In `candidate_universe` four tasks let both spellings, the registry record and
one more answer come in every order, before or after the extraction from pages;
three companies and names exceed the cap of two, and every answer cites rank 1,
so references collide. A rejection by every criterion makes noise, by one only a
rejected candidate.

The inputs of `signal_run` are chosen so that each budget runs out in one of them,
and each planning rule (bound criteria, excluded web, missing URLs, disabled
policy) makes a plan of its own. Two runs of one series are the smallest history
a window or a source key can depend on, and two series the smallest that can be
confused. Two days and a delay of one let a run search on the date of an item
and before it can be found, and the next run after both; without a policy
look-back the second window reaches the first day through the overlap or an
explicit look-back only. The two items may be in one source, so an answer can
mix a known with a new one, or in two sources of the lane, so the watermark can
be moved by one source while the other failed or had its answer dropped.
`people_search` has one demand because lanes meet only through the shared
counters, which three lanes already compete for. A race about the draft needs
two editors, and a draft that changes between the two reads of a publication
needs five revisions: create, a complete one, the version made of it, and a save
or a restoration in between. Two such editors and two callers at once are too
many states for one run, so `power_web_handoff` states a constraint, `Bounded` of
`MCPowerWebHandoff`: with a candidate no handoff can be made for, nobody but the
two editors acts, at once and up to the fifth revision; with any other candidate
one editor works at a time and up to the fourth revision, beside two callers
that overlap freely, which is enough to publish a second version while a
handoff is being made. One key is shared by both callers; handoffs of different
keys do not meet. The theorems have none of these bounds.

`browser` has a second radar whose run may be named for the first, a third run
so that a new one becomes the latest, and three operations: enough for an answer
to come after two others have changed what it is about, and to reach every
handler. An operation is called while at most one call is in flight, and two are
answered in any order. One poll before the deadline is enough for a deadline
that starts again. Type invariants that
section 6 lists as proved only are not checked again.

Where a configuration names `Symmetry`, it permutes values no action
distinguishes (runs and clients, editors, callers and keys, items). It is not
used where liveness is checked.

All runs switch the deadlock check off: requests, tasks and days are bounded,
and when everything is served the system rests.

Fairness. `two_workers` has weak fairness of each request handler's own steps and of
each worker's own steps: a handler thread and a worker process go on when they
can. Nothing has to send a request and no fault has to happen. Weak fairness is
enough although workers and requests compete for the lock: requests and
redeliveries are bounded, every holder gives the lock back, so in the end it is
free for good for whoever still waits. With unbounded requests SQLite promises
no order among waiting writers and a worker may starve; that is outside the run,
and the timeout of `one_worker` covers what happens when a wait
is cut. `signal_run` and `candidate_run` have weak fairness of the run's next
step: one thread executes it, and a provider call returns or times out. Which
answer comes is not fair in any way: a provider may answer uselessly for ever.
`browser` has weak fairness of answering some call, handling some answer and
firing the retry timer: a request returns or fails, the event loop goes on. The
worker behind the API is not fair, a run may never end.

## 4. Findings

1. **A rejected company becomes an accepted candidate**
   (`execution/public_surface.py:361`, run `rejected_accepted`). Promotion asks
   for the entity type, the review flags and evidence, not for the verdicts: a
   company confirmed on one required criterion by one task and rejected on
   another by a later one keeps its evidence and is stored as
   `accepted_product_candidate`, while the run lists it as rejected.
   `docs/architecture/radar/CANDIDATE_DISCOVERY_EXECUTION_ARCHITECTURE.md:314`
   says rejected entities are not promoted.
2. **A stale draft overwrites a newer one**
   (`persistence/sales_playbook_repositories.py:70`, run `stale_draft`). The
   revision is compared with the row that was loaded, and the update has no
   condition: two saves of one revision both succeed, against
   `docs/radar/pipelines/power-web-discovery/RADAR_POWER_WEB_DISCOVERY_AS_IS.md:240`.

Observed while modelling, kept in the model as the code has it, and not stated
as a run:

* After a failed send, a retry with the same key is answered 202 from the queued
  row, and no message is sent (`api/radar_routes.py:204`), while
  `docs/developer/DEVELOPER_GUIDE.md:593` says the request enqueues the run.
* A failed run can have an output: the upsert precedes statements that can raise
  inside the same `try` (`persisted_live_radar.py:181`).
* Signal monitoring holds the write transaction across provider calls
  (`signal_monitoring/runtime.py:223`), against the comment at
  `persisted_live_radar.py:172`.
* First calls are reserved in the recall limit only (`external_budget.py:176`),
  and by task id, so a second portfolio that repeats the ids of the first has
  none reserved (`external_budget.py:174`, `search_expansion/service.py:113`),
  against `docs/radar/RADAR_SEARCH_PIPELINE_AS_IS.md:435`.
* A guaranteed task that the semantic budget refuses never makes its first call
  and keeps its slot reserved: capacity is lost, no limit
  (`external_reservations.py:37`).
* With two workers the contract itself fails: a second task that loaded the run
  early sets a completed run back to running (`persistence/repositories.py:294`).
  The repository deploys one solo worker (`docker-compose.yml:76`), so this is a
  hazard and not a finding.
* The revision loop of a signal run does not ask the look-back budget
  (`signal_monitoring/executor.py:178`).
* The watermark of a lane moves when one task of the lane succeeded, although
  another task of the same pair and lane failed (`executor.py:402`), and when the
  answer could not be used: the OpenRouter provider writes the receipt of an
  unreadable answer as "retrieved" or "no_results"
  (`openrouter_signal_monitoring.py:127`), and an answer over the verification
  budget or rejected keeps its receipt. `SM-WIN-03`
  (`RADAR_SIGNAL_MONITORING_AS_IS.md:214`) says schema failures and budget limits
  do not advance it. Only the overlap of two days brings such evidence back.
* New evidence that an answer cites together with one source known from before
  is labelled a duplicate (`signal_monitoring/evidence.py:84`, `:108`), and its
  own source is known from then on, so it is never reported as new.
* A repair the task budget refused counts as recovered: it has no issues
  (`checkpoints/recovery.py:264`).
* Source references start again with every call
  (`openrouter_annotations.py:23`), so evidence of one call can answer to a page
  of another, against `docs/radar/RADAR_SEARCH_PIPELINE_AS_IS.md:72`. A reference
  that no kept source answers to still makes a row accepted
  (`execution/public_surface.py:371`).
* The observation made of a gap has no entity type (`universe/gaps.py:20`): a gap that
  says "site" and has evidence can become an accepted row.
* Extraction from retrieved pages drops the sites it found when it found no new
  legal name (`execution/discovery.py:90`), and the legal name it does find brings verdicts
  "unknown" that replace earlier ones when it merges (`execution/merge.py:138`).
* Names that differ in the legal form only are one entity (`execution/merge.py:132`), and an
  accepted row with the name of a noise row is dropped with it.
* A site seen before its account stays in the gaps after it was linked.
* Planning and execution open a budget context each (`service.py:107`); run
  separately they count against two budgets.
* A people-search task whose call budget is gone before its first attempt builds
  a receipt without attempts, which its own validator refuses; the stage is lost
  with what was found before (`people_search/execution.py:215`).
* In `useRadarBackend.ts` what is shown of a radar need not be its selected run,
  against `docs/developer/DEVELOPER_GUIDE.md:456`. A run that was just queued is
  selected while the candidates of the one before stay on the screen (593-596),
  so a review of a candidate shown is sent to the queued run. A late output
  answer selects its own run, whatever the user has opened meanwhile (380), and
  a late dossier replaces what is shown: line 342 compares the selection the
  call was made from with itself.
* Selecting a run that is still running leaves `busy` set and starts no poll
  (478-486), which blocks the next run.
* A dossier once loaded is not loaded again after a review or a change of runs:
  the new output replaces it and its state stays "loaded" (331, 382).
* A late definition answer replaces a definition saved meanwhile (294-304).

## 5. Proofs

Everything here holds for every value of the constants: any number of runs,
keys, requests and workers, any bound on the faults, any limit including 0 and
"unlimited". The constants' assumptions are named in the modules and evaluated
by every run: `BoundsAssumption`, `NoneAssumption` and `ProcessesAssumption` of
`RadarRunLifecycle`; `LimitsAssumption`, `BoundsAssumption` and
`TasksAssumption` of `ExternalCallBudget`.

**`RadarRunLifecycleProofs`**, any number of workers. No property is inductive
by itself, because a request and a task carry values between their steps.
`Consistent` says what they carry: the client that is about to commit a run
holds the write lock and the run does not exist yet, no other client has the
same run, a worker holds only runs that exist, messages name such runs only,
and a worker inside a transaction has the next sequence number of its run's
journal. The last is the core of it: `max(sequence) + 1` was read outside any
transaction, and it is the unique constraint (`InsertableIsNext`) together with
the write lock that makes a stale number harmless. Two frame lemmas carry the
induction: `JournalsStep` (journals only grow, and only when the lock is free
afterwards) and `RowsStep` (a run that exists keeps its pipeline, source and
key). From `Consistent` follow `LifecycleTypeCorrect`, `EnqueuedAfterCommit`
(whose second half, that a 202 names a committed run, is `AcceptedStep`) and
`JournalsAreDense`; `CompletedRunsHaveOutput` is a second induction on top.
`OneRunPerKey` needs `KeysHeld`: a key stays free from the insert, which takes
the lock, to the commit.

The same module ends with **one worker process** and anything else unbounded
(`OneWorker`, a hypothesis of each theorem, since the properties fail with two).
`HeldStatus` is the strengthening: between two steps of the only task nobody
changes its run's status. It gives `LifecycleImplementsContract`, where each
step maps to an action of `RadarRunContract` or to a stutter (`ClientCommit` is
`Accept`, `WorkerStart` is `Begin`, or a stutter when a second task restarts a
run a crash left running, the three ends are `Complete` and `Fail`);
`LastEventTellsStatus`; and `SignalSourcesStayCompleted`, by way of
`SourcesReady`, which carries the source check from the request over to the
commit, and `CompletedRunsStay`.

**`ExternalCallBudgetProofs`**. `TypeCorrect`, `LimitsAreHard`, `RolesAddUp`,
`OverrunBounded` and `FirstCallsAreCounted` are inductive with the types;
`CallsChange` and `RetriesChange` say what a step can do to the counters.
`FirstCallsStayReserved` needs `Reservation`: while a portfolio is being
admitted, the room for its first calls comes from the admission check, which
counts every accepted item, and only from the end of the admission does it come
from the check each call makes. `ReserveIsLeft` needs `Reserve`: no web call
comes before the reserve is set.

**`PowerWebHandoffProofs`**, any number of products, editors, callers, keys and
versions. The invariant has a part per kind of request in progress:
`ReadersAreSound` and `WritersAreSound` say what an editor holds (a publication
holds a validated draft and a version number that exists or is the next one; an
active version it will write exists or is the one it publishes), and
`CallerIsSound` what a caller has read (policy versions that exist, pins that
were published and are complete). `RowsGrow` says that versions, policies and
handoffs only grow, so what was read stays true: this is the frame of every
step of another request. From it follow `PlaybookTypeIsCorrect`,
`OnlyValidVersionsArePublished`, `HandoffTypeIsCorrect`, `PolicyHistoriesAreLinear`,
`KeysAnswerOneRequest`, `HandoffsAreAdmitted` and `VersionsAreImmutable`.
Assumed: `BodiesAssumption`, `PlaybookBounds`, `CandidatesAssumption`,
`HandoffBounds`.

**`PeopleSearchStageProofs`**, any demands, lanes, titles and budgets.
`StageTypeIsCorrect` carries the counters; `LanesAreSettled` says of each stage
which decisions still await their task (a decision that is not settled is in
`todo` or is the task at hand), which gives `LanesDoNotDisappear`;
`NegativesAreSearched` rests on the part of it that only an empty search is
revised; `AuditsAddUp` on `CountsAddUp`, which relates the counters to the
receipts; `StageBudgetsHold` on the guards. Assumed: `DecisionsAssumption`,
`TitlesAssumption`, `SettingsAssumption`, `ResultsAssumption`.

**`RadarBackendControllerProofs`**, any number of radars, runs and calls. An
answer selects or shows a run it has carried since it was sent, so `IInv` has a
part about calls next to the types and the radars: `CallsSound` says that the run
a call carries exists and belongs to the radar it will be selected for, that it
is completed if the client has seen it so, and that an output that was answered
is one of a completed run. It stays true while the call is in flight because runs
are only added, keep their radar and, once completed, stay so. `RadarsSound` is
`SelectionIsSound` with the same about the copies in `selected` and `latest`.
`SelectionsAreSound` follows. `LoadedDefinitionsStay` needs `DInv`: a radar with
the loaded flag has its definition in `detailsByRadarId`, which is where the next
catalog takes it from. `PageTypeIsCorrect` is more than types, because the type
invariant also bounds the runs and the requests in flight: its induction `TInv`
adds `CatalogSound` (the calls carrying the current catalog number are exactly
the one request that is waited for, and an abandoned request has a smaller
number), `RunsBounded` (runs and queue calls the server has not served yet
share the bound, whatever order they are served in) and `StatusesSeen` (only a
poll waits on a timer, and a copy the server answered has a status). Assumed:
`ControllerConstants`.

**`SignalMonitoringRunProofs`**, any plan, budgets, findings and failures.
Nothing of what a run reports is inductive: a verdict is made at the end from
notes, receipts and ledger written long before. `Control` says what is still
to be done: each task waits in the queue at most once, what waits in `queue` or
`pending` has no receipt and is not in flight, before the first checkpoint no
revised query has been made, and the revised queries of two pairs are two
tasks. So the task concluded is always one without a receipt, and the counters
move with the receipts (`Concluded`, `CallAudited`), which is
`AuditTrailAddsUp`. `NotesSound` says that each receipt comes with an
observation and each observation belongs to a planned pair. With it the two
lemmas about the checkpoint, `NegativeIsCovered` (its only way to a negative
verdict is past every required task) and `EvidenceDecides` (evidence in any
lane decides the verdict and is part of it), give `NegativesAreCovered` and
`EvidenceIsKept` at the step that closes the run. Assumed: `PlansAssumption`
(a plan has the shape `PlanShape`: it schedules part of itself, no task twice, and
plans no revisions).

The same module proves what makes such plans, `SignalMonitoringPlan`, for inputs
of any size (`Inputs(Ids)`: any candidates, criteria, cards, known sources and
policy, ids of candidates and codes of criteria being numbers in the order the
scheduler compares them). `PlansHaveTheirShape` is `PlanShape` for every plan
`BuildPlan` makes, given that `Tasks` has the tasks planned and their revisions,
so the assumption above is what planning delivers. `RequiredTasksComeFirst` says of
the scheduler that it takes as many tasks as the budget and the plan allow, none
twice, and that a task it leaves out is required only if all it took are. Its
argument: `Precedes` is a strict total order on the positions of a plan
(`PrecedesIsAnOrder`), so the sets of predecessors grow along it
(`PrecedingGrow`), the positions with fewer than `limit` of them are closed downwards
(`ChosenPrecede`) and are `limit` many (`ChosenFillTheLimit`, from a general fact
about the ranks of a finite total order). `EveryPairIsPlanned` says that no
disallowed, unusable or already taken source leaves a pair without a search: each
candidate has a required task for each enabled criterion with a lane, because
`LaneDecisions` falls back to a lane of the criterion. It rests on what the library's
`FlattenSeq` returns (`FlatteningExists`, `FlattenSeqFacts`), since a plan is a
sequence of sequences.

**`SignalMonitoringSeriesProofs`**, any series, runs, sources, evidence, days and
crashes. `HistorySound` says of a frozen input, as long as its row exists, what
it was made from: the completed runs of the same series at that moment, their
greatest watermark per lane, the keys they have on record, and the windows that
follow. It stays true because a completed run never changes. `FoundSound` says
of a run at work, and `OutputSound` of an output, that nothing it reports as new
is in the frozen history, and that it has all evidence its fully evaluated
sources owed it (`Owed`). `TypeCorrect`, `HistoryIsIsolated`,
`RecordedIsNotRepublished` and `NoDayIsLeftOut` (`WindowsJoin`) follow. `RecordedIsNotRepublished` rests
on both halves of the judgement: what is recorded goes into the frozen history
whole, and an answer with one known source has nothing new.
`LateEvidenceIsKept` is an argument over the whole history. It asks of the runs
queued after the evidence was indexed that they are evaluated and leave nothing
out, and nothing of the runs before: they may have failed, dropped the answer,
or looked back explicitly. `FirstOfLate` gives, of the late runs, one that was
queued before any other of them had completed, so the watermark it froze was
moved by earlier runs only and is old enough for its window to hold the
evidence. Assumed: `SeriesAssumption` (there is a series), `PlanAssumption`,
`LaneAssumption`, `SourceAssumption`, `DaysAssumption`.

**`CandidateDiscoveryProofs`** is about the two modules of a discovery run. Of
`CandidateDiscoveryRun`: any plans, tasks, names, answers and settings.
`TotalStaysBounded` needs `BudgetSound`: what lies above the limit was lent by the
reserve, whichever recovery asked for it. `StopsAreHonoured` needs
`StopsHaveACause`: a decision to stop that the run recorded without acting on it
was made for a refused task, and a refusal is not forgotten until the review.
`StopsAreFinal` is an action property and needs `StopSound`: a run that is
stopped is in no phase that asks for a task. `GateSound` (a gate task is at
hand while names are left for it) carries the types; `LimitsAreKept` is
`TypeOK`, which bounds attempts, retries, iterations and the reserve. Assumed:
`TasksAssumption` (the plans are sequences of tasks, and the empty sequence is
none), `AnswersAssumption`, `SettingsAssumption`, `BoundsAssumption`.

Of `CandidateUniverse`: any spellings, pages, rules and answers of the shape
`AnswerShape`. `UniverseInv` is inductive: `UniverseTypeOK`, `AllVouched` (every
observation, gap that is no site and account of a link bears a name somebody
delivered as something other than a site), `AllTraced` (an entity that was
delivered is still a gap, the observation of its merge key, or a linked site),
`AllListed` (once the run is finalized, observations and gaps are in the ledger)
and `SitesStayOffSurface`. `NothingDisappears` is not inductive alone, since it
speaks only of finalized runs; `AllTraced` carries it through the merges and
`AllListed` through the finalization. `SitesStayOffSurface` needs `AllVouched`,
because rows are made of observations and gaps much later than these were
collected. `UniverseTyped`, `NothingDeliveredIsLost`, `SitesNeverSurface` and
`EvidenceKept` (an action property) follow. TLC checked `UniverseInv` on the small
instance before it was proved.

The merges of `CandidateUniverse` are folds over sequences whose length is
arbitrary. `LeastNatural` gets the least element of a set of naturals from
well-foundedness (`WFMin`), `UpTo` turns it into an induction over positions for a
set given as such, and `FoldExists`, `FoldSteps` and `FoldIn` unfold a fold whose
step is a function: they give the values of the fold one position after the
other. `SubSeqFold`, `MergeFold`, `MentionsFold`, `ReviewFold` and `RowsFold` apply
them to the folds of the code, and `MergingKeeps` says what a merge of
observations preserves. Assumed: `UniverseConstants` (spellings, registry
identities and the absent name are told apart; so are ranks and registry
records), `AnswersAreShaped`.

## 6. Only model-checked, and not modelled

Model-checked only: `EveryQueuedRunEnds` and the two `EveryRunEnds`, since
liveness under fairness is out of the prover's reach, as is `ComesToRest` of
`RadarBackendController`; and the findings, which are counterexamples. Every other checked property is also proved.

What `SignalMonitoringPlan` computes is an input of the runs, and proved about:
its types, its schedule and the pairs it covers; that a plan names the right
sources is only modelled.

Proved and in no run: the types of `RadarRunLifecycle`, `ExternalCallBudget`,
`SalesPlaybook`, `PowerWebHandoff` and `PeopleSearchStage`; `FirstCallsWereMade`, `RolesSumToTotal`,
`[][RowsGrow]_vars`, `WindowsJoin`, and of people search `AuditAddsUp` and `BudgetsHold`: the
theorem already says what a run of a small instance would.

Not modelled:

* **Projections**: the API read side, dossiers, diagnostics, artifact shaping,
  parsing and repair of model output, source scoring, benchmarks, evaluation,
  validation reports. They are functions of stored data that no order of events
  can change; a model would be a copy of their field lists.
* **Legacy radar, board, planner, demo, scripts, migrations, deployment**:
  fixtures and tools beside the product.
* **The rest of the frontend**: the hook of signal runs, which repeats the
  selection and polling of `RadarBackendController`, the handoff hook, drafts and
  navigation of the workspace, and the screens.
* **Definition update, review decisions**: one row each, written under the same
  write lock as the lifecycle; they matter for which definition a queued run
  executes, which the hazard list records.
* **Technical trace**: diagnostics in transactions of their own; their waiting
  for the lock is part of the contention in `RadarRunLifecycle`.

## 7. Plan

1. `RadarRunLifecycle`, `RadarRunContract`, `ExternalCallBudget`: done, proved.
2. `CandidateDiscoveryRun`, `CandidateUniverse`: done, proved.
3. `SignalMonitoringPlan`, `SignalMonitoringRun`, `SignalMonitoringSeries`: done,
   proved.
4. `SalesPlaybook`, `PowerWebHandoff`, `PeopleSearchStage`: done, proved.
5. Definition versions, composed with the lifecycle: the definition a queued run
   executes.
6. `RadarBackendController`: done, proved. The signal-run hook of the frontend,
   composed with it.
