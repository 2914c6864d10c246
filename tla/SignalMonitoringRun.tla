------------------------ MODULE SignalMonitoringRun -------------------------
(***************************************************************************)
(* One execution of a signal-monitoring run (SignalMonitoringExecutor).    *)
(* The accepted plan is worked through task by task under six budgets;     *)
(* each task asks the provider, retries once, falls back to the backup     *)
(* provider, and leaves one observation and one receipt.  A checkpoint     *)
(* turns the observations of each candidate/criterion pair into a verdict  *)
(* and may order one revised query per pair; evidence is then tried on the *)
(* candidate's other criteria, and a second checkpoint gives the result.   *)
(*                                                                         *)
(* What the provider finds is one of Findings.  Evidence is told apart     *)
(* only by whether an earlier run already knew its source ("old") or not   *)
(* ("new").  A "retrieved" receipt stands for "no_results" too, and a date *)
(* review for unknown, conflicting and already reviewed dates: the code    *)
(* never treats them differently.                                          *)
(***************************************************************************)
EXTENDS Naturals, Sequences, FiniteSets

CONSTANTS
  Tasks,   \* every task of every plan, and every task's revision
  Plans    \* what planning may hand to the executor (SignalMonitoringPlan!BuildPlan)

VARIABLES
  plan,          \* the accepted plan, its schedule and its limits
  phase,         \* "limited" or "tasks", then "revisions", then "done"
  queue,         \* scheduled tasks not yet taken up
  pending,       \* pairs whose revised query is still to be taken up
  call,          \* the provider call in flight, or NoCall
  ledger,        \* source-lane ledger: [Tasks -> LedgerStatus]
  receipts,      \* search receipts: [Tasks -> ReceiptOutcome]
  observations,  \* task observations, in the order they were made
  spent,         \* the budget counters
  verdict,       \* checkpoint outcome per pair
  advanced,      \* <<pair, lane>> whose watermark moves to the end of the window
  completion     \* completion_state of the outcome

vars == <<plan, phase, queue, pending, call, ledger, receipts, observations,
          spent, verdict, advanced, completion>>

-----------------------------------------------------------------------------
Pair(t) == <<t.candidate, t.code>>
Pairs == {Pair(t) : t \in Tasks}
Elements(s) == {s[i] : i \in DOMAIN s}

LedgerStatus == {"none", "scheduled", "executed", "not_scheduled_budget_limited",
                 "not_executable", "policy_limited"}
ReceiptOutcome == {"none", "retrieved", "schema_invalid", "provider_error", "budget_limited"}
Roles == {"primary", "primary_retry", "backup_retry"}
ObservationStatus == {"observed", "unclear", "not_observed"}
SearchStatus == {"searched", "duplicate_existing_signal", "rejected_out_of_window",
                 "date_review", "review_needed", "evidence_linking_failed",
                 "schema_recovery_needed", "not_searched_budget_limited",
                 "not_searched_policy_limited", "not_searched_missing_candidate_scope"}
Actions == {"none", "observed", "not_observed", "revise_query",
            "review_needed_coverage_incomplete"}
Counters == {"tasks", "calls", "retries", "backups", "verifications", "lookbacks"}

\* what a readable payload amounts to for its task: observation status,
\* search status, cited sources by age, and source pages to verify
Finding == [
  nothing    |-> [status |-> "not_observed", search |-> "searched", refs |-> {}, pages |-> 0],
  vague      |-> [status |-> "unclear", search |-> "searched", refs |-> {}, pages |-> 0],
  uncited    |-> [status |-> "unclear", search |-> "evidence_linking_failed", refs |-> {}, pages |-> 0],
  unresolved |-> [status |-> "unclear", search |-> "evidence_linking_failed", refs |-> {}, pages |-> 1],
  repeated   |-> [status |-> "unclear", search |-> "duplicate_existing_signal", refs |-> {"old"}, pages |-> 1],
  mismatched |-> [status |-> "unclear", search |-> "review_needed", refs |-> {"new"}, pages |-> 1],
  undated    |-> [status |-> "unclear", search |-> "date_review", refs |-> {"new"}, pages |-> 1],
  outdated   |-> [status |-> "unclear", search |-> "rejected_out_of_window", refs |-> {"new"}, pages |-> 1],
  fresh      |-> [status |-> "observed", search |-> "searched", refs |-> {"new"}, pages |-> 1],
  again      |-> [status |-> "observed", search |-> "duplicate_existing_signal", refs |-> {"old"}, pages |-> 1],
  mixed      |-> [status |-> "observed", search |-> "duplicate_existing_signal", refs |-> {"new", "old"}, pages |-> 2]]

\* what evidence found for one criterion can amount to for another
Reused == [
  fresh    |-> Finding["fresh"],
  again    |-> [Finding["repeated"] EXCEPT !.pages = 0],
  undated  |-> Finding["undated"],
  outdated |-> Finding["outdated"]]
NotReused == "none"

NoCall == [role |-> "none"]
NoVerdict == [action |-> "none", status |-> "unclear", search |-> "searched", refs |-> {}]
Diagnosed(search) == [status |-> "unclear", search |-> search, refs |-> {}, pages |-> 0]

Note(t, finding) == [task |-> t, pair |-> Pair(t), status |-> finding.status,
                     search |-> finding.search, refs |-> finding.refs]

-----------------------------------------------------------------------------
(* Budgets *)

TaskBudgetExhausted == spent.tasks >= plan.limits.tasks
ProviderBudgetExhausted == spent.calls >= plan.limits.calls
LookbackBudgetExhausted == spent.lookbacks >= plan.limits.lookbacks
\* each task is executed once, so its own count is zero when it asks
RetryBudgetAvailable ==
  plan.limits.retriesPerTask > 0 /\ spent.retries < plan.limits.retries
BackupBudgetAvailable == plan.limits.backup /\ spent.backups < plan.limits.backups
VerificationBudgetAvailable(pages) ==
  spent.verifications + pages <= plan.limits.verifications

\* only a search that came to an answer counts against the task budget
Searched(finding) == finding.search \in {"searched", "duplicate_existing_signal"}
TaskCost(finding) == IF Searched(finding) THEN 1 ELSE 0

-----------------------------------------------------------------------------
(* Checkpoint *)

Revision(t) == [t EXCEPT !.lane = "open_web", !.source = "none", !.ref = "none",
                         !.required = FALSE, !.revision = 1]

\* planning takes a task up once (accept removes duplicates), it plans no revisions,
\* and what it schedules is part of the plan
TaskShape == [candidate : {t.candidate : t \in Tasks}, code : {t.code : t \in Tasks},
              lane : {t.lane : t \in Tasks}, source : {t.source : t \in Tasks},
              ref : {t.ref : t \in Tasks}, part : {t.part : t \in Tasks},
              required : BOOLEAN, revision : {0, 1}]
PlanShape(made) ==
  /\ made.tasks \in Seq(Tasks) /\ made.scheduled \in Seq(Tasks)
  /\ Elements(made.scheduled) \subseteq Elements(made.tasks)
  /\ \A i, j \in DOMAIN made.scheduled : made.scheduled[i] = made.scheduled[j] => i = j
  /\ \A t \in Elements(made.tasks) : t.revision = 0 /\ Revision(t) \in Tasks
ASSUME PlansAssumption == Tasks \subseteq TaskShape /\ \A made \in Plans : PlanShape(made)

TasksOf(p) == {t \in Elements(plan.tasks) : Pair(t) = p}
PlannedPairs == {Pair(t) : t \in Elements(plan.tasks)}
PositionOf(p) == CHOOSE i \in DOMAIN plan.tasks :
  Pair(plan.tasks[i]) = p /\ \A j \in 1..(i - 1) : Pair(plan.tasks[j]) # p

\* the pair's first open-web task, else its first task, as a revised query
RevisionTask(p) ==
  LET web == {i \in DOMAIN plan.tasks : Pair(plan.tasks[i]) = p /\ plan.tasks[i].lane = "open_web"}
      base == IF web = {} THEN PositionOf(p)
              ELSE CHOOSE i \in web : \A j \in web : i <= j
  IN  Revision(plan.tasks[base])

Required(p) == {t \in TasksOf(p) : t.required}
\* Mutated form: a required task the budget never scheduled counts as covered.
AnyCovered(t) == ledger[t] # "policy_limited" /\ receipts[t] # "provider_error"
Covered(t) == ledger[t] = "executed" /\ receipts[t] = "retrieved"

\* the pair's observations with their place; evidence reused from another
\* criterion comes last
Items(p, reused) ==
  {<<i, observations[i]>> : i \in {j \in DOMAIN observations : observations[j].pair = p}}
  \cup (IF reused[p] = NotReused THEN {}
        ELSE {<<Len(observations) + 1, Reused[reused[p]]>>})
First(items) == (CHOOSE x \in items : \A y \in items : x[1] <= y[1])[2]

IsDiagnostic(x) == x[2].search \notin {"searched", "duplicate_existing_signal", "rejected_out_of_window"}

LedgerDiagnostic(p) ==
  LET statuses == {ledger[t] : t \in TasksOf(p)}
  IN  CASE "not_scheduled_budget_limited" \in statuses -> "not_searched_budget_limited"
        [] "not_scheduled_budget_limited" \notin statuses
           /\ statuses \cap {"policy_limited", "not_executable"} # {} -> "not_searched_policy_limited"
        [] OTHER -> "review_needed"

ObservedVerdict(observed) ==
  [action |-> "observed", status |-> "observed", search |-> First(observed).search,
   refs |-> UNION {x[2].refs : x \in observed}]

DiagnosticVerdict(p, diagnostics) ==
  LET first == First(diagnostics)
      repairable == first.search \in {"evidence_linking_failed", "review_needed"}
      revised == receipts[RevisionTask(p)] # "none"
  IN  [action |-> IF repairable /\ ~ revised THEN "revise_query"
                  ELSE "review_needed_coverage_incomplete",
       status |-> "unclear", search |-> first.search, refs |-> first.refs]

\* Mutated form: observation status and search status change places.
SwappedNegativeVerdict(items) ==
  [action |-> "not_observed", status |-> "searched", search |-> "not_observed",
   refs |-> UNION {x[2].refs : x \in items}]
NegativeVerdict(items) ==
  IF items # {} /\ \A x \in items : x[2].search = "duplicate_existing_signal"
  THEN [action |-> "not_observed", status |-> First(items).status,
        search |-> "duplicate_existing_signal", refs |-> First(items).refs]
  ELSE [action |-> "not_observed", status |-> "not_observed", search |-> "searched",
        refs |-> UNION {x[2].refs : x \in items}]

IncompleteVerdict(p) ==
  [action |-> "review_needed_coverage_incomplete", status |-> "unclear",
   search |-> LedgerDiagnostic(p), refs |-> {}]

\* Mutated form: a diagnostic of one lane outweighs evidence found in another.
DiagnosticsFirstReview(p, reused) ==
  LET items == Items(p, reused)
      observed == {x \in items : x[2].status = "observed"}
      diagnostics == {x \in items : IsDiagnostic(x)}
  IN  CASE diagnostics # {} -> DiagnosticVerdict(p, diagnostics)
        [] diagnostics = {} /\ observed # {} -> ObservedVerdict(observed)
        [] diagnostics = {} /\ observed = {} /\ \E t \in Required(p) : ~ Covered(t) ->
             IncompleteVerdict(p)
        [] OTHER -> NegativeVerdict(items)
\* SignalMonitoringCheckpointService.review, for one pair
Review(p, reused) ==
  LET items == Items(p, reused)
      observed == {x \in items : x[2].status = "observed"}
      diagnostics == {x \in items : IsDiagnostic(x)}
  IN  CASE observed # {} -> ObservedVerdict(observed)
        [] observed = {} /\ diagnostics # {} -> DiagnosticVerdict(p, diagnostics)
        [] observed = {} /\ diagnostics = {} /\ \E t \in Required(p) : ~ Covered(t) ->
             IncompleteVerdict(p)
        [] OTHER -> NegativeVerdict(items)

NothingReused == [p \in Pairs |-> NotReused]

Checkpoint(reused) ==
  [p \in Pairs |-> IF p \in PlannedPairs THEN Review(p, reused) ELSE NoVerdict]

RevisionPairs(decided) ==
  {p \in Pairs : /\ decided[p].action = "revise_query"
                 /\ plan.limits.revisions > 0
                 /\ plan.openWeb}

\* pairs the evidence of another criterion of the candidate can be tried on
Origins(p) == {i \in DOMAIN observations :
  /\ observations[i].refs # {}
  /\ observations[i].pair[1] = p[1]
  /\ observations[i].pair # p}
Reuses == {reused \in [Pairs -> {NotReused} \cup DOMAIN Reused] :
  \A p \in Pairs : reused[p] # NotReused => p \in PlannedPairs /\ Origins(p) # {}}

AdvancedWatermarks == {<<Pair(t), t.lane>> : t \in {u \in Tasks : receipts[u] = "retrieved"}}

Limited == {"not_searched_budget_limited", "not_searched_policy_limited",
            "not_searched_missing_candidate_scope", "schema_recovery_needed",
            "evidence_linking_failed", "review_needed"}
CompletionState(decided) ==
  IF \E p \in PlannedPairs : decided[p].search \in Limited
  THEN "completed_with_limits" ELSE "completed"

-----------------------------------------------------------------------------
(* Execution *)

ScheduledLedger(chosen) == [t \in Tasks |->
  CASE t \in Elements(chosen.scheduled) -> "scheduled"
    [] t \in chosen.accepted \ Elements(chosen.scheduled) -> "not_scheduled_budget_limited"
    [] t \in Elements(chosen.tasks) \ chosen.accepted -> "not_executable"
    [] OTHER -> "none"]

Init ==
  /\ plan \in Plans
  /\ phase = IF plan.executable THEN "tasks" ELSE "limited"
  /\ queue = plan.scheduled
  /\ pending = {}
  /\ call = NoCall
  /\ ledger = ScheduledLedger(plan)
  /\ receipts = [t \in Tasks |-> "none"]
  /\ observations = <<>>
  /\ spent = [c \in Counters |-> 0]
  /\ verdict = [p \in Pairs |-> NoVerdict]
  /\ advanced = {}
  /\ completion = "running"

Spend(more) == spent' = [c \in Counters |-> spent[c] + more[c]]
Cost(calls, retries, backups, lookbacks) ==
  [tasks |-> 0, calls |-> calls, retries |-> retries, backups |-> backups,
   verifications |-> 0, lookbacks |-> lookbacks]

\* the run has no executable plan: nothing is searched
LimitByPolicy ==
  /\ phase = "limited"
  /\ phase' = "tasks"
  /\ queue' = <<>>
  /\ observations' = [i \in DOMAIN plan.scheduled |->
                       Note(plan.scheduled[i], Diagnosed("not_searched_policy_limited"))]
  /\ ledger' = [t \in Tasks |-> IF ledger[t] = "none" THEN "none" ELSE "policy_limited"]
  /\ UNCHANGED <<plan, pending, call, receipts, spent, verdict, advanced, completion>>

\* Mutated form: a task that is skipped stays at the head of the schedule.
SkipWithoutTaking(t, search) ==
  /\ observations' = IF \E i \in DOMAIN observations : observations[i].task = t THEN observations
                     ELSE Append(observations, Note(t, Diagnosed(search)))
  /\ UNCHANGED <<plan, phase, queue, pending, call, ledger, receipts, spent, verdict,
                 advanced, completion>>
Skip(t, search) ==
  /\ observations' = Append(observations, Note(t, Diagnosed(search)))
  /\ queue' = Tail(queue)
  /\ UNCHANGED <<plan, phase, pending, call, ledger, receipts, spent, verdict,
                 advanced, completion>>

Working == phase = "tasks" /\ call = NoCall /\ queue # <<>>
Monitorable == Head(queue).candidate \in plan.monitorable

SkipUnmonitorable ==
  /\ Working
  /\ ~ Monitorable
  /\ Skip(Head(queue), "not_searched_missing_candidate_scope")

\* the scheduler keeps within the task budget, so the look-back queries run
\* out first
SearchBudgetExhausted == TaskBudgetExhausted \/ LookbackBudgetExhausted
SkipForBudget ==
  /\ Working
  /\ Monitorable /\ SearchBudgetExhausted
  /\ Skip(Head(queue), "not_searched_budget_limited")

\* Mutated form: a task refused for want of a provider call gets no receipt.
UnreceiptedConclude(t, finding, outcome, pages, more) ==
  /\ observations' = Append(observations, Note(t, finding))
  /\ receipts' = IF outcome = "budget_limited" THEN receipts ELSE [receipts EXCEPT ![t] = outcome]
  /\ ledger' = [ledger EXCEPT ![t] = "executed"]
  /\ Spend([more EXCEPT !.tasks = TaskCost(finding), !.verifications = pages])
  /\ call' = NoCall
\* the task is answered: observation, receipt, ledger and task counter
Conclude(t, finding, outcome, pages, more) ==
  /\ observations' = Append(observations, Note(t, finding))
  /\ receipts' = [receipts EXCEPT ![t] = outcome]
  /\ ledger' = [ledger EXCEPT ![t] = "executed"]
  /\ Spend([more EXCEPT !.tasks = TaskCost(finding), !.verifications = pages])
  /\ call' = NoCall

\* _execute_with_recovery up to the first provider call: without a call left
\* the task gets a receipt and an observation at once
Start(t) ==
  \/ /\ ProviderBudgetExhausted
     /\ Conclude(t, Diagnosed("not_searched_budget_limited"), "budget_limited", 0, Cost(0, 0, 0, 1))
  \/ /\ ~ ProviderBudgetExhausted
     /\ call' = [task |-> t, role |-> "primary"]
     /\ Spend(Cost(1, 0, 0, 1))
     /\ UNCHANGED <<observations, receipts, ledger>>

RequestTask ==
  /\ Working
  /\ Monitorable /\ ~ SearchBudgetExhausted
  /\ Start(Head(queue))
  /\ queue' = Tail(queue)
  /\ UNCHANGED <<plan, phase, pending, verdict, advanced, completion>>

\* a readable payload; its pages are verified if the budget allows all of them
AnswerReadable(kind) ==
  /\ call # NoCall
  /\ LET finding == Finding[kind]
         allowed == VerificationBudgetAvailable(finding.pages)
     IN  Conclude(call.task,
                  IF allowed THEN finding ELSE Diagnosed("review_needed"),
                  "retrieved",
                  IF allowed THEN finding.pages ELSE 0,
                  Cost(0, 0, 0, 0))
  /\ UNCHANGED <<plan, phase, queue, pending, verdict, advanced, completion>>

\* the provider raised, or its payload does not parse; a provider that writes
\* its own receipt reports a search that was done even then
Failures == {<<"review_needed", "provider_error">>,
             <<"schema_recovery_needed", "schema_invalid">>,
             <<"schema_recovery_needed", "retrieved">>}

MayRetry == call.role = "primary" /\ RetryBudgetAvailable /\ ~ ProviderBudgetExhausted
MayBackUp == call.role = "primary_retry" /\ BackupBudgetAvailable /\ ~ ProviderBudgetExhausted

RetryCall ==
  /\ call # NoCall /\ MayRetry
  /\ call' = [call EXCEPT !.role = "primary_retry"]
  /\ Spend(Cost(1, 1, 0, 0))
  /\ UNCHANGED <<plan, phase, queue, pending, ledger, receipts, observations, verdict,
                 advanced, completion>>

BackUpCall ==
  /\ call # NoCall /\ MayBackUp
  /\ call' = [call EXCEPT !.role = "backup_retry"]
  /\ Spend(Cost(1, 0, 1, 0))
  /\ UNCHANGED <<plan, phase, queue, pending, ledger, receipts, observations, verdict,
                 advanced, completion>>

GiveUp(failure) ==
  /\ call # NoCall /\ ~ MayRetry /\ ~ MayBackUp
  /\ Conclude(call.task, Diagnosed(failure[1]), failure[2], 0, Cost(0, 0, 0, 0))
  /\ UNCHANGED <<plan, phase, queue, pending, verdict, advanced, completion>>

\* first checkpoint: provisional verdicts, and the pairs to query once more
FirstCheckpoint ==
  /\ phase = "tasks" /\ queue = <<>> /\ call = NoCall
  /\ verdict' = Checkpoint(NothingReused)
  /\ pending' = RevisionPairs(verdict')
  /\ phase' = "revisions"
  /\ UNCHANGED <<plan, queue, call, ledger, receipts, observations, spent, advanced, completion>>

NextRevision(p) == p \in pending /\ \A q \in pending : PositionOf(p) <= PositionOf(q)

SkipRevision(p) ==
  /\ phase = "revisions" /\ call = NoCall /\ NextRevision(p)
  /\ TaskBudgetExhausted \/ ProviderBudgetExhausted
  /\ pending' = pending \ {p}
  /\ observations' = Append(observations,
                            Note(RevisionTask(p), Diagnosed("not_searched_budget_limited")))
  /\ ledger' = [ledger EXCEPT ![RevisionTask(p)] = "not_scheduled_budget_limited"]
  /\ UNCHANGED <<plan, phase, queue, call, receipts, spent, verdict, advanced, completion>>

\* a revised query does not ask the lookback budget
RequestRevision(p) ==
  /\ phase = "revisions" /\ call = NoCall /\ NextRevision(p)
  /\ ~ TaskBudgetExhausted /\ ~ ProviderBudgetExhausted
  /\ pending' = pending \ {p}
  /\ Start(RevisionTask(p))
  /\ UNCHANGED <<plan, phase, queue, verdict, advanced, completion>>

\* reconciliation, second checkpoint, watermarks and completion state
Close(reused) ==
  /\ phase = "revisions" /\ call = NoCall /\ pending = {}
  /\ verdict' = Checkpoint(reused)
  /\ advanced' = AdvancedWatermarks
  /\ completion' = CompletionState(verdict')
  /\ phase' = "done"
  /\ UNCHANGED <<plan, queue, pending, call, ledger, receipts, observations, spent>>

Next ==
  \/ LimitByPolicy
  \/ SkipUnmonitorable
  \/ SkipForBudget
  \/ RequestTask
  \/ \E kind \in DOMAIN Finding : AnswerReadable(kind)
  \/ RetryCall
  \/ BackUpCall
  \/ \E failure \in Failures : GiveUp(failure)
  \/ FirstCheckpoint
  \/ \E p \in Pairs : SkipRevision(p)
  \/ \E p \in Pairs : RequestRevision(p)
  \/ \E reused \in Reuses : Close(reused)

Spec == Init /\ [][Next]_vars

\* the executor is one sequential call, and every provider call returns
FairSpec == Spec /\ WF_vars(Next)

-----------------------------------------------------------------------------
(* Properties *)

Phases == {"limited", "tasks", "revisions", "done"}
NoteType == [task : Tasks, pair : Pairs, status : ObservationStatus,
             search : SearchStatus, refs : SUBSET {"new", "old"}]
VerdictType == [action : Actions, status : ObservationStatus,
                search : SearchStatus, refs : SUBSET {"new", "old"}]

\* The values the executor's state ranges over.
TypeOK ==
  /\ plan \in Plans
  /\ phase \in Phases
  /\ queue \in Seq(Tasks)
  /\ pending \subseteq Pairs
  /\ call \in {NoCall} \cup [task : Tasks, role : Roles]
  /\ ledger \in [Tasks -> LedgerStatus]
  /\ receipts \in [Tasks -> ReceiptOutcome]
  /\ observations \in Seq(NoteType)
  /\ spent \in [Counters -> Nat]
  /\ verdict \in [Pairs -> VerdictType]
  /\ advanced \subseteq Pairs \X {t.lane : t \in Tasks}
  /\ completion \in {"running", "completed", "completed_with_limits"}

Answered(t) == \E i \in DOMAIN observations : observations[i].task = t

\* SM-OBS-01: a pair is reported as not observed only if every required task
\* planned for it, scheduled or not, was executed and its search came back,
\* whatever the order of skipped, failed, retried and revised tasks was.
NotObservedIsCovered ==
  phase = "done" =>
    \A p \in PlannedPairs : verdict[p].action = "not_observed" =>
      \A t \in Required(p) : Answered(t) /\ ledger[t] = "executed" /\ receipts[t] = "retrieved"

\* SM-AUD-01: the audit trail adds up.  A task has a receipt exactly when the
\* ledger calls it executed; every provider call is the request of one task,
\* or one of the retries counted.
AuditAddsUp ==
  /\ \A t \in Tasks : receipts[t] # "none" <=> ledger[t] = "executed"
  /\ spent.lookbacks = Cardinality({t \in Tasks : receipts[t] # "none"})
                        + (IF call = NoCall THEN 0 ELSE 1)
  /\ spent.calls = spent.lookbacks + spent.retries + spent.backups
                    - Cardinality({t \in Tasks : receipts[t] = "budget_limited"})

\* Evidence validated in one lane is reported, whatever the other lanes of
\* the pair, failed, limited or searched in vain, have to say.
EvidenceIsReported ==
  phase = "done" =>
    \A i \in DOMAIN observations : observations[i].status = "observed" =>
      /\ verdict[observations[i].pair].status = "observed"
      /\ observations[i].refs \subseteq verdict[observations[i].pair].refs

\* Every run comes to its end: no skip, retry or revision repeats for ever.
EveryRunEnds == <>(phase = "done")
=============================================================================
