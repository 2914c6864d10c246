------------------------ MODULE CandidateDiscoveryRun ------------------------
(***************************************************************************)
(* The staged execution of one candidate-discovery run: discovery tasks    *)
(* with useful-result retries, recovery after discovery, qualification     *)
(* gates per candidate, coverage iterations, search expansion, recovery    *)
(* after coverage, and the review that hands the candidates over to signal *)
(* monitoring or blocks the handoff.  Every web task passes the semantic   *)
(* task budget first.                                                      *)
(*                                                                         *)
(* An answer of the provider, after its own schema retries, is reduced to  *)
(* what the checkpoints tell apart: candidate names it adds or rejects,    *)
(* whether it links a source, its extraction issues, gaps and coverage     *)
(* risk.  Smoke limits, source obligations, the order of candidates and    *)
(* the external-call budget are abstracted; what a component outside the   *)
(* module decides is a free choice.                                        *)
(***************************************************************************)
EXTENDS Naturals, Sequences, FiniteSets, Functions

CONSTANTS
  DiscoveryTasks,  \* tasks of the plan, in its order: sequences of tasks
  GateTasks,
  CoverageTasks,   \* the coverage tasks a plan may have: a set of sequences
  SubjectOf,       \* the rule or radar a task is for: [tasks -> Subjects]
  Subjects,
  Sourced,         \* gate tasks bound to sources: they need a concrete candidate
  Target,          \* subject of an expansion task
  CrossCheck,      \* subject of a cross-source disambiguation task
  Names,           \* candidate names
  NoName,          \* an unscoped task
  Answers,         \* what the provider may answer
  Settings,        \* settings a run may have
  MaxVariants,     \* cap of expansion variants
  MaxCrossChecks,  \* bound: planned disambiguation tasks of one pass
  MaxIterations,   \* MAX_DISCOVERY_ITERATIONS
  MaxUniverse      \* MAX_CANDIDATE_UNIVERSE_SIZE

Tasks == UNION {Range(q) : q \in {DiscoveryTasks, GateTasks} \cup CoverageTasks}
Issues == {"schema", "linking"}
Answer == [names : SUBSET Names, rejects : SUBSET Names, linked : BOOLEAN,
           issues : SUBSET Issues, gaps : BOOLEAN, risk : BOOLEAN]
\* limits of 0 are absent; `hints` are the benchmark targets of the task context
Setting == [total : Nat, perKey : Nat, reserve : Nat, useful : Nat, retries : Nat,
            revisions : Nat, hints : BOOLEAN]

ASSUME TasksAssumption ==
  /\ {DiscoveryTasks, GateTasks} \cup CoverageTasks \subseteq Seq(Tasks)
  /\ SubjectOf \in [Tasks -> Subjects]
  /\ {Target, CrossCheck} \subseteq Subjects
  /\ NoName \notin Names /\ <<>> \notin Tasks
ASSUME AnswersAssumption == Answers \subseteq Answer
ASSUME SettingsAssumption == Settings \subseteq Setting
ASSUME BoundsAssumption == {MaxVariants, MaxCrossChecks, MaxIterations, MaxUniverse} \subseteq Nat

VARIABLES
  settings,   \* task budget settings, useful-result budget, checkpoint policy
  coverage,   \* the coverage tasks of the plan
  stage,      \* the phase of the orchestrator
  todo,       \* tasks the phase has still to take up
  tries,      \* useful-result retries of the task at hand
  gate,       \* a gate pass: the task at hand, names left, scope threaded through
  found,      \* sources, observations and provider metadata
  scope,      \* candidate_scope
  before,     \* candidate names before the coverage iteration
  iteration,  \* discovery_iteration_count
  pending,    \* expansion variants still to be executed; cross-checks still to be run
  ran,        \* expansion tasks of the plan [executed, skipped]
  attempts,   \* attempts of the recovery at hand [retries, repairs, revisions]
  spent,      \* accepted tasks per budget key
  total,      \* accepted tasks
  reserve,    \* tasks accepted on the semantic reserve
  exhausted,  \* there is a budget exhaustion event
  stopped,    \* stopped_for_review_reason
  stops,      \* a checkpoint decision to stop for review was recorded
  handoff     \* "open", then "pending" or "blocked"

budget == <<spent, total, reserve, exhausted>>
work == <<todo, tries, gate, before, iteration, pending, ran, attempts>>
vars == <<settings, coverage, stage, found, scope, stopped, stops, handoff, budget, work>>

-----------------------------------------------------------------------------
Stages == {"discovery", "extraction", "cross-check", "after discovery", "gates", "gate checkpoint",
           "coverage", "new names", "expansion", "after coverage", "last extraction",
           "last cross-check", "review", "done"}
StopReasons == {"", "retry limit", "repair limit", "revision limit", "no expansion",
                "expansion not executed", "review"}
NoTask == <<>>
NoGate == [task |-> NoTask, names |-> {}, scope |-> {}]
NoAttempts == [retries |-> 0, repairs |-> 0, revisions |-> 0]
NotRan == [executed |-> 0, skipped |-> 0]
Keys == Subjects \X (Names \cup {NoName})
Key(task) == <<SubjectOf[task], NoName>>

Eligible(f) == f.names \ f.rejected

\* merge_result: results accumulate
Merged(f, a) == [f EXCEPT !.names = f.names \cup a.names, !.rejected = f.rejected \cup a.rejects,
                          !.linked = f.linked \/ a.linked, !.issues = f.issues \cup a.issues]
\* what a coverage or expansion task adds besides
Covered(f, a) == [Merged(f, a) EXCEPT !.gaps = f.gaps \/ a.gaps, !.risk = f.risk \/ a.risk]
WithGaps(f, a) == [Merged(f, a) EXCEPT !.gaps = f.gaps \/ a.gaps]
Cleared(f) == [f EXCEPT !.issues = {}]

-----------------------------------------------------------------------------
(* Task budget *)

Blocked(key) == \/ settings.total > 0 /\ total >= settings.total
                \/ settings.perKey > 0 /\ spent[key] >= settings.perKey

Accept(key) ==
  /\ ~ Blocked(key)
  /\ spent' = [spent EXCEPT ![key] = spent[key] + 1]
  /\ total' = total + 1
  /\ UNCHANGED <<reserve, exhausted>>

\* reserve: the refusal is kept as an exhaustion event
Refuse(key) ==
  /\ Blocked(key)
  /\ exhausted' = TRUE
  /\ UNCHANGED <<spent, total, reserve>>

\* Mutated form: the reserve lends without counting what it lent.
UncountedAcceptOnReserve(key) ==
  /\ Blocked(key) /\ reserve < settings.reserve
  /\ total' = total + 1
  /\ UNCHANGED <<spent, reserve, exhausted>>
\* _try_semantic_reserve
AcceptOnReserve(key) ==
  /\ Blocked(key) /\ reserve < settings.reserve
  /\ reserve' = reserve + 1
  /\ total' = total + 1
  /\ UNCHANGED <<spent, exhausted>>

RefuseReserved(key) == reserve >= settings.reserve /\ Refuse(key)

-----------------------------------------------------------------------------
Init ==
  /\ settings \in Settings
  /\ coverage \in CoverageTasks
  /\ stage = "discovery"
  /\ todo = DiscoveryTasks
  /\ tries = 0
  /\ gate = NoGate
  /\ found = [names |-> {}, rejected |-> {}, linked |-> FALSE, issues |-> {}, salvaged |-> FALSE,
              gaps |-> FALSE, risk |-> FALSE, queue |-> FALSE, expanded |-> FALSE]
  /\ scope = {}
  /\ before = {}
  /\ iteration = 0
  /\ pending = 0
  /\ ran = NotRan
  /\ attempts = NoAttempts
  /\ spent = [k \in Keys |-> 0]
  /\ total = 0
  /\ reserve = 0
  /\ exhausted = FALSE
  /\ stopped = ""
  /\ stops = FALSE
  /\ handoff = "open"

Empty(a) == a.names = {} /\ ~ a.linked

\* run_task_with_useful_retries: the task is asked again while its results so
\* far are not useful; an answer with nothing in it cannot make them useful
Again ==
  /\ tries < settings.useful
  /\ tries' = tries + 1
  /\ UNCHANGED todo
Onward ==
  /\ tries' = 0
  /\ todo' = Tail(todo)
AfterAnswer(a) == Again \/ (Onward /\ ~ (Empty(a) /\ ~ a.gaps /\ tries < settings.useful))
AfterRefusal == Again \/ (Onward /\ tries >= settings.useful)

\* DiscoveryPhaseExecutor._run_discovery_tasks, one call of run_task
Discover ==
  /\ stage = "discovery" /\ todo # <<>>
  /\ \/ \E a \in Answers : Accept(Key(Head(todo))) /\ found' = Merged(found, a) /\ AfterAnswer(a)
     \/ Refuse(Key(Head(todo))) /\ AfterRefusal /\ UNCHANGED found
  /\ scope' = Eligible(found')
  /\ UNCHANGED <<settings, coverage, stage, gate, before, iteration, pending, ran, attempts, stopped,
                 stops, handoff>>

EndDiscovery ==
  /\ stage = "discovery" /\ todo = <<>>
  /\ stage' = "extraction"
  /\ UNCHANGED <<settings, coverage, found, scope, stopped, stops, handoff, budget, work>>

\* Mutated form: a stopped run is cross-checked like any other.
AlwaysAfterLastExtraction == "last cross-check"
AfterLastExtraction == IF stopped = "" THEN "last cross-check" ELSE "review"

\* extract_retrieved_candidates: names read from retrieved sources, each linked
\* to its source
Extract ==
  /\ stage \in {"extraction", "last extraction"}
  /\ \E new \in SUBSET (Names \ found.names) :
       /\ found' = [found EXCEPT !.names = found.names \cup new, !.linked = found.linked \/ new # {}]
       /\ scope' = IF new = {} THEN scope ELSE Eligible(found')
  /\ stage' = IF stage = "extraction" THEN "cross-check" ELSE AfterLastExtraction
  /\ pending' \in IF stage' = "review" THEN {0} ELSE 0..MaxCrossChecks
  /\ UNCHANGED <<settings, coverage, stopped, stops, handoff, budget, todo, tries, gate, before,
                 iteration, ran, attempts>>

\* execute_cross_source_disambiguation, one planned task
CrossCheckOne ==
  /\ stage \in {"cross-check", "last cross-check"} /\ pending > 0
  /\ pending' = pending - 1
  /\ \/ /\ Accept(<<CrossCheck, NoName>>)
        /\ \E a \in Answers : found' = IF Empty(a) /\ "schema" \notin a.issues THEN found ELSE Merged(found, a)
     \/ Refuse(<<CrossCheck, NoName>>) /\ UNCHANGED found
  /\ UNCHANGED <<settings, coverage, stage, scope, stopped, stops, handoff, todo, tries, gate, before,
                 iteration, ran, attempts>>

EndCrossCheck ==
  /\ stage \in {"cross-check", "last cross-check"} /\ pending = 0
  /\ scope' = Eligible(found)
  /\ stage' = IF stage = "cross-check" THEN "after discovery" ELSE "review"
  /\ UNCHANGED <<settings, coverage, found, stopped, stops, handoff, budget, work>>

-----------------------------------------------------------------------------
(* Checkpoints *)

\* _extraction_issue_codes: a recovered salvage masks every issue of the run
IssueCodes == IF found.salvaged THEN {} ELSE found.issues

WeakEvidence == scope = {} \/ ~ found.linked
TargetGap == found.queue \/ settings.hints
CanExpand == ~ exhausted /\ ~ found.expanded /\ (TargetGap \/ found.risk \/ found.gaps)
ShouldExpand == CanExpand /\ (WeakEvidence \/ TargetGap \/ found.risk)

\* review at the recovery checkpoints
RecoveryDecision ==
  IF "schema" \in IssueCodes THEN "repair_extraction"
  ELSE IF "linking" \in IssueCodes THEN IF ShouldExpand THEN "expand_sources" ELSE "revise_plan"
  ELSE IF WeakEvidence THEN IF CanExpand THEN "expand_sources" ELSE "retry_same_source"
  ELSE IF exhausted THEN "stop_review_needed" ELSE "continue"

\* the recovery at hand and the tasks it may run again
Recovering == stage \in {"after discovery", "after coverage"}
Base == IF stage = "after discovery" THEN DiscoveryTasks ELSE coverage
Looping == Recovering /\ pending = 0 /\ stopped = "" /\ Base # <<>>
BaseKey == Key(Base[1])

\* one adaptive task on the first task of the phase, and its result
Adaptive(clears) ==
  /\ \/ /\ Accept(BaseKey)
        /\ \E a \in Answers :
             LET f == Merged(found, a)
             IN  found' = IF clears /\ a.issues = {} THEN Cleared(f) ELSE f
     \/ /\ Refuse(BaseKey)
        /\ found' = IF clears THEN Cleared(found) ELSE found
  /\ scope' = Eligible(found')
  /\ UNCHANGED <<settings, coverage, stage, stopped, stops, handoff, todo, tries, gate, before,
                 iteration, pending, ran>>

\* Mutated form: the retry is not counted.
UncountedRetrySource ==
  /\ Looping /\ RecoveryDecision = "retry_same_source"
  /\ attempts.retries < settings.retries
  /\ UNCHANGED attempts
  /\ Adaptive(FALSE)
\* the decision retry_same_source, or its variant with additional sources
RetrySource ==
  /\ Looping /\ RecoveryDecision = "retry_same_source"
  /\ attempts.retries < settings.retries
  /\ attempts' = [attempts EXCEPT !.retries = attempts.retries + 1]
  /\ Adaptive(FALSE)

\* Mutated form: one repair more than the limit.
ExtraRepairExtraction ==
  /\ Looping /\ RecoveryDecision = "repair_extraction"
  /\ attempts.repairs <= settings.retries
  /\ attempts' = [attempts EXCEPT !.repairs = attempts.repairs + 1]
  /\ Adaptive(TRUE)
RepairExtraction ==
  /\ Looping /\ RecoveryDecision = "repair_extraction"
  /\ attempts.repairs < settings.retries
  /\ attempts' = [attempts EXCEPT !.repairs = attempts.repairs + 1]
  /\ Adaptive(TRUE)

RevisePlan ==
  /\ Looping /\ RecoveryDecision = "revise_plan"
  /\ attempts.revisions < settings.revisions
  /\ attempts' = [attempts EXCEPT !.revisions = attempts.revisions + 1]
  /\ Adaptive(TRUE)

\* post-extraction salvage, tried once repairs or revisions are used up: it may
\* read names from the sources at hand
Salvage ==
  /\ Looping
  /\ \/ RecoveryDecision = "repair_extraction" /\ attempts.repairs >= settings.retries
     \/ RecoveryDecision = "revise_plan" /\ attempts.revisions >= settings.revisions
  /\ \E new \in SUBSET Names :
       found' = [found EXCEPT !.names = found.names \cup new, !.linked = found.linked \/ new # {},
                              !.salvaged = TRUE]
  /\ scope' = Eligible(found')
  /\ UNCHANGED <<settings, coverage, stage, stopped, stops, handoff, budget, work>>

Stop(reason) ==
  /\ stopped' = reason
  /\ stops' = TRUE

\* a limit is used up, and salvage recovered nothing
StopRecovery ==
  /\ Looping
  /\ \/ /\ RecoveryDecision \in {"retry_same_source", "expand_sources"}
        /\ attempts.retries >= settings.retries
        /\ Stop("retry limit")
     \/ /\ RecoveryDecision = "repair_extraction" /\ attempts.repairs >= settings.retries
        /\ Stop("repair limit")
     \/ /\ RecoveryDecision = "revise_plan" /\ attempts.revisions >= settings.revisions
        /\ Stop("revision limit")
  /\ UNCHANGED <<settings, coverage, stage, found, scope, handoff, budget, work>>

\* expansion_target_queue and targets_not_searched after planning: targets,
\* targets not selected, variants scheduled
Planned(targets, unselected) ==
  [found EXCEPT !.queue = found.queue \/ targets, !.expanded = found.expanded \/ unselected]

\* execute_targeted_search_expansion, its plan
PlanTargetedExpansion ==
  /\ Looping /\ RecoveryDecision = "expand_sources"
  /\ attempts.retries < settings.retries
  /\ attempts' = [attempts EXCEPT !.retries = attempts.retries + 1]
  /\ \E targets, unselected \in BOOLEAN, variants \in 0..MaxVariants :
       /\ variants > 0 => targets
       /\ found' = Planned(targets, unselected)
       /\ pending' = variants
       /\ IF variants = 0 THEN Stop("no expansion") ELSE UNCHANGED <<stopped, stops>>
  /\ ran' = NotRan
  /\ UNCHANGED <<settings, coverage, stage, scope, handoff, budget, todo, tries, gate, before, iteration>>

Skipped == [ran EXCEPT !.skipped = ran.skipped + 1]
\* the gaps a targeted expansion finds after discovery are dropped
Expanded(a) ==
  LET f == [(IF stage = "after discovery" THEN Merged(found, a) ELSE WithGaps(found, a))
              EXCEPT !.expanded = TRUE]
  IN  IF Recovering /\ a.issues = {} THEN Cleared(f) ELSE f

AcceptExpansion == Accept(<<Target, NoName>>) \/ AcceptOnReserve(<<Target, NoName>>)

\* one expansion task: not admitted to the portfolio, refused by the task
\* budget, refused by the external budget, or answered
ExpansionTask ==
  /\ \/ UNCHANGED budget /\ ran' = Skipped /\ found' = [found EXCEPT !.expanded = TRUE]
     \/ RefuseReserved(<<Target, NoName>>) /\ ran' = Skipped /\ found' = [found EXCEPT !.expanded = TRUE]
     \/ AcceptExpansion /\ ran' = Skipped /\ found' = [found EXCEPT !.expanded = TRUE]
     \/ /\ AcceptExpansion
        /\ ran' = [ran EXCEPT !.executed = ran.executed + 1]
        /\ \E a \in Answers : found' = Expanded(a)
  /\ pending' = pending - 1
  /\ scope' = IF pending = 1 THEN Eligible(found') ELSE scope

ExpandTargeted ==
  /\ Recovering /\ pending > 0
  /\ ExpansionTask
  /\ IF pending = 1 /\ ran'.executed = 0 THEN Stop("expansion not executed")
                                        ELSE UNCHANGED <<stopped, stops>>
  /\ UNCHANGED <<settings, coverage, stage, handoff, todo, tries, gate, before, iteration, attempts>>

\* recover returns; a decision to stop leaves the run going
EndRecovery ==
  /\ Recovering /\ pending = 0
  /\ stopped # "" \/ Base = <<>> \/ RecoveryDecision \in {"continue", "stop_review_needed"}
  /\ stops' = (stops \/ RecoveryDecision = "stop_review_needed")
  /\ IF stage = "after discovery"
     THEN /\ stage' = "gates"
          /\ todo' = IF stopped = "" THEN GateTasks ELSE <<>>
          /\ gate' = [NoGate EXCEPT !.scope = scope]
     ELSE stage' = "last extraction" /\ UNCHANGED <<todo, gate>>
  /\ attempts' = NoAttempts
  /\ UNCHANGED <<settings, coverage, found, scope, stopped, handoff, budget, tries, before, iteration,
                 pending, ran>>

-----------------------------------------------------------------------------
(* Gates, coverage and expansion *)

InGatePass == stage \in {"gates", "new names"}

\* _materialized_candidate_scope_for_task
Materialized == IF gate.scope # {} THEN gate.scope ELSE Eligible(found)

\* take up the next task of the pass, or skip it for want of a candidate
TakeGate ==
  /\ InGatePass /\ todo # <<>> /\ gate.task = NoTask
  /\ LET task == Head(todo)
         names == IF Head(todo) \in Range(GateTasks) THEN Materialized ELSE {}
     IN  IF names = {} /\ task \in Sourced
         THEN todo' = Tail(todo) /\ UNCHANGED gate
         ELSE /\ gate' = [gate EXCEPT !.task = task, !.names = IF names = {} THEN {NoName} ELSE names]
              /\ UNCHANGED todo
  /\ UNCHANGED <<settings, coverage, stage, found, scope, stopped, stops, handoff, budget, tries, before,
                 iteration, pending, ran, attempts>>

\* _execute_gate_scopes, one candidate; after the last the pass goes on with the
\* candidates that are still eligible
RunGate(n) ==
  /\ InGatePass /\ n \in gate.names
  /\ \/ Accept(<<SubjectOf[gate.task], n>>) /\ \E a \in Answers : found' = Merged(found, a)
     \/ Refuse(<<SubjectOf[gate.task], n>>) /\ UNCHANGED found
  /\ IF gate.names = {n}
     THEN gate' = [NoGate EXCEPT !.scope = Eligible(found')] /\ todo' = Tail(todo)
     ELSE gate' = [gate EXCEPT !.names = gate.names \ {n}] /\ UNCHANGED todo
  /\ UNCHANGED <<settings, coverage, stage, scope, stopped, stops, handoff, tries, before, iteration,
                 pending, ran, attempts>>

\* the orchestrator gives a stopped run no coverage tasks
MayCover == /\ stopped = "" /\ coverage # <<>> /\ iteration < MaxIterations
            /\ Cardinality(found.names) < MaxUniverse

CoverOrExpand ==
  /\ IF MayCover
     THEN /\ stage' = "coverage"
          /\ iteration' = iteration + 1
          /\ todo' = coverage
          /\ before' = found.names
     ELSE /\ stage' = IF stopped = "" THEN "expansion" ELSE "last extraction"
          /\ UNCHANGED <<iteration, todo, before>>
  /\ gate' = NoGate

\* the checkpoint after the gates is recorded and its decision is not acted on
EndGates ==
  /\ stage = "gates" /\ todo = <<>>
  /\ scope' = gate.scope
  /\ stops' = (stops \/ (IssueCodes = {} /\ exhausted))
  /\ CoverOrExpand
  /\ UNCHANGED <<settings, coverage, found, stopped, handoff, budget, tries, pending, ran, attempts>>

\* _execute_coverage_task, one call of run_task
Cover ==
  /\ stage = "coverage" /\ todo # <<>>
  /\ \/ \E a \in Answers : Accept(Key(Head(todo))) /\ found' = Covered(found, a) /\ AfterAnswer(a)
     \/ Refuse(Key(Head(todo))) /\ AfterRefusal /\ UNCHANGED found
  /\ UNCHANGED <<settings, coverage, stage, scope, gate, before, iteration, pending, ran, attempts,
                 stopped, stops, handoff>>

\* _run_gates_for_new_names: discovery and gate tasks again, for the new names
EndCoverage ==
  /\ stage = "coverage" /\ todo = <<>>
  /\ IF found.names = before
     THEN stage' = "expansion" /\ UNCHANGED <<todo, gate>>
     ELSE /\ stage' = "new names"
          /\ todo' = DiscoveryTasks \o GateTasks
          /\ gate' = [NoGate EXCEPT !.scope = found.names \ before]
  /\ UNCHANGED <<settings, coverage, found, scope, stopped, stops, handoff, budget, tries, before,
                 iteration, pending, ran, attempts>>

EndNewNames ==
  /\ stage = "new names" /\ todo = <<>>
  /\ scope' = Eligible(found)
  /\ CoverOrExpand
  /\ UNCHANGED <<settings, coverage, found, stopped, stops, handoff, budget, tries, pending, ran, attempts>>

\* SearchExpansionPhaseExecutor, its plan
PlanExpansion ==
  /\ stage = "expansion" /\ pending = 0
  /\ \E targets, unselected \in BOOLEAN, variants \in 0..MaxVariants :
       /\ variants > 0 => targets
       /\ found' = Planned(targets, unselected)
       /\ pending' = variants
       /\ stage' = IF variants = 0 THEN "after coverage" ELSE "expansion"
  /\ ran' = NotRan
  /\ UNCHANGED <<settings, coverage, scope, stopped, stops, handoff, budget, todo, tries, gate, before,
                 iteration, attempts>>

Expand ==
  /\ stage = "expansion" /\ pending > 0
  /\ ExpansionTask
  /\ stage' = IF pending = 1 THEN "after coverage" ELSE stage
  /\ UNCHANGED <<settings, coverage, stopped, stops, handoff, todo, tries, gate, before, iteration, attempts>>

-----------------------------------------------------------------------------
(* Handoff *)

\* Mutated form: the review before signal monitoring overlooks refused tasks.
BudgetBlindSignalStop == Eligible(found) = {} \/ ~ found.linked \/ found.risk
\* _before_signal_search
SignalStop == Eligible(found) = {} \/ ~ found.linked \/ found.risk \/ exhausted

\* review_before_search and the handoff projection; whether a source obligation
\* is unmet is decided elsewhere
ReviewHandoff(unmet) ==
  /\ stage = "review"
  /\ stage' = "done"
  /\ scope' = Eligible(found)
  /\ LET quiet == ~ unmet /\ IssueCodes = {}
     IN  /\ handoff' = IF stopped = "" /\ quiet /\ ~ SignalStop THEN "pending" ELSE "blocked"
         /\ stops' = (stops \/ (quiet /\ SignalStop))
  /\ stopped' = IF stopped = "" /\ handoff' = "blocked" THEN "review" ELSE stopped
  /\ UNCHANGED <<settings, coverage, found, budget, work>>

Finished == stage = "done" /\ UNCHANGED vars

Step ==
  \/ Discover \/ EndDiscovery \/ Extract \/ CrossCheckOne \/ EndCrossCheck
  \/ RetrySource \/ RepairExtraction \/ RevisePlan \/ Salvage \/ StopRecovery
  \/ PlanTargetedExpansion \/ ExpandTargeted \/ EndRecovery
  \/ TakeGate \/ (\E n \in Names \cup {NoName} : RunGate(n)) \/ EndGates
  \/ Cover \/ EndCoverage \/ EndNewNames \/ PlanExpansion \/ Expand
  \/ (\E unmet \in BOOLEAN : ReviewHandoff(unmet))

Next == Step \/ Finished

Spec == Init /\ [][Next]_vars
\* the worker executes the run in one thread, provider calls end or time out
FairSpec == Spec /\ WF_vars(Step)

-----------------------------------------------------------------------------
(* Properties *)

\* Type invariant; the attempts of a recovery, the useful-result retries, the
\* coverage iterations and the reserve stay within their limits.
TypeOK ==
  /\ settings \in Settings
  /\ coverage \in CoverageTasks
  /\ stage \in Stages
  /\ todo \in Seq(Tasks)
  /\ tries \in 0..settings.useful
  /\ gate \in [task : Tasks \cup {NoTask}, names : SUBSET (Names \cup {NoName}), scope : SUBSET Names]
  /\ found \in [names : SUBSET Names, rejected : SUBSET Names, linked : BOOLEAN,
                issues : SUBSET Issues, salvaged : BOOLEAN, gaps : BOOLEAN, risk : BOOLEAN,
                queue : BOOLEAN, expanded : BOOLEAN]
  /\ scope \in SUBSET Names
  /\ before \in SUBSET Names
  /\ iteration \in 0..MaxIterations
  /\ pending \in Nat
  /\ ran \in [executed : Nat, skipped : Nat]
  /\ attempts \in [retries : 0..settings.retries, repairs : 0..settings.retries,
                   revisions : 0..settings.revisions]
  /\ spent \in [Keys -> Nat]
  /\ total \in Nat
  /\ reserve \in 0..settings.reserve
  /\ exhausted \in BOOLEAN
  /\ stopped \in StopReasons
  /\ stops \in BOOLEAN
  /\ handoff \in {"open", "pending", "blocked"}

\* A stop for review recorded at any checkpoint blocks the handoff to signal
\* monitoring, also where the run went on: recover and the gate checkpoint record
\* such a decision and do not act on it.
StopIsHonoured == handoff = "pending" => ~ stops

\* Once the run is stopped for review no web task is admitted or refused any
\* more: gates, coverage, expansion and cross-checks are left out.
StopIsFinal == [][stopped # "" => UNCHANGED budget]_vars

\* Retries, repairs, revisions, expansions and coverage iterations all end, and
\* with them every run.
EveryRunEnds == <>(stage = "done")

\* Expansion on the semantic reserve takes a run past its total task limit by at
\* most the reserve.
TotalIsBounded == settings.total > 0 => total <= settings.total + settings.reserve

=============================================================================
