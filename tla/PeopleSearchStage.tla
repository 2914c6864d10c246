-------------------------- MODULE PeopleSearchStage --------------------------
(***************************************************************************)
(* The people-search stage between a Power Web handoff and later identity  *)
(* resolution: title hypotheses are proposed and accepted per role demand, *)
(* three mandatory source lanes are decided per demand, each scheduled     *)
(* lane becomes one task, and a task that found nothing may be asked once  *)
(* more with a broader query.  Tasks, provider calls, retries, revisions   *)
(* and source verifications are budgeted.  Coverage checkpoints close the  *)
(* stage.                                                                  *)
(*                                                                         *)
(* A lane decision is a number: its place in the order of the plan.  Its   *)
(* task and the revised task of it share the decision, so receipts are     *)
(* kept per decision and revision.  Titles, queries, urls and texts are    *)
(* opaque; what the provider answers is an outcome and a number of         *)
(* sources.                                                                *)
(***************************************************************************)
EXTENDS Naturals, Sequences, FiniteSets

CONSTANTS
  Demands,     \* role demands of the handoff
  Decisions,   \* lane decisions, in the order of the plan: numbers
  DemandOf,    \* [Decisions -> Demands]
  Official,    \* the decisions of the official-company lane
  Titles,      \* title variants
  Usable,      \* the variants no lexical rule rejects
  Overlong,    \* the variants a proposal cannot hold
  Names,       \* display names the demands may have: functions [Demands -> Titles]
  Proposals,   \* what the planner may propose: functions [Demands -> Seq(Titles)]
  Settings,    \* settings the stage may be run with
  MaxResults   \* bound: sources in one answer

SettingNames == {"hypothesisCalls", "proposed", "accepted", "initial", "tasks", "calls",
                 "verifications", "laneRevisions", "retries", "recovery"}

ASSUME DecisionsAssumption ==
  /\ Decisions \subseteq Nat \ {0} /\ IsFiniteSet(Decisions)
  /\ DemandOf \in [Decisions -> Demands]
  /\ Official \subseteq Decisions
ASSUME TitlesAssumption ==
  /\ Usable \subseteq Titles /\ Overlong \subseteq Titles
  /\ Names \subseteq [Demands -> Titles]
  /\ Proposals \subseteq [Demands -> Seq(Titles)]
\* the profile takes at most 8 demands of 3 lanes and plans up to 24 tasks
ASSUME SettingsAssumption ==
  \A s \in Settings : s \in [SettingNames -> Nat] /\ Cardinality(Decisions) <= s.initial
ASSUME ResultsAssumption == MaxResults \in Nat

VARIABLES
  settings,      \* PeopleSearchBudgetSettings
  fallback,      \* display name of each demand, its last title variant
  stage,         \* "planning", "initial", "revisions", then how the stage ended
  planCalls,     \* hypothesis_provider_calls
  accepted,      \* accepted title hypotheses: [Demands -> SUBSET Titles]
  decision,      \* status of the lane decisions
  todo,          \* decisions whose task, or revised task, is still to be taken up
  task,          \* the task being executed: [at, attempts, last], or NoTask
  receipt,       \* receipt of the task of a decision: [Decisions -> Receipt]
  revised,       \* receipt of its revised task: [Decisions -> Receipt]
  leads,         \* source leads kept: [Decisions -> Nat]
  spent,         \* budget counters
  exhausted      \* whether there is an exhaustion event

vars == <<settings, fallback, stage, planCalls, accepted, decision, todo, task, receipt, revised,
          leads, spent, exhausted>>

-----------------------------------------------------------------------------
Successes == {"searched_results", "searched_no_results"}
Errors == {"provider_error", "schema_error"}
DecisionStatus == {"scheduled", "executed", "not_executable", "budget_limited"}
Stages == {"planning", "initial", "revisions", "completed", "completed_with_limits", "failed"}
Counters == {"tasks", "calls", "retries", "revisions", "verifications"}

NoTask == [at |-> 0, attempts |-> 0, last |-> "none"]
NoReceipt == [outcome |-> "none", attempts |-> 0, sources |-> 0]
HasReceipt(p) == receipt[p].outcome # "none"
WasRevised(p) == revised[p].outcome # "none"

-----------------------------------------------------------------------------
(* Planning *)

\* _rejection_reason with the fallback appended: the variant at place i is
\* usable, new, and within the limit of accepted variants
Accepts(variants, i) ==
  LET fresh == {j \in 1..i : /\ variants[j] \in Usable
                             /\ \A k \in 1..(j - 1) : variants[k] # variants[j]}
  IN  i \in fresh /\ Cardinality(fresh) <= settings.accepted

Proposed(values, d) ==
  LET n == IF Len(values[d]) < settings.proposed THEN Len(values[d]) ELSE settings.proposed
  IN  SubSeq(values[d], 1, n)

AcceptedTitles(values, d) ==
  LET variants == Append(Proposed(values, d), fallback[d])
  IN  {variants[i] : i \in {j \in DOMAIN variants : Accepts(variants, j)}}

Unplannable(values) ==
  \E d \in Demands : \/ \E i \in DOMAIN Proposed(values, d) : Proposed(values, d)[i] \in Overlong
                    \/ AcceptedTitles(values, d) = {}

NothingProposed == [d \in Demands |-> <<>>]

Scheduled == {p \in Decisions : decision[p] = "scheduled"}

\* Mutated form: the plan stops one task short of the limit of initial tasks.
ShortPlan == {p \in Scheduled : Cardinality({q \in Scheduled : q < p}) < settings.initial - 1}
\* compile: the first scheduled decisions, up to the limit of initial tasks
PlannedTasks == {p \in Scheduled : Cardinality({q \in Scheduled : q < p}) < settings.initial}

Init ==
  /\ settings \in Settings
  /\ fallback \in Names
  /\ stage = "planning"
  /\ planCalls = 0
  /\ accepted = [d \in Demands |-> {}]
  /\ \E domain \in BOOLEAN :
       decision = [p \in Decisions |-> IF p \in Official /\ ~ domain THEN "not_executable" ELSE "scheduled"]
  /\ todo = {}
  /\ task = NoTask
  /\ receipt = [p \in Decisions |-> NoReceipt]
  /\ revised = [p \in Decisions |-> NoReceipt]
  /\ leads = [p \in Decisions |-> 0]
  /\ spent = [c \in Counters |-> 0]
  /\ exhausted = FALSE

\* accept and compile; a variant that is too long, or a demand left without an
\* accepted title, fails the stage
Plan(values) ==
  /\ stage = "planning"
  /\ IF Unplannable(values)
     THEN /\ stage' = "failed"
          /\ UNCHANGED <<accepted, todo>>
     ELSE /\ stage' = "initial"
          /\ accepted' = [d \in Demands |-> AcceptedTitles(values, d)]
          /\ todo' = PlannedTasks
  /\ UNCHANGED <<settings, fallback, decision, task, receipt, revised, leads, spent, exhausted>>

\* the planner proposes titles, possibly none
ProposeTitles(values) ==
  /\ planCalls < settings.hypothesisCalls
  /\ planCalls' = planCalls + 1
  /\ Plan(values)

\* the proposal does not fit the schema and is asked for again
RejectProposal ==
  /\ stage = "planning" /\ planCalls < settings.hypothesisCalls
  /\ planCalls' = planCalls + 1
  /\ UNCHANGED <<settings, fallback, stage, accepted, decision, todo, task, receipt, revised,
                 leads, spent, exhausted>>

\* no planner, or no call left to ask it: the fallback alone
PlanFromFallback ==
  /\ planCalls = settings.hypothesisCalls
  /\ planCalls' = planCalls
  /\ Plan(NothingProposed)

\* the planner cannot be reached: the exception leaves the stage
PlannerFails ==
  /\ stage = "planning" /\ planCalls < settings.hypothesisCalls
  /\ planCalls' = planCalls + 1
  /\ stage' = "failed"
  /\ UNCHANGED <<settings, fallback, accepted, decision, todo, task, receipt, revised, leads,
                 spent, exhausted>>

-----------------------------------------------------------------------------
(* Execution *)

First(p) == p \in todo /\ \A q \in todo : p <= q

TaskBudgetLeft == spent.tasks < settings.tasks
RevisionLimit ==
  IF settings.tasks < settings.initial THEN 0
  ELSE IF settings.recovery < settings.tasks - settings.initial THEN settings.recovery
       ELSE settings.tasks - settings.initial
RevisionAllowed == settings.laneRevisions >= 1 /\ spent.revisions < RevisionLimit

Take(p) ==
  /\ todo' = todo \ {p}
  /\ task' = [at |-> p, attempts |-> 0, last |-> "none"]

TakeTask(p) ==
  /\ stage = "initial" /\ task = NoTask /\ First(p)
  /\ TaskBudgetLeft
  /\ Take(p)
  /\ spent' = [spent EXCEPT !.tasks = @ + 1]
  /\ UNCHANGED <<settings, fallback, stage, planCalls, accepted, decision, receipt, revised, leads, exhausted>>

RefuseTask(p) ==
  /\ stage = "initial" /\ task = NoTask /\ First(p)
  /\ ~ TaskBudgetLeft
  /\ todo' = todo \ {p}
  /\ decision' = [decision EXCEPT ![p] = "budget_limited"]
  /\ exhausted' = TRUE
  /\ UNCHANGED <<settings, fallback, stage, planCalls, accepted, task, receipt, revised, leads, spent>>

\* initial_receipts: only a search that came back empty is revised
StartRevisions ==
  /\ stage = "initial" /\ task = NoTask /\ todo = {}
  /\ stage' = "revisions"
  /\ todo' = {p \in Decisions : receipt[p].outcome = "searched_no_results"}
  /\ UNCHANGED <<settings, fallback, planCalls, accepted, decision, task, receipt, revised, leads, spent, exhausted>>

\* the revision limit keeps the task budget from being asked in vain
TakeRevision(p) ==
  /\ stage = "revisions" /\ task = NoTask /\ First(p)
  /\ RevisionAllowed
  /\ Take(p)
  /\ spent' = [spent EXCEPT !.revisions = @ + 1, !.tasks = @ + 1]
  /\ UNCHANGED <<settings, fallback, stage, planCalls, accepted, decision, receipt, revised, leads, exhausted>>

SkipRevision(p) ==
  /\ stage = "revisions" /\ task = NoTask /\ First(p)
  /\ ~ RevisionAllowed
  /\ todo' = todo \ {p}
  /\ UNCHANGED <<settings, fallback, stage, planCalls, accepted, decision, task, receipt, revised,
                 leads, spent, exhausted>>

\* verification_capacity: how many of the sources may become leads
Capacity(sources) ==
  IF settings.verifications - spent.verifications < sources
  THEN settings.verifications - spent.verifications ELSE sources

\* receipt, leads and decision of the task; more: calls and retries to be added
Record(outcome, attempts, sources, more) ==
  LET p == task.at
      made == [outcome |-> outcome, attempts |-> attempts, sources |-> sources]
  IN  /\ IF stage = "initial"
         THEN /\ receipt' = [receipt EXCEPT ![p] = made]
              /\ decision' = [decision EXCEPT ![p] = "executed"]
              /\ revised' = revised
         ELSE /\ revised' = [revised EXCEPT ![p] = made]
              /\ UNCHANGED <<receipt, decision>>
      /\ leads' = [leads EXCEPT ![p] = @ + Capacity(sources)]
      /\ spent' = [spent EXCEPT !.calls = @ + more[1], !.retries = @ + more[2],
                                !.verifications = @ + Capacity(sources)]
      /\ task' = NoTask

MayCall == task # NoTask /\ spent.calls < settings.calls
RetryCost == IF task.attempts > 0 THEN 1 ELSE 0

\* the provider answers
Answer(sources) ==
  /\ MayCall
  /\ Record(IF sources > 0 THEN "searched_results" ELSE "searched_no_results",
            task.attempts + 1, sources, <<1, RetryCost>>)
  /\ exhausted' = (exhausted \/ Capacity(sources) < sources)
  /\ UNCHANGED <<settings, fallback, stage, planCalls, accepted, todo>>

\* the call fails, and the task may be tried again
FailCall(error) ==
  /\ MayCall /\ task.attempts < settings.retries
  /\ task' = [task EXCEPT !.attempts = @ + 1, !.last = error]
  /\ spent' = [spent EXCEPT !.calls = @ + 1, !.retries = @ + RetryCost]
  /\ UNCHANGED <<settings, fallback, stage, planCalls, accepted, decision, todo, receipt, revised,
                 leads, exhausted>>

\* the call fails for the last time
FailTask(error) ==
  /\ MayCall /\ task.attempts = settings.retries
  /\ Record(error, task.attempts + 1, 0, <<1, RetryCost>>)
  /\ UNCHANGED <<settings, fallback, stage, planCalls, accepted, todo, exhausted>>

\* no provider call is left for a retry: the receipt shows the failed attempts
StopRetrying ==
  /\ task # NoTask /\ ~ MayCall
  /\ task.attempts > 0
  /\ Record(task.last, task.attempts, 0, <<0, 0>>)
  /\ exhausted' = TRUE
  /\ UNCHANGED <<settings, fallback, stage, planCalls, accepted, todo>>

\* no provider call is left at all: a receipt needs an attempt, so building it
\* raises and the stage is lost
LoseStage ==
  /\ task # NoTask /\ ~ MayCall
  /\ task.attempts = 0
  /\ stage' = "failed"
  /\ task' = NoTask
  /\ todo' = {}
  /\ exhausted' = TRUE
  /\ UNCHANGED <<settings, fallback, planCalls, accepted, decision, receipt, revised, leads, spent>>

-----------------------------------------------------------------------------
(* Checkpoints *)

Of(d) == {p \in Decisions : DemandOf[p] = d}

\* Mutated form: the checkpoint reads the receipt of the initial task only.
InitialOutcome(p) == receipt[p].outcome
\* receipt_by_decision: the receipt of a revised task replaces the initial one
LastOutcome(p) == IF WasRevised(p) THEN revised[p].outcome ELSE receipt[p].outcome

RoleLeads(d) == {p \in Of(d) : leads[p] > 0}

CoverageState(d) ==
  LET statuses == {decision[p] : p \in Of(d)}
      outcomes == {LastOutcome(p) : p \in Of(d)}
  IN  CASE "budget_limited" \in statuses -> "incomplete_budget"
        [] "budget_limited" \notin statuses /\ "not_executable" \in statuses -> "incomplete_capability"
        [] statuses \cap {"budget_limited", "not_executable"} = {} /\ outcomes \cap Errors # {} ->
             "incomplete_provider"
        [] statuses \cap {"budget_limited", "not_executable"} = {} /\ outcomes \cap Errors = {} ->
             IF RoleLeads(d) # {} THEN "complete_with_leads" ELSE "complete_no_leads"

CompleteStates == {"complete_with_leads", "complete_no_leads"}

Close ==
  /\ stage = "revisions" /\ task = NoTask /\ todo = {}
  /\ stage' = IF exhausted \/ \E d \in Demands : CoverageState(d) \notin CompleteStates
              THEN "completed_with_limits" ELSE "completed"
  /\ UNCHANGED <<settings, fallback, planCalls, accepted, decision, todo, task, receipt, revised,
                 leads, spent, exhausted>>

Next ==
  \/ \E values \in Proposals : ProposeTitles(values)
  \/ RejectProposal
  \/ PlanFromFallback
  \/ PlannerFails
  \/ \E p \in Decisions : TakeTask(p)
  \/ \E p \in Decisions : RefuseTask(p)
  \/ StartRevisions
  \/ \E p \in Decisions : TakeRevision(p)
  \/ \E p \in Decisions : SkipRevision(p)
  \/ \E sources \in 0..MaxResults : Answer(sources)
  \/ \E error \in Errors : FailCall(error)
  \/ \E error \in Errors : FailTask(error)
  \/ StopRetrying
  \/ LoseStage
  \/ Close

Spec == Init /\ [][Next]_vars

-----------------------------------------------------------------------------
(* Properties *)

ReceiptType == [outcome : {"none"} \cup Successes \cup Errors, attempts : Nat, sources : Nat]

\* The values the stage's state ranges over.
TypeOK ==
  /\ settings \in Settings
  /\ fallback \in Names
  /\ stage \in Stages
  /\ planCalls \in 0..settings.hypothesisCalls
  /\ accepted \in [Demands -> SUBSET Titles]
  /\ decision \in [Decisions -> DecisionStatus]
  /\ todo \subseteq Decisions
  /\ task \in {NoTask} \cup [at : Decisions, attempts : Nat, last : {"none"} \cup Errors]
  /\ receipt \in [Decisions -> ReceiptType]
  /\ revised \in [Decisions -> ReceiptType]
  /\ leads \in [Decisions -> Nat]
  /\ spent \in [Counters -> Nat]
  /\ exhausted \in BOOLEAN

Ended == stage \in {"completed", "completed_with_limits"}

\* PW-PS-LANE: mandatory lane decisions do not disappear.  A stage that ends
\* with an artifact has settled every decision, and exactly the executed ones
\* have a receipt; nothing was searched under titles nobody accepted.
NoLaneDisappears ==
  Ended =>
    /\ \A p \in Decisions : decision[p] # "scheduled"
    /\ \A p \in Decisions : decision[p] = "executed" <=> HasReceipt(p)
    /\ \A p \in Decisions : HasReceipt(p) => accepted[DemandOf[p]] # {}

\* PW-PS-NEG-01: a role is called complete without leads only if each of its
\* lanes was searched and every receipt, of an initial or a revised task,
\* shows a search that was done; a failure never counts as an empty result.
NegativeIsSearched ==
  Ended => \A d \in Demands : CoverageState(d) = "complete_no_leads" =>
    \A p \in Of(d) : /\ receipt[p].outcome \in Successes
                    /\ WasRevised(p) => revised[p].outcome \in Successes

Receipts == {p \in Decisions : HasReceipt(p)}
Revisions == {p \in Decisions : WasRevised(p)}

\* PW-PS-AUD-01: the budget report agrees with the receipts.  Every task that
\* was counted has one, but for the task in flight; every provider call is
\* the first attempt of a receipt or a retry.
AuditAddsUp ==
  stage # "failed" =>
    /\ spent.tasks = Cardinality(Receipts) + Cardinality(Revisions) + (IF task = NoTask THEN 0 ELSE 1)
    /\ spent.calls = Cardinality(Receipts) + Cardinality(Revisions) + spent.retries
                      + (IF task.attempts > 0 THEN 1 ELSE 0)

\* PW-PS-BUD-01: the budgets hold together.  No order of retries and revisions
\* exceeds a limit, and revisions never use up the tasks meant for the plan.
BudgetsHold ==
  /\ spent.tasks <= settings.tasks
  /\ spent.calls <= settings.calls
  /\ spent.verifications <= settings.verifications
  /\ spent.retries <= settings.retries * spent.tasks
=============================================================================
