-------------------------- MODULE ExternalCallBudget --------------------------
(***************************************************************************)
(* The external-call budget of one candidate-discovery run and the work    *)
(* admission that spends it (RadarExternalCallBudget, RadarWorkScheduler). *)
(* Everything runs in one thread: the planner, then regular web tasks,     *)
(* interrupted by recall-expansion portfolios, which are admitted item by  *)
(* item and then executed in order.  The hard part is not concurrency but  *)
(* the overlap of limits: a role limit, a total limit, a reserve for work  *)
(* not yet admitted and one reserved first call for each guaranteed task,  *)
(* all kept under task ids that later portfolios use again.                *)
(***************************************************************************)
EXTENDS Naturals, FiniteSets

CONSTANTS
  Limit,          \* [Kinds \cup {"provider_retry"} -> Nat \cup {None}]
  SliceLimit,     \* [reserve keys -> Nat \cup {None}]: budget_reserve_limits
  None,           \* no limit configured
  Planner,        \* the retry key of the discovery planner
  RegularTasks,   \* ids of discovery, gate and coverage tasks
  Bases,          \* tasks that recall expansion starts from
  MaxItems,       \* bound: items of one portfolio
  MaxMinimum,     \* bound: sum of benchmark_target_probe_minimums
  MaxSearches     \* bound: server-tool searches one provider call reports

VARIABLES
  calls,       \* [Kinds -> Nat]: counts
  retries,     \* [RetryKeys -> Nat]: counts of "provider_retry:<task>"
  slices,      \* [reserve keys -> Nat]: reserve_counts
  units,       \* total reserve of the recall_expansion lane, 0 when there is none
  protected,   \* protected_recall_expansion_tasks
  guaranteed,  \* guaranteed_recall_expansion_tasks
  firstUsed,   \* guaranteed_recall_expansion_first_calls_used
  phase,       \* what the run is doing
  base,        \* base task of the current portfolio
  size,        \* its number of items
  lead,        \* the first `lead` items have the role "guaranteed"
  next,        \* the item admission looks at
  accepted,    \* ids of accepted items that have not been executed
  attempt      \* calls of the current provider round: 0, 1, or 2 after the fallback

budget == <<calls, retries, slices, units, protected, guaranteed, firstUsed>>
portfolio == <<base, size, lead, next>>
vars == <<budget, phase, portfolio, accepted, attempt>>

-----------------------------------------------------------------------------
Total == "openrouter"
Plan == "openrouter_planner"
Web == "openrouter_web_task"
Recall == "openrouter_recall_expansion"
Searches == "openrouter_server_tool_web_search"
Lookups == {"dadata", "source_verification"}
Kinds == {Total, Plan, Web, Recall, Searches} \cup Lookups
Retry == "provider_retry"

\* Recall-expansion tasks are numbered within their portfolio, so a second
\* portfolio with the same base task has the same ids.
Items == Bases \X (1 .. MaxItems)
RetryKeys == {Planner} \cup RegularTasks \cup Items
ReserveKeys == DOMAIN SliceLimit
LimitOrNone == Nat \cup {None}

ASSUME LimitsAssumption ==
  /\ Limit \in [Kinds \cup {Retry} -> LimitOrNone]
  /\ SliceLimit \in [ReserveKeys -> LimitOrNone]
  /\ None \notin Nat

ASSUME BoundsAssumption == {MaxItems, MaxMinimum, MaxSearches} \subseteq Nat

ASSUME TasksAssumption ==
  /\ IsFiniteSet(Bases)
  /\ RegularTasks \cap Items = {}

Below(count, limit) == limit # None => count < limit
HasRoom(kind) == Below(calls[kind], Limit[kind])

Init ==
  /\ calls = [k \in Kinds |-> 0]
  /\ retries = [t \in RetryKeys |-> 0]
  /\ slices = [k \in ReserveKeys |-> 0]
  /\ units = 0
  /\ protected = {}
  /\ guaranteed = {}
  /\ firstUsed = {}
  /\ phase = "planning"
  /\ base = None
  /\ size = 0
  /\ lead = 0
  /\ next = 1
  /\ accepted = {}
  /\ attempt = 0

-----------------------------------------------------------------------------
(* reserve_openrouter_http_call for web tasks. *)

\* Guaranteed tasks whose reserved first call is still to be made.
Unserved == guaranteed \ firstUsed

\* Mutated form: the lane's units are forgotten until a guaranteed task is admitted.
ReservedRemainingOfTasks == IF units = 0 THEN 0 ELSE Cardinality(Unserved)

\* Total capacity held back from regular web tasks: before any guaranteed task is
\* admitted what is left of the lane's units, then one call per unserved task.
ReservedRemaining ==
  IF units = 0 THEN 0
  ELSE IF guaranteed # {} THEN Cardinality(Unserved)
  ELSE IF calls[Recall] < units THEN units - calls[Recall] ELSE 0

\* Mutated form: searches already over the limit do not stop regular calls.
RegularCallAllowedWithoutSearches ==
  /\ ReservedRemaining = 0 \/ Below(calls[Total] + ReservedRemaining, Limit[Total])
  /\ HasRoom(Total)
  /\ HasRoom(Web)

RegularCallAllowed ==
  /\ ReservedRemaining = 0 \/ Below(calls[Total] + ReservedRemaining, Limit[Total])
  /\ HasRoom(Total)
  /\ HasRoom(Searches)
  /\ HasRoom(Web)

\* Mutated form: only the recall limit counts, whoever's call it is.
LeavesFirstCallsToChance(task) == HasRoom(Recall)

\* A retry, a fallback or optional work leaves a call for each unserved task.
LeavesFirstCalls(task) ==
  \/ task \in Unserved
  \/ Unserved = {}
  \/ Below(calls[Recall] + Cardinality(Unserved), Limit[Recall])

\* Mutated form: a protected slot bypasses the total limit.
ProtectedCallAllowedBeyondTotal(task) ==
  LeavesFirstCalls(task) /\ HasRoom(Searches) /\ HasRoom(Recall)

ProtectedCallAllowed(task) ==
  /\ LeavesFirstCalls(task)
  /\ HasRoom(Total)
  /\ HasRoom(Searches)
  /\ HasRoom(Recall)

WebCallAllowed(task) ==
  IF task \in protected THEN ProtectedCallAllowed(task) ELSE RegularCallAllowed

Role(task) == IF task \in protected THEN Recall ELSE Web

\* The call is counted under its role and in the total, and after the answer the
\* server-tool searches it reported are added.
RecordWebCall(task, searches) ==
  /\ calls' = [calls EXCEPT ![Role(task)] = @ + 1, ![Total] = @ + 1,
                            ![Searches] = @ + searches]
  /\ firstUsed' = firstUsed \cup ({task} \cap protected \cap guaranteed)

\* A refused call changes no counter.
TryWebCall(task, searches) ==
  IF WebCallAllowed(task)
  THEN RecordWebCall(task, searches)
  ELSE UNCHANGED <<calls, firstUsed>>

SpendRetry(task) ==
  /\ Below(retries[task], Limit[Retry])
  /\ retries' = [retries EXCEPT ![task] = @ + 1]

-----------------------------------------------------------------------------
(* Planning, then regular tasks. *)

PlannerCallAllowed == HasRoom(Total) /\ HasRoom(Plan)

RecordPlannerCall == calls' = [calls EXCEPT ![Plan] = @ + 1, ![Total] = @ + 1]

PlannerCall ==
  /\ phase = "planning"
  /\ PlannerCallAllowed
  /\ RecordPlannerCall
  /\ UNCHANGED <<retries, slices, units, protected, guaranteed, firstUsed,
                 phase, portfolio, accepted, attempt>>

\* A further planner attempt spends a retry first, also when its call is refused.
PlannerRetry ==
  /\ phase = "planning"
  /\ SpendRetry(Planner)
  /\ IF PlannerCallAllowed THEN RecordPlannerCall ELSE UNCHANGED calls
  /\ UNCHANGED <<slices, units, protected, guaranteed, firstUsed,
                 phase, portfolio, accepted, attempt>>

\* _positive reads a limit of 0 as no limit.
Positive(limit) == limit # None /\ limit > 0
Capped(n, limit) == IF Positive(limit) /\ limit < n THEN limit ELSE n

\* configure_run_admission: execution starts, and reserves units for the lane
\* minimums of a benchmark profile (0: no profile or no minimums).
BeginExecution(minimum) ==
  /\ phase = "planning"
  /\ phase' = "regular"
  /\ units' = Capped(Capped(minimum, Limit[Recall]), Limit[Total])
  /\ UNCHANGED <<calls, retries, slices, protected, guaranteed, firstUsed,
                 portfolio, accepted, attempt>>

RegularCall(task, searches) ==
  /\ phase = "regular"
  /\ WebCallAllowed(task)
  /\ RecordWebCall(task, searches)
  /\ UNCHANGED <<retries, slices, units, protected, guaranteed,
                 phase, portfolio, accepted, attempt>>

RegularRetry(task, searches) ==
  /\ phase = "regular"
  /\ SpendRetry(task)
  /\ TryWebCall(task, searches)
  /\ UNCHANGED <<slices, units, protected, guaranteed,
                 phase, portfolio, accepted, attempt>>

\* reserve: DaData lookups and source verification requests.
Lookup(kind) ==
  /\ phase \in {"regular", "execute"}
  /\ HasRoom(kind)
  /\ calls' = [calls EXCEPT ![kind] = @ + 1]
  /\ UNCHANGED <<retries, slices, units, protected, guaranteed, firstUsed,
                 phase, portfolio, accepted, attempt>>

-----------------------------------------------------------------------------
(* build_recall_expansion_portfolio: admission. *)

\* schedule_guaranteed_expansion_variants puts the guaranteed variants first.
BeginPortfolio(b, items, leading) ==
  /\ phase = "regular"
  /\ leading <= items
  /\ phase' = "admit"
  /\ base' = b
  /\ size' = items
  /\ lead' = leading
  /\ next' = 1
  /\ UNCHANGED <<budget, accepted, attempt>>

Planned == Cardinality(accepted)

\* _planned_recall_capacity_block, which ignores a limit of 0.
FitsPlan(kind) == Positive(Limit[kind]) => calls[kind] + Planned + 1 <= Limit[kind]

\* check_recall_expansion_openrouter_capacity, which does not.
PreflightPasses == HasRoom(Total) /\ HasRoom(Searches) /\ HasRoom(Recall)

Admissible(key) ==
  /\ FitsPlan(Recall)
  /\ FitsPlan(Total)
  /\ PreflightPasses
  /\ Below(slices[key], SliceLimit[key])

IsLead(item) == item[2] <= lead

AdmitItem(key) ==
  /\ phase = "admit"
  /\ next <= size
  /\ next' = next + 1
  /\ LET item == <<base, next>> IN
       IF Admissible(key)
       THEN /\ slices' = [slices EXCEPT ![key] = @ + 1]
            /\ protected' = protected \cup {item}
            /\ guaranteed' = IF IsLead(item) THEN guaranteed \cup {item} ELSE guaranteed
            /\ accepted' = accepted \cup {item}
       ELSE UNCHANGED <<slices, protected, guaranteed, accepted>>
  /\ UNCHANGED <<calls, retries, units, firstUsed, phase, base, size, lead, attempt>>

EndAdmission ==
  /\ phase = "admit"
  /\ next > size
  /\ phase' = "execute"
  /\ UNCHANGED <<budget, portfolio, accepted, attempt>>

-----------------------------------------------------------------------------
(* _execute_portfolio: accepted items in order, each through run_task. *)

Turn(item) ==
  /\ phase = "execute"
  /\ item \in accepted
  /\ \A other \in accepted : item[2] <= other[2]

Done(item) == accepted' = accepted \ {item} /\ attempt' = 0

\* The semantic task budget refuses the task before the provider sees it.
SkipItem(item) ==
  /\ Turn(item)
  /\ attempt = 0
  /\ Done(item)
  /\ UNCHANGED <<budget, phase, portfolio>>

\* The first call of a provider round, or its fallback to the web plugin; a refused
\* call ends the item.
CallItem(item, searches) ==
  /\ Turn(item)
  /\ attempt < 2
  /\ TryWebCall(item, searches)
  /\ IF WebCallAllowed(item)
     THEN attempt' = attempt + 1 /\ UNCHANGED accepted
     ELSE Done(item)
  /\ UNCHANGED <<retries, slices, units, protected, guaranteed, phase, portfolio>>

\* An unusable answer opens another round, after a retry has been reserved.
RetryItem(item, searches) ==
  /\ Turn(item)
  /\ attempt > 0
  /\ SpendRetry(item)
  /\ TryWebCall(item, searches)
  /\ IF WebCallAllowed(item)
     THEN attempt' = 1 /\ UNCHANGED accepted
     ELSE Done(item)
  /\ UNCHANGED <<slices, units, protected, guaranteed, phase, portfolio>>

FinishItem(item) ==
  /\ Turn(item)
  /\ attempt > 0
  /\ Done(item)
  /\ UNCHANGED <<budget, phase, portfolio>>

EndPortfolio ==
  /\ phase = "execute"
  /\ accepted = {}
  /\ phase' = "regular"
  /\ base' = None
  /\ size' = 0
  /\ lead' = 0
  /\ next' = 1
  /\ UNCHANGED <<budget, accepted, attempt>>

-----------------------------------------------------------------------------
Reported == 0 .. MaxSearches

Next ==
  \/ PlannerCall
  \/ PlannerRetry
  \/ \E minimum \in 0 .. MaxMinimum : BeginExecution(minimum)
  \/ \E task \in RegularTasks, searches \in Reported :
       RegularCall(task, searches) \/ RegularRetry(task, searches)
  \/ \E kind \in Lookups : Lookup(kind)
  \/ \E b \in Bases, items, leading \in 0 .. MaxItems : BeginPortfolio(b, items, leading)
  \/ \E key \in ReserveKeys : AdmitItem(key)
  \/ EndAdmission
  \/ \E item \in Items :
       \/ SkipItem(item)
       \/ \E searches \in Reported : CallItem(item, searches) \/ RetryItem(item, searches)
       \/ FinishItem(item)
  \/ EndPortfolio

Spec == Init /\ [][Next]_vars

-----------------------------------------------------------------------------
\* Every variable holds a value of its kind.
TypeOK ==
  /\ calls \in [Kinds -> Nat]
  /\ retries \in [RetryKeys -> Nat]
  /\ slices \in [ReserveKeys -> Nat]
  /\ units \in Nat
  /\ protected \subseteq Items
  /\ guaranteed \subseteq protected
  /\ firstUsed \subseteq guaranteed
  /\ phase \in {"planning", "regular", "admit", "execute"}
  /\ base \in Bases \cup {None}
  /\ phase \in {"admit", "execute"} => base \in Bases
  /\ size \in 0 .. MaxItems
  /\ lead \in 0 .. size
  /\ next \in 1 .. (MaxItems + 1)
  /\ accepted \subseteq protected
  /\ attempt \in 0 .. 2

\* The hard limits: whatever path a call took, no role, no total, no lookup and no
\* task's retries exceed what is configured (external_budget.py:34-57).
CallsWithinLimits ==
  /\ \A k \in Kinds \ {Searches} : Limit[k] # None => calls[k] <= Limit[k]
  /\ \A t \in RetryKeys : Limit[Retry] # None => retries[t] <= Limit[Retry]

\* A call is counted once under its role and once in the total, or not at all: the
\* two reservations of one call never part (external_budget.py:59-88, 134-165).
RolesSumToTotal == calls[Total] = calls[Plan] + calls[Web] + calls[Recall]

\* Searches are only known after a call, so their limit can be overrun, but by no
\* more than the report of one call (external_budget.py:295-327).
OverrunIsOneCall ==
  Limit[Searches] # None /\ calls[Searches] > 0 =>
    calls[Searches] < Limit[Searches] + MaxSearches

\* Accepted items of the current portfolio whose reserved first call is unserved.
Pending == accepted \cap Unserved

\* However retries, fallbacks and optional work mix, the recall limit still has room
\* for every pending first call (external_budget.py:167-201, work_scheduler.py:346-387).
FirstCallsReserved ==
  Limit[Recall] # None => calls[Recall] + Cardinality(Pending) <= Limit[Recall]

\* What is left of the lane's total reserve.
ReserveLeft == IF calls[Recall] < units THEN units - calls[Recall] ELSE 0

\* Until guaranteed tasks are admitted, regular web calls leave the whole reserve of
\* the lane in the total limit (external_budget.py:254-285).
RegularWorkLeavesReserve ==
  Limit[Total] # None /\ guaranteed = {} /\ calls[Web] > 0 =>
    calls[Total] + ReserveLeft <= Limit[Total]

\* Each used first call was a call: marking is never ahead of counting.
FirstCallsWereMade == Cardinality(firstUsed) <= calls[Recall]

=============================================================================
