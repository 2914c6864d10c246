----------------------- MODULE PeopleSearchStageProofs -----------------------
(***************************************************************************)
(* Proofs, for any number of demands, lanes and titles and any settings,   *)
(* of what PeopleSearchStage promises about lanes, receipts and budgets.   *)
(* The strengthening says which decisions still wait for their task, that  *)
(* only an empty search is revised, and how the counters follow from the   *)
(* receipts.                                                               *)
(***************************************************************************)
EXTENDS PeopleSearchStage, FiniteSetTheorems, SequenceTheorems, TLAPS

InFlight == task # NoTask
Waits(p) == p \in todo \/ (InFlight /\ task.at = p)

\* the lane decisions, their receipts and the tasks that are still to come
LanesAreSettled ==
  stage # "failed" =>
    /\ \A p \in Decisions : decision[p] = "executed" <=> HasReceipt(p)
    /\ \A p \in Decisions : WasRevised(p) => receipt[p].outcome = "searched_no_results"
    /\ InFlight => task.at \in Decisions /\ task.at \notin todo
    /\ stage = "planning" => /\ todo = {} /\ ~ InFlight
                             /\ \A p \in Decisions : ~ HasReceipt(p) /\ ~ WasRevised(p)
    /\ stage = "initial" => \A p \in Decisions : /\ decision[p] = "scheduled" <=> Waits(p)
                                                 /\ ~ WasRevised(p)
    /\ stage = "revisions" => \A p \in Decisions : Waits(p) =>
                                receipt[p].outcome = "searched_no_results" /\ ~ WasRevised(p)
    /\ stage \in {"revisions", "completed", "completed_with_limits"} =>
         \A p \in Decisions : decision[p] # "scheduled"
    /\ stage \in {"completed", "completed_with_limits"} => todo = {} /\ ~ InFlight
    /\ stage # "planning" => \A d \in Demands : accepted[d] # {}

\* the counters that follow from the receipts
CountsAddUp ==
  stage # "failed" =>
    /\ spent.tasks = Cardinality(Receipts) + Cardinality(Revisions) + (IF InFlight THEN 1 ELSE 0)
    /\ spent.calls = Cardinality(Receipts) + Cardinality(Revisions) + spent.retries
                      + (IF task.attempts > 0 THEN 1 ELSE 0)
    /\ spent.revisions = Cardinality(Revisions) + (IF stage = "revisions" /\ InFlight THEN 1 ELSE 0)

\* the task in flight, and the retries of the tasks before it
TaskIsSound ==
  /\ task.attempts <= settings.retries
  /\ task.attempts > 0 => task.last \in Errors
  /\ spent.retries <= IF ~ InFlight THEN settings.retries * spent.tasks
                      ELSE settings.retries * (spent.tasks - 1)
                           + (IF task.attempts > 0 THEN task.attempts - 1 ELSE 0)
  /\ InFlight => spent.tasks > 0 /\ stage \in {"initial", "revisions"}
  /\ stage = "planning" => spent = [c \in Counters |-> 0]

Inv ==
  /\ TypeOK
  /\ LanesAreSettled
  /\ CountsAddUp
  /\ TaskIsSound
  /\ BudgetsHold

-----------------------------------------------------------------------------
LEMMA SettingsType ==
  ASSUME TypeOK
  PROVE  /\ settings \in [SettingNames -> Nat] /\ Cardinality(Decisions) <= settings.initial
         /\ settings.tasks \in Nat /\ settings.initial \in Nat /\ settings.retries \in Nat
         /\ settings.calls \in Nat /\ settings.verifications \in Nat /\ settings.proposed \in Nat
         /\ settings.recovery \in Nat /\ settings.hypothesisCalls \in Nat
         /\ settings.laneRevisions \in Nat
BY SettingsAssumption DEF TypeOK, SettingNames

LEMMA TaskType ==
  ASSUME TypeOK
  PROVE  /\ task.attempts \in Nat
         /\ InFlight => task.at \in Decisions /\ task.last \in {"none"} \cup Errors
         /\ ~ InFlight => task.attempts = 0 /\ task.at = 0
BY DEF TypeOK, InFlight, NoTask

LEMMA SpentType ==
  ASSUME TypeOK
  PROVE  /\ spent.tasks \in Nat /\ spent.calls \in Nat /\ spent.retries \in Nat
         /\ spent.revisions \in Nat /\ spent.verifications \in Nat
BY DEF TypeOK, Counters

LEMMA CountsAreNumbers ==
  /\ IsFiniteSet(Receipts) /\ IsFiniteSet(Revisions)
  /\ Cardinality(Receipts) \in Nat /\ Cardinality(Revisions) \in Nat
  /\ Cardinality(Receipts) <= Cardinality(Decisions) /\ Cardinality(Decisions) \in Nat
<1>1. Receipts \subseteq Decisions /\ Revisions \subseteq Decisions
  BY DEF Receipts, Revisions
<1>2. IsFiniteSet(Decisions)
  BY DecisionsAssumption
<1>. QED
  BY <1>1, <1>2, FS_Subset, FS_CardinalityType

\* Every scheduled decision has a task: the limit of initial tasks is not
\* reached by the lanes of the demands.
LEMMA AllScheduledArePlanned == ASSUME TypeOK PROVE PlannedTasks = Scheduled
<1>1. ASSUME NEW p \in Scheduled
      PROVE  Cardinality({q \in Scheduled : q < p}) < settings.initial
  <2>. DEFINE before == {q \in Scheduled : q < p}
  <2>1. p \in Decisions /\ p \in Nat
    BY DecisionsAssumption DEF Scheduled
  <2>2. before \subseteq Decisions /\ p \notin before
    BY <2>1 DEF Scheduled
  <2>3. IsFiniteSet(Decisions) /\ before # Decisions
    BY <2>1, <2>2, DecisionsAssumption
  <2>4. Cardinality(before) \in Nat /\ Cardinality(Decisions) \in Nat
    BY <2>2, <2>3, FS_Subset, FS_CardinalityType
  <2>5. /\ Cardinality(before) <= Cardinality(Decisions)
        /\ Cardinality(before) = Cardinality(Decisions) => before = Decisions
    <3>. HIDE DEF before
    <3>. QED
      BY <2>2, <2>3, FS_Subset
  <2>. QED
    BY <2>3, <2>4, <2>5, SettingsType
<1>. QED
  BY <1>1 DEF PlannedTasks

LEMMA AcceptedTitlesAreTitles ==
  ASSUME TypeOK, NEW d \in Demands, NEW values \in [Demands -> Seq(Titles)]
  PROVE  AcceptedTitles(values, d) \in SUBSET Titles
<1>. DEFINE n == IF Len(values[d]) < settings.proposed THEN Len(values[d]) ELSE settings.proposed
            variants == Append(SubSeq(values[d], 1, n), fallback[d])
<1>1. values[d] \in Seq(Titles) /\ n \in Nat /\ n <= Len(values[d])
  BY SettingsType
<1>2. SubSeq(values[d], 1, n) \in Seq(Titles)
  BY <1>1
<1>3. fallback[d] \in Titles
  BY TitlesAssumption DEF TypeOK
<1>4. variants \in Seq(Titles)
  BY <1>2, <1>3
<1>5. AcceptedTitles(values, d) = {variants[i] : i \in {j \in DOMAIN variants : Accepts(variants, j)}}
  BY DEF AcceptedTitles, Proposed
<1>. HIDE DEF variants
<1>. QED
  BY <1>4, <1>5

LEMMA StageStarts == Init => Inv
<1>. SUFFICES ASSUME Init PROVE Inv
  OBVIOUS
<1>1. settings \in [SettingNames -> Nat]
  BY SettingsAssumption DEF Init
<1>2. decision \in [Decisions -> {"scheduled", "not_executable"}]
  BY DEF Init
<1>3. TypeOK
  <2>1. NoReceipt \in ReceiptType
    BY DEF NoReceipt, ReceiptType
  <2>2. decision \in [Decisions -> DecisionStatus]
    BY <1>2 DEF DecisionStatus
  <2>3. planCalls \in 0..settings.hypothesisCalls
    BY <1>1 DEF Init, SettingNames
  <2>4. stage \in Stages
    BY DEF Init, Stages
  <2>. QED
    BY <2>1, <2>2, <2>3, <2>4 DEF Init, TypeOK
<1>4. Receipts = {} /\ Revisions = {} /\ ~ InFlight
  BY DEF Init, Receipts, Revisions, HasReceipt, WasRevised, NoReceipt, InFlight
<1>5. LanesAreSettled
  BY <1>2, <1>4 DEF Init, LanesAreSettled, Receipts, Revisions
<1>6. Cardinality(Receipts) = 0 /\ Cardinality(Revisions) = 0
  BY <1>4, FS_EmptySet
<1>7. CountsAddUp
  BY <1>4, <1>6 DEF Init, CountsAddUp, NoTask, Counters
<1>8. TaskIsSound /\ BudgetsHold
  BY <1>1, <1>3, <1>4, SettingsType DEF Init, TaskIsSound, BudgetsHold, NoTask, Counters
<1>. QED
  BY <1>3, <1>5, <1>7, <1>8 DEF Inv

-----------------------------------------------------------------------------
(* The steps *)

\* Steps that make no receipt and spend nothing.
LEMMA CountsStay ==
  ASSUME Inv, UNCHANGED <<settings, task, receipt, revised, spent>>,
         stage' = "failed" \/ stage # "failed",
         stage' = stage \/ ~ InFlight, stage' = "planning" => stage = "planning"
  PROVE  CountsAddUp' /\ TaskIsSound' /\ BudgetsHold'
<1>1. Receipts' = Receipts /\ Revisions' = Revisions /\ InFlight' = InFlight
  BY DEF Receipts, Revisions, HasReceipt, WasRevised, InFlight
<1>2. CountsAddUp'
  BY <1>1 DEF Inv, CountsAddUp
<1>3. TaskIsSound' /\ BudgetsHold'
  BY <1>1 DEF Inv, TaskIsSound, BudgetsHold
<1>. QED
  BY <1>2, <1>3

LEMMA PlanIsMade ==
  ASSUME Inv, stage = "planning", NEW values \in [Demands -> Seq(Titles)], Plan(values),
         planCalls' \in 0..settings.hypothesisCalls
  PROVE  Inv'
<1>1. UNCHANGED <<settings, fallback, decision, task, receipt, revised, leads, spent, exhausted>>
  BY DEF Plan
<1>2. CASE Unplannable(values)
  <2>1. stage' = "failed" /\ UNCHANGED <<accepted, todo>>
    BY <1>2 DEF Plan
  <2>2. TypeOK'
    BY <1>1, <2>1 DEF Inv, TypeOK, Stages
  <2>3. LanesAreSettled'
    BY <2>1 DEF LanesAreSettled
  <2>4. CountsAddUp' /\ TaskIsSound' /\ BudgetsHold'
    <3>1. ~ InFlight
      BY DEF Inv, LanesAreSettled
    <3>. QED
      BY <1>1, <2>1, <3>1, CountsStay
  <2>. QED
    BY <2>2, <2>3, <2>4 DEF Inv
<1>3. CASE ~ Unplannable(values)
  <2>1. /\ stage' = "initial"
        /\ accepted' = [d \in Demands |-> AcceptedTitles(values, d)]
        /\ todo' = Scheduled
    BY <1>3, AllScheduledArePlanned DEF Plan, Inv
  <2>2. \A d \in Demands : AcceptedTitles(values, d) \in SUBSET Titles
    BY AcceptedTitlesAreTitles DEF Inv
  <2>3. accepted' \in [Demands -> SUBSET Titles] /\ \A d \in Demands : accepted'[d] # {}
    BY <1>3, <2>1, <2>2 DEF Unplannable
  <2>4. TypeOK'
    BY <1>1, <2>1, <2>3 DEF Inv, TypeOK, Stages, Scheduled
  <2>5. ~ InFlight /\ ~ InFlight' /\ \A p \in Decisions : ~ WasRevised(p)
    BY <1>1 DEF Inv, LanesAreSettled, InFlight
  <2>6. LanesAreSettled'
    BY <1>1, <2>1, <2>3, <2>5 DEF Inv, LanesAreSettled, Waits, Scheduled, HasReceipt, WasRevised
  <2>7. CountsAddUp' /\ TaskIsSound' /\ BudgetsHold'
    BY <1>1, <2>1, <2>5, CountsStay
  <2>. QED
    BY <2>4, <2>6, <2>7 DEF Inv
<1>. QED
  BY <1>2, <1>3

LEMMA TitlesAreProposed ==
  ASSUME Inv, NEW values \in Proposals, ProposeTitles(values)
  PROVE  Inv'
<1>1. stage = "planning" /\ Plan(values)
  BY DEF ProposeTitles, Plan
<1>2. planCalls' \in 0..settings.hypothesisCalls
  BY SettingsType DEF Inv, TypeOK, ProposeTitles
<1>. QED
  BY <1>1, <1>2, PlanIsMade, TitlesAssumption

LEMMA FallbackIsPlanned ==
  ASSUME Inv, PlanFromFallback
  PROVE  Inv'
<1>1. stage = "planning" /\ Plan(NothingProposed)
  BY DEF PlanFromFallback, Plan
<1>2. planCalls' \in 0..settings.hypothesisCalls
  BY SettingsType DEF Inv, TypeOK, PlanFromFallback
<1>3. NothingProposed \in [Demands -> Seq(Titles)]
  BY DEF NothingProposed
<1>. QED
  BY <1>1, <1>2, <1>3, PlanIsMade

LEMMA PlanningContinues ==
  ASSUME Inv, RejectProposal \/ PlannerFails
  PROVE  Inv'
<1>1. /\ UNCHANGED <<settings, fallback, accepted, decision, todo, task, receipt, revised, leads,
                     spent, exhausted>>
      /\ stage = "planning" /\ stage' \in {"planning", "failed"}
      /\ planCalls < settings.hypothesisCalls /\ planCalls' = planCalls + 1
  BY DEF RejectProposal, PlannerFails
<1>2. planCalls' \in 0..settings.hypothesisCalls
  BY <1>1, SettingsType DEF Inv, TypeOK
<1>3. TypeOK'
  BY <1>1, <1>2 DEF Inv, TypeOK, Stages
<1>4. ~ InFlight /\ InFlight' = InFlight
  BY <1>1 DEF Inv, LanesAreSettled, InFlight
<1>5. LanesAreSettled'
  BY <1>1, <1>4 DEF Inv, LanesAreSettled, Waits, HasReceipt, WasRevised
<1>. QED
  BY <1>1, <1>3, <1>4, <1>5, CountsStay DEF Inv

\* A decision that leaves the queue without becoming a task.
LEMMA TaskIsRefused ==
  ASSUME Inv, NEW p \in Decisions, RefuseTask(p)
  PROVE  Inv'
<1>1. /\ UNCHANGED <<settings, fallback, stage, planCalls, accepted, task, receipt, revised, leads, spent>>
      /\ stage = "initial" /\ ~ InFlight /\ p \in todo
      /\ todo' = todo \ {p}
      /\ decision' = [decision EXCEPT ![p] = "budget_limited"]
      /\ exhausted' = TRUE
  BY DEF RefuseTask, InFlight, First
<1>2. TypeOK'
  BY <1>1 DEF Inv, TypeOK, DecisionStatus
<1>3. decision[p] = "scheduled" /\ ~ InFlight'
  BY <1>1 DEF Inv, LanesAreSettled, Waits, InFlight
<1>4. \A q \in Decisions : decision'[q] = IF q = p THEN "budget_limited" ELSE decision[q]
  BY <1>1 DEF Inv, TypeOK
<1>5. LanesAreSettled'
  BY <1>1, <1>3, <1>4 DEF Inv, LanesAreSettled, Waits, HasReceipt, WasRevised
<1>. QED
  BY <1>1, <1>2, <1>5, CountsStay DEF Inv

LEMMA RevisionIsSkipped ==
  ASSUME Inv, NEW p \in Decisions, SkipRevision(p)
  PROVE  Inv'
<1>1. /\ UNCHANGED <<settings, fallback, stage, planCalls, accepted, decision, task, receipt, revised,
                     leads, spent, exhausted>>
      /\ stage = "revisions" /\ ~ InFlight /\ todo' = todo \ {p}
  BY DEF SkipRevision, InFlight
<1>2. TypeOK'
  BY <1>1 DEF Inv, TypeOK
<1>3. ~ InFlight'
  BY <1>1 DEF InFlight
<1>4. LanesAreSettled'
  BY <1>1, <1>3 DEF Inv, LanesAreSettled, Waits, HasReceipt, WasRevised
<1>. QED
  BY <1>1, <1>2, <1>4, CountsStay DEF Inv

\* The initial tasks are done: only empty searches are asked again.
LEMMA RevisionsAreStarted ==
  ASSUME Inv, StartRevisions
  PROVE  Inv'
<1>1. /\ UNCHANGED <<settings, fallback, planCalls, accepted, decision, task, receipt, revised, leads,
                     spent, exhausted>>
      /\ stage = "initial" /\ ~ InFlight /\ todo = {}
      /\ stage' = "revisions"
      /\ todo' = {p \in Decisions : receipt[p].outcome = "searched_no_results"}
  BY DEF StartRevisions, InFlight
<1>2. TypeOK'
  BY <1>1 DEF Inv, TypeOK, Stages
<1>3. ~ InFlight'
  BY <1>1 DEF InFlight
<1>4. LanesAreSettled'
  BY <1>1, <1>3 DEF Inv, LanesAreSettled, Waits, HasReceipt, WasRevised
<1>. QED
  BY <1>1, <1>2, <1>4, CountsStay DEF Inv

LEMMA StageIsClosed ==
  ASSUME Inv, Close
  PROVE  Inv'
<1>1. /\ UNCHANGED <<settings, fallback, planCalls, accepted, decision, todo, task, receipt, revised,
                     leads, spent, exhausted>>
      /\ stage = "revisions" /\ ~ InFlight /\ todo = {}
      /\ stage' \in {"completed", "completed_with_limits"}
  BY DEF Close, InFlight
<1>2. TypeOK'
  BY <1>1 DEF Inv, TypeOK, Stages
<1>3. ~ InFlight'
  BY <1>1 DEF InFlight
<1>4. LanesAreSettled'
  BY <1>1, <1>3 DEF Inv, LanesAreSettled, Waits, HasReceipt, WasRevised
<1>. QED
  BY <1>1, <1>2, <1>4, CountsStay DEF Inv

-----------------------------------------------------------------------------
(* The steps that spend *)

\* A decision becomes the task in flight.
LEMMA TaskIsTaken ==
  ASSUME Inv, NEW p \in Decisions, TakeTask(p) \/ TakeRevision(p)
  PROVE  Inv'
<1>1. /\ UNCHANGED <<settings, fallback, stage, planCalls, accepted, decision, receipt, revised, leads,
                     exhausted>>
      /\ ~ InFlight /\ p \in todo
      /\ todo' = todo \ {p}
      /\ task' = [at |-> p, attempts |-> 0, last |-> "none"]
      /\ stage \in {"initial", "revisions"}
  BY DEF TakeTask, TakeRevision, Take, First, InFlight
<1>2. /\ stage = "initial" => spent.tasks < settings.tasks /\ spent' = [spent EXCEPT !.tasks = @ + 1]
      /\ stage = "revisions" => /\ spent.revisions < RevisionLimit
                                /\ spent' = [spent EXCEPT !.revisions = @ + 1, !.tasks = @ + 1]
  BY DEF TakeTask, TakeRevision, TaskBudgetLeft, RevisionAllowed
<1>3. /\ spent'.tasks = spent.tasks + 1 /\ spent'.calls = spent.calls
      /\ spent'.retries = spent.retries /\ spent'.verifications = spent.verifications
      /\ spent'.revisions = IF stage = "revisions" THEN spent.revisions + 1 ELSE spent.revisions
      /\ spent' \in [Counters -> Nat]
  <2>1. spent \in [Counters -> Nat] /\ spent.tasks + 1 \in Nat /\ spent.revisions + 1 \in Nat
    BY SpentType DEF Inv, TypeOK
  <2>2. CASE stage = "initial"
    BY <1>2, <2>1, <2>2 DEF Counters
  <2>3. CASE stage = "revisions"
    <3>. DEFINE s1 == [spent EXCEPT !.revisions = @ + 1]
    <3>1. s1 \in [Counters -> Nat] /\ s1.revisions = spent.revisions + 1
          /\ \A k \in Counters \ {"revisions"} : s1[k] = spent[k]
      BY <2>1 DEF Counters
    <3>2. spent' = [s1 EXCEPT !.tasks = @ + 1]
      BY <1>2, <2>3
    <3>. HIDE DEF s1
    <3>. QED
      BY <2>1, <2>3, <3>1, <3>2 DEF Counters
  <2>. QED
    BY <1>1, <2>2, <2>3
<1>4. InFlight' /\ task'.at = p /\ task'.attempts = 0 /\ task.attempts = 0 /\ p # 0
  BY <1>1, DecisionsAssumption, TaskType DEF InFlight, NoTask, Inv
<1>5. TypeOK'
  BY <1>1, <1>3 DEF Inv, TypeOK
<1>6. LanesAreSettled'
  <2>1. \A q \in Decisions : Waits(q)' <=> Waits(q)
    BY <1>1, <1>4 DEF Waits
  <2>. QED
    BY <1>1, <1>4, <2>1 DEF Inv, LanesAreSettled, HasReceipt, WasRevised
<1>7. Receipts' = Receipts /\ Revisions' = Revisions
  BY <1>1 DEF Receipts, Revisions, HasReceipt, WasRevised
<1>8. /\ spent.tasks = Cardinality(Receipts) + Cardinality(Revisions)
      /\ spent.revisions = Cardinality(Revisions)
      /\ spent.calls = Cardinality(Receipts) + Cardinality(Revisions) + spent.retries
  BY <1>1, <1>4, CountsAreNumbers, SpentType DEF Inv, CountsAddUp
<1>9. CountsAddUp'
  BY <1>1, <1>3, <1>4, <1>7, <1>8, CountsAreNumbers, SpentType DEF Inv, CountsAddUp
<1>10. TaskIsSound'
  <2>1. spent.retries <= settings.retries * spent.tasks
    BY <1>1 DEF Inv, TaskIsSound
  <2>2. spent'.tasks - 1 = spent.tasks /\ spent'.tasks > 0
    BY <1>3, SpentType DEF Inv
  <2>3. settings.retries * spent.tasks \in Nat /\ settings.retries \in Nat
    BY SpentType, SettingsType DEF Inv
  <2>. QED
    BY <1>1, <1>3, <1>4, <2>1, <2>2, <2>3 DEF TaskIsSound
<1>11. spent'.tasks <= settings.tasks
  <2>1. CASE stage = "initial"
    BY <1>2, <1>3, <2>1, SpentType, SettingsType DEF Inv
  <2>2. CASE stage = "revisions"
    <3>1. spent.revisions < RevisionLimit
      BY <1>2, <2>2
    <3>2. RevisionLimit <= settings.tasks - settings.initial
      BY <3>1, SpentType, SettingsType DEF Inv, RevisionLimit
    <3>3. Cardinality(Receipts) <= settings.initial
      BY CountsAreNumbers, SettingsType DEF Inv
    <3>4. RevisionLimit \in Nat
      BY SettingsType DEF Inv, RevisionLimit
    <3>. QED
      BY <1>3, <1>8, <3>1, <3>2, <3>3, <3>4, CountsAreNumbers, SpentType, SettingsType DEF Inv
  <2>. QED
    BY <1>1, <2>1, <2>2
<1>12. BudgetsHold'
  <2>1. settings.retries * spent'.tasks = settings.retries * spent.tasks + settings.retries
    BY <1>3, SpentType, SettingsType DEF Inv
  <2>2. settings.retries * spent.tasks \in Nat
    BY SpentType, SettingsType DEF Inv
  <2>. QED
    BY <1>1, <1>3, <1>11, <2>1, <2>2, SpentType, SettingsType DEF Inv, BudgetsHold
<1>. QED
  BY <1>5, <1>6, <1>9, <1>10, <1>12 DEF Inv

LEMMA CapacityHolds ==
  ASSUME Inv, NEW sources \in Nat
  PROVE  /\ Capacity(sources) \in Nat
         /\ spent.verifications + Capacity(sources) <= settings.verifications
BY SpentType, SettingsType DEF Inv, BudgetsHold, Capacity

\* The receipt of the task in flight; attempts is how often it was tried, and
\* more what the last try adds to calls and retries.
LEMMA TaskIsRecorded ==
  ASSUME Inv, InFlight, stage # "failed",
         NEW outcome \in Successes \cup Errors, NEW attempts \in Nat, NEW sources \in Nat,
         NEW calls \in Nat, NEW retries \in Nat,
         Record(outcome, attempts, sources, <<calls, retries>>),
         exhausted' \in BOOLEAN, UNCHANGED <<settings, fallback, stage, planCalls, accepted, todo>>,
         calls = retries + (IF task.attempts > 0 THEN 0 ELSE 1),
         retries <= 1, task.attempts = 0 => retries = 0 ,
         calls > 0 => spent.calls < settings.calls
  PROVE  Inv'
<1>. DEFINE p == task.at
            made == [outcome |-> outcome, attempts |-> attempts, sources |-> sources]
<1>1. p \in Decisions /\ p \notin todo /\ stage \in {"initial", "revisions"}
  BY DEF Inv, LanesAreSettled, TypeOK, Stages
<1>2. /\ stage = "initial" => /\ receipt' = [receipt EXCEPT ![p] = made]
                              /\ decision' = [decision EXCEPT ![p] = "executed"]
                              /\ revised' = revised
      /\ stage = "revisions" => /\ revised' = [revised EXCEPT ![p] = made]
                                /\ UNCHANGED <<receipt, decision>>
      /\ leads' = [leads EXCEPT ![p] = @ + Capacity(sources)]
      /\ spent' = [spent EXCEPT !.calls = @ + calls, !.retries = @ + retries,
                                !.verifications = @ + Capacity(sources)]
      /\ task' = NoTask
  BY DEF Record
<1>3. Capacity(sources) \in Nat /\ spent.verifications + Capacity(sources) <= settings.verifications
  BY CapacityHolds
<1>4. /\ spent'.tasks = spent.tasks /\ spent'.revisions = spent.revisions
      /\ spent'.calls = spent.calls + calls /\ spent'.retries = spent.retries + retries
      /\ spent'.verifications = spent.verifications + Capacity(sources)
      /\ spent' \in [Counters -> Nat]
  <2>1. spent \in [Counters -> Nat] /\ spent.calls + calls \in Nat /\ spent.retries + retries \in Nat
        /\ spent.verifications + Capacity(sources) \in Nat
    BY <1>3, SpentType DEF Inv, TypeOK
  <2>. DEFINE s1 == [spent EXCEPT !.calls = @ + calls]
              s2 == [s1 EXCEPT !.retries = @ + retries]
  <2>2. s1 \in [Counters -> Nat] /\ s1.calls = spent.calls + calls
        /\ \A k \in Counters \ {"calls"} : s1[k] = spent[k]
    BY <2>1 DEF Counters
  <2>3. s2 \in [Counters -> Nat] /\ s2.retries = spent.retries + retries
        /\ \A k \in Counters \ {"retries"} : s2[k] = s1[k]
    <3>. HIDE DEF s1
    <3>. QED
      BY <2>1, <2>2 DEF Counters
  <2>4. spent' = [s2 EXCEPT !.verifications = @ + Capacity(sources)]
    BY <1>2
  <2>. HIDE DEF s1, s2
  <2>. QED
    BY <2>1, <2>2, <2>3, <2>4 DEF Counters
<1>5. made \in ReceiptType /\ made.outcome = outcome /\ outcome # "none"
  BY DEF ReceiptType, Successes, Errors
<1>6. ~ InFlight' /\ task'.attempts = 0
  BY <1>2 DEF InFlight, NoTask
<1>. HIDE DEF made
<1>7. TypeOK'
  BY <1>1, <1>2, <1>3, <1>4, <1>5 DEF Inv, TypeOK, DecisionStatus
<1>8. stage = "initial" => decision[p] = "scheduled" /\ ~ HasReceipt(p) /\ ~ WasRevised(p)
  BY <1>1 DEF Inv, LanesAreSettled, Waits
<1>9. stage = "revisions" => /\ receipt[p].outcome = "searched_no_results" /\ ~ WasRevised(p)
  BY <1>1 DEF Inv, LanesAreSettled, Waits
<1>10. \A q \in Decisions :
         /\ HasReceipt(q)' = (HasReceipt(q) \/ (stage = "initial" /\ q = p))
         /\ WasRevised(q)' = (WasRevised(q) \/ (stage = "revisions" /\ q = p))
         /\ decision'[q] = IF stage = "initial" /\ q = p THEN "executed" ELSE decision[q]
         /\ stage = "revisions" \/ q # p => receipt'[q] = receipt[q]
  BY <1>1, <1>2, <1>5 DEF Inv, TypeOK, HasReceipt, WasRevised
<1>11. LanesAreSettled'
  <2>1. \A q \in Decisions : Waits(q)' <=> Waits(q) /\ q # p
    BY <1>1, <1>6 DEF Waits
  <2>2. \A q \in Decisions : (decision'[q] = "executed") = HasReceipt(q)'
    BY <1>1, <1>10 DEF Inv, LanesAreSettled
  <2>3. \A q \in Decisions : WasRevised(q)' => receipt'[q].outcome = "searched_no_results"
    BY <1>1, <1>9, <1>10 DEF Inv, LanesAreSettled
  <2>4. stage = "initial" => \A q \in Decisions : /\ decision'[q] = "scheduled" <=> Waits(q)'
                                                  /\ ~ WasRevised(q)'
    BY <1>1, <1>10, <2>1 DEF Inv, LanesAreSettled
  <2>5. stage = "revisions" => \A q \in Decisions :
          /\ Waits(q)' => receipt'[q].outcome = "searched_no_results" /\ ~ WasRevised(q)'
          /\ decision'[q] # "scheduled"
    BY <1>1, <1>10, <2>1 DEF Inv, LanesAreSettled
  <2>6. \A d \in Demands : accepted'[d] # {}
    BY <1>1 DEF Inv, LanesAreSettled
  <2>. HIDE DEF p
  <2>. QED
    BY <1>1, <1>6, <2>2, <2>3, <2>4, <2>5, <2>6 DEF LanesAreSettled
<1>12. /\ Cardinality(Receipts') = Cardinality(Receipts) + (IF stage = "initial" THEN 1 ELSE 0)
       /\ Cardinality(Revisions') = Cardinality(Revisions) + (IF stage = "revisions" THEN 1 ELSE 0)
  <2>1. /\ Receipts' = IF stage = "initial" THEN Receipts \cup {p} ELSE Receipts
        /\ Revisions' = IF stage = "revisions" THEN Revisions \cup {p} ELSE Revisions
    BY <1>1, <1>10 DEF Receipts, Revisions
  <2>2. /\ stage = "initial" => p \notin Receipts
        /\ stage = "revisions" => p \notin Revisions
    BY <1>8, <1>9 DEF Receipts, Revisions
  <2>. HIDE DEF p
  <2>3. /\ p \notin Receipts => Cardinality(Receipts \cup {p}) = Cardinality(Receipts) + 1
        /\ p \notin Revisions => Cardinality(Revisions \cup {p}) = Cardinality(Revisions) + 1
    BY FS_AddElement, CountsAreNumbers
  <2>4. CASE stage = "initial"
    <3>1. Receipts' = Receipts \cup {p} /\ Revisions' = Revisions
      BY <2>1, <2>4
    <3>. QED
      BY <2>2, <2>3, <2>4, <3>1, CountsAreNumbers
  <2>5. CASE stage = "revisions"
    <3>1. Receipts' = Receipts /\ Revisions' = Revisions \cup {p}
      BY <2>1, <2>5
    <3>. QED
      BY <2>2, <2>3, <2>5, <3>1, CountsAreNumbers
  <2>. QED
    BY <1>1, <2>4, <2>5
<1>13. CountsAddUp'
  <2>1. /\ spent.tasks = Cardinality(Receipts) + Cardinality(Revisions) + 1
        /\ spent.calls = Cardinality(Receipts) + Cardinality(Revisions) + spent.retries
                          + (IF task.attempts > 0 THEN 1 ELSE 0)
        /\ spent.revisions = Cardinality(Revisions) + (IF stage = "revisions" THEN 1 ELSE 0)
    BY DEF Inv, CountsAddUp
  <2>. QED
    BY <1>1, <1>4, <1>6, <1>12, <2>1, CountsAreNumbers, SpentType DEF Inv, CountsAddUp
<1>14. spent'.retries <= settings.retries * spent.tasks
  <2>1. /\ spent.retries <= settings.retries * (spent.tasks - 1)
                            + (IF task.attempts > 0 THEN task.attempts - 1 ELSE 0)
        /\ spent.tasks > 0 /\ task.attempts <= settings.retries
    BY DEF Inv, TaskIsSound
  <2>2. settings.retries * spent.tasks = settings.retries * (spent.tasks - 1) + settings.retries
    BY <2>1, SpentType, SettingsType DEF Inv
  <2>3. settings.retries * (spent.tasks - 1) \in Nat
    BY <2>1, SpentType, SettingsType DEF Inv
  <2>. QED
    BY <1>4, <2>1, <2>2, <2>3, SpentType, SettingsType, TaskType DEF Inv
<1>15. TaskIsSound'
  BY <1>1, <1>4, <1>6, <1>14, SettingsType DEF Inv, TaskIsSound
<1>16. BudgetsHold'
  <2>1. spent'.calls <= settings.calls
    BY <1>4, SpentType, SettingsType, TaskType DEF Inv, BudgetsHold
  <2>. QED
    BY <1>3, <1>4, <1>14, <2>1, SpentType, SettingsType DEF Inv, BudgetsHold
<1>. QED
  BY <1>7, <1>11, <1>13, <1>15, <1>16 DEF Inv

LEMMA ProviderAnswers ==
  ASSUME Inv, NEW sources \in 0..MaxResults, Answer(sources)
  PROVE  Inv'
<1>. DEFINE outcome == IF sources > 0 THEN "searched_results" ELSE "searched_no_results"
<1>1. /\ InFlight /\ spent.calls < settings.calls
      /\ Record(outcome, task.attempts + 1, sources, <<1, RetryCost>>)
      /\ exhausted' = (exhausted \/ Capacity(sources) < sources)
      /\ UNCHANGED <<settings, fallback, stage, planCalls, accepted, todo>>
  BY DEF Answer, MayCall, InFlight
<1>2. outcome \in Successes \cup Errors /\ sources \in Nat /\ exhausted' \in BOOLEAN
  BY <1>1, ResultsAssumption DEF Successes, Inv, TypeOK
<1>3. task.attempts + 1 \in Nat /\ RetryCost \in Nat /\ RetryCost <= 1
      /\ 1 = RetryCost + (IF task.attempts > 0 THEN 0 ELSE 1)
      /\ (task.attempts = 0 => RetryCost = 0)
  BY TaskType DEF Inv, RetryCost
<1>4. stage # "failed"
  BY <1>1 DEF Inv, TaskIsSound
<1>. HIDE DEF outcome
<1>. QED
  BY <1>1, <1>2, <1>3, <1>4, TaskIsRecorded

LEMMA TaskFails ==
  ASSUME Inv, NEW error \in Errors, FailTask(error)
  PROVE  Inv'
<1>1. /\ InFlight /\ spent.calls < settings.calls
      /\ Record(error, task.attempts + 1, 0, <<1, RetryCost>>)
      /\ UNCHANGED <<settings, fallback, stage, planCalls, accepted, todo, exhausted>>
  BY DEF FailTask, MayCall, InFlight
<1>2. exhausted' \in BOOLEAN
  BY <1>1 DEF Inv, TypeOK
<1>3. task.attempts + 1 \in Nat /\ RetryCost \in Nat /\ RetryCost <= 1
      /\ 1 = RetryCost + (IF task.attempts > 0 THEN 0 ELSE 1)
      /\ (task.attempts = 0 => RetryCost = 0)
  BY TaskType DEF Inv, RetryCost
<1>4. stage # "failed"
  BY <1>1 DEF Inv, TaskIsSound
<1>. QED
  BY <1>1, <1>2, <1>3, <1>4, TaskIsRecorded

LEMMA RetryingStops ==
  ASSUME Inv, StopRetrying
  PROVE  Inv'
<1>1. /\ InFlight /\ task.attempts > 0 /\ exhausted' \in BOOLEAN
      /\ Record(task.last, task.attempts, 0, <<0, 0>>)
      /\ UNCHANGED <<settings, fallback, stage, planCalls, accepted, todo>>
  BY DEF StopRetrying, InFlight
<1>2. task.last \in Errors /\ task.attempts \in Nat
  BY <1>1, TaskType DEF Inv, TaskIsSound
<1>3. stage # "failed"
  BY <1>1 DEF Inv, TaskIsSound
<1>. QED
  BY <1>1, <1>2, <1>3, TaskIsRecorded

\* A failed call that leaves the task in flight.
LEMMA CallFails ==
  ASSUME Inv, NEW error \in Errors, FailCall(error)
  PROVE  Inv'
<1>1. /\ InFlight /\ spent.calls < settings.calls /\ task.attempts < settings.retries
      /\ task' = [task EXCEPT !.attempts = @ + 1, !.last = error]
      /\ spent' = [spent EXCEPT !.calls = @ + 1, !.retries = @ + RetryCost]
      /\ UNCHANGED <<settings, fallback, stage, planCalls, accepted, decision, todo, receipt, revised,
                     leads, exhausted>>
  BY DEF FailCall, MayCall, InFlight
<1>2. RetryCost = (IF task.attempts > 0 THEN 1 ELSE 0) /\ RetryCost \in Nat
  BY DEF RetryCost
<1>3. /\ spent'.tasks = spent.tasks /\ spent'.revisions = spent.revisions
      /\ spent'.calls = spent.calls + 1 /\ spent'.retries = spent.retries + RetryCost
      /\ spent'.verifications = spent.verifications
      /\ spent' \in [Counters -> Nat]
  <2>. DEFINE s1 == [spent EXCEPT !.calls = @ + 1]
  <2>1. /\ s1 \in [Counters -> Nat] /\ s1.calls = spent.calls + 1
        /\ \A k \in Counters \ {"calls"} : s1[k] = spent[k]
    BY DEF Counters, Inv, TypeOK
  <2>2. spent' = [s1 EXCEPT !.retries = @ + RetryCost]
    BY <1>1
  <2>. HIDE DEF s1
  <2>. QED
    BY <1>2, <2>1, <2>2 DEF Counters
<1>4. /\ task' \in [at : Decisions, attempts : Nat, last : {"none"} \cup Errors]
      /\ task'.at = task.at /\ task'.attempts = task.attempts + 1 /\ task'.last = error
  <2>1. task \in [at : Decisions, attempts : Nat, last : {"none"} \cup Errors]
    BY <1>1 DEF Inv, TypeOK, InFlight
  <2>2. task' = [at |-> task.at, attempts |-> task.attempts + 1, last |-> error]
    BY <1>1, <2>1
  <2>. QED
    BY <2>1, <2>2
<1>5. InFlight' /\ task'.at = task.at
  <2>1. task'.attempts > 0
    BY <1>4, TaskType DEF Inv
  <2>. QED
    BY <1>4, <2>1 DEF InFlight, NoTask
<1>6. TypeOK'
  BY <1>1, <1>3, <1>4 DEF Inv, TypeOK
<1>7. LanesAreSettled'
  BY <1>1, <1>5 DEF Inv, LanesAreSettled, Waits, HasReceipt, WasRevised
<1>8. Receipts' = Receipts /\ Revisions' = Revisions
  BY <1>1 DEF Receipts, Revisions, HasReceipt, WasRevised
<1>9. CountsAddUp'
  <2>1. stage # "failed"
    BY <1>1 DEF Inv, TaskIsSound
  <2>2. /\ spent.tasks = Cardinality(Receipts) + Cardinality(Revisions) + 1
        /\ spent.calls = Cardinality(Receipts) + Cardinality(Revisions) + spent.retries
                          + (IF task.attempts > 0 THEN 1 ELSE 0)
        /\ spent.revisions = Cardinality(Revisions) + (IF stage = "revisions" THEN 1 ELSE 0)
    BY <1>1, <2>1 DEF Inv, CountsAddUp
  <2>3. spent'.calls = Cardinality(Receipts) + Cardinality(Revisions) + spent'.retries + 1
    BY <1>2, <1>3, <2>2, CountsAreNumbers, SpentType DEF Inv
  <2>4. task'.attempts > 0
    BY <1>4, TaskType DEF Inv
  <2>. QED
    BY <1>1, <1>3, <1>5, <1>8, <2>2, <2>3, <2>4 DEF CountsAddUp
<1>10. TaskIsSound'
  <2>1. /\ spent.retries <= settings.retries * (spent.tasks - 1)
                            + (IF task.attempts > 0 THEN task.attempts - 1 ELSE 0)
        /\ spent.tasks > 0 /\ stage \in {"initial", "revisions"}
    BY <1>1 DEF Inv, TaskIsSound, LanesAreSettled
  <2>2. settings.retries * (spent.tasks - 1) \in Nat
    BY <2>1, SpentType, SettingsType DEF Inv
  <2>3. spent'.retries <= settings.retries * (spent'.tasks - 1) + (task'.attempts - 1)
    BY <1>2, <1>3, <1>4, <2>1, <2>2, SpentType, TaskType DEF Inv
  <2>4. task'.attempts > 0 /\ task'.attempts <= settings'.retries
    BY <1>1, <1>4, TaskType, SettingsType DEF Inv
  <2>. QED
    BY <1>1, <1>3, <1>4, <1>5, <2>1, <2>3, <2>4 DEF TaskIsSound
<1>11. BudgetsHold'
  <2>1. spent'.retries <= settings.retries * spent.tasks
    <3>1. /\ spent.retries <= settings.retries * (spent.tasks - 1)
                              + (IF task.attempts > 0 THEN task.attempts - 1 ELSE 0)
          /\ spent.tasks > 0
      BY <1>1 DEF Inv, TaskIsSound
    <3>2. settings.retries * spent.tasks = settings.retries * (spent.tasks - 1) + settings.retries
      BY <3>1, SpentType, SettingsType DEF Inv
    <3>3. settings.retries * (spent.tasks - 1) \in Nat
      BY <3>1, SpentType, SettingsType DEF Inv
    <3>. QED
      BY <1>1, <1>2, <1>3, <3>1, <3>2, <3>3, SpentType, SettingsType, TaskType DEF Inv
  <2>. QED
    BY <1>1, <1>3, <2>1, SpentType, SettingsType DEF Inv, BudgetsHold
<1>. QED
  BY <1>6, <1>7, <1>9, <1>10, <1>11 DEF Inv

LEMMA StageIsLost ==
  ASSUME Inv, LoseStage
  PROVE  Inv'
<1>1. /\ InFlight /\ task.attempts = 0 /\ stage' = "failed" /\ task' = NoTask /\ todo' = {}
      /\ exhausted' = TRUE
      /\ UNCHANGED <<settings, fallback, planCalls, accepted, decision, receipt, revised, leads, spent>>
  BY DEF LoseStage, InFlight
<1>2. ~ InFlight' /\ task'.attempts = 0
  BY <1>1 DEF InFlight, NoTask
<1>3. TypeOK'
  BY <1>1 DEF Inv, TypeOK, Stages
<1>4. LanesAreSettled' /\ CountsAddUp'
  BY <1>1, <1>2 DEF LanesAreSettled, CountsAddUp
<1>5. BudgetsHold'
  BY <1>1 DEF Inv, BudgetsHold
<1>6. TaskIsSound'
  BY <1>1, <1>2, <1>5, SettingsType DEF Inv, TaskIsSound, BudgetsHold
<1>. QED
  BY <1>3, <1>4, <1>5, <1>6 DEF Inv

-----------------------------------------------------------------------------
LEMMA StageStep ==
  ASSUME Inv, [Next]_vars
  PROVE  Inv'
<1>1. CASE UNCHANGED vars
  <2>1. TypeOK' /\ LanesAreSettled'
    BY <1>1 DEF vars, Inv, TypeOK, LanesAreSettled, Waits, InFlight, HasReceipt, WasRevised
  <2>2. Receipts' = Receipts /\ Revisions' = Revisions /\ InFlight' = InFlight
    BY <1>1 DEF vars, Receipts, Revisions, HasReceipt, WasRevised, InFlight
  <2>3. CountsAddUp' /\ TaskIsSound' /\ BudgetsHold'
    BY <1>1, <2>2 DEF vars, Inv, CountsAddUp, TaskIsSound, BudgetsHold
  <2>. QED
    BY <2>1, <2>3 DEF Inv
<1>2. ASSUME NEW values \in Proposals, ProposeTitles(values) PROVE Inv'
  BY <1>2, TitlesAreProposed
<1>3. CASE RejectProposal \/ PlannerFails
  BY <1>3, PlanningContinues
<1>4. CASE PlanFromFallback
  BY <1>4, FallbackIsPlanned
<1>5. ASSUME NEW p \in Decisions, TakeTask(p) \/ TakeRevision(p) PROVE Inv'
  BY <1>5, TaskIsTaken
<1>6. ASSUME NEW p \in Decisions, RefuseTask(p) PROVE Inv'
  BY <1>6, TaskIsRefused
<1>7. CASE StartRevisions
  BY <1>7, RevisionsAreStarted
<1>8. ASSUME NEW p \in Decisions, SkipRevision(p) PROVE Inv'
  BY <1>8, RevisionIsSkipped
<1>9. ASSUME NEW sources \in 0..MaxResults, Answer(sources) PROVE Inv'
  BY <1>9, ProviderAnswers
<1>10. ASSUME NEW error \in Errors, FailCall(error) PROVE Inv'
  BY <1>10, CallFails
<1>11. ASSUME NEW error \in Errors, FailTask(error) PROVE Inv'
  BY <1>11, TaskFails
<1>12. CASE StopRetrying
  BY <1>12, RetryingStops
<1>13. CASE LoseStage
  BY <1>13, StageIsLost
<1>14. CASE Close
  BY <1>14, StageIsClosed
<1>. QED
  BY <1>1, <1>2, <1>3, <1>4, <1>5, <1>6, <1>7, <1>8, <1>9, <1>10, <1>11, <1>12, <1>13, <1>14 DEF Next

LEMMA StageInvariant == Spec => []Inv
<1>1. Inv /\ [Next]_vars => Inv'
  BY StageStep
<1>. QED
  BY <1>1, StageStarts, PTL DEF Spec

\* The values of the stage's state (execution.py, planning.py).
THEOREM StageTypeIsCorrect == Spec => []TypeOK
<1>1. Inv => TypeOK
  BY DEF Inv
<1>. QED
  BY <1>1, StageInvariant, PTL

\* PW-PS-LANE: a stage that ends with an artifact has settled every mandatory
\* lane decision (execution.py execute).
THEOREM LanesDoNotDisappear == Spec => []NoLaneDisappears
<1>1. Inv => NoLaneDisappears
  <2>. SUFFICES ASSUME Inv, Ended PROVE NoLaneDisappears
    BY DEF NoLaneDisappears
  <2>1. \A p \in Decisions : decision[p] # "scheduled" /\ (decision[p] = "executed" <=> HasReceipt(p))
    BY DEF Inv, LanesAreSettled, Ended
  <2>2. \A p \in Decisions : accepted[DemandOf[p]] # {}
    BY DecisionsAssumption DEF Inv, LanesAreSettled, Ended
  <2>. QED
    BY <2>1, <2>2 DEF NoLaneDisappears
<1>. QED
  BY <1>1, StageInvariant, PTL

\* PW-PS-NEG-01: "complete without leads" follows from searches that were done
\* only (execution.py _checkpoints).
THEOREM NegativesAreSearched == Spec => []NegativeIsSearched
<1>1. Inv => NegativeIsSearched
  <2>. SUFFICES ASSUME Inv, Ended, NEW d \in Demands, CoverageState(d) = "complete_no_leads",
                       NEW p \in Of(d)
                PROVE  /\ receipt[p].outcome \in Successes
                       /\ WasRevised(p) => revised[p].outcome \in Successes
    BY DEF NegativeIsSearched
  <2>1. p \in Decisions
    BY DEF Of
  <2>. DEFINE statuses == {decision[q] : q \in Of(d)}
              outcomes == {LastOutcome(q) : q \in Of(d)}
  <2>2. "budget_limited" \notin statuses /\ "not_executable" \notin statuses /\ outcomes \cap Errors = {}
    BY DEF CoverageState
  <2>3. decision[p] \notin {"budget_limited", "not_executable", "scheduled"}
    BY <2>1, <2>2 DEF Inv, LanesAreSettled, Ended
  <2>4. decision[p] = "executed"
    BY <2>1, <2>3 DEF Inv, TypeOK, DecisionStatus
  <2>5. HasReceipt(p) /\ (WasRevised(p) => receipt[p].outcome = "searched_no_results")
    BY <2>1, <2>4 DEF Inv, LanesAreSettled, Ended
  <2>6. LastOutcome(p) \notin Errors
    BY <2>2
  <2>7. receipt[p] \in ReceiptType /\ revised[p] \in ReceiptType
    BY <2>1 DEF Inv, TypeOK
  <2>. QED
    BY <2>5, <2>6, <2>7 DEF LastOutcome, HasReceipt, WasRevised, ReceiptType, Successes
<1>. QED
  BY <1>1, StageInvariant, PTL

\* PW-PS-AUD-01: the budget report agrees with the receipts (execution.py
\* _Budget, _execute_task).
THEOREM AuditsAddUp == Spec => []AuditAddsUp
<1>1. Inv => AuditAddsUp
  BY DEF Inv, CountsAddUp, AuditAddsUp, InFlight
<1>. QED
  BY <1>1, StageInvariant, PTL

\* PW-PS-BUD-01: no order of retries and revisions exceeds a limit (execution.py
\* _Budget, allow_revision).
THEOREM StageBudgetsHold == Spec => []BudgetsHold
<1>1. Inv => BudgetsHold
  BY DEF Inv
<1>. QED
  BY <1>1, StageInvariant, PTL
=============================================================================
