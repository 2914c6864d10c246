---------------------- MODULE SignalMonitoringRunProofs ----------------------
(***************************************************************************)
(* For any plan, any budgets and whatever the providers answer: the audit  *)
(* trail of an execution adds up, a pair is reported as not observed only  *)
(* if it was covered, and evidence that was found is reported.  And what   *)
(* planning hands over is such a plan: the task budget is used up on the   *)
(* tasks that come first, and no pair is left without a required task.     *)
(***************************************************************************)
EXTENDS SignalMonitoringRun, SignalMonitoringPlan, SequenceTheorems, FiniteSetTheorems,
        WellFoundedInduction, TLAPS

Planned(t) == t \in Elements(plan.tasks)
Receipted == {t \in Tasks : receipts[t] # "none"}
BudgetLimited == {t \in Tasks : receipts[t] = "budget_limited"}
InFlight(t) == call # NoCall /\ call.task = t

\* what is still to be taken up has no receipt, and is no task in flight
Unanswered(t) == receipts[t] = "none" /\ ~ InFlight(t)

Control ==
  /\ \A i, j \in DOMAIN queue : queue[i] = queue[j] => i = j
  /\ \A i \in DOMAIN queue : Planned(queue[i]) /\ Unanswered(queue[i])
  /\ call # NoCall => receipts[call.task] = "none" /\ Pair(call.task) \in PlannedPairs
  /\ pending \subseteq PlannedPairs
  /\ \A p \in pending : Unanswered(RevisionTask(p))
  /\ phase \in {"limited", "tasks"} =>
       /\ pending = {} /\ (call # NoCall => call.task.revision = 0)
       /\ \A t \in Tasks : receipts[t] # "none" => t.revision = 0
  /\ phase = "limited" => call = NoCall /\ Receipted = {}
  /\ phase \in {"revisions", "done"} => queue = <<>>
  /\ phase = "done" => call = NoCall /\ pending = {}

\* every receipt comes with an observation, and every observation belongs to a planned pair
NotesSound ==
  /\ \A i \in DOMAIN observations : observations[i].pair \in PlannedPairs
  /\ \A t \in Tasks : receipts[t] # "none" => Answered(t)

Audit == AuditAddsUp /\ IsFiniteSet(Receipted)

IInv == TypeOK /\ Control /\ NotesSound /\ Audit /\ NotObservedIsCovered /\ EvidenceIsReported

-----------------------------------------------------------------------------
\* Least elements

Below == {p \in Nat \X Nat : p[1] < p[2]}

LEMMA BelowIsWellFounded == IsWellFoundedOn(Below, Nat)
BY NatLessThanWellFounded, Zenon DEF OpToRel, Below

LEMMA LeastNatural ==
  ASSUME NEW S, S \subseteq Nat, S # {}
  PROVE  \E n \in S : \A m \in S : n <= m
<1>1. \E n \in S : \A m \in S : ~ (<<m, n>> \in Below)
  BY BelowIsWellFounded, WFMin, Zenon
<1>2. \A m, n \in S : ~ (<<m, n>> \in Below) => n <= m
  BY SMT DEF Below
<1> QED BY <1>1, <1>2

-----------------------------------------------------------------------------
\* Tasks and their revisions

LEMMA PlanTyped ==
  ASSUME NEW made \in Plans
  PROVE  /\ made.tasks \in Seq(Tasks) /\ made.scheduled \in Seq(Tasks)
         /\ DOMAIN made.tasks = 1 .. Len(made.tasks) /\ Len(made.tasks) \in Nat
         /\ DOMAIN made.scheduled = 1 .. Len(made.scheduled) /\ Len(made.scheduled) \in Nat
         /\ Elements(made.tasks) \subseteq Tasks /\ Elements(made.scheduled) \subseteq Elements(made.tasks)
<1>1. /\ made.tasks \in Seq(Tasks) /\ made.scheduled \in Seq(Tasks)
      /\ Elements(made.scheduled) \subseteq Elements(made.tasks)
  BY PlansAssumption DEF PlanShape
<1>2. \A i \in DOMAIN made.tasks : made.tasks[i] \in Tasks
  BY <1>1, ElementOfSeq, LenProperties
<1> QED
  BY <1>1, <1>2, LenProperties DEF Elements

LEMMA RevisionIsOfPair ==
  ASSUME NEW t \in Tasks
  PROVE  Pair(Revision(t)) = Pair(t) /\ Revision(t).revision = 1 /\ Pair(t) \in Pairs
<1>1. t \in TaskShape
  BY PlansAssumption DEF PlanShape
<1>2. /\ Revision(t).candidate = t.candidate /\ Revision(t).code = t.code
      /\ Revision(t).revision = 1
  BY <1>1 DEF Revision, TaskShape
<1> QED
  BY <1>2 DEF Pair, Pairs

LEMMA PositionFound ==
  ASSUME plan \in Plans, NEW p \in PlannedPairs
  PROVE  PositionOf(p) \in DOMAIN plan.tasks /\ Pair(plan.tasks[PositionOf(p)]) = p
<1> DEFINE S == {i \in DOMAIN plan.tasks : Pair(plan.tasks[i]) = p}
<1>1. DOMAIN plan.tasks \subseteq Nat /\ DOMAIN plan.tasks = 1 .. Len(plan.tasks)
  BY PlanTyped
<1>2. S \subseteq Nat /\ S # {}
  BY <1>1 DEF PlannedPairs, Elements
<1>3. PICK i \in S : \A j \in S : i <= j
  BY <1>2, LeastNatural
<1>4. \A j \in 1 .. (i - 1) : j \notin S /\ j \in DOMAIN plan.tasks
  BY <1>1, <1>2, <1>3
<1>5. \E k \in DOMAIN plan.tasks :
        Pair(plan.tasks[k]) = p /\ \A j \in 1 .. (k - 1) : Pair(plan.tasks[j]) # p
  BY <1>3, <1>4
<1> QED
  BY <1>5, Zenon DEF PositionOf

LEMMA RevisionTaskTyped ==
  ASSUME plan \in Plans, NEW p \in PlannedPairs
  PROVE  RevisionTask(p) \in Tasks /\ Pair(RevisionTask(p)) = p /\ RevisionTask(p).revision = 1
<1> DEFINE web == {i \in DOMAIN plan.tasks : Pair(plan.tasks[i]) = p /\ plan.tasks[i].lane = "open_web"}
           base == IF web = {} THEN PositionOf(p) ELSE CHOOSE i \in web : \A j \in web : i <= j
<1>1. base \in DOMAIN plan.tasks /\ Pair(plan.tasks[base]) = p
  <2>1. CASE web = {}
    BY <2>1, PositionFound
  <2>2. CASE web # {}
    <3>1. web \subseteq Nat
      BY PlanTyped
    <3>2. \E i \in web : \A j \in web : i <= j
      BY <2>2, <3>1, LeastNatural
    <3>3. (CHOOSE i \in web : \A j \in web : i <= j) \in web
      BY <3>2
    <3> QED
      BY <2>2, <3>3
  <2> QED
    BY <2>1, <2>2
<1>2. RevisionTask(p) = Revision(plan.tasks[base])
  BY DEF RevisionTask
<1> HIDE DEF base
<1>3. plan.tasks[base] \in Elements(plan.tasks)
  BY <1>1 DEF Elements
<1>4. plan.tasks[base] \in Tasks /\ Revision(plan.tasks[base]) \in Tasks
  BY <1>3, PlanTyped, PlansAssumption DEF PlanShape
<1> QED
  BY <1>1, <1>2, <1>4, RevisionIsOfPair

LEMMA PlannedPair ==
  ASSUME plan \in Plans, NEW t, Planned(t)
  PROVE  t \in Tasks /\ Pair(t) \in PlannedPairs /\ t.revision = 0
BY PlanTyped, PlansAssumption DEF PlanShape, Planned, PlannedPairs

LEMMA PlannedPairsTyped == plan \in Plans => PlannedPairs \subseteq Pairs
BY PlanTyped DEF PlannedPairs, Pairs

-----------------------------------------------------------------------------
\* What is found

FindingType == [status : ObservationStatus, search : SearchStatus, refs : SUBSET {"new", "old"}, pages : Nat]

LEMMA FindingTyped == \A kind \in DOMAIN Finding : Finding[kind] \in FindingType
BY DEF Finding, FindingType, ObservationStatus, SearchStatus

LEMMA ReusedTyped == \A kind \in DOMAIN Reused : Reused[kind] \in FindingType
<1>1. "repeated" \in DOMAIN Finding /\ "fresh" \in DOMAIN Finding /\ "undated" \in DOMAIN Finding
      /\ "outdated" \in DOMAIN Finding
  BY DEF Finding
<1>2. \A f \in FindingType : [f EXCEPT !.pages = 0] \in FindingType
  BY DEF FindingType
<1>3. /\ Finding["repeated"] \in FindingType /\ Finding["fresh"] \in FindingType
      /\ Finding["undated"] \in FindingType /\ Finding["outdated"] \in FindingType
  BY <1>1, FindingTyped
<1>4. [Finding["repeated"] EXCEPT !.pages = 0] \in FindingType
  BY <1>2, <1>3
<1> QED
  BY <1>3, <1>4 DEF Reused

LEMMA DiagnosedTyped == \A search \in SearchStatus : Diagnosed(search) \in FindingType
BY DEF Diagnosed, FindingType, ObservationStatus

LEMMA NoteTyped ==
  ASSUME NEW t \in Tasks, NEW f \in FindingType
  PROVE  Note(t, f) \in NoteType /\ Note(t, f).pair = Pair(t) /\ Note(t, f).task = t
BY DEF Note, NoteType, FindingType, Pairs

-----------------------------------------------------------------------------
\* The checkpoint

Content(f) == f.status \in ObservationStatus /\ f.search \in SearchStatus /\ f.refs \subseteq {"new", "old"}
ReuseType == [Pairs -> {NotReused} \cup DOMAIN Reused]

LEMMA ItemsTyped ==
  ASSUME observations \in Seq(NoteType), NEW p \in Pairs, NEW reused \in ReuseType
  PROVE  \A x \in Items(p, reused) : x[1] \in Nat /\ Content(x[2])
<1>1. /\ Len(observations) \in Nat /\ DOMAIN observations = 1 .. Len(observations)
      /\ \A i \in DOMAIN observations : i \in Nat /\ observations[i] \in NoteType
  BY LenProperties, ElementOfSeq
<1>2. ASSUME NEW i \in DOMAIN observations PROVE Content(observations[i])
  BY <1>1 DEF NoteType, Content
<1>3. ASSUME reused[p] # NotReused PROVE Content(Reused[reused[p]])
  <2>1. reused[p] \in DOMAIN Reused
    BY <1>3 DEF ReuseType
  <2>2. Reused[reused[p]] \in FindingType
    BY <2>1, ReusedTyped
  <2> QED
    BY <2>2 DEF FindingType, Content
<1>4. ASSUME NEW x \in Items(p, reused) PROVE x[1] \in Nat /\ Content(x[2])
  <2>1. CASE \E i \in DOMAIN observations : x = <<i, observations[i]>>
    BY <1>1, <1>2, <2>1
  <2>2. CASE reused[p] # NotReused /\ x = <<Len(observations) + 1, Reused[reused[p]]>>
    BY <1>1, <1>3, <2>2
  <2> QED
    BY <1>4, <2>1, <2>2 DEF Items
<1> QED
  BY <1>4

LEMMA FirstIsItem ==
  ASSUME NEW items, items # {}, \A x \in items : x[1] \in Nat
  PROVE  \E x \in items : First(items) = x[2]
<1> DEFINE S == {x[1] : x \in items}
<1>1. S \subseteq Nat /\ S # {}
  OBVIOUS
<1>2. PICK n \in S : \A m \in S : n <= m
  BY <1>1, LeastNatural
<1>3. \E x \in items : \A y \in items : x[1] <= y[1]
  BY <1>2
<1>4. (CHOOSE x \in items : \A y \in items : x[1] <= y[1]) \in items
  BY <1>3
<1> QED
  BY <1>4 DEF First

LEMMA ReviewTyped ==
  ASSUME observations \in Seq(NoteType), NEW p \in Pairs, NEW reused \in ReuseType
  PROVE  Review(p, reused) \in VerdictType
<1> DEFINE items == Items(p, reused)
           observed == {x \in items : x[2].status = "observed"}
           diagnostics == {x \in items : IsDiagnostic(x)}
<1>1. \A x \in items : x[1] \in Nat /\ Content(x[2])
  BY ItemsTyped
<1>2. ASSUME NEW T \in SUBSET items, T # {}
      PROVE  Content(First(T)) /\ UNION {x[2].refs : x \in T} \subseteq {"new", "old"}
  <2>1. \A x \in T : x[1] \in Nat /\ Content(x[2])
    BY <1>1
  <2>2. PICK x \in T : First(T) = x[2]
    BY <1>2, <2>1, FirstIsItem
  <2> QED
    BY <2>1, <2>2 DEF Content
<1>3. observed \in SUBSET items /\ diagnostics \in SUBSET items /\ items \in SUBSET items
  OBVIOUS
<1>4. Review(p, reused) = IF observed # {} THEN ObservedVerdict(observed)
                          ELSE IF diagnostics # {} THEN DiagnosticVerdict(p, diagnostics)
                          ELSE IF \E t \in Required(p) : ~ Covered(t) THEN IncompleteVerdict(p)
                          ELSE NegativeVerdict(items)
  BY DEF Review
<1> HIDE DEF items, observed, diagnostics
<1>5. observed # {} => ObservedVerdict(observed) \in VerdictType
  BY <1>2, <1>3 DEF ObservedVerdict, VerdictType, Actions, ObservationStatus, Content
<1>6. diagnostics # {} => DiagnosticVerdict(p, diagnostics) \in VerdictType
  BY <1>2, <1>3 DEF DiagnosticVerdict, VerdictType, Actions, ObservationStatus, Content
<1>7. IncompleteVerdict(p) \in VerdictType
  <2>1. LedgerDiagnostic(p) \in SearchStatus
    BY DEF LedgerDiagnostic, SearchStatus
  <2> QED
    BY <2>1 DEF IncompleteVerdict, VerdictType, Actions, ObservationStatus
<1>8. NegativeVerdict(items) \in VerdictType
  <2>1. CASE items = {}
    BY <2>1 DEF NegativeVerdict, VerdictType, Actions, ObservationStatus, SearchStatus
  <2>2. CASE items # {}
    <3>1. Content(First(items)) /\ UNION {x[2].refs : x \in items} \subseteq {"new", "old"}
      BY <1>2, <1>3, <2>2
    <3> QED
      BY <3>1 DEF NegativeVerdict, VerdictType, Actions, ObservationStatus, SearchStatus, Content
  <2> QED
    BY <2>1, <2>2
<1> QED
  BY <1>4, <1>5, <1>6, <1>7, <1>8

\* The only way to a negative verdict is past every required task.
LEMMA NegativeIsCovered ==
  ASSUME NEW p, NEW reused, Review(p, reused).action = "not_observed"
  PROVE  \A t \in Required(p) : Covered(t)
<1> DEFINE items == Items(p, reused)
           observed == {x \in items : x[2].status = "observed"}
           diagnostics == {x \in items : IsDiagnostic(x)}
<1>1. /\ ObservedVerdict(observed).action = "observed"
      /\ DiagnosticVerdict(p, diagnostics).action \in {"revise_query", "review_needed_coverage_incomplete"}
      /\ IncompleteVerdict(p).action = "review_needed_coverage_incomplete"
  BY DEF ObservedVerdict, DiagnosticVerdict, IncompleteVerdict
<1>2. Review(p, reused) = IF observed # {} THEN ObservedVerdict(observed)
                          ELSE IF diagnostics # {} THEN DiagnosticVerdict(p, diagnostics)
                          ELSE IF \E t \in Required(p) : ~ Covered(t) THEN IncompleteVerdict(p)
                          ELSE NegativeVerdict(items)
  BY DEF Review
<1> HIDE DEF items, observed, diagnostics
<1> QED
  BY <1>1, <1>2

\* Evidence of any lane decides the verdict, and is part of it.
LEMMA EvidenceDecides ==
  ASSUME NEW p, NEW reused, NEW x \in Items(p, reused), x[2].status = "observed"
  PROVE  Review(p, reused).status = "observed" /\ x[2].refs \subseteq Review(p, reused).refs
<1> DEFINE observed == {y \in Items(p, reused) : y[2].status = "observed"}
<1>1. x \in observed
  OBVIOUS
<1>2. Review(p, reused) = ObservedVerdict(observed)
  BY <1>1 DEF Review
<1> HIDE DEF observed
<1> QED
  BY <1>1, <1>2 DEF ObservedVerdict

LEMMA CheckpointTyped ==
  ASSUME observations \in Seq(NoteType), NEW reused \in ReuseType
  PROVE  Checkpoint(reused) \in [Pairs -> VerdictType]
<1>1. NoVerdict \in VerdictType
  BY DEF NoVerdict, VerdictType, Actions, ObservationStatus, SearchStatus
<1>2. \A p \in Pairs : Review(p, reused) \in VerdictType
  BY ReviewTyped
<1> QED
  BY <1>1, <1>2 DEF Checkpoint

LEMMA ReusesTyped == NothingReused \in ReuseType /\ Reuses \subseteq ReuseType
BY DEF NothingReused, Reuses, ReuseType

-----------------------------------------------------------------------------
\* What is spent

CostType == [tasks : Nat, calls : Nat, retries : Nat, backups : Nat, verifications : Nat, lookbacks : Nat]

LEMMA CostTyped ==
  ASSUME NEW calls \in Nat, NEW retries \in Nat, NEW backups \in Nat, NEW lookbacks \in Nat
  PROVE  /\ Cost(calls, retries, backups, lookbacks) \in CostType
         /\ Cost(calls, retries, backups, lookbacks).calls = calls
         /\ Cost(calls, retries, backups, lookbacks).retries = retries
         /\ Cost(calls, retries, backups, lookbacks).backups = backups
         /\ Cost(calls, retries, backups, lookbacks).lookbacks = lookbacks
BY DEF Cost, CostType

LEMMA CostCompleted ==
  ASSUME NEW more \in CostType, NEW tasks \in Nat, NEW pages \in Nat
  PROVE  LET all == [more EXCEPT !.tasks = tasks, !.verifications = pages]
         IN  /\ all \in CostType
             /\ all.calls = more.calls /\ all.retries = more.retries
             /\ all.backups = more.backups /\ all.lookbacks = more.lookbacks
BY DEF CostType

LEMMA SpendAdds ==
  ASSUME spent \in [Counters -> Nat], NEW more \in CostType, Spend(more)
  PROVE  /\ spent' \in [Counters -> Nat]
         /\ spent'.calls = spent.calls + more.calls
         /\ spent'.retries = spent.retries + more.retries
         /\ spent'.backups = spent.backups + more.backups
         /\ spent'.lookbacks = spent.lookbacks + more.lookbacks
BY DEF Spend, Counters, CostType

-----------------------------------------------------------------------------
\* An observation is made, and a task concluded

LEMMA NoteAppended ==
  ASSUME IInv, NEW t \in Tasks, Pair(t) \in PlannedPairs, NEW f \in FindingType,
         observations' = Append(observations, Note(t, f)), plan' = plan
  PROVE  /\ observations' \in Seq(NoteType)
         /\ \A i \in DOMAIN observations' : observations'[i].pair \in PlannedPairs'
         /\ Answered(t)' /\ \A u \in Tasks : Answered(u) => Answered(u)'
<1>1. /\ observations \in Seq(NoteType) /\ Note(t, f) \in NoteType
      /\ Note(t, f).pair = Pair(t) /\ Note(t, f).task = t
  BY NoteTyped DEF IInv, TypeOK
<1>2. /\ observations' \in Seq(NoteType) /\ Len(observations) \in Nat
      /\ DOMAIN observations = 1 .. Len(observations)
      /\ DOMAIN observations' = 1 .. Len(observations) + 1
      /\ observations'[Len(observations) + 1] = Note(t, f)
      /\ \A i \in DOMAIN observations : observations'[i] = observations[i]
  BY <1>1
<1>3. PlannedPairs' = PlannedPairs
  BY DEF PlannedPairs
<1>4. \A i \in DOMAIN observations : observations[i].pair \in PlannedPairs
  BY DEF IInv, NotesSound
<1>5. \A i \in DOMAIN observations' : i \in DOMAIN observations \/ i = Len(observations) + 1
  BY <1>2
<1>6. Len(observations) + 1 \in DOMAIN observations' /\ DOMAIN observations \subseteq DOMAIN observations'
  BY <1>2
<1> QED
  BY <1>1, <1>2, <1>3, <1>4, <1>5, <1>6, Zenon DEF Answered

LEMMA AuditTypes ==
  ASSUME IInv
  PROVE  /\ Cardinality(Receipted) \in Nat /\ Cardinality(BudgetLimited) \in Nat
         /\ IsFiniteSet(Receipted) /\ IsFiniteSet(BudgetLimited)
         /\ spent.lookbacks \in Nat /\ spent.calls \in Nat /\ spent.retries \in Nat /\ spent.backups \in Nat
         /\ spent.lookbacks = Cardinality(Receipted) + (IF call = NoCall THEN 0 ELSE 1)
         /\ spent.calls = spent.lookbacks + spent.retries + spent.backups - Cardinality(BudgetLimited)
         /\ \A u \in Tasks : receipts[u] # "none" <=> ledger[u] = "executed"
<1>1. spent \in [Counters -> Nat]
  BY DEF IInv, TypeOK
<1>2. BudgetLimited \subseteq Receipted /\ IsFiniteSet(Receipted)
  BY DEF IInv, Audit, BudgetLimited, Receipted
<1>3. IsFiniteSet(BudgetLimited)
  BY <1>2, FS_Subset
<1> QED
  BY <1>1, <1>2, <1>3, FS_CardinalityType DEF IInv, Audit, AuditAddsUp, Receipted, BudgetLimited, Counters

\* The audit adds up again once its parts do.
LEMMA AuditKept ==
  ASSUME IsFiniteSet(Receipted'),
         spent'.lookbacks = Cardinality(Receipted') + (IF call' = NoCall THEN 0 ELSE 1),
         spent'.calls = spent'.lookbacks + spent'.retries + spent'.backups - Cardinality(BudgetLimited'),
         \A u \in Tasks : receipts'[u] # "none" <=> ledger'[u] = "executed"
  PROVE  Audit'
BY DEF Audit, AuditAddsUp, Receipted, BudgetLimited

\* what a task costs when it is refused for want of a call, and when it is answered
Settles(outcome, more) ==
  \/ outcome = "budget_limited" /\ call = NoCall /\ more = Cost(0, 0, 0, 1)
  \/ outcome \notin {"none", "budget_limited"} /\ call # NoCall /\ more = Cost(0, 0, 0, 0)

LEMMA Concluded ==
  ASSUME IInv, NEW t \in Tasks, receipts[t] = "none", Pair(t) \in PlannedPairs,
         NEW f \in FindingType, NEW outcome \in ReceiptOutcome, NEW pages \in Nat, NEW more,
         Settles(outcome, more), Conclude(t, f, outcome, pages, more), plan' = plan
  PROVE  /\ observations' \in Seq(NoteType) /\ receipts' \in [Tasks -> ReceiptOutcome]
         /\ ledger' \in [Tasks -> LedgerStatus] /\ spent' \in [Counters -> Nat]
         /\ call' = NoCall /\ NotesSound' /\ Audit'
         /\ receipts'[t] # "none" /\ \A u \in Tasks : u # t => receipts'[u] = receipts[u]
<1>1. /\ receipts \in [Tasks -> ReceiptOutcome] /\ ledger \in [Tasks -> LedgerStatus]
      /\ spent \in [Counters -> Nat] /\ outcome # "none"
  BY DEF IInv, TypeOK, Settles
<1>2. /\ observations' = Append(observations, Note(t, f)) /\ call' = NoCall
      /\ receipts' = [receipts EXCEPT ![t] = outcome] /\ ledger' = [ledger EXCEPT ![t] = "executed"]
      /\ Spend([more EXCEPT !.tasks = TaskCost(f), !.verifications = pages])
  BY DEF Conclude
<1>3. /\ receipts' \in [Tasks -> ReceiptOutcome] /\ ledger' \in [Tasks -> LedgerStatus]
      /\ receipts'[t] = outcome /\ ledger'[t] = "executed"
      /\ \A u \in Tasks : u # t => receipts'[u] = receipts[u] /\ ledger'[u] = ledger[u]
  BY <1>1, <1>2 DEF LedgerStatus
<1>4. more \in CostType /\ more.calls = 0 /\ more.retries = 0 /\ more.backups = 0
      /\ more.lookbacks = IF outcome = "budget_limited" THEN 1 ELSE 0
  BY CostTyped DEF Settles
<1>5. TaskCost(f) \in Nat
  BY DEF TaskCost
<1>6. /\ spent' \in [Counters -> Nat] /\ spent'.calls = spent.calls /\ spent'.retries = spent.retries
      /\ spent'.backups = spent.backups
      /\ spent'.lookbacks = spent.lookbacks + IF outcome = "budget_limited" THEN 1 ELSE 0
  <2> DEFINE all == [more EXCEPT !.tasks = TaskCost(f), !.verifications = pages]
  <2>1. /\ all \in CostType /\ all.calls = more.calls /\ all.retries = more.retries
        /\ all.backups = more.backups /\ all.lookbacks = more.lookbacks
    BY <1>4, <1>5, CostCompleted
  <2>2. Spend(all)
    BY <1>2
  <2> HIDE DEF all
  <2> QED
    BY <1>1, <1>4, <2>1, <2>2, SpendAdds DEF Counters
<1>7. Receipted' = Receipted \cup {t} /\ t \notin Receipted
  BY <1>1, <1>3 DEF Receipted
<1>8. BudgetLimited' = (IF outcome = "budget_limited" THEN BudgetLimited \cup {t} ELSE BudgetLimited)
      /\ t \notin BudgetLimited
  BY <1>1, <1>3 DEF BudgetLimited
<1>9. /\ IsFiniteSet(Receipted') /\ Cardinality(Receipted') = Cardinality(Receipted) + 1
      /\ Cardinality(BudgetLimited') = Cardinality(BudgetLimited)
           + IF outcome = "budget_limited" THEN 1 ELSE 0
  <2>1. IsFiniteSet(Receipted \cup {t}) /\ Cardinality(Receipted \cup {t}) = Cardinality(Receipted) + 1
    BY <1>7, AuditTypes, FS_AddElement
  <2>2. Cardinality(BudgetLimited \cup {t}) = Cardinality(BudgetLimited) + 1
    BY <1>8, AuditTypes, FS_AddElement
  <2>3. Cardinality(BudgetLimited) \in Nat
    BY AuditTypes
  <2> HIDE DEF Receipted, BudgetLimited
  <2> QED
    BY <1>7, <1>8, <2>1, <2>2, <2>3
<1>10. Audit'
  <2>1. spent'.lookbacks = Cardinality(Receipted') + (IF call' = NoCall THEN 0 ELSE 1)
    BY <1>2, <1>6, <1>9, AuditTypes DEF Settles
  <2>2. spent'.calls = spent'.lookbacks + spent'.retries + spent'.backups - Cardinality(BudgetLimited')
    BY <1>6, <1>9, AuditTypes
  <2>3. \A u \in Tasks : receipts'[u] # "none" <=> ledger'[u] = "executed"
    BY <1>1, <1>3, AuditTypes
  <2> QED
    BY <1>9, <2>1, <2>2, <2>3, AuditKept
<1>11. NotesSound'
  <2>1. /\ \A i \in DOMAIN observations' : observations'[i].pair \in PlannedPairs'
        /\ Answered(t)' /\ \A u \in Tasks : Answered(u) => Answered(u)'
    BY <1>2, NoteAppended
  <2>2. \A u \in Tasks : receipts[u] # "none" => Answered(u)
    BY DEF IInv, NotesSound
  <2>3. ASSUME NEW u \in Tasks, receipts'[u] # "none" PROVE Answered(u)'
    BY <1>3, <2>1, <2>2, <2>3, Zenon
  <2> QED
    BY <2>1, <2>3, Zenon DEF NotesSound
<1> QED
  BY <1>1, <1>2, <1>3, <1>6, <1>10, <1>11, NoteAppended

-----------------------------------------------------------------------------
\* What every step uses

LEMMA PlanKept ==
  ASSUME plan' = plan
  PROVE  /\ PlannedPairs' = PlannedPairs
         /\ \A t : Planned(t)' <=> Planned(t)
         /\ \A p : RevisionTask(p)' = RevisionTask(p)
BY DEF PlannedPairs, Planned, RevisionTask, PositionOf

\* Before the end nothing is said of the verdicts yet.
LEMMA NotYetDone == phase' # "done" => NotObservedIsCovered' /\ EvidenceIsReported'
BY DEF NotObservedIsCovered, EvidenceIsReported

LEMMA CallTyped ==
  ASSUME IInv, call # NoCall
  PROVE  /\ call \in [task : Tasks, role : Roles] /\ call.task \in Tasks
         /\ receipts[call.task] = "none" /\ Pair(call.task) \in PlannedPairs
         /\ phase \in {"tasks", "revisions"}
BY DEF IInv, TypeOK, Control, Phases

LEMMA QueueTaken ==
  ASSUME IInv, queue # <<>>
  PROVE  /\ Head(queue) \in Tasks /\ Planned(Head(queue)) /\ Unanswered(Head(queue))
         /\ phase \in {"limited", "tasks"} /\ pending = {}
         /\ Tail(queue) \in Seq(Tasks)
         /\ \A i, j \in DOMAIN Tail(queue) : Tail(queue)[i] = Tail(queue)[j] => i = j
         /\ \A i \in DOMAIN Tail(queue) : /\ Planned(Tail(queue)[i]) /\ Unanswered(Tail(queue)[i])
                                          /\ Tail(queue)[i] \in Tasks /\ Tail(queue)[i] # Head(queue)
<1>1. /\ queue \in Seq(Tasks) /\ phase \in Phases
      /\ \A i, j \in DOMAIN queue : queue[i] = queue[j] => i = j
      /\ \A i \in DOMAIN queue : Planned(queue[i]) /\ Unanswered(queue[i])
      /\ phase \in {"revisions", "done"} => queue = <<>>
      /\ phase \in {"limited", "tasks"} => pending = {}
  BY DEF IInv, TypeOK, Control
<1>2. /\ Len(queue) \in Nat /\ DOMAIN queue = 1 .. Len(queue) /\ Len(queue) > 0
      /\ \A i \in DOMAIN queue : queue[i] \in Tasks
  BY <1>1, ElementOfSeq, LenProperties, EmptySeq
<1>3. 1 \in DOMAIN queue /\ Head(queue) = queue[1]
  BY <1>1, <1>2
<1>4. /\ Tail(queue) \in Seq(Tasks) /\ DOMAIN Tail(queue) = 1 .. Len(queue) - 1
      /\ \A i \in 1 .. Len(queue) - 1 : Tail(queue)[i] = queue[i + 1]
  BY <1>1, HeadTailProperties
<1>5. \A i \in DOMAIN Tail(queue) : i + 1 \in DOMAIN queue /\ i \in Nat /\ i + 1 # 1 /\ Tail(queue)[i] = queue[i + 1]
  BY <1>2, <1>4
<1>6. \A i, j \in DOMAIN Tail(queue) : Tail(queue)[i] = Tail(queue)[j] => i = j
  BY <1>1, <1>5
<1>7. \A i \in DOMAIN Tail(queue) : Tail(queue)[i] # Head(queue)
  BY <1>1, <1>3, <1>5
<1>8. phase \in {"limited", "tasks"}
  BY <1>1 DEF Phases
<1> QED
  BY <1>1, <1>2, <1>3, <1>4, <1>5, <1>6, <1>7, <1>8, ZenonT(60)

LEMMA InvariantInit == Init => IInv
<1> SUFFICES ASSUME Init PROVE IInv
  OBVIOUS
<1>1. /\ plan \in Plans /\ queue = plan.scheduled /\ pending = {} /\ call = NoCall
      /\ phase \in {"tasks", "limited"} /\ observations = <<>> /\ advanced = {} /\ completion = "running"
      /\ receipts = [t \in Tasks |-> "none"] /\ spent = [c \in Counters |-> 0]
      /\ ledger = ScheduledLedger(plan) /\ verdict = [p \in Pairs |-> NoVerdict]
  BY DEF Init
<1>2. /\ ledger \in [Tasks -> LedgerStatus] /\ \A t \in Tasks : ledger[t] # "executed"
  BY <1>1 DEF ScheduledLedger, LedgerStatus
<1>3. TypeOK
  <2>1. NoVerdict \in VerdictType
    BY DEF NoVerdict, VerdictType, Actions, ObservationStatus, SearchStatus
  <2>2. queue \in Seq(Tasks) /\ observations \in Seq(NoteType)
    BY <1>1, PlanTyped
  <2> QED
    BY <1>1, <1>2, <2>1, <2>2 DEF TypeOK, Phases, ReceiptOutcome, Counters
<1>4. Control
  <2>1. \A i, j \in DOMAIN queue : queue[i] = queue[j] => i = j
    BY <1>1, PlansAssumption DEF PlanShape
  <2>2. \A i \in DOMAIN queue : Planned(queue[i]) /\ queue[i] \in Tasks
    BY <1>1, PlanTyped DEF Planned, Elements
  <2>3. Receipted = {} /\ \A t \in Tasks : Unanswered(t)
    BY <1>1 DEF Receipted, Unanswered, InFlight
  <2>4. \A t \in Tasks : receipts[t] = "none"
    BY <1>1
  <2> QED
    BY <1>1, <2>1, <2>2, <2>3, <2>4 DEF Control
<1>5. NotesSound
  BY <1>1 DEF NotesSound
<1>6. Audit
  <2>1. Receipted = {} /\ BudgetLimited = {}
    BY <1>1 DEF Receipted, BudgetLimited
  <2>2. IsFiniteSet(Receipted) /\ Cardinality(Receipted) = 0 /\ Cardinality(BudgetLimited) = 0
    BY <2>1, FS_EmptySet
  <2>3. spent.lookbacks = 0 /\ spent.calls = 0 /\ spent.retries = 0 /\ spent.backups = 0
    BY <1>1 DEF Counters
  <2> QED
    BY <1>1, <1>2, <2>2, <2>3 DEF Audit, AuditAddsUp, Receipted, BudgetLimited
<1>7. NotObservedIsCovered /\ EvidenceIsReported
  BY <1>1 DEF NotObservedIsCovered, EvidenceIsReported
<1> QED
  BY <1>3, <1>4, <1>5, <1>6, <1>7 DEF IInv

-----------------------------------------------------------------------------
\* The steps of the executor

LEMMA LimitByPolicyKeeps == IInv /\ LimitByPolicy => IInv'
<1> SUFFICES ASSUME IInv, LimitByPolicy PROVE IInv'
  OBVIOUS
<1>1. /\ phase = "limited" /\ phase' = "tasks" /\ queue' = <<>>
      /\ observations' = [i \in DOMAIN plan.scheduled |->
                           Note(plan.scheduled[i], Diagnosed("not_searched_policy_limited"))]
      /\ ledger' = [t \in Tasks |-> IF ledger[t] = "none" THEN "none" ELSE "policy_limited"]
      /\ UNCHANGED <<plan, pending, call, receipts, spent, verdict, advanced, completion>>
  BY DEF LimitByPolicy
<1>2. /\ call = NoCall /\ Receipted = {} /\ pending = {} /\ plan \in Plans
      /\ receipts \in [Tasks -> ReceiptOutcome]
  BY <1>1 DEF IInv, Control, TypeOK
<1>3. \A t \in Tasks : receipts[t] = "none"
  BY <1>2 DEF Receipted
<1>4. ASSUME NEW i \in DOMAIN plan.scheduled
      PROVE  observations'[i] \in NoteType /\ observations'[i].pair \in PlannedPairs
  <2>1. plan.scheduled[i] \in Elements(plan.tasks)
    BY <1>2, PlanTyped DEF Elements
  <2>2. plan.scheduled[i] \in Tasks /\ Pair(plan.scheduled[i]) \in PlannedPairs
    BY <1>2, <2>1, PlannedPair DEF Planned
  <2>3. Diagnosed("not_searched_policy_limited") \in FindingType
    BY DiagnosedTyped DEF SearchStatus
  <2> QED
    BY <1>1, <2>2, <2>3, NoteTyped
<1>5. /\ observations' \in Seq(NoteType) /\ DOMAIN observations' = DOMAIN plan.scheduled
  <2>1. DOMAIN plan.scheduled = 1 .. Len(plan.scheduled) /\ Len(plan.scheduled) \in Nat
    BY <1>2, PlanTyped
  <2>2. observations' \in [1 .. Len(plan.scheduled) -> NoteType]
    BY <1>1, <1>4, <2>1
  <2> QED
    BY <1>1, <2>1, <2>2, SeqDef
<1>6. ledger' \in [Tasks -> LedgerStatus] /\ \A t \in Tasks : ledger'[t] # "executed"
  BY <1>1 DEF LedgerStatus
<1>7. TypeOK'
  BY <1>1, <1>5, <1>6 DEF IInv, TypeOK, Phases
<1>8. Control'
  BY <1>1, <1>2, <1>3 DEF Control, Receipted
<1>9. NotesSound'
  BY <1>1, <1>3, <1>4, <1>5, PlanKept DEF NotesSound
<1>10. Audit'
  BY <1>1, <1>3, <1>6, AuditTypes, AuditKept DEF Receipted, BudgetLimited
<1> QED
  BY <1>1, <1>7, <1>8, <1>9, <1>10, NotYetDone DEF IInv

LEMMA SkipKeeps ==
  ASSUME IInv, Working, NEW search \in SearchStatus, Skip(Head(queue), search)
  PROVE  IInv'
<1>1. /\ phase = "tasks" /\ call = NoCall /\ queue # <<>>
      /\ observations' = Append(observations, Note(Head(queue), Diagnosed(search)))
      /\ queue' = Tail(queue)
      /\ UNCHANGED <<plan, phase, pending, call, ledger, receipts, spent, verdict, advanced, completion>>
  BY DEF Working, Skip
<1>2. Head(queue) \in Tasks /\ Pair(Head(queue)) \in PlannedPairs
  BY <1>1, QueueTaken, PlannedPair DEF IInv, TypeOK
<1>3. /\ observations' \in Seq(NoteType)
      /\ \A i \in DOMAIN observations' : observations'[i].pair \in PlannedPairs'
      /\ \A u \in Tasks : Answered(u) => Answered(u)'
  BY <1>1, <1>2, DiagnosedTyped, NoteAppended
<1>4. TypeOK'
  BY <1>1, <1>3, QueueTaken DEF IInv, TypeOK
<1>5. Control'
  <2>1. \A i, j \in DOMAIN queue' : queue'[i] = queue'[j] => i = j
    BY <1>1, QueueTaken
  <2>2. (\A i \in DOMAIN queue : Planned(queue[i]) /\ Unanswered(queue[i]))'
    BY <1>1, QueueTaken DEF Unanswered, InFlight, Planned
  <2> QED
    BY <1>1, <2>1, <2>2, PlanKept DEF IInv, Control, Unanswered, InFlight, Receipted
<1>6. NotesSound'
  BY <1>1, <1>3, Zenon DEF IInv, NotesSound
<1>7. Audit'
  BY <1>1, AuditTypes, AuditKept DEF Receipted, BudgetLimited
<1> QED
  BY <1>1, <1>4, <1>5, <1>6, <1>7, NotYetDone DEF IInv

\* A task is concluded, and what is left to do was never its own.
LEMMA SettledKeeps ==
  ASSUME IInv, NEW t \in Tasks, receipts[t] = "none", Pair(t) \in PlannedPairs,
         NEW f \in FindingType, NEW outcome \in ReceiptOutcome, NEW pages \in Nat, NEW more,
         Settles(outcome, more), Conclude(t, f, outcome, pages, more),
         UNCHANGED <<plan, phase, verdict, advanced, completion>>,
         phase \in {"tasks", "revisions"}, phase = "tasks" => t.revision = 0,
         queue' \in Seq(Tasks), pending' \subseteq pending,
         phase = "revisions" => queue' = <<>>,
         \A i, j \in DOMAIN queue' : queue'[i] = queue'[j] => i = j,
         \A i \in DOMAIN queue' : /\ Planned(queue'[i]) /\ Unanswered(queue'[i])
                                  /\ queue'[i] \in Tasks /\ queue'[i] # t,
         \A q \in pending' : RevisionTask(q) # t
  PROVE  IInv'
<1>1. /\ observations' \in Seq(NoteType) /\ receipts' \in [Tasks -> ReceiptOutcome]
      /\ ledger' \in [Tasks -> LedgerStatus] /\ spent' \in [Counters -> Nat]
      /\ call' = NoCall /\ NotesSound' /\ Audit'
      /\ receipts'[t] # "none" /\ \A u \in Tasks : u # t => receipts'[u] = receipts[u]
  BY Concluded
<1>2. TypeOK'
  BY <1>1 DEF IInv, TypeOK
<1>3. (\A i \in DOMAIN queue : Planned(queue[i]) /\ Unanswered(queue[i]))'
  BY <1>1 DEF Unanswered, InFlight, Planned
<1>4. ASSUME NEW q \in pending' PROVE q \in PlannedPairs' /\ Unanswered(RevisionTask(q))'
  <2>1. q \in PlannedPairs /\ Unanswered(RevisionTask(q)) /\ plan \in Plans
    BY DEF IInv, Control, TypeOK
  <2>2. RevisionTask(q) \in Tasks /\ RevisionTask(q) # t
    BY <2>1, RevisionTaskTyped
  <2>3. receipts'[RevisionTask(q)] = "none"
    BY <1>1, <2>1, <2>2 DEF Unanswered
  <2>4. RevisionTask(q)' = RevisionTask(q) /\ PlannedPairs' = PlannedPairs
    BY PlanKept
  <2> QED
    BY <1>1, <2>1, <2>3, <2>4 DEF Unanswered, InFlight
<1>5. phase' = "tasks" => /\ pending' = {}
                          /\ \A u \in Tasks : receipts'[u] # "none" => u.revision = 0
  <2>1. phase = "tasks" => pending = {} /\ \A u \in Tasks : receipts[u] # "none" => u.revision = 0
    BY DEF IInv, Control
  <2> QED
    BY <1>1, <2>1
<1>6. Control'
  <2>1. \A q \in pending' : Unanswered(RevisionTask(q))'
    BY <1>4
  <2>2. pending' \subseteq PlannedPairs'
    BY <1>4
  <2> QED
    BY <1>1, <1>3, <1>5, <2>1, <2>2 DEF Control
<1> QED
  BY <1>1, <1>2, <1>6, NotYetDone DEF IInv

LEMMA RequestSpent ==
  ASSUME spent \in [Counters -> Nat], Spend(Cost(1, 0, 0, 1))
  PROVE  /\ spent' \in [Counters -> Nat] /\ spent'.calls = spent.calls + 1
         /\ spent'.retries = spent.retries + 0 /\ spent'.backups = spent.backups + 0
         /\ spent'.lookbacks = spent.lookbacks + 1
<1> DEFINE more == Cost(1, 0, 0, 1)
<1>1. /\ more \in CostType /\ more.calls = 1 /\ more.retries = 0 /\ more.backups = 0
      /\ more.lookbacks = 1
  BY CostTyped
<1>2. Spend(more)
  OBVIOUS
<1> HIDE DEF more
<1> QED
  BY <1>1, <1>2, SpendAdds

LEMMA RepeatSpent ==
  ASSUME spent \in [Counters -> Nat], NEW retry \in {0, 1}, Spend(Cost(1, retry, 1 - retry, 0))
  PROVE  /\ spent' \in [Counters -> Nat] /\ spent'.calls = spent.calls + 1
         /\ spent'.retries = spent.retries + retry /\ spent'.backups = spent.backups + (1 - retry)
         /\ spent'.lookbacks = spent.lookbacks + 0
<1> DEFINE more == Cost(1, retry, 1 - retry, 0)
<1>1. retry \in Nat /\ 1 - retry \in Nat
  OBVIOUS
<1>2. /\ more \in CostType /\ more.calls = 1 /\ more.retries = retry
      /\ more.backups = 1 - retry /\ more.lookbacks = 0
  BY <1>1, CostTyped
<1>3. Spend(more)
  OBVIOUS
<1> HIDE DEF more
<1> QED
  BY <1>2, <1>3, SpendAdds

\* One more call, for a task that was or is now in flight.
LEMMA CallAudited ==
  ASSUME IInv, UNCHANGED <<receipts, ledger>>, call' # NoCall,
         spent' \in [Counters -> Nat],
         spent'.lookbacks = spent.lookbacks + (IF call = NoCall THEN 1 ELSE 0),
         spent'.calls = spent.calls + 1,
         spent'.lookbacks + spent'.retries + spent'.backups
           = spent.lookbacks + spent.retries + spent.backups + 1
  PROVE  Audit'
<1>1. Receipted' = Receipted /\ BudgetLimited' = BudgetLimited
  BY DEF Receipted, BudgetLimited
<1>2. spent'.lookbacks \in Nat /\ spent'.retries \in Nat /\ spent'.backups \in Nat /\ spent'.calls \in Nat
  BY DEF Counters
<1> DEFINE R == Cardinality(Receipted)
           B == Cardinality(BudgetLimited)
<1>3. /\ R \in Nat /\ B \in Nat /\ IsFiniteSet(Receipted)
      /\ spent.lookbacks \in Nat /\ spent.calls \in Nat /\ spent.retries \in Nat /\ spent.backups \in Nat
      /\ spent.lookbacks = R + (IF call = NoCall THEN 0 ELSE 1)
      /\ spent.calls = spent.lookbacks + spent.retries + spent.backups - B
      /\ \A u \in Tasks : receipts[u] # "none" <=> ledger[u] = "executed"
  BY AuditTypes
<1>4. Cardinality(Receipted') = R /\ Cardinality(BudgetLimited') = B /\ IsFiniteSet(Receipted')
  BY <1>1, <1>3
<1> HIDE DEF R, B
<1>5. spent'.lookbacks = Cardinality(Receipted') + (IF call' = NoCall THEN 0 ELSE 1)
  BY <1>3, <1>4
<1>6. spent'.calls = spent'.lookbacks + spent'.retries + spent'.backups - Cardinality(BudgetLimited')
  BY <1>2, <1>3, <1>4
<1> QED
  BY <1>3, <1>4, <1>5, <1>6, AuditKept

\* A call goes out for a task, and what is left to do was never its own.
LEMMA RequestedKeeps ==
  ASSUME IInv, NEW t \in Tasks, Unanswered(t), Pair(t) \in PlannedPairs,
         call = NoCall, call' = [task |-> t, role |-> "primary"], Spend(Cost(1, 0, 0, 1)),
         UNCHANGED <<plan, phase, observations, receipts, ledger, verdict, advanced, completion>>,
         phase \in {"tasks", "revisions"}, phase = "tasks" => t.revision = 0,
         queue' \in Seq(Tasks), pending' \subseteq pending,
         phase = "revisions" => queue' = <<>>,
         \A i, j \in DOMAIN queue' : queue'[i] = queue'[j] => i = j,
         \A i \in DOMAIN queue' : /\ Planned(queue'[i]) /\ Unanswered(queue'[i])
                                  /\ queue'[i] \in Tasks /\ queue'[i] # t,
         \A q \in pending' : RevisionTask(q) # t
  PROVE  IInv'
<1>1. /\ call' \in [task : Tasks, role : Roles] /\ call' # NoCall /\ call'.task = t
      /\ receipts[t] = "none"
  BY DEF NoCall, Roles, Unanswered
<1>2. /\ spent' \in [Counters -> Nat] /\ spent'.calls = spent.calls + 1
      /\ spent'.retries = spent.retries /\ spent'.backups = spent.backups
      /\ spent'.lookbacks = spent.lookbacks + 1
  BY RequestSpent, AuditTypes DEF IInv, TypeOK
<1>3. TypeOK'
  BY <1>1, <1>2 DEF IInv, TypeOK
<1>4. (\A i \in DOMAIN queue : Planned(queue[i]) /\ Unanswered(queue[i]))'
  BY <1>1 DEF Unanswered, InFlight, Planned
<1>5. \A q \in pending' : q \in PlannedPairs' /\ Unanswered(RevisionTask(q))'
  <2>1. \A q \in pending' : q \in PlannedPairs /\ Unanswered(RevisionTask(q))
    BY DEF IInv, Control
  <2> QED
    BY <1>1, <2>1, PlanKept DEF Unanswered, InFlight
<1>6. Control'
  BY <1>1, <1>4, <1>5, PlanKept DEF IInv, Control
<1>7. NotesSound'
  BY PlanKept DEF IInv, NotesSound, Answered
<1>8. Audit'
  <2>1. spent'.lookbacks = spent.lookbacks + (IF call = NoCall THEN 1 ELSE 0)
    BY <1>2
  <2>2. spent'.lookbacks + spent'.retries + spent'.backups
          = spent.lookbacks + spent.retries + spent.backups + 1
    BY <1>2, AuditTypes
  <2> QED
    BY <1>1, <1>2, <2>1, <2>2, CallAudited
<1> QED
  BY <1>3, <1>6, <1>7, <1>8, NotYetDone DEF IInv

LEMMA RequestTaskKeeps == IInv /\ RequestTask => IInv'
<1> SUFFICES ASSUME IInv, RequestTask PROVE IInv'
  OBVIOUS
<1> DEFINE t == Head(queue)
<1>1. /\ phase = "tasks" /\ call = NoCall /\ queue # <<>> /\ queue' = Tail(queue) /\ Start(t)
      /\ UNCHANGED <<plan, phase, pending, verdict, advanced, completion>>
  BY DEF RequestTask, Working
<1>2. /\ t \in Tasks /\ Planned(t) /\ Unanswered(t) /\ pending = {}
      /\ Tail(queue) \in Seq(Tasks)
      /\ \A i, j \in DOMAIN Tail(queue) : Tail(queue)[i] = Tail(queue)[j] => i = j
      /\ \A i \in DOMAIN Tail(queue) : /\ Planned(Tail(queue)[i]) /\ Unanswered(Tail(queue)[i])
                                       /\ Tail(queue)[i] \in Tasks /\ Tail(queue)[i] # t
  BY <1>1, QueueTaken
<1>3. Pair(t) \in PlannedPairs /\ t.revision = 0 /\ receipts[t] = "none"
  BY <1>2, PlannedPair DEF IInv, TypeOK, Unanswered
<1> HIDE DEF t
<1>4. ASSUME Conclude(t, Diagnosed("not_searched_budget_limited"), "budget_limited", 0, Cost(0, 0, 0, 1))
      PROVE  IInv'
  <2>1. Settles("budget_limited", Cost(0, 0, 0, 1)) /\ "budget_limited" \in ReceiptOutcome
    BY <1>1 DEF Settles, ReceiptOutcome
  <2>2. Diagnosed("not_searched_budget_limited") \in FindingType
    BY DiagnosedTyped DEF SearchStatus
  <2> QED
    BY <1>1, <1>2, <1>3, <1>4, <2>1, <2>2, SettledKeeps
<1>5. ASSUME call' = [task |-> t, role |-> "primary"], Spend(Cost(1, 0, 0, 1)),
             UNCHANGED <<observations, receipts, ledger>>
      PROVE  IInv'
  BY <1>1, <1>2, <1>3, <1>5, RequestedKeeps
<1> QED
  BY <1>1, <1>4, <1>5 DEF Start

LEMMA OthersWait ==
  ASSUME IInv, call # NoCall
  PROVE  /\ queue \in Seq(Tasks)
         /\ phase = "tasks" => call.task.revision = 0
         /\ phase = "revisions" => queue = <<>>
         /\ \A i, j \in DOMAIN queue : queue[i] = queue[j] => i = j
         /\ \A i \in DOMAIN queue : /\ Planned(queue[i]) /\ Unanswered(queue[i])
                                    /\ queue[i] \in Tasks /\ queue[i] # call.task
         /\ \A q \in pending : RevisionTask(q) # call.task
<1>1. queue \in Seq(Tasks) /\ DOMAIN queue = 1 .. Len(queue) /\ Len(queue) \in Nat
  BY LenProperties DEF IInv, TypeOK
<1>2. \A i \in DOMAIN queue : queue[i] \in Tasks
  BY <1>1, ElementOfSeq
<1> QED
  BY <1>1, <1>2 DEF IInv, Control, Unanswered, InFlight

\* The answer of a call concludes its task.
LEMMA AnsweredKeeps ==
  ASSUME IInv, call # NoCall, NEW f \in FindingType, NEW outcome \in ReceiptOutcome, NEW pages \in Nat,
         outcome \notin {"none", "budget_limited"},
         Conclude(call.task, f, outcome, pages, Cost(0, 0, 0, 0)),
         UNCHANGED <<plan, phase, queue, pending, verdict, advanced, completion>>
  PROVE  IInv'
<1> DEFINE t == call.task
           more == Cost(0, 0, 0, 0)
<1>1. /\ t \in Tasks /\ receipts[t] = "none" /\ Pair(t) \in PlannedPairs /\ phase \in {"tasks", "revisions"}
  BY CallTyped
<1>2. Settles(outcome, more)
  BY DEF Settles
<1>3. /\ queue \in Seq(Tasks)
      /\ phase = "tasks" => t.revision = 0
      /\ phase = "revisions" => queue = <<>>
      /\ \A i, j \in DOMAIN queue : queue[i] = queue[j] => i = j
      /\ \A i \in DOMAIN queue : /\ Planned(queue[i]) /\ Unanswered(queue[i])
                                 /\ queue[i] \in Tasks /\ queue[i] # t
      /\ \A q \in pending : RevisionTask(q) # t
  BY OthersWait
<1>4. queue' = queue /\ pending' = pending
  OBVIOUS
<1>6. Conclude(t, f, outcome, pages, more)
  OBVIOUS
<1> HIDE DEF t, more
<1>7. /\ queue' \in Seq(Tasks) /\ pending' \subseteq pending
      /\ phase = "revisions" => queue' = <<>>
      /\ \A i, j \in DOMAIN queue' : queue'[i] = queue'[j] => i = j
      /\ \A i \in DOMAIN queue' : /\ Planned(queue'[i]) /\ Unanswered(queue'[i])
                                  /\ queue'[i] \in Tasks /\ queue'[i] # t
      /\ \A q \in pending' : RevisionTask(q) # t
  BY <1>3, <1>4
<1> QED
  BY <1>1, <1>2, <1>3, <1>6, <1>7, SettledKeeps

LEMMA AnswerReadableKeeps ==
  ASSUME IInv, NEW kind \in DOMAIN Finding, AnswerReadable(kind)
  PROVE  IInv'
<1> DEFINE allowed == VerificationBudgetAvailable(Finding[kind].pages)
           f == IF allowed THEN Finding[kind] ELSE Diagnosed("review_needed")
           pages == IF allowed THEN Finding[kind].pages ELSE 0
<1>1. f \in FindingType /\ pages \in Nat
  <2>1. Finding[kind] \in FindingType /\ Diagnosed("review_needed") \in FindingType
    BY FindingTyped, DiagnosedTyped DEF SearchStatus
  <2> QED
    BY <2>1 DEF FindingType
<1>2. /\ call # NoCall /\ Conclude(call.task, f, "retrieved", pages, Cost(0, 0, 0, 0))
      /\ UNCHANGED <<plan, phase, queue, pending, verdict, advanced, completion>>
  BY DEF AnswerReadable
<1> HIDE DEF f, pages
<1> QED
  BY <1>1, <1>2, AnsweredKeeps DEF ReceiptOutcome

LEMMA GiveUpKeeps ==
  ASSUME IInv, NEW failure \in Failures, GiveUp(failure)
  PROVE  IInv'
<1>1. /\ failure[1] \in SearchStatus /\ failure[2] \in ReceiptOutcome
      /\ failure[2] \notin {"none", "budget_limited"}
  BY DEF Failures, SearchStatus, ReceiptOutcome
<1>2. /\ call # NoCall /\ Conclude(call.task, Diagnosed(failure[1]), failure[2], 0, Cost(0, 0, 0, 0))
      /\ UNCHANGED <<plan, phase, queue, pending, verdict, advanced, completion>>
  BY DEF GiveUp
<1> QED
  BY <1>1, <1>2, DiagnosedTyped, AnsweredKeeps

\* A retry or the backup is one more call for the task in flight.
LEMMA CalledAgainKeeps ==
  ASSUME IInv, call # NoCall, NEW role \in Roles, call' = [call EXCEPT !.role = role],
         NEW retry \in {0, 1}, Spend(Cost(1, retry, 1 - retry, 0)),
         UNCHANGED <<plan, phase, queue, pending, ledger, receipts, observations, verdict,
                     advanced, completion>>
  PROVE  IInv'
<1>1. /\ call' \in [task : Tasks, role : Roles] /\ call'.task = call.task /\ call' # NoCall
  BY CallTyped DEF NoCall, Roles
<1>2. /\ spent' \in [Counters -> Nat] /\ spent'.calls = spent.calls + 1
      /\ spent'.retries + spent'.backups = spent.retries + spent.backups + 1
      /\ spent'.retries \in Nat /\ spent'.backups \in Nat
      /\ spent'.lookbacks = spent.lookbacks
  <2>1. spent \in [Counters -> Nat]
    BY DEF IInv, TypeOK
  <2>2. /\ spent' \in [Counters -> Nat] /\ spent'.calls = spent.calls + 1
        /\ spent'.retries = spent.retries + retry /\ spent'.backups = spent.backups + (1 - retry)
        /\ spent'.lookbacks = spent.lookbacks + 0
    BY <2>1, RepeatSpent
  <2> QED
    BY <2>2, AuditTypes
<1>3. TypeOK'
  BY <1>1, <1>2 DEF IInv, TypeOK
<1>4. \A u : InFlight(u)' <=> InFlight(u)
  BY <1>1 DEF InFlight
<1>5. Control'
  BY <1>1, <1>4, PlanKept DEF IInv, Control, Unanswered, Planned, Receipted
<1>6. NotesSound'
  BY PlanKept DEF IInv, NotesSound, Answered
<1>7. Audit'
  BY <1>1, <1>2, AuditTypes, CallAudited
<1>8. phase' # "done"
  BY CallTyped
<1> QED
  BY <1>3, <1>5, <1>6, <1>7, <1>8, NotYetDone DEF IInv

\* A revised query is ordered for a pair that had none.
LEMMA RevisionWanted ==
  ASSUME NEW p, NEW reused, Review(p, reused).action = "revise_query"
  PROVE  receipts[RevisionTask(p)] = "none"
<1> DEFINE items == Items(p, reused)
           observed == {x \in items : x[2].status = "observed"}
           diagnostics == {x \in items : IsDiagnostic(x)}
<1>1. /\ ObservedVerdict(observed).action = "observed"
      /\ DiagnosticVerdict(p, diagnostics).action = "revise_query" => receipts[RevisionTask(p)] = "none"
      /\ IncompleteVerdict(p).action = "review_needed_coverage_incomplete"
      /\ NegativeVerdict(items).action = "not_observed"
  BY DEF ObservedVerdict, DiagnosticVerdict, IncompleteVerdict, NegativeVerdict
<1>2. Review(p, reused) = IF observed # {} THEN ObservedVerdict(observed)
                          ELSE IF diagnostics # {} THEN DiagnosticVerdict(p, diagnostics)
                          ELSE IF \E t \in Required(p) : ~ Covered(t) THEN IncompleteVerdict(p)
                          ELSE NegativeVerdict(items)
  BY DEF Review
<1> HIDE DEF items, observed, diagnostics
<1> QED
  BY <1>1, <1>2

LEMMA FirstCheckpointKeeps == IInv /\ FirstCheckpoint => IInv'
<1> SUFFICES ASSUME IInv, FirstCheckpoint PROVE IInv'
  OBVIOUS
<1>1. /\ phase = "tasks" /\ queue = <<>> /\ call = NoCall /\ phase' = "revisions"
      /\ verdict' = Checkpoint(NothingReused) /\ pending' = RevisionPairs(verdict')
      /\ UNCHANGED <<plan, queue, call, ledger, receipts, observations, spent, advanced, completion>>
  BY DEF FirstCheckpoint
<1>2. /\ verdict' \in [Pairs -> VerdictType]
      /\ \A p \in Pairs : verdict'[p] = IF p \in PlannedPairs THEN Review(p, NothingReused) ELSE NoVerdict
  BY <1>1, ReusesTyped, CheckpointTyped DEF IInv, TypeOK, Checkpoint
<1>3. ASSUME NEW p \in pending' PROVE p \in PlannedPairs /\ receipts[RevisionTask(p)] = "none"
  <2>1. p \in Pairs /\ verdict'[p].action = "revise_query"
    BY <1>1 DEF RevisionPairs
  <2>2. p \in PlannedPairs /\ Review(p, NothingReused).action = "revise_query"
    BY <1>2, <2>1 DEF NoVerdict
  <2> QED
    BY <2>2, RevisionWanted
<1>4. pending' \subseteq PlannedPairs' /\ pending' \subseteq Pairs
  BY <1>1, <1>3, PlanKept, PlannedPairsTyped DEF IInv, TypeOK
<1>5. \A p \in pending' : Unanswered(RevisionTask(p))'
  BY <1>1, <1>3, PlanKept DEF Unanswered, InFlight
<1>6. TypeOK'
  BY <1>1, <1>2, <1>4 DEF IInv, TypeOK, Phases
<1>7. Control'
  BY <1>1, <1>4, <1>5 DEF Control
<1>8. NotesSound'
  BY <1>1, PlanKept DEF IInv, NotesSound, Answered
<1>9. Audit'
  BY <1>1 DEF IInv, Audit, AuditAddsUp, Receipted
<1> QED
  BY <1>1, <1>6, <1>7, <1>8, <1>9, NotYetDone DEF IInv

\* The revised queries of two pairs are two tasks, so one leaves the other alone.
LEMMA RevisionTaken ==
  ASSUME IInv, NEW p \in pending
  PROVE  /\ RevisionTask(p) \in Tasks /\ Unanswered(RevisionTask(p))
         /\ Pair(RevisionTask(p)) = p /\ p \in PlannedPairs
         /\ \A q \in pending \ {p} : RevisionTask(q) # RevisionTask(p)
<1>1. plan \in Plans /\ pending \subseteq PlannedPairs /\ \A q \in pending : Unanswered(RevisionTask(q))
  BY DEF IInv, TypeOK, Control
<1>2. \A q \in pending : Pair(RevisionTask(q)) = q /\ RevisionTask(q) \in Tasks
  BY <1>1, RevisionTaskTyped
<1> QED
  BY <1>1, <1>2

LEMMA SkipRevisionKeeps ==
  ASSUME IInv, NEW p \in Pairs, SkipRevision(p)
  PROVE  IInv'
<1> DEFINE t == RevisionTask(p)
<1>1. /\ phase = "revisions" /\ call = NoCall /\ p \in pending /\ pending' = pending \ {p}
      /\ observations' = Append(observations, Note(t, Diagnosed("not_searched_budget_limited")))
      /\ ledger' = [ledger EXCEPT ![t] = "not_scheduled_budget_limited"]
      /\ UNCHANGED <<plan, phase, queue, call, receipts, spent, verdict, advanced, completion>>
  BY DEF SkipRevision, NextRevision
<1>2. t \in Tasks /\ receipts[t] = "none" /\ Pair(t) \in PlannedPairs
  BY <1>1, RevisionTaken DEF Unanswered
<1> HIDE DEF t
<1>3. /\ observations' \in Seq(NoteType)
      /\ \A i \in DOMAIN observations' : observations'[i].pair \in PlannedPairs'
      /\ \A u \in Tasks : Answered(u) => Answered(u)'
  <2>1. Diagnosed("not_searched_budget_limited") \in FindingType
    BY DiagnosedTyped DEF SearchStatus
  <2> QED
    BY <1>1, <1>2, <2>1, NoteAppended
<1>4. /\ ledger' \in [Tasks -> LedgerStatus]
      /\ \A u \in Tasks : receipts[u] # "none" <=> ledger'[u] = "executed"
  <2>1. ledger \in [Tasks -> LedgerStatus] /\ \A u \in Tasks : receipts[u] # "none" <=> ledger[u] = "executed"
    BY AuditTypes DEF IInv, TypeOK
  <2> QED
    BY <1>1, <1>2, <2>1 DEF LedgerStatus
<1>5. TypeOK'
  BY <1>1, <1>3, <1>4 DEF IInv, TypeOK
<1>6. Control'
  BY <1>1, PlanKept DEF IInv, Control, Unanswered, InFlight, Planned
<1>7. NotesSound'
  BY <1>1, <1>3, Zenon DEF IInv, NotesSound
<1>8. Audit'
  BY <1>1, <1>4 DEF IInv, Audit, AuditAddsUp, Receipted
<1> QED
  BY <1>1, <1>5, <1>6, <1>7, <1>8, NotYetDone DEF IInv

LEMMA RequestRevisionKeeps ==
  ASSUME IInv, NEW p \in Pairs, RequestRevision(p)
  PROVE  IInv'
<1> DEFINE t == RevisionTask(p)
<1>1. /\ phase = "revisions" /\ call = NoCall /\ p \in pending /\ pending' = pending \ {p}
      /\ ~ ProviderBudgetExhausted /\ Start(t)
      /\ UNCHANGED <<plan, phase, queue, verdict, advanced, completion>>
  BY DEF RequestRevision, NextRevision
<1>2. t \in Tasks /\ Unanswered(t) /\ Pair(t) \in PlannedPairs /\ \A q \in pending' : RevisionTask(q) # t
  BY <1>1, RevisionTaken
<1>3. queue = <<>> /\ queue' = queue
  BY <1>1 DEF IInv, Control
<1> HIDE DEF t
<1>4. /\ call' = [task |-> t, role |-> "primary"] /\ Spend(Cost(1, 0, 0, 1))
      /\ UNCHANGED <<observations, receipts, ledger>>
  BY <1>1 DEF Start
<1>5. /\ queue' \in Seq(Tasks) /\ queue' = <<>> /\ DOMAIN queue' = {}
  BY <1>3
<1> QED
  BY <1>1, <1>2, <1>4, <1>5, RequestedKeeps

LEMMA CloseKeeps ==
  ASSUME IInv, NEW reused \in Reuses, Close(reused)
  PROVE  IInv'
<1>1. /\ phase = "revisions" /\ call = NoCall /\ pending = {} /\ phase' = "done"
      /\ verdict' = Checkpoint(reused) /\ advanced' = AdvancedWatermarks
      /\ completion' = CompletionState(verdict')
      /\ UNCHANGED <<plan, queue, pending, call, ledger, receipts, observations, spent>>
  BY DEF Close
<1>2. reused \in ReuseType /\ plan \in Plans /\ observations \in Seq(NoteType)
  BY ReusesTyped DEF IInv, TypeOK
<1>3. /\ verdict' \in [Pairs -> VerdictType]
      /\ \A p \in PlannedPairs : p \in Pairs /\ verdict'[p] = Review(p, reused)
  BY <1>1, <1>2, CheckpointTyped, PlannedPairsTyped DEF Checkpoint
<1>4. TypeOK'
  <2>1. advanced' \subseteq Pairs \X {t.lane : t \in Tasks}
    BY <1>1 DEF AdvancedWatermarks, Pairs
  <2>2. completion' \in {"running", "completed", "completed_with_limits"}
    BY <1>1 DEF CompletionState
  <2> QED
    BY <1>1, <1>3, <2>1, <2>2 DEF IInv, TypeOK, Phases
<1>5. Control'
  BY <1>1, PlanKept DEF IInv, Control, Unanswered, InFlight, Planned
<1>6. NotesSound'
  BY <1>1, PlanKept DEF IInv, NotesSound, Answered
<1>7. Audit'
  BY <1>1 DEF IInv, Audit, AuditAddsUp, Receipted
<1>8. NotObservedIsCovered'
  <2>1. ASSUME NEW p \in PlannedPairs, verdict'[p].action = "not_observed", NEW t \in Required(p)
        PROVE  Answered(t) /\ ledger[t] = "executed" /\ receipts[t] = "retrieved"
    <3>1. Covered(t)
      BY <1>3, <2>1, NegativeIsCovered
    <3>2. t \in Tasks
      BY <1>2, PlanTyped DEF Required, TasksOf
    <3> QED
      BY <3>1, <3>2 DEF Covered, IInv, NotesSound
  <2>2. PlannedPairs' = PlannedPairs /\ \A p : Required(p)' = Required(p) /\ \A t : Answered(t)' <=> Answered(t)
    BY <1>1 DEF PlannedPairs, Required, TasksOf, Answered
  <2> QED
    BY <1>1, <2>1, <2>2 DEF NotObservedIsCovered
<1>9. EvidenceIsReported'
  <2>1. ASSUME NEW i \in DOMAIN observations, observations[i].status = "observed"
        PROVE  /\ verdict'[observations[i].pair].status = "observed"
               /\ observations[i].refs \subseteq verdict'[observations[i].pair].refs
    <3> DEFINE p == observations[i].pair
               x == <<i, observations[i]>>
    <3>1. p \in PlannedPairs
      BY DEF IInv, NotesSound
    <3>2. x \in Items(p, reused) /\ x[2] = observations[i]
      BY DEF Items
    <3>3. Review(p, reused).status = "observed" /\ x[2].refs \subseteq Review(p, reused).refs
      BY <2>1, <3>2, EvidenceDecides
    <3> QED
      BY <1>3, <3>1, <3>2, <3>3
  <2> QED
    BY <1>1, <2>1 DEF EvidenceIsReported
<1> QED
  BY <1>4, <1>5, <1>6, <1>7, <1>8, <1>9 DEF IInv

LEMMA InvariantStep == IInv /\ [Next]_vars => IInv'
<1> SUFFICES ASSUME IInv, [Next]_vars PROVE IInv'
  OBVIOUS
<1>1. ASSUME SkipUnmonitorable PROVE IInv'
  BY <1>1, SkipKeeps DEF SkipUnmonitorable, SearchStatus
<1>2. ASSUME SkipForBudget PROVE IInv'
  BY <1>2, SkipKeeps DEF SkipForBudget, SearchStatus
<1>3. ASSUME RetryCall PROVE IInv'
  <2>1. call # NoCall /\ call' = [call EXCEPT !.role = "primary_retry"] /\ Spend(Cost(1, 1, 1 - 1, 0))
    BY <1>3 DEF RetryCall
  <2> QED
    BY <1>3, <2>1, CalledAgainKeeps DEF RetryCall, Roles
<1>4. ASSUME BackUpCall PROVE IInv'
  <2>1. call # NoCall /\ call' = [call EXCEPT !.role = "backup_retry"] /\ Spend(Cost(1, 0, 1 - 0, 0))
    BY <1>4 DEF BackUpCall
  <2> QED
    BY <1>4, <2>1, CalledAgainKeeps DEF BackUpCall, Roles
<1>5. ASSUME UNCHANGED vars PROVE IInv'
  <2>1. TypeOK'
    BY <1>5 DEF IInv, TypeOK, vars
  <2>2. Control'
    BY <1>5, PlanKept DEF IInv, Control, vars, Unanswered, InFlight, Planned, Receipted
  <2>3. NotesSound'
    BY <1>5, PlanKept DEF IInv, NotesSound, Answered, vars
  <2>4. Audit'
    BY <1>5 DEF IInv, Audit, AuditAddsUp, Receipted, vars
  <2>5. NotObservedIsCovered' /\ EvidenceIsReported'
    <3>1. PlannedPairs' = PlannedPairs /\ \A p : Required(p)' = Required(p) /\ \A t : Answered(t)' <=> Answered(t)
      BY <1>5 DEF PlannedPairs, Required, TasksOf, Answered, vars
    <3> QED
      BY <1>5, <3>1 DEF IInv, NotObservedIsCovered, EvidenceIsReported, vars
  <2> QED
    BY <2>1, <2>2, <2>3, <2>4, <2>5 DEF IInv
<1> QED
  BY <1>1, <1>2, <1>3, <1>4, <1>5, LimitByPolicyKeeps, RequestTaskKeeps, AnswerReadableKeeps,
     GiveUpKeeps, FirstCheckpointKeeps, SkipRevisionKeeps, RequestRevisionKeeps, CloseKeeps DEF Next

-----------------------------------------------------------------------------
\* Theorems about every execution

\* The inductive invariant of an execution (SignalMonitoringExecutor.execute).
THEOREM InvariantHolds == Spec => []IInv
BY InvariantInit, InvariantStep, PTL DEF Spec

\* The values of the executor's state: notes, verdicts, counters and watermarks
\* stay what the domain models declare.
THEOREM ExecutionTypeIsCorrect == Spec => []TypeOK
BY InvariantHolds, PTL DEF IInv

\* A pair is reported as not observed only if every required task planned for it was
\* executed, answered and came back from its search.
THEOREM NegativesAreCovered == Spec => []NotObservedIsCovered
BY InvariantHolds, PTL DEF IInv

\* A task has a receipt exactly when the ledger calls it executed, and every provider
\* call is the request of one task or one of the retries counted.
THEOREM AuditTrailAddsUp == Spec => []AuditAddsUp
<1>1. IInv => AuditAddsUp
  BY DEF IInv, Audit
<1> QED
  BY <1>1, InvariantHolds, PTL

\* Evidence validated in one lane of a pair decides the pair's verdict.
THEOREM EvidenceIsKept == Spec => []EvidenceIsReported
BY InvariantHolds, PTL DEF IInv

-----------------------------------------------------------------------------
\* The elements of a sequence at some positions

LEMMA UpTo ==
  ASSUME NEW n \in Nat, NEW T, 0 \in T, \A k \in 1 .. n : k - 1 \in T => k \in T
  PROVE  0 .. n \subseteq T
<1> SUFFICES ASSUME NEW x \in 0 .. n, x \notin T PROVE FALSE
  OBVIOUS
<1>1. PICK m \in (0 .. n) \ T : \A k \in (0 .. n) \ T : m <= k
  <2>1. (0 .. n) \ T \subseteq Nat /\ (0 .. n) \ T # {}
    OBVIOUS
  <2> QED BY <2>1, LeastNatural
<1>2. m # 0 /\ m \in 1 .. n /\ m - 1 \in 0 .. n /\ m - 1 < m
  BY <1>1
<1>3. m - 1 \in T
  BY <1>1, <1>2
<1> QED BY <1>1, <1>2, <1>3

Smaller(S, i) == {j \in S : j < i}
Rank(S, i) == Cardinality(Smaller(S, i))

LEMMA SmallerMembers ==
  ASSUME NEW S, S \subseteq Nat, NEW i \in S
  PROVE  /\ i \in Nat /\ i \notin Smaller(S, i) /\ Smaller(S, i) \subseteq S
         /\ \A j : j \in Smaller(S, i) <=> j \in S /\ j \in Nat /\ j < i
<1>1. \A j \in S : j \in Nat
  OBVIOUS
<1>2. \A j : j \in Smaller(S, i) <=> j \in S /\ j < i
  BY Zenon DEF Smaller
<1>3. ~ (i < i)
  BY <1>1
<1> QED BY <1>1, <1>2, <1>3, Zenon

LEMMA RanksGrow ==
  ASSUME NEW S, S \subseteq Nat, IsFiniteSet(S)
  PROVE  /\ \A i \in S : Rank(S, i) \in Nat
         /\ \A i, j \in S : i < j => Rank(S, i) < Rank(S, j)
<1>1. \A i \in S : IsFiniteSet(Smaller(S, i)) /\ Rank(S, i) \in Nat
  BY FS_Subset, FS_CardinalityType DEF Smaller, Rank
<1>2. ASSUME NEW i \in S, NEW j \in S, i < j PROVE Rank(S, i) < Rank(S, j)
  <2>1. Smaller(S, i) \cup {i} \subseteq Smaller(S, j) /\ i \notin Smaller(S, i)
    <3>1. \A x \in Smaller(S, i) : x \in S /\ x \in Nat /\ x < i
      BY SmallerMembers
    <3>2. i \in Nat /\ j \in Nat
      BY SmallerMembers
    <3>3. \A x \in Smaller(S, i) \cup {i} : x \in S /\ x \in Nat /\ x < j
      BY <1>2, <3>1, <3>2
    <3> QED BY <3>3, SmallerMembers
  <2>2. Cardinality(Smaller(S, i) \cup {i}) = Rank(S, i) + 1
    BY <1>1, <2>1, FS_AddElement DEF Rank
  <2>3. Cardinality(Smaller(S, i) \cup {i}) <= Rank(S, j)
    BY <1>1, <2>1, FS_Subset DEF Rank
  <2> QED BY <1>1, <2>2, <2>3
<1> QED BY <1>1, <1>2

LEMMA RanksAreTaken ==
  ASSUME NEW S, S \subseteq Nat, IsFiniteSet(S)
  PROVE  /\ Cardinality(S) \in Nat
         /\ \A k \in 1 .. Cardinality(S) : \E i \in S : Rank(S, i) = k - 1
<1> DEFINE n == Cardinality(S)
           T == {k \in Nat : k < n => \E i \in S : Rank(S, i) = k}
<1>1. n \in Nat
  BY FS_CardinalityType
<1>2. 0 \in T
  <2> SUFFICES ASSUME 0 < n PROVE \E i \in S : Rank(S, i) = 0
    OBVIOUS
  <2>1. S # {}
    BY FS_EmptySet
  <2>2. PICK m \in S : \A j \in S : m <= j
    BY <2>1, LeastNatural
  <2>3. Smaller(S, m) = {}
    <3>1. \A j \in S : j \in Nat /\ m \in Nat /\ ~ (j < m)
      BY <2>2
    <3> QED BY <3>1, SmallerMembers
  <2> QED BY <2>3, FS_EmptySet DEF Rank
<1>3. ASSUME NEW k \in 1 .. n, k - 1 \in T PROVE k \in T
  <2> SUFFICES ASSUME k < n PROVE \E i \in S : Rank(S, i) = k
    BY <1>1
  <2>1. PICK i \in S : Rank(S, i) = k - 1
    BY <1>1, <1>3
  <2>2. IsFiniteSet(Smaller(S, i)) /\ i \notin Smaller(S, i)
    BY FS_Subset DEF Smaller
  <2>3. /\ IsFiniteSet(Smaller(S, i) \cup {i})
        /\ Cardinality(Smaller(S, i) \cup {i}) = k
    BY <1>1, <2>1, <2>2, FS_AddElement DEF Rank
  <2> DEFINE D == {j \in S : i < j}
  <2>4. D # {}
    <3> SUFFICES ASSUME D = {} PROVE FALSE
      OBVIOUS
    <3>1. S = Smaller(S, i) \cup {i}
      <4>1. \A j \in S : j \in Nat /\ i \in Nat /\ (j < i \/ j = i)
        OBVIOUS
      <4>2. \A j : j \in Smaller(S, i) <=> j \in S /\ j \in Nat /\ j < i
        BY SmallerMembers
      <4> QED BY <4>1, <4>2
    <3> QED BY <2>3, <3>1
  <2>5. PICK m \in D : \A j \in D : m <= j
    <3>1. D \subseteq Nat
      OBVIOUS
    <3> QED BY <2>4, <3>1, LeastNatural
  <2>6. Smaller(S, m) = Smaller(S, i) \cup {i}
    <3>1. \A j \in S : j \in Nat /\ i \in Nat /\ m \in Nat /\ i < m /\ (i < j => m <= j)
      BY <2>5
    <3>2. \A j \in S : j < m <=> j < i \/ j = i
      BY <3>1
    <3>3. \A j : j \in Smaller(S, i) <=> j \in S /\ j \in Nat /\ j < i
      BY SmallerMembers
    <3>4. \A j : j \in Smaller(S, m) <=> j \in S /\ j \in Nat /\ j < m
      BY <2>5, SmallerMembers
    <3>5. i \in S /\ i \in Nat
      BY <3>1
    <3>6. \A j : j \in Smaller(S, m) <=> j \in Smaller(S, i) \cup {i}
      BY <3>1, <3>2, <3>3, <3>4, <3>5
    <3> QED BY <3>6
  <2> QED BY <2>3, <2>5, <2>6 DEF Rank
<1> HIDE DEF T
<1>4. 0 .. n \subseteq T
  BY <1>1, <1>2, <1>3, UpTo
<1>5. ASSUME NEW k \in 1 .. n PROVE \E i \in S : Rank(S, i) = k - 1
  <2>1. k - 1 \in 0 .. n /\ k - 1 < n
    BY <1>1
  <2> QED BY <1>4, <2>1 DEF T
<1> QED BY <1>1, <1>5

\* The positions of S in their order: at enumerates them.
Enumerates(at, S) ==
  /\ at \in [1 .. Cardinality(S) -> S]
  /\ \A k, l \in 1 .. Cardinality(S) : k < l => at[k] < at[l]
  /\ \A i \in S : \E k \in 1 .. Cardinality(S) : at[k] = i

LEMMA SubSeqAtFacts ==
  ASSUME NEW X, NEW s \in Seq(X), NEW S \in SUBSET DOMAIN s
  PROVE  /\ IsFiniteSet(S) /\ Cardinality(S) \in Nat /\ Cardinality(S) <= Len(s)
         /\ SubSeqAt(s, S) \in Seq(X) /\ Len(SubSeqAt(s, S)) = Cardinality(S)
         /\ \E at : /\ Enumerates(at, S)
                    /\ SubSeqAt(s, S) = [k \in 1 .. Cardinality(S) |-> s[at[k]]]
<1> DEFINE n == Cardinality(S)
           at == [k \in 1 .. n |-> CHOOSE i \in S : Rank(S, i) = k - 1]
<1>1. S \subseteq Nat /\ S \subseteq 1 .. Len(s) /\ Len(s) \in Nat
  OBVIOUS
<1>2. IsFiniteSet(S) /\ n \in Nat /\ n <= Len(s)
  <2>1. IsFiniteSet(1 .. Len(s)) /\ Cardinality(1 .. Len(s)) = Len(s)
    <3>1. 1 \in Int /\ Len(s) \in Int
      BY <1>1
    <3>2. IsFiniteSet(1 .. Len(s)) /\ Cardinality(1 .. Len(s)) = IF 1 > Len(s) THEN 0 ELSE Len(s) - 1 + 1
      BY <3>1, FS_Interval
    <3> QED BY <1>1, <3>2
  <2> QED BY <1>1, <2>1, FS_Subset, FS_CardinalityType
<1>3. \A k \in 1 .. n : at[k] \in S /\ Rank(S, at[k]) = k - 1
  BY <1>1, <1>2, RanksAreTaken
<1>4. SubSeqAt(s, S) = [k \in 1 .. n |-> s[at[k]]]
  BY DEF SubSeqAt, Rank, Smaller
<1> HIDE DEF at
<1>5. at \in [1 .. n -> S]
  BY <1>3 DEF at
<1>6. \A k, l \in 1 .. n : k < l => at[k] < at[l]
  <2> SUFFICES ASSUME NEW k \in 1 .. n, NEW l \in 1 .. n, k < l, ~ (at[k] < at[l]) PROVE FALSE
    OBVIOUS
  <2>1. at[k] \in Nat /\ at[l] \in Nat /\ at[k] \in S /\ at[l] \in S
    BY <1>1, <1>3
  <2>2. CASE at[k] = at[l]
    BY <1>2, <1>3, <2>2
  <2>3. CASE at[l] < at[k]
    <3>1. Rank(S, at[l]) < Rank(S, at[k])
      BY <1>1, <1>2, <2>1, <2>3, RanksGrow
    <3> QED BY <1>2, <1>3, <3>1
  <2> QED BY <2>1, <2>2, <2>3
<1>7. \A i \in S : \E k \in 1 .. n : at[k] = i
  <2> SUFFICES ASSUME NEW i \in S PROVE \E k \in 1 .. n : at[k] = i
    OBVIOUS
  <2>1. Smaller(S, i) \subseteq S \ {i} /\ i \in Nat
    BY <1>1 DEF Smaller
  <2>2. IsFiniteSet(S \ {i}) /\ Cardinality(S \ {i}) = n - 1
    BY <1>2, FS_RemoveElement
  <2>3. Rank(S, i) <= n - 1 /\ Rank(S, i) \in Nat
    BY <1>1, <1>2, <2>1, <2>2, FS_Subset, RanksGrow DEF Rank
  <2>4. Rank(S, i) + 1 \in 1 .. n
    BY <1>2, <2>3
  <2>5. Rank(S, at[Rank(S, i) + 1]) = Rank(S, i) /\ at[Rank(S, i) + 1] \in S
    BY <1>3, <2>3, <2>4
  <2>6. at[Rank(S, i) + 1] = i
    <3>1. at[Rank(S, i) + 1] \in Nat
      BY <1>1, <2>5
    <3>2. ~ (at[Rank(S, i) + 1] < i) /\ ~ (i < at[Rank(S, i) + 1])
      BY <1>1, <1>2, <2>3, <2>5, RanksGrow
    <3> QED BY <2>1, <3>1, <3>2
  <2> QED BY <2>4, <2>6
<1>8. Enumerates(at, S)
  BY <1>5, <1>6, <1>7 DEF Enumerates
<1>9. SubSeqAt(s, S) \in Seq(X) /\ Len(SubSeqAt(s, S)) = n
  <2>1. \A k \in 1 .. n : s[at[k]] \in X
    BY <1>5
  <2>2. [k \in 1 .. n |-> s[at[k]]] \in [1 .. n -> X]
    BY <2>1
  <2> QED BY <1>2, <1>4, <2>2
<1> QED BY <1>2, <1>4, <1>8, <1>9

LEMMA SubSeqAtElements ==
  ASSUME NEW X, NEW s \in Seq(X), NEW S \in SUBSET DOMAIN s
  PROVE  Elements(SubSeqAt(s, S)) = {s[i] : i \in S}
<1> DEFINE n == Cardinality(S)
<1>1. PICK at : Enumerates(at, S) /\ SubSeqAt(s, S) = [k \in 1 .. n |-> s[at[k]]]
  BY SubSeqAtFacts
<1>2. DOMAIN SubSeqAt(s, S) = 1 .. n /\ \A k \in 1 .. n : SubSeqAt(s, S)[k] = s[at[k]]
  BY <1>1
<1> QED BY <1>1, <1>2 DEF Elements, Enumerates

Distinct(s) == \A i, j \in DOMAIN s : s[i] = s[j] => i = j

LEMMA SubSeqAtDistinct ==
  ASSUME NEW X, NEW s \in Seq(X), NEW S \in SUBSET DOMAIN s,
         \A i, j \in S : s[i] = s[j] => i = j
  PROVE  Distinct(SubSeqAt(s, S))
<1> DEFINE n == Cardinality(S)
<1>1. PICK at : Enumerates(at, S) /\ SubSeqAt(s, S) = [k \in 1 .. n |-> s[at[k]]]
  BY SubSeqAtFacts
<1>2. DOMAIN SubSeqAt(s, S) = 1 .. n /\ n \in Nat
  BY <1>1, SubSeqAtFacts
<1> SUFFICES ASSUME NEW k \in 1 .. n, NEW l \in 1 .. n, SubSeqAt(s, S)[k] = SubSeqAt(s, S)[l] PROVE k = l
  BY <1>2 DEF Distinct
<1>3. at[k] \in S /\ at[l] \in S /\ at[k] = at[l] /\ at[k] \in Nat
  BY <1>1 DEF Enumerates
<1>4. ~ (k < l) /\ ~ (l < k)
  BY <1>1, <1>3 DEF Enumerates
<1> QED BY <1>2, <1>4

LEMMA OrderedUniqueFacts ==
  ASSUME NEW X, NEW s \in Seq(X)
  PROVE  /\ OrderedUnique(s) \in Seq(X) /\ Distinct(OrderedUnique(s))
         /\ Elements(OrderedUnique(s)) = Elements(s)
<1> DEFINE S == {i \in DOMAIN s : \A j \in 1 .. (i - 1) : s[j] # s[i]}
<1>1. S \in SUBSET DOMAIN s /\ OrderedUnique(s) = SubSeqAt(s, S)
  BY DEF OrderedUnique
<1>2. \A i, j \in S : s[i] = s[j] => i = j
  <2> SUFFICES ASSUME NEW i \in S, NEW j \in S, s[i] = s[j], i # j PROVE FALSE
    OBVIOUS
  <2>1. CASE i < j
    <3>1. i \in 1 .. (j - 1)
      BY <2>1
    <3> QED BY <3>1
  <2>2. CASE j < i
    <3>1. j \in 1 .. (i - 1)
      BY <2>2
    <3> QED BY <3>1
  <2> QED BY <2>1, <2>2
<1>3. \A x \in DOMAIN s : \E i \in S : s[i] = s[x]
  <2> SUFFICES ASSUME NEW x \in DOMAIN s PROVE \E i \in S : s[i] = s[x]
    OBVIOUS
  <2>1. PICK m \in {j \in DOMAIN s : s[j] = s[x]} : \A j \in {l \in DOMAIN s : s[l] = s[x]} : m <= j
    <3>1. {j \in DOMAIN s : s[j] = s[x]} \subseteq Nat /\ {j \in DOMAIN s : s[j] = s[x]} # {}
      OBVIOUS
    <3> QED BY <3>1, LeastNatural
  <2>2. \A j \in 1 .. (m - 1) : s[j] # s[m]
    BY <2>1
  <2> QED BY <2>1, <2>2
<1> HIDE DEF S
<1>4. {s[i] : i \in S} = Elements(s)
  BY <1>1, <1>3 DEF Elements
<1>5. Distinct(SubSeqAt(s, S)) /\ SubSeqAt(s, S) \in Seq(X)
  BY <1>1, <1>2, SubSeqAtFacts, SubSeqAtDistinct
<1>6. Elements(SubSeqAt(s, S)) = {s[i] : i \in S}
  BY <1>1, SubSeqAtElements
<1> QED BY <1>1, <1>4, <1>5, <1>6
-----------------------------------------------------------------------------
\* Sequences of sequences, one after the other

Flattening(S, f) ==
  f = [i \in 1 .. Len(S) |-> IF i = 1 THEN S[i] ELSE f[i - 1] \o S[i]]

LEMMA FlatteningExists ==
  ASSUME NEW X, NEW S \in Seq(Seq(X))
  PROVE  \E f \in [1 .. Len(S) -> Seq(X)] : Flattening(S, f)
<1> DEFINE n == Len(S)
           Piece(k, f) == /\ f \in [1 .. k -> Seq(X)]
                          /\ \A i \in 1 .. k : f[i] = IF i = 1 THEN S[i] ELSE f[i - 1] \o S[i]
           T == {k \in Nat : k <= n => \E f : Piece(k, f)}
<1>1. n \in Nat /\ \A i \in 1 .. n : S[i] \in Seq(X)
  OBVIOUS
<1>2. 0 \in T
  <2>1. Piece(0, [i \in 1 .. 0 |-> <<>>])
    OBVIOUS
  <2> QED BY <2>1
<1>3. ASSUME NEW k \in 1 .. n, k - 1 \in T PROVE k \in T
  <2>1. PICK f : Piece(k - 1, f)
    <3> HIDE DEF Piece
    <3>1. k - 1 <= n
      BY <1>1
    <3> QED BY <1>3, <3>1
  <2> DEFINE g == [i \in 1 .. k |-> IF i < k THEN f[i] ELSE IF k = 1 THEN S[k] ELSE f[k - 1] \o S[k]]
  <2>2. k \in Nat /\ k \in 1 .. n /\ S[k] \in Seq(X)
    BY <1>1
  <2>3. \A i \in 1 .. k : i < k => i \in 1 .. (k - 1)
    BY <2>2
  <2>4. \A i \in 1 .. (k - 1) : f[i] \in Seq(X)
    BY <2>1
  <2>5. k # 1 => k - 1 \in 1 .. (k - 1) /\ f[k - 1] \o S[k] \in Seq(X)
    <3> SUFFICES ASSUME k # 1 PROVE k - 1 \in 1 .. (k - 1) /\ f[k - 1] \o S[k] \in Seq(X)
      OBVIOUS
    <3>1. k - 1 \in 1 .. (k - 1)
      BY <2>2
    <3> QED BY <2>2, <2>4, <3>1, ConcatProperties
  <2>6. g \in [1 .. k -> Seq(X)]
    <3>1. \A i \in 1 .. k : (IF i < k THEN f[i] ELSE IF k = 1 THEN S[k] ELSE f[k - 1] \o S[k]) \in Seq(X)
      BY <2>2, <2>3, <2>4, <2>5
    <3> QED BY <3>1
  <2>7. ASSUME NEW i \in 1 .. k PROVE g[i] = IF i = 1 THEN S[i] ELSE g[i - 1] \o S[i]
    <3>1. CASE i < k
      <4>1. i \in 1 .. (k - 1) /\ g[i] = f[i] /\ (i # 1 => i - 1 \in 1 .. k /\ i - 1 < k)
        BY <2>3, <3>1
      <4>2. i # 1 => g[i - 1] = f[i - 1]
        BY <4>1
      <4>3. f[i] = IF i = 1 THEN S[i] ELSE f[i - 1] \o S[i]
        BY <2>1, <4>1
      <4> HIDE DEF g
      <4> QED BY <4>1, <4>2, <4>3
    <3>2. CASE i = k
      <4>1. g[k] = (IF k = 1 THEN S[k] ELSE f[k - 1] \o S[k])
        BY <2>2
      <4>2. k # 1 => k - 1 \in 1 .. k /\ k - 1 < k
        BY <2>2
      <4>3. k # 1 => g[k - 1] = f[k - 1]
        BY <4>2
      <4> HIDE DEF g
      <4> QED BY <3>2, <4>1, <4>3
    <3> QED BY <2>2, <3>1, <3>2
  <2> HIDE DEF g
  <2>8. Piece(k, g)
    BY <2>6, <2>7
  <2> QED BY <2>2, <2>8
<1> HIDE DEF T
<1>4. n \in T
  <2>1. 0 .. n \subseteq T
    BY <1>1, <1>2, <1>3, UpTo
  <2> QED BY <1>1, <2>1
<1>5. PICK f : Piece(n, f)
  BY <1>1, <1>4 DEF T
<1>6. f = [i \in 1 .. n |-> IF i = 1 THEN S[i] ELSE f[i - 1] \o S[i]]
  BY <1>5
<1> QED BY <1>5, <1>6 DEF Flattening

LEMMA ElementsOfConcat ==
  ASSUME NEW X, NEW s \in Seq(X), NEW t \in Seq(X)
  PROVE  /\ s \o t \in Seq(X)
         /\ Elements(s \o t) = Elements(s) \cup Elements(t)
<1>1. /\ s \o t \in Seq(X) /\ Len(s \o t) = Len(s) + Len(t)
      /\ \A i \in 1 .. Len(s) + Len(t) :
           (s \o t)[i] = IF i <= Len(s) THEN s[i] ELSE t[i - Len(s)]
  BY ConcatProperties
<1>2. /\ Len(s) \in Nat /\ Len(t) \in Nat /\ DOMAIN s = 1 .. Len(s) /\ DOMAIN t = 1 .. Len(t)
      /\ DOMAIN (s \o t) = 1 .. Len(s) + Len(t)
  BY <1>1, LenProperties
<1>3. \A i \in 1 .. Len(s) + Len(t) : (s \o t)[i] \in Elements(s) \cup Elements(t)
  <2> SUFFICES ASSUME NEW i \in 1 .. Len(s) + Len(t)
               PROVE  (s \o t)[i] \in Elements(s) \cup Elements(t)
    OBVIOUS
  <2>1. CASE i <= Len(s)
    BY <1>1, <1>2, <2>1 DEF Elements
  <2>2. CASE ~ (i <= Len(s))
    <3>1. i - Len(s) \in 1 .. Len(t)
      BY <1>2, <2>2
    <3> QED BY <1>1, <1>2, <2>2, <3>1 DEF Elements
  <2> QED BY <2>1, <2>2
<1>4. \A i \in 1 .. Len(s) : s[i] \in Elements(s \o t)
  <2> SUFFICES ASSUME NEW i \in 1 .. Len(s) PROVE s[i] \in Elements(s \o t)
    OBVIOUS
  <2>1. i \in 1 .. Len(s) + Len(t) /\ (s \o t)[i] = s[i]
    BY <1>1, <1>2
  <2> QED BY <1>2, <2>1 DEF Elements
<1>5. \A i \in 1 .. Len(t) : t[i] \in Elements(s \o t)
  <2> SUFFICES ASSUME NEW i \in 1 .. Len(t) PROVE t[i] \in Elements(s \o t)
    OBVIOUS
  <2>1. i + Len(s) \in 1 .. Len(s) + Len(t) /\ (s \o t)[i + Len(s)] = t[i]
    BY <1>1, <1>2
  <2> QED BY <1>2, <2>1 DEF Elements
<1> QED BY <1>1, <1>2, <1>3, <1>4, <1>5 DEF Elements

LEMMA FlattenSeqFacts ==
  ASSUME NEW X, NEW S \in Seq(Seq(X))
  PROVE  /\ FlattenSeq(S) \in Seq(X)
         /\ Elements(FlattenSeq(S)) = UNION {Elements(S[i]) : i \in DOMAIN S}
<1> DEFINE n == Len(S)
<1>1. n \in Nat /\ DOMAIN S = 1 .. n /\ \A i \in 1 .. n : S[i] \in Seq(X)
  OBVIOUS
<1>2. CASE n = 0
  <2>1. FlattenSeq(S) = S
    BY <1>2 DEF FlattenSeq
  <2>2. S = <<>> /\ DOMAIN S = {}
    BY <1>1, <1>2
  <2> QED BY <2>1, <2>2 DEF Elements
<1>3. CASE n # 0
  <2> DEFINE f == CHOOSE h : Flattening(S, h)
  <2>1. FlattenSeq(S) = f[n]
    BY <1>3 DEF FlattenSeq, Flattening
  <2>2. Flattening(S, f)
    BY FlatteningExists
  <2> HIDE DEF f
  <2>3. \A i \in 1 .. n : f[i] = IF i = 1 THEN S[i] ELSE f[i - 1] \o S[i]
    BY <2>2 DEF Flattening
  <2> DEFINE Upto(k) == UNION {Elements(S[i]) : i \in 1 .. k}
             T == {k \in Nat : k \in 1 .. n => f[k] \in Seq(X) /\ Elements(f[k]) = Upto(k)}
  <2>4. ASSUME NEW k \in 1 .. n, k - 1 \in T PROVE k \in T
    <3>1. k \in Nat /\ S[k] \in Seq(X) /\ f[k] = (IF k = 1 THEN S[k] ELSE f[k - 1] \o S[k])
      BY <1>1, <2>3
    <3>2. CASE k = 1
      <4>1. Upto(1) = Elements(S[1])
        <5>1. 1 .. 1 = {1}
          OBVIOUS
        <5> QED BY <5>1
      <4> QED BY <3>1, <3>2, <4>1
    <3>3. CASE k # 1
      <4>1. k - 1 \in 1 .. n /\ f[k - 1] \in Seq(X) /\ Elements(f[k - 1]) = Upto(k - 1)
        BY <1>1, <2>4, <3>1, <3>3
      <4>2. f[k] = f[k - 1] \o S[k] /\ f[k] \in Seq(X)
        BY <3>1, <3>3, <4>1, ConcatProperties
      <4>3. Elements(f[k]) = Elements(f[k - 1]) \cup Elements(S[k])
        BY <3>1, <4>1, <4>2, ElementsOfConcat
      <4>4. Upto(k) = Upto(k - 1) \cup Elements(S[k])
        <5>1. 1 .. k = (1 .. (k - 1)) \cup {k}
          BY <3>1
        <5> QED BY <5>1, Zenon
      <4> QED BY <3>1, <4>1, <4>2, <4>3, <4>4
    <3> QED BY <3>2, <3>3
  <2>5. 0 \in T
    OBVIOUS
  <2> HIDE DEF T
  <2>6. n \in T
    <3>1. 0 .. n \subseteq T
      BY <1>1, <2>4, <2>5, UpTo
    <3> QED BY <1>1, <3>1
  <2>7. f[n] \in Seq(X) /\ Elements(f[n]) = Upto(n)
    BY <1>1, <1>3, <2>6 DEF T
  <2> QED BY <1>1, <2>1, <2>7
<1> QED BY <1>2, <1>3
-----------------------------------------------------------------------------
\* The schedule

Parts == {"base", "coverage", "coverage-2"}
SearchTasks(Ids) ==
  [candidate : Nat, code : Nat, lane : Lanes, source : Ids, ref : Ids, part : Parts,
   required : BOOLEAN, revision : {0}]

Earlier(a, b) == \E k \in 1..4 : a[k] < b[k] /\ \A m \in 1..(k - 1) : a[m] = b[m]
Priority(t) == <<IF t.required THEN 0 ELSE 1, LaneOrder[t.lane], t.candidate, t.code>>

LEMMA EarlierCases ==
  ASSUME NEW a, NEW b
  PROVE  Earlier(a, b) <=> \/ a[1] < b[1]
                           \/ a[1] = b[1] /\ a[2] < b[2]
                           \/ a[1] = b[1] /\ a[2] = b[2] /\ a[3] < b[3]
                           \/ a[1] = b[1] /\ a[2] = b[2] /\ a[3] = b[3] /\ a[4] < b[4]
<1>1. 1..4 = {1, 2, 3, 4} /\ 1..(1 - 1) = {} /\ 1..(2 - 1) = {1} /\ 1..(3 - 1) = {1, 2} /\ 1..(4 - 1) = {1, 2, 3}
  OBVIOUS
<1> DEFINE C(k) == a[k] < b[k] /\ \A m \in 1..(k - 1) : a[m] = b[m]
<1>2. C(1) <=> a[1] < b[1]
  BY <1>1, Zenon
<1>3. C(2) <=> a[1] = b[1] /\ a[2] < b[2]
  BY <1>1, Zenon
<1>4. C(3) <=> a[1] = b[1] /\ a[2] = b[2] /\ a[3] < b[3]
  BY <1>1, Zenon
<1>5. C(4) <=> a[1] = b[1] /\ a[2] = b[2] /\ a[3] = b[3] /\ a[4] < b[4]
  BY <1>1, Zenon
<1>6. Earlier(a, b) <=> C(1) \/ C(2) \/ C(3) \/ C(4)
  <2>1. Earlier(a, b) <=> \E k \in 1..4 : C(k)
    BY Zenon DEF Earlier
  <2> HIDE DEF C
  <2> QED BY <1>1, <2>1, Zenon
<1> HIDE DEF C
<1> QED BY <1>2, <1>3, <1>4, <1>5, <1>6, Zenon

LEMMA EarlierIsAnOrder ==
  ASSUME NEW a \in [1..4 -> Nat], NEW b \in [1..4 -> Nat], NEW c \in [1..4 -> Nat]
  PROVE  /\ ~ Earlier(a, a)
         /\ Earlier(a, b) => ~ Earlier(b, a)
         /\ Earlier(a, b) /\ Earlier(b, c) => Earlier(a, c)
         /\ Earlier(a, b) \/ Earlier(b, a) \/ a = b
<1>1. /\ a[1] \in Nat /\ a[2] \in Nat /\ a[3] \in Nat /\ a[4] \in Nat
      /\ b[1] \in Nat /\ b[2] \in Nat /\ b[3] \in Nat /\ b[4] \in Nat
      /\ c[1] \in Nat /\ c[2] \in Nat /\ c[3] \in Nat /\ c[4] \in Nat
  OBVIOUS
<1>2. a = b <=> a[1] = b[1] /\ a[2] = b[2] /\ a[3] = b[3] /\ a[4] = b[4]
  OBVIOUS
<1>3. ~ Earlier(a, a) /\ (Earlier(a, b) => ~ Earlier(b, a))
  BY <1>1, EarlierCases
<1>4. Earlier(a, b) /\ Earlier(b, c) => Earlier(a, c)
  BY <1>1, EarlierCases
<1>5. Earlier(a, b) \/ Earlier(b, a) \/ a = b
  BY <1>1, <1>2, EarlierCases
<1> QED BY <1>3, <1>4, <1>5

LEMMA PrecedesIsAnOrder ==
  ASSUME NEW Ids, NEW tasks \in Seq(SearchTasks(Ids))
  PROVE  /\ \A i \in DOMAIN tasks : ~ Precedes(tasks, i, i)
         /\ \A i, j, k \in DOMAIN tasks :
              Precedes(tasks, i, j) /\ Precedes(tasks, j, k) => Precedes(tasks, i, k)
         /\ \A i, j \in DOMAIN tasks : i # j => Precedes(tasks, i, j) \/ Precedes(tasks, j, i)
<1> DEFINE P(i) == Priority(tasks[i])
<1>1. \A i \in DOMAIN tasks : i \in Nat /\ tasks[i] \in SearchTasks(Ids)
  OBVIOUS
<1>2. \A t \in SearchTasks(Ids) : Priority(t) \in [1..4 -> Nat]
  <2> SUFFICES ASSUME NEW t \in SearchTasks(Ids) PROVE Priority(t) \in [1..4 -> Nat]
    OBVIOUS
  <2>1. LaneOrder[t.lane] \in Nat /\ t.candidate \in Nat /\ t.code \in Nat
    BY DEF SearchTasks, Lanes, LaneOrder
  <2> QED BY <2>1 DEF Priority
<1>3. \A i \in DOMAIN tasks : P(i) \in [1..4 -> Nat]
  BY <1>1, <1>2
<1>4. \A i, j : Precedes(tasks, i, j) <=> Earlier(P(i), P(j)) \/ (P(i) = P(j) /\ i < j)
  BY Zenon DEF Precedes, Earlier, Priority
<1> HIDE DEF P
<1>5. \A i \in DOMAIN tasks : ~ Precedes(tasks, i, i)
  BY <1>1, <1>3, <1>4, EarlierIsAnOrder
<1>6. ASSUME NEW i \in DOMAIN tasks, NEW j \in DOMAIN tasks, NEW k \in DOMAIN tasks,
             Precedes(tasks, i, j), Precedes(tasks, j, k)
      PROVE  Precedes(tasks, i, k)
  <2>1. i \in Nat /\ j \in Nat /\ k \in Nat
    BY <1>1
  <2>2. Earlier(P(i), P(j)) /\ Earlier(P(j), P(k)) => Earlier(P(i), P(k))
    BY <1>3, EarlierIsAnOrder
  <2>3. Earlier(P(i), P(j)) \/ (P(i) = P(j) /\ i < j)
    BY <1>4, <1>6
  <2>4. Earlier(P(j), P(k)) \/ (P(j) = P(k) /\ j < k)
    BY <1>4, <1>6
  <2>5. Earlier(P(i), P(k)) \/ (P(i) = P(k) /\ i < k)
    BY <2>1, <2>2, <2>3, <2>4
  <2> QED BY <1>4, <2>5
<1>7. ASSUME NEW i \in DOMAIN tasks, NEW j \in DOMAIN tasks, i # j
      PROVE  Precedes(tasks, i, j) \/ Precedes(tasks, j, i)
  <2>1. Earlier(P(i), P(j)) \/ Earlier(P(j), P(i)) \/ P(i) = P(j)
    BY <1>3, EarlierIsAnOrder
  <2>2. i < j \/ j < i
    BY <1>1, <1>7
  <2> QED BY <1>4, <2>1, <2>2
<1> QED BY <1>5, <1>6, <1>7

Preceding(tasks, i) == {j \in DOMAIN tasks : Precedes(tasks, j, i)}
Chosen(tasks, limit) == {i \in DOMAIN tasks : Cardinality(Preceding(tasks, i)) < limit}

LEMMA PrecedingGrow ==
  ASSUME NEW Ids, NEW tasks \in Seq(SearchTasks(Ids))
  PROVE  /\ IsFiniteSet(DOMAIN tasks) /\ Cardinality(DOMAIN tasks) = Len(tasks)
         /\ \A i \in DOMAIN tasks : /\ IsFiniteSet(Preceding(tasks, i))
                                    /\ Cardinality(Preceding(tasks, i)) \in Nat
         /\ \A i, j \in DOMAIN tasks :
              Precedes(tasks, i, j) =>
                Cardinality(Preceding(tasks, i)) < Cardinality(Preceding(tasks, j))
<1>1. IsFiniteSet(DOMAIN tasks) /\ Cardinality(DOMAIN tasks) = Len(tasks)
  <2>1. Len(tasks) \in Nat /\ DOMAIN tasks = 1 .. Len(tasks) /\ 1 \in Int /\ Len(tasks) \in Int
    OBVIOUS
  <2>2. /\ IsFiniteSet(1 .. Len(tasks))
        /\ Cardinality(1 .. Len(tasks)) = IF 1 > Len(tasks) THEN 0 ELSE Len(tasks) - 1 + 1
    BY <2>1, FS_Interval
  <2> QED BY <2>1, <2>2
<1>2. \A i \in DOMAIN tasks : /\ IsFiniteSet(Preceding(tasks, i))
                              /\ Cardinality(Preceding(tasks, i)) \in Nat
  BY <1>1, FS_Subset, FS_CardinalityType DEF Preceding
<1>3. ASSUME NEW i \in DOMAIN tasks, NEW j \in DOMAIN tasks, Precedes(tasks, i, j)
      PROVE  Cardinality(Preceding(tasks, i)) < Cardinality(Preceding(tasks, j))
  <2>1. i \notin Preceding(tasks, i) /\ Preceding(tasks, i) \cup {i} \subseteq Preceding(tasks, j)
    BY <1>3, PrecedesIsAnOrder DEF Preceding
  <2>2. Cardinality(Preceding(tasks, i) \cup {i}) = Cardinality(Preceding(tasks, i)) + 1
    BY <1>2, <2>1, FS_AddElement
  <2>3. Cardinality(Preceding(tasks, i) \cup {i}) <= Cardinality(Preceding(tasks, j))
    BY <1>2, <2>1, FS_Subset
  <2> QED BY <1>2, <2>2, <2>3
<1> QED BY <1>1, <1>2, <1>3

LEMMA ChosenPrecede ==
  ASSUME NEW Ids, NEW tasks \in Seq(SearchTasks(Ids)), NEW limit \in Nat
  PROVE  \A i \in Chosen(tasks, limit), j \in DOMAIN tasks \ Chosen(tasks, limit) : Precedes(tasks, i, j)
<1> SUFFICES ASSUME NEW i \in Chosen(tasks, limit), NEW j \in DOMAIN tasks \ Chosen(tasks, limit),
                    ~ Precedes(tasks, i, j)
             PROVE  FALSE
  OBVIOUS
<1>1. i \in DOMAIN tasks /\ i # j /\ Cardinality(Preceding(tasks, i)) < limit
  BY DEF Chosen
<1>2. Precedes(tasks, j, i)
  BY <1>1, PrecedesIsAnOrder
<1>3. Cardinality(Preceding(tasks, j)) < Cardinality(Preceding(tasks, i))
  BY <1>1, <1>2, PrecedingGrow
<1>4. Cardinality(Preceding(tasks, j)) < limit
  BY <1>1, <1>3, PrecedingGrow
<1> QED BY <1>4 DEF Chosen

LEMMA ChosenFillTheLimit ==
  ASSUME NEW Ids, NEW tasks \in Seq(SearchTasks(Ids)), NEW limit \in Nat
  PROVE  Cardinality(Chosen(tasks, limit)) = IF limit < Len(tasks) THEN limit ELSE Len(tasks)
<1> DEFINE C == Chosen(tasks, limit)
           Pos(i) == Cardinality(Preceding(tasks, i))
           n == Len(tasks)
<1>1. /\ C \subseteq DOMAIN tasks /\ IsFiniteSet(C) /\ Cardinality(C) \in Nat
      /\ Cardinality(C) <= n /\ n \in Nat
  <2>1. C \subseteq DOMAIN tasks
    BY DEF Chosen
  <2> QED BY <2>1, PrecedingGrow, FS_Subset, FS_CardinalityType
<1>2. \A i \in DOMAIN tasks : Pos(i) \in Nat /\ Pos(i) <= n
  BY PrecedingGrow, FS_Subset DEF Preceding
<1>3. Cardinality(C) <= limit
  <2>1. CASE C = {}
    BY <2>1, FS_EmptySet
  <2>2. CASE C # {}
    <3>1. PICK i \in C : \A j \in C : Pos(j) <= Pos(i)
      <4> DEFINE G == {n - Pos(j) : j \in C}
      <4>1. \A j \in C : Pos(j) \in Nat /\ n - Pos(j) \in Nat
        BY <1>1, <1>2
      <4>2. G \subseteq Nat /\ G # {}
        BY <2>2, <4>1
      <4>3. PICK g \in G : \A h \in G : g <= h
        BY <4>2, LeastNatural
      <4>4. PICK i \in C : g = n - Pos(i)
        BY <4>3
      <4>5. \A j \in C : n - Pos(i) <= n - Pos(j)
        BY <4>3, <4>4
      <4>6. \A j \in C : Pos(j) <= Pos(i)
        BY <1>1, <4>1, <4>5
      <4> QED BY <4>6
    <3>2. i \in DOMAIN tasks /\ Pos(i) < limit
      BY DEF Chosen
    <3>3. C \ {i} \subseteq Preceding(tasks, i)
      <4> SUFFICES ASSUME NEW j \in C \ {i} PROVE j \in Preceding(tasks, i)
        OBVIOUS
      <4>1. j \in DOMAIN tasks /\ Pos(j) <= Pos(i)
        BY <1>1, <3>1
      <4>2. ~ Precedes(tasks, i, j)
        <5> SUFFICES ASSUME Precedes(tasks, i, j) PROVE FALSE
          OBVIOUS
        <5>1. Pos(i) < Pos(j)
          BY <3>2, <4>1, PrecedingGrow
        <5> QED BY <1>2, <3>2, <4>1, <5>1
      <4>3. Precedes(tasks, j, i)
        BY <3>2, <4>1, <4>2, PrecedesIsAnOrder
      <4> QED BY <4>1, <4>3 DEF Preceding
    <3>4. Cardinality(C \ {i}) = Cardinality(C) - 1
      BY <1>1, FS_RemoveElement
    <3>5. Cardinality(C \ {i}) <= Pos(i)
      BY <3>2, <3>3, PrecedingGrow, FS_Subset
    <3> QED BY <1>1, <1>2, <3>2, <3>4, <3>5
  <2> QED BY <2>1, <2>2
<1>4. Cardinality(C) < limit => C = DOMAIN tasks
  <2> SUFFICES ASSUME Cardinality(C) < limit, C # DOMAIN tasks PROVE FALSE
    OBVIOUS
  <2>1. PICK j \in DOMAIN tasks \ C : \A k \in DOMAIN tasks \ C : Pos(j) <= Pos(k)
    <3> DEFINE G == {Pos(k) : k \in DOMAIN tasks \ C}
    <3>1. G \subseteq Nat /\ G # {}
      BY <1>1, <1>2
    <3>2. PICK g \in G : \A h \in G : g <= h
      BY <3>1, LeastNatural
    <3> QED BY <3>2
  <2>2. Preceding(tasks, j) \subseteq C
    <3> SUFFICES ASSUME NEW k \in Preceding(tasks, j), k \notin C PROVE FALSE
      OBVIOUS
    <3>1. k \in DOMAIN tasks /\ Precedes(tasks, k, j)
      BY DEF Preceding
    <3>2. Pos(k) < Pos(j)
      BY <3>1, PrecedingGrow
    <3> QED BY <1>2, <2>1, <3>1, <3>2
  <2>3. Pos(j) <= Cardinality(C)
    BY <1>1, <2>2, FS_Subset
  <2>4. Pos(j) < limit
    BY <1>1, <1>2, <2>1, <2>3
  <2> QED BY <2>1, <2>4 DEF Chosen
<1>5. Cardinality(C) < limit => Cardinality(C) = n
  BY <1>4, PrecedingGrow
<1> HIDE DEF C
<1> QED BY <1>1, <1>3, <1>5 DEF C

\* The task budget is used up as long as tasks are left, each task is scheduled
\* once, and no required task is left out for one that is not
\* (SignalMonitoringWorkScheduler.schedule, _priority).
THEOREM RequiredTasksComeFirst ==
  ASSUME NEW Ids, NEW tasks \in Seq(SearchTasks(Ids)), NEW limit \in Nat
  PROVE  LET scheduled == ScheduleTasks(tasks, limit)
         IN  /\ scheduled \in Seq(SearchTasks(Ids))
             /\ Elements(scheduled) \subseteq Elements(tasks)
             /\ Len(scheduled) = IF limit < Len(tasks) THEN limit ELSE Len(tasks)
             /\ Distinct(tasks) => Distinct(scheduled)
             /\ \A t \in Elements(scheduled), u \in Elements(tasks) \ Elements(scheduled) :
                  u.required => t.required
<1> DEFINE C == Chosen(tasks, limit)
           scheduled == ScheduleTasks(tasks, limit)
<1>1. C \in SUBSET DOMAIN tasks /\ scheduled = SubSeqAt(tasks, C)
  BY DEF Chosen, ScheduleTasks, Preceding
<1>2. scheduled \in Seq(SearchTasks(Ids)) /\ Len(scheduled) = Cardinality(C)
  BY <1>1, SubSeqAtFacts
<1>3. Elements(scheduled) = {tasks[i] : i \in C}
  BY <1>1, SubSeqAtElements
<1>4. Distinct(tasks) => Distinct(scheduled)
  <2> SUFFICES ASSUME Distinct(tasks) PROVE Distinct(scheduled)
    OBVIOUS
  <2>1. \A i, j \in C : tasks[i] = tasks[j] => i = j
    BY <1>1 DEF Distinct
  <2> QED BY <1>1, <2>1, SubSeqAtDistinct
<1>5. Len(scheduled) = IF limit < Len(tasks) THEN limit ELSE Len(tasks)
  BY <1>2, ChosenFillTheLimit
<1>6. Elements(scheduled) \subseteq Elements(tasks)
  BY <1>1, <1>3 DEF Elements
<1>7. ASSUME NEW t \in Elements(scheduled), NEW u \in Elements(tasks) \ Elements(scheduled), u.required
      PROVE  t.required
  <2>1. PICK i \in C : t = tasks[i]
    BY <1>3
  <2>2. PICK j \in DOMAIN tasks : u = tasks[j]
    BY DEF Elements
  <2>3. j \notin C
    BY <1>3, <2>2
  <2>4. Precedes(tasks, i, j)
    BY <2>2, <2>3, ChosenPrecede
  <2>5. i \in DOMAIN tasks /\ tasks[i] \in SearchTasks(Ids) /\ tasks[j] \in SearchTasks(Ids)
    BY <1>1
  <2> DEFINE a == Priority(tasks[i])
             b == Priority(tasks[j])
  <2>6. Earlier(a, b) \/ a = b
    BY <2>4, Zenon DEF Precedes, Earlier, Priority
  <2>7. a[1] <= b[1]
    <3>1. a[1] \in Nat /\ b[1] \in Nat
      BY DEF Priority
    <3> HIDE DEF a, b
    <3> QED BY <2>6, <3>1, EarlierCases
  <2>8. a[1] = (IF t.required THEN 0 ELSE 1) /\ b[1] = 0
    BY <1>7, <2>1, <2>2 DEF Priority
  <2> HIDE DEF a, b
  <2> QED BY <2>7, <2>8
<1> HIDE DEF scheduled
<1> QED BY <1>2, <1>4, <1>5, <1>6, <1>7 DEF scheduled
-----------------------------------------------------------------------------
\* What planning makes of an input: source ids and references are from Ids

Candidates(Ids) == [id : Nat, refs : Seq(Ids), monitorable : BOOLEAN]
Rules(Ids) == [code : Nat, enabled : BOOLEAN, lanes : Seq(Lanes), sources : SUBSET Ids,
               manyTerms : BOOLEAN, extraTerms : BOOLEAN]
Cards(Ids) == [id : Ids, signal : BOOLEAN, broad : BOOLEAN]
Sources(Ids) == [ref : Ids, id : Ids, owner : Nat, url : BOOLEAN, capable : BOOLEAN, useful : BOOLEAN]
Policies(Ids) == [enabled : BOOLEAN, reuse : BOOLEAN, openWeb : BOOLEAN, allowed : SUBSET Ids,
                  official : Seq(Ids), required : Seq(Ids), preferred : Seq(Ids),
                  fallback : Seq(Ids), hints : Seq(Ids)]
Inputs(Ids) == [candidates : Seq(Candidates(Ids)), rules : Seq(Rules(Ids)), cards : Seq(Cards(Ids)),
                known : SUBSET Sources(Ids), configured : SUBSET Ids, policy : Policies(Ids)]
Decisions(Ids) == [lane : Lanes, candidate : Nat \cup {NoSource}, source : Ids, ref : Ids, required : {TRUE}]

LEMMA KnownDecisionsTyped ==
  ASSUME NEW Ids, NEW input \in Inputs(Ids)
  PROVE  KnownDecisions(input) \in Seq(Decisions(Ids))
<1> DEFINE Once(c) == OrderedUnique(c.refs)
           Useful(c) == {i \in DOMAIN Once(c) :
                          \E s \in input.known : s.ref = Once(c)[i] /\ KnownUsable(input, c, s)}
           Refs(c) == SubSeqAt(Once(c), Useful(c))
           Found(c, i) == (CHOOSE s \in input.known : s.ref = Refs(c)[i]).id
           Of(c) == [i \in DOMAIN Refs(c) |->
                      [lane |-> "known_source", candidate |-> c.id, ref |-> Refs(c)[i], required |-> TRUE,
                       source |-> Found(c, i)]]
           S == [i \in DOMAIN input.candidates |-> Of(input.candidates[i])]
<1>1. KnownDecisions(input) = IF input.policy.reuse THEN FlattenSeq(S) ELSE <<>>
  BY DEF KnownDecisions, Those
<1>2. input.known \subseteq Sources(Ids) /\ input.candidates \in Seq(Candidates(Ids))
  BY DEF Inputs
<1>3. ASSUME NEW c \in Candidates(Ids) PROVE Of(c) \in Seq(Decisions(Ids))
  <2>0. c.refs \in Seq(Ids) /\ c.id \in Nat
    BY DEF Candidates
  <2>1. Once(c) \in Seq(Ids) /\ c.id \in Nat /\ Useful(c) \in SUBSET DOMAIN Once(c)
    BY <2>0, OrderedUniqueFacts
  <2> HIDE DEF Once
  <2> HIDE DEF Useful
  <2>2. Refs(c) \in Seq(Ids) /\ Elements(Refs(c)) = {Once(c)[i] : i \in Useful(c)}
    BY <2>1, SubSeqAtFacts, SubSeqAtElements
  <2> HIDE DEF Refs
  <2>3. ASSUME NEW i \in DOMAIN Refs(c) PROVE Refs(c)[i] \in Ids /\ Found(c, i) \in Ids
    <3>1. Refs(c)[i] \in Elements(Refs(c)) /\ Refs(c)[i] \in Ids
      BY <2>2 DEF Elements
    <3>2. PICK j \in Useful(c) : Refs(c)[i] = Once(c)[j]
      BY <2>2, <3>1
    <3>3. \E s \in input.known : s.ref = Refs(c)[i]
      BY <3>2 DEF Useful
    <3>4. (CHOOSE s \in input.known : s.ref = Refs(c)[i]) \in Sources(Ids)
      BY <1>2, <3>3
    <3> QED BY <3>1, <3>4 DEF Sources
  <2> HIDE DEF Found
  <2>4. \A i \in DOMAIN Refs(c) :
          [lane |-> "known_source", candidate |-> c.id, ref |-> Refs(c)[i], required |-> TRUE,
           source |-> Found(c, i)] \in Decisions(Ids)
    BY <2>1, <2>3 DEF Decisions, Lanes
  <2>5. DOMAIN Refs(c) = 1 .. Len(Refs(c)) /\ Len(Refs(c)) \in Nat
    BY <2>2
  <2> QED BY <2>4, <2>5
<1> HIDE DEF Of
<1>4. S \in Seq(Seq(Decisions(Ids)))
  <2>1. \A i \in DOMAIN input.candidates : Of(input.candidates[i]) \in Seq(Decisions(Ids))
    BY <1>2, <1>3
  <2>2. DOMAIN input.candidates = 1 .. Len(input.candidates) /\ Len(input.candidates) \in Nat
    BY <1>2
  <2> QED BY <2>1, <2>2
<1> HIDE DEF S
<1>5. FlattenSeq(S) \in Seq(Decisions(Ids))
  BY <1>4, FlattenSeqFacts
<1> QED BY <1>1, <1>5

LEMMA CardDecisionsTyped ==
  ASSUME NEW Ids, NoSource \in Ids, NEW input, NEW lane \in Lanes, NEW ids \in Seq(Ids), NEW taken
  PROVE  CardDecisions(input, lane, ids, taken) \in Seq(Decisions(Ids))
<1> DEFINE U == {i \in DOMAIN ids : CardUsable(input, ids[i], taken)}
           usable == SubSeqAt(ids, U)
<1>1. CardDecisions(input, lane, ids, taken) = [i \in DOMAIN usable |-> CardDecision(input, lane, usable[i])]
  BY DEF CardDecisions, Those
<1>2. usable \in Seq(Ids)
  BY SubSeqAtFacts
<1> HIDE DEF usable
<1>3. \A id \in Ids : CardDecision(input, lane, id) \in Decisions(Ids)
  BY DEF CardDecision, Decisions
<1>4. DOMAIN usable = 1 .. Len(usable) /\ Len(usable) \in Nat /\ \A i \in DOMAIN usable : usable[i] \in Ids
  BY <1>2
<1> QED BY <1>1, <1>3, <1>4

LEMMA LaneIdsTyped ==
  ASSUME NEW Ids, NEW input \in Inputs(Ids)
  PROVE  \A k \in 1..4 : LaneIds(input)[k][1] \in Lanes /\ LaneIds(input)[k][2] \in Seq(Ids)
<1> DEFINE policy == input.policy
           official == OrderedUnique(policy.official)
           named == OrderedUnique(policy.required \o policy.preferred \o policy.fallback)
           bound == SubSeqAt(named, {i \in DOMAIN named :
                      ~ Contains(official, named[i]) /\ ~ OpenWebCard(input, named[i])})
           hints == OrderedUnique(policy.hints)
           hinted == SubSeqAt(hints, {i \in DOMAIN hints : ~ OpenWebCard(input, hints[i])})
<1>1. /\ policy.official \in Seq(Ids) /\ policy.required \in Seq(Ids) /\ policy.preferred \in Seq(Ids)
      /\ policy.fallback \in Seq(Ids) /\ policy.hints \in Seq(Ids) /\ input.cards \in Seq(Cards(Ids))
  BY DEF Inputs, Policies
<1>2. LaneIds(input) = <<<<"official_company", official>>, <<"signal_specific", bound>>, <<"signal_specific", hinted>>,
                         <<"open_web", IF policy.openWeb THEN OpenWebIds(input) ELSE <<>> >> >>
  BY Zenon DEF LaneIds, Those
<1>3. official \in Seq(Ids) /\ hints \in Seq(Ids)
  BY <1>1, OrderedUniqueFacts
<1>4. named \in Seq(Ids)
  <2>1. policy.required \o policy.preferred \in Seq(Ids)
    BY <1>1, ConcatProperties
  <2>2. policy.required \o policy.preferred \o policy.fallback \in Seq(Ids)
    BY <1>1, <2>1, ConcatProperties
  <2> QED BY <2>2, OrderedUniqueFacts
<1>5. OpenWebIds(input) \in Seq(Ids)
  <2> DEFINE first == OrderedUnique(policy.preferred \o policy.fallback)
             ids == [i \in DOMAIN input.cards |-> input.cards[i].id]
             others == SubSeqAt(ids, {i \in DOMAIN ids : ~ Contains(first, ids[i])})
             all == first \o others
             web == SubSeqAt(all, {i \in DOMAIN all : OpenWebCard(input, all[i])})
  <2>1. OpenWebIds(input) = web
    BY Zenon DEF OpenWebIds, Those
  <2>2. first \in Seq(Ids)
    <3>1. policy.preferred \o policy.fallback \in Seq(Ids)
      BY <1>1, ConcatProperties
    <3> QED BY <3>1, OrderedUniqueFacts
  <2>3. ids \in Seq(Ids)
    <3>1. \A i \in DOMAIN input.cards : input.cards[i].id \in Ids
      <4>1. \A c \in Cards(Ids) : c.id \in Ids
        BY DEF Cards
      <4>2. \A i \in DOMAIN input.cards : input.cards[i] \in Cards(Ids)
        BY <1>1
      <4> QED BY <4>1, <4>2
    <3>2. DOMAIN input.cards = 1 .. Len(input.cards) /\ Len(input.cards) \in Nat
      BY <1>1
    <3> QED BY <3>1, <3>2
  <2> HIDE DEF first, ids
  <2>4. others \in Seq(Ids)
    BY <2>3, SubSeqAtFacts
  <2> HIDE DEF others
  <2>5. all \in Seq(Ids)
    BY <2>2, <2>4, ConcatProperties
  <2> HIDE DEF all
  <2>6. web \in Seq(Ids)
    BY <2>5, SubSeqAtFacts
  <2> QED BY <2>1, <2>6
<1> HIDE DEF official, named, hints
<1>6. bound \in Seq(Ids) /\ hinted \in Seq(Ids)
  BY <1>3, <1>4, SubSeqAtFacts
<1>7. (IF policy.openWeb THEN OpenWebIds(input) ELSE <<>>) \in Seq(Ids)
  BY <1>5
<1> HIDE DEF bound, hinted, policy
<1>8. 1..4 = {1, 2, 3, 4}
  OBVIOUS
<1> DEFINE web == IF policy.openWeb THEN OpenWebIds(input) ELSE <<>>
<1> HIDE DEF web
<1>9. /\ LaneIds(input)[1] = <<"official_company", official>>
      /\ LaneIds(input)[2] = <<"signal_specific", bound>>
      /\ LaneIds(input)[3] = <<"signal_specific", hinted>>
      /\ LaneIds(input)[4] = <<"open_web", web>>
  BY <1>2 DEF web
<1>10. web \in Seq(Ids)
  BY <1>7 DEF web
<1>11. ASSUME NEW lane \in Lanes, NEW ids \in Seq(Ids)
       PROVE  <<lane, ids>>[1] \in Lanes /\ <<lane, ids>>[2] \in Seq(Ids)
  OBVIOUS
<1>12. "official_company" \in Lanes /\ "signal_specific" \in Lanes /\ "open_web" \in Lanes
  BY DEF Lanes
<1> QED BY <1>3, <1>6, <1>8, <1>9, <1>10, <1>11, <1>12

LEMMA SelectSourcesTyped ==
  ASSUME NEW Ids, NoSource \in Ids, NEW input \in Inputs(Ids)
  PROVE  SelectSources(input) \in Seq(Decisions(Ids))
<1> DEFINE lanes == LaneIds(input)
<1>1. ASSUME NEW chosen \in Seq(Decisions(Ids)), NEW k \in 1..4
      PROVE  Considering(input, chosen, lanes[k]) \in Seq(Decisions(Ids))
  <2>1. CardDecisions(input, lanes[k][1], lanes[k][2], SourcesOf(chosen)) \in Seq(Decisions(Ids))
    BY LaneIdsTyped, CardDecisionsTyped
  <2> QED BY <2>1, ConcatProperties DEF Considering
<1> DEFINE official == Considering(input, KnownDecisions(input), lanes[1])
           bound == Considering(input, official, lanes[2])
           hinted == Considering(input, bound, lanes[3])
<1>2. SelectSources(input) = Considering(input, hinted, lanes[4])
  BY DEF SelectSources
<1> HIDE DEF lanes
<1>3. official \in Seq(Decisions(Ids))
  BY <1>1, KnownDecisionsTyped
<1> HIDE DEF official
<1>4. bound \in Seq(Decisions(Ids))
  BY <1>1, <1>3
<1> HIDE DEF bound
<1>5. hinted \in Seq(Decisions(Ids))
  BY <1>1, <1>4
<1> HIDE DEF hinted
<1> QED BY <1>1, <1>2, <1>5
LEMMA LaneDecisionsTyped ==
  ASSUME NEW Ids, NoSource \in Ids, NEW c \in Candidates(Ids), NEW r \in Rules(Ids),
         NEW selected \in Seq(Decisions(Ids))
  PROVE  /\ LaneDecisions(c, r, selected) \in Seq(Decisions(Ids))
         /\ r.lanes # <<>> => LaneDecisions(c, r, selected) # <<>>
         /\ \A d \in Elements(LaneDecisions(c, r, selected)) : d.lane \in Elements(r.lanes)
<1> DEFINE known == SubSeqAt(selected, {i \in DOMAIN selected :
                      /\ selected[i].lane = "known_source"
                      /\ selected[i].candidate = c.id
                      /\ Contains(c.refs, selected[i].ref)})
           generic == SubSeqAt(selected, {i \in DOMAIN selected :
                      /\ selected[i].lane # "known_source"
                      /\ selected[i].lane = "signal_specific" /\ r.sources # {} => selected[i].source \in r.sources})
           few == SubSeq(known, 1, IF Len(known) < 2 THEN Len(known) ELSE 2)
           all == OrderedUnique(few \o generic)
           F == {i \in DOMAIN all : all[i].lane \in ToSet(r.lanes)}
           fitting == SubSeqAt(all, F)
           fallback == [lane |-> IF Contains(r.lanes, "open_web") THEN "open_web" ELSE r.lanes[1],
                        candidate |-> NoSource, source |-> NoSource, ref |-> NoSource, required |-> TRUE]
<1>1. CandidateDecisions(c, r, selected) = all
  BY Zenon DEF CandidateDecisions, Those
<1> HIDE DEF all
<1>2. LaneDecisions(c, r, selected) = IF fitting = <<>> /\ r.lanes # <<>> THEN <<fallback>> ELSE fitting
  BY <1>1, Zenon DEF LaneDecisions, Those
<1>3. known \in Seq(Decisions(Ids)) /\ generic \in Seq(Decisions(Ids))
  BY SubSeqAtFacts
<1> HIDE DEF known, generic
<1>4. few \in Seq(Decisions(Ids))
  <2>1. Len(known) \in Nat
    BY <1>3
  <2>2. /\ 1 \in 1 .. (Len(known) + 1)
        /\ (IF Len(known) < 2 THEN Len(known) ELSE 2) \in 0 .. Len(known)
    BY <2>1
  <2>3. \A i \in 1 .. (IF Len(known) < 2 THEN Len(known) ELSE 2) : known[i] \in Decisions(Ids)
    BY <1>3, <2>1, <2>2
  <2> DEFINE m == IF Len(known) < 2 THEN Len(known) ELSE 2
  <2>4. m \in Nat /\ 1 + (m - 1) = m
    BY <2>1
  <2>5. few = [i \in 1 .. m |-> known[i]]
    <3> HIDE DEF m
    <3>1. few = [i \in 1 .. (1 + m - 1) |-> known[i + 1 - 1]]
      BY DEF m
    <3>2. 1 .. (1 + m - 1) = 1 .. m /\ \A i \in 1 .. m : i + 1 - 1 = i
      BY <2>4
    <3> HIDE DEF few
    <3> QED BY <3>1, <3>2
  <2> QED BY <2>3, <2>4, <2>5
<1> HIDE DEF few
<1>5. all \in Seq(Decisions(Ids))
  <2>1. few \o generic \in Seq(Decisions(Ids))
    BY <1>3, <1>4, ConcatProperties
  <2> QED BY <2>1, OrderedUniqueFacts DEF all
<1>6. fitting \in Seq(Decisions(Ids)) /\ Elements(fitting) = {all[i] : i \in F}
  BY <1>5, SubSeqAtFacts, SubSeqAtElements
<1> HIDE DEF fitting
<1>7. \A d \in Elements(fitting) : d.lane \in Elements(r.lanes)
  BY <1>6 DEF ToSet, Elements
<1>8. r.lanes # <<>> => fallback.lane \in Elements(r.lanes) /\ fallback.lane \in Lanes
  <2> SUFFICES ASSUME r.lanes # <<>> PROVE fallback.lane \in Elements(r.lanes) /\ fallback.lane \in Lanes
    OBVIOUS
  <2>1. r.lanes \in Seq(Lanes)
    BY DEF Rules
  <2>2. Len(r.lanes) \in Nat /\ DOMAIN r.lanes = 1 .. Len(r.lanes) /\ 1 \in DOMAIN r.lanes
    BY <2>1
  <2>3. Contains(r.lanes, "open_web") => "open_web" \in Elements(r.lanes)
    BY <2>2 DEF Contains, Elements
  <2>4. r.lanes[1] \in Elements(r.lanes)
    BY <2>2 DEF Elements
  <2>5. Elements(r.lanes) \subseteq Lanes
    BY <2>1 DEF Elements
  <2> QED BY <2>3, <2>4, <2>5
<1>9. r.lanes # <<>> => <<fallback>> \in Seq(Decisions(Ids))
  <2> SUFFICES ASSUME r.lanes # <<>> PROVE fallback \in Decisions(Ids)
    OBVIOUS
  <2> QED BY <1>8 DEF Decisions
<1> HIDE DEF fallback
<1>10. <<fallback>> # <<>> /\ Elements(<<fallback>>) = {fallback}
  BY DEF Elements
<1> QED BY <1>2, <1>6, <1>7, <1>8, <1>9, <1>10

LEMMA LaneTasksTyped ==
  ASSUME NEW Ids, NEW c \in Candidates(Ids), NEW r \in Rules(Ids), NEW d \in Decisions(Ids)
  PROVE  /\ LaneTasks(c, r, d) \in Seq(SearchTasks(Ids))
         /\ \A t \in Elements(LaneTasks(c, r, d)) : Pair(t) = <<c.id, r.code>> /\ t.lane = d.lane
         /\ \E t \in Elements(LaneTasks(c, r, d)) : t.required
<1> DEFINE Task(part, required) ==
             [candidate |-> c.id, code |-> r.code, lane |-> d.lane, source |-> d.source, ref |-> d.ref,
              part |-> part, required |-> required, revision |-> 0]
           base == <<Task("base", d.required)>>
           second == IF d.lane = "open_web" /\ r.manyTerms THEN <<Task("coverage", FALSE)>> ELSE <<>>
           third == IF d.lane = "open_web" /\ r.extraTerms THEN <<Task("coverage-2", FALSE)>> ELSE <<>>
           Fine(s) == /\ s \in Seq(SearchTasks(Ids))
                      /\ \A t \in Elements(s) : Pair(t) = <<c.id, r.code>> /\ t.lane = d.lane
<1>1. LaneTasks(c, r, d) = base \o second \o third
  BY DEF LaneTasks
<1>2. ASSUME NEW part \in Parts, NEW required \in BOOLEAN
      PROVE  Fine(<<Task(part, required)>>) /\ Elements(<<Task(part, required)>>) = {Task(part, required)}
  <2>1. Task(part, required) \in SearchTasks(Ids)
    BY DEF SearchTasks, Candidates, Rules, Decisions
  <2>2. Pair(Task(part, required)) = <<c.id, r.code>> /\ Task(part, required).lane = d.lane
    BY DEF Pair
  <2> DEFINE x == Task(part, required)
  <2> HIDE DEF x
  <2>3. Elements(<<x>>) = {x}
    BY DEF Elements
  <2> QED BY <2>1, <2>2, <2>3 DEF x
<1>3. Fine(<<>>)
  BY DEF Elements
<1>4. "base" \in Parts /\ "coverage" \in Parts /\ "coverage-2" \in Parts /\ d.required = TRUE
  BY DEF Parts, Decisions
<1> DEFINE first == Task("base", d.required)
<1>5. first.required
  BY <1>4
<1> HIDE DEF Task, Fine, first
<1>6. Fine(base) /\ Fine(second) /\ Fine(third) /\ Elements(base) = {first}
  BY <1>2, <1>3, <1>4 DEF first
<1> HIDE DEF base, second, third
<1>7. ASSUME NEW s, NEW t, Fine(s), Fine(t)
      PROVE  Fine(s \o t) /\ Elements(s \o t) = Elements(s) \cup Elements(t)
  BY <1>7, ElementsOfConcat DEF Fine
<1>8. Fine(base \o second) /\ first \in Elements(base \o second)
  BY <1>6, <1>7
<1>9. Fine((base \o second) \o third) /\ first \in Elements((base \o second) \o third)
  BY <1>6, <1>7, <1>8
<1> QED BY <1>1, <1>5, <1>9 DEF Fine

LEMMA PairTasksTyped ==
  ASSUME NEW Ids, NoSource \in Ids, NEW c \in Candidates(Ids), NEW r \in Rules(Ids),
         NEW selected \in Seq(Decisions(Ids))
  PROVE  /\ PairTasks(c, r, selected) \in Seq(SearchTasks(Ids))
         /\ \A t \in Elements(PairTasks(c, r, selected)) :
              r.enabled /\ Pair(t) = <<c.id, r.code>> /\ t.lane \in Elements(r.lanes)
         /\ r.enabled /\ r.lanes # <<>> => \E t \in Elements(PairTasks(c, r, selected)) : t.required
<1> DEFINE decisions == LaneDecisions(c, r, selected)
           S == [i \in DOMAIN decisions |-> LaneTasks(c, r, decisions[i])]
<1>1. PairTasks(c, r, selected) = IF r.enabled THEN FlattenSeq(S) ELSE <<>>
  BY DEF PairTasks
<1>2. /\ decisions \in Seq(Decisions(Ids))
      /\ r.lanes # <<>> => decisions # <<>>
      /\ \A i \in DOMAIN decisions : decisions[i].lane \in Elements(r.lanes)
  BY LaneDecisionsTyped DEF Elements
<1> HIDE DEF decisions
<1>3. \A i \in DOMAIN decisions : decisions[i] \in Decisions(Ids)
  BY <1>2
<1>4. \A i \in DOMAIN decisions :
        /\ LaneTasks(c, r, decisions[i]) \in Seq(SearchTasks(Ids))
        /\ \A t \in Elements(LaneTasks(c, r, decisions[i])) :
             Pair(t) = <<c.id, r.code>> /\ t.lane \in Elements(r.lanes)
        /\ \E t \in Elements(LaneTasks(c, r, decisions[i])) : t.required
  BY <1>2, <1>3, LaneTasksTyped
<1>5. S \in Seq(Seq(SearchTasks(Ids))) /\ DOMAIN S = DOMAIN decisions
  <2>1. DOMAIN decisions = 1 .. Len(decisions) /\ Len(decisions) \in Nat
    BY <1>2
  <2> QED BY <1>4, <2>1
<1>6. \A i \in DOMAIN decisions : S[i] = LaneTasks(c, r, decisions[i])
  OBVIOUS
<1> HIDE DEF S
<1>7. FlattenSeq(S) \in Seq(SearchTasks(Ids)) /\ Elements(FlattenSeq(S)) = UNION {Elements(S[i]) : i \in DOMAIN S}
  BY <1>5, FlattenSeqFacts
<1>8. \A t \in Elements(FlattenSeq(S)) : Pair(t) = <<c.id, r.code>> /\ t.lane \in Elements(r.lanes)
  BY <1>4, <1>5, <1>6, <1>7
<1>9. r.lanes # <<>> => \E t \in Elements(FlattenSeq(S)) : t.required
  <2> SUFFICES ASSUME r.lanes # <<>> PROVE \E t \in Elements(FlattenSeq(S)) : t.required
    OBVIOUS
  <2>1. 1 \in DOMAIN decisions
    <3>1. decisions \in Seq(Decisions(Ids)) /\ decisions # <<>>
      BY <1>2
    <3> QED BY <3>1
  <2>2. PICK t \in Elements(S[1]) : t.required
    BY <1>4, <1>6, <2>1
  <2> QED BY <1>5, <1>7, <2>1, <2>2
<1>10. Elements(<<>>) = {} /\ <<>> \in Seq(SearchTasks(Ids))
  BY DEF Elements
<1> QED BY <1>1, <1>7, <1>8, <1>9, <1>10

LEMMA PlanTasksFacts ==
  ASSUME NEW Ids, NoSource \in Ids, NEW input \in Inputs(Ids), NEW selected \in Seq(Decisions(Ids))
  PROVE  /\ PlanTasks(input, selected) \in Seq(SearchTasks(Ids))
         /\ \A t : t \in Elements(PlanTasks(input, selected)) <=>
                   \E c \in Elements(input.candidates) : \E r \in Elements(input.rules) :
                     t \in Elements(PairTasks(c, r, selected))
<1> DEFINE Row(c) == [r \in DOMAIN input.rules |-> PairTasks(c, input.rules[r], selected)]
           S == [i \in DOMAIN input.candidates |-> FlattenSeq(Row(input.candidates[i]))]
<1>1. input.candidates \in Seq(Candidates(Ids)) /\ input.rules \in Seq(Rules(Ids))
  BY DEF Inputs
<1>2. PlanTasks(input, selected) = FlattenSeq(S)
  BY DEF PlanTasks
<1>3. ASSUME NEW c \in Candidates(Ids)
      PROVE  /\ FlattenSeq(Row(c)) \in Seq(SearchTasks(Ids))
             /\ Elements(FlattenSeq(Row(c))) =
                  UNION {Elements(PairTasks(c, r, selected)) : r \in Elements(input.rules)}
  <2>1. \A r \in DOMAIN input.rules : PairTasks(c, input.rules[r], selected) \in Seq(SearchTasks(Ids))
    BY <1>1, PairTasksTyped
  <2>2. DOMAIN input.rules = 1 .. Len(input.rules) /\ Len(input.rules) \in Nat
    BY <1>1
  <2>3. Row(c) \in Seq(Seq(SearchTasks(Ids))) /\ DOMAIN Row(c) = DOMAIN input.rules
    BY <2>1, <2>2
  <2>4. \A r \in DOMAIN input.rules : Row(c)[r] = PairTasks(c, input.rules[r], selected)
    OBVIOUS
  <2> HIDE DEF Row
  <2>5. /\ FlattenSeq(Row(c)) \in Seq(SearchTasks(Ids))
        /\ Elements(FlattenSeq(Row(c))) = UNION {Elements(Row(c)[r]) : r \in DOMAIN input.rules}
    BY <2>3, FlattenSeqFacts
  <2>6. UNION {Elements(Row(c)[r]) : r \in DOMAIN input.rules} =
          UNION {Elements(PairTasks(c, r, selected)) : r \in Elements(input.rules)}
    BY <2>4 DEF Elements
  <2> QED BY <2>5, <2>6
<1> HIDE DEF Row
<1>4. S \in Seq(Seq(SearchTasks(Ids))) /\ DOMAIN S = DOMAIN input.candidates
  <2>1. DOMAIN input.candidates = 1 .. Len(input.candidates) /\ Len(input.candidates) \in Nat
    BY <1>1
  <2>2. \A i \in DOMAIN input.candidates : FlattenSeq(Row(input.candidates[i])) \in Seq(SearchTasks(Ids))
    BY <1>1, <1>3
  <2> QED BY <2>1, <2>2
<1>5. \A i \in DOMAIN input.candidates : S[i] = FlattenSeq(Row(input.candidates[i]))
  OBVIOUS
<1> HIDE DEF S
<1>6. FlattenSeq(S) \in Seq(SearchTasks(Ids)) /\ Elements(FlattenSeq(S)) = UNION {Elements(S[i]) : i \in DOMAIN S}
  BY <1>4, FlattenSeqFacts
<1> DEFINE Of(c) == Elements(FlattenSeq(Row(c)))
<1>7. \A i \in DOMAIN input.candidates : Elements(S[i]) = Of(input.candidates[i])
  BY <1>5
<1>8. Elements(FlattenSeq(S)) = UNION {Of(c) : c \in Elements(input.candidates)}
  <2> HIDE DEF Of
  <2>1. \A t : t \in Elements(FlattenSeq(S)) <=> \E i \in DOMAIN input.candidates : t \in Elements(S[i])
    BY <1>4, <1>6
  <2>2. \A t : t \in Elements(FlattenSeq(S)) <=>
                \E i \in DOMAIN input.candidates : t \in Of(input.candidates[i])
    BY <1>7, <2>1, Zenon
  <2>3. \A t : t \in Elements(FlattenSeq(S)) <=> \E c \in Elements(input.candidates) : t \in Of(c)
    BY <2>2, Zenon DEF Elements
  <2> QED BY <2>3, Zenon
<1>9. \A c \in Elements(input.candidates) :
        Of(c) = UNION {Elements(PairTasks(c, r, selected)) : r \in Elements(input.rules)}
  <2>1. Elements(input.candidates) \subseteq Candidates(Ids)
    BY <1>1 DEF Elements
  <2> QED BY <1>3, <2>1
<1> HIDE DEF Of
<1>10. \A t : t \in Elements(FlattenSeq(S)) <=>
          \E c \in Elements(input.candidates) : \E r \in Elements(input.rules) :
            t \in Elements(PairTasks(c, r, selected))
  <2>1. \A t : t \in Elements(FlattenSeq(S)) <=> \E c \in Elements(input.candidates) : t \in Of(c)
    BY <1>8, Zenon
  <2>2. ASSUME NEW c \in Elements(input.candidates), NEW t
        PROVE  t \in Of(c) <=> \E r \in Elements(input.rules) : t \in Elements(PairTasks(c, r, selected))
    <3>1. Of(c) = UNION {Elements(PairTasks(c, r, selected)) : r \in Elements(input.rules)}
      BY <1>9
    <3> QED BY <3>1
  <2> QED BY <2>1, <2>2, Zenon
<1> QED BY <1>2, <1>6, <1>10

\* Every candidate is searched for every enabled criterion that has a lane, by a
\* required task in one of the criterion's lanes, and no other pair or lane is
\* planned (SignalMonitoringSearchPlanner.plan with its fallback lane).
THEOREM EveryPairIsPlanned ==
  ASSUME NEW Ids, NoSource \in Ids, NEW input \in Inputs(Ids)
  PROVE  LET tasks == PlanTasks(input, SelectSources(input))
         IN  /\ tasks \in Seq(SearchTasks(Ids))
             /\ \A c \in Elements(input.candidates), r \in Elements(input.rules) :
                  r.enabled /\ r.lanes # <<>> =>
                    \E t \in Elements(tasks) : t.required /\ Pair(t) = <<c.id, r.code>>
             /\ \A t \in Elements(tasks) :
                  \E c \in Elements(input.candidates), r \in Elements(input.rules) :
                    r.enabled /\ Pair(t) = <<c.id, r.code>> /\ t.lane \in Elements(r.lanes)
<1> DEFINE selected == SelectSources(input)
           tasks == PlanTasks(input, selected)
<1>1. selected \in Seq(Decisions(Ids))
  BY SelectSourcesTyped
<1> HIDE DEF selected
<1>2. /\ tasks \in Seq(SearchTasks(Ids))
      /\ \A t : t \in Elements(tasks) <=>
                \E c \in Elements(input.candidates) : \E r \in Elements(input.rules) :
                  t \in Elements(PairTasks(c, r, selected))
  BY <1>1, PlanTasksFacts
<1> HIDE DEF tasks
<1>3. Elements(input.candidates) \subseteq Candidates(Ids) /\ Elements(input.rules) \subseteq Rules(Ids)
  <2>1. input.candidates \in Seq(Candidates(Ids)) /\ input.rules \in Seq(Rules(Ids))
    BY DEF Inputs
  <2> QED BY <2>1 DEF Elements
<1>4. ASSUME NEW c \in Elements(input.candidates), NEW r \in Elements(input.rules),
             r.enabled, r.lanes # <<>>
      PROVE  \E t \in Elements(tasks) : t.required /\ Pair(t) = <<c.id, r.code>>
  <2>1. PICK t \in Elements(PairTasks(c, r, selected)) : t.required /\ Pair(t) = <<c.id, r.code>>
    BY <1>1, <1>3, <1>4, PairTasksTyped
  <2> QED BY <1>2, <2>1
<1>5. ASSUME NEW t \in Elements(tasks)
      PROVE  \E c \in Elements(input.candidates), r \in Elements(input.rules) :
               r.enabled /\ Pair(t) = <<c.id, r.code>> /\ t.lane \in Elements(r.lanes)
  <2>1. PICK c \in Elements(input.candidates), r \in Elements(input.rules) : t \in Elements(PairTasks(c, r, selected))
    BY <1>2
  <2>2. r.enabled /\ Pair(t) = <<c.id, r.code>> /\ t.lane \in Elements(r.lanes)
    BY <1>1, <1>3, <2>1, PairTasksTyped
  <2> QED BY <2>2
<1> QED BY <1>2, <1>4, <1>5 DEF tasks, selected

\* What planning hands over has the shape the execution proofs assume of it:
\* scheduled tasks are planned ones, each scheduled once, and no revisions; its
\* schedule fits the task budget and prefers required tasks
\* (SignalMonitoringPlanningPipeline.build).
THEOREM PlansHaveTheirShape ==
  ASSUME NEW Ids, NoSource \in Ids, NEW input \in Inputs(Ids), NEW limits, limits.tasks \in Nat,
         \A t \in Elements(PlanTasks(input, SelectSources(input))) : t \in Tasks /\ Revision(t) \in Tasks
  PROVE  LET selected == SelectSources(input)
             made == BuildPlan(input, limits, selected, PlanTasks(input, selected))
         IN  /\ PlanShape(made)
             /\ Elements(made.scheduled) \subseteq made.accepted /\ made.accepted \subseteq Elements(made.tasks)
             /\ Len(made.scheduled) <= limits.tasks
             /\ \A t \in Elements(made.scheduled), u \in made.accepted \ Elements(made.scheduled) :
                  u.required => t.required
<1> DEFINE selected == SelectSources(input)
           tasks == PlanTasks(input, selected)
           unique == OrderedUnique(tasks)
           F == {i \in DOMAIN unique : Acceptable(input, unique[i])}
           accepted == SubSeqAt(unique, F)
           scheduled == ScheduleTasks(accepted, limits.tasks)
           made == BuildPlan(input, limits, selected, tasks)
<1>1. made.tasks = tasks /\ made.accepted = ToSet(accepted) /\ made.scheduled = scheduled
  BY DEF BuildPlan, Those
<1> HIDE DEF made
<1>2. tasks \in Seq(SearchTasks(Ids))
  BY EveryPairIsPlanned
<1>3. \A t \in Elements(tasks) : t \in Tasks /\ Revision(t) \in Tasks
  OBVIOUS
<1> HIDE DEF selected, tasks
<1>4. unique \in Seq(SearchTasks(Ids)) /\ Distinct(unique) /\ Elements(unique) = Elements(tasks)
  BY <1>2, OrderedUniqueFacts
<1> HIDE DEF unique
<1>5. /\ accepted \in Seq(SearchTasks(Ids)) /\ Distinct(accepted)
      /\ Elements(accepted) \subseteq Elements(tasks)
  <2>1. \A i, j \in F : unique[i] = unique[j] => i = j
    BY <1>4 DEF Distinct
  <2>2. {unique[i] : i \in F} \subseteq Elements(unique)
    BY DEF Elements
  <2>3. F \in SUBSET DOMAIN unique
    OBVIOUS
  <2> HIDE DEF F
  <2>4. Elements(accepted) = {unique[i] : i \in F}
    BY <1>4, <2>3, SubSeqAtElements
  <2>5. accepted \in Seq(SearchTasks(Ids)) /\ Distinct(accepted)
    BY <1>4, <2>1, <2>3, SubSeqAtFacts, SubSeqAtDistinct
  <2> QED BY <1>4, <2>2, <2>4, <2>5
<1> HIDE DEF accepted
<1>6. /\ scheduled \in Seq(SearchTasks(Ids)) /\ Distinct(scheduled)
      /\ Elements(scheduled) \subseteq Elements(accepted)
      /\ Len(scheduled) = IF limits.tasks < Len(accepted) THEN limits.tasks ELSE Len(accepted)
      /\ \A t \in Elements(scheduled), u \in Elements(accepted) \ Elements(scheduled) : u.required => t.required
  BY <1>5, RequiredTasksComeFirst
<1> HIDE DEF scheduled
<1>7. Len(scheduled) <= limits.tasks
  <2>1. Len(accepted) \in Nat
    BY <1>5
  <2> QED BY <1>6, <2>1
<1>8. ASSUME NEW s \in Seq(SearchTasks(Ids)), Elements(s) \subseteq Elements(tasks) PROVE s \in Seq(Tasks)
  <2>1. \A i \in DOMAIN s : s[i] \in Tasks
    BY <1>3, <1>8 DEF Elements
  <2>2. DOMAIN s = 1 .. Len(s) /\ Len(s) \in Nat
    OBVIOUS
  <2> QED BY <2>1, <2>2
<1>9. tasks \in Seq(Tasks) /\ scheduled \in Seq(Tasks)
  BY <1>2, <1>5, <1>6, <1>8
<1>10. \A t \in Elements(tasks) : t.revision = 0
  <2>1. Elements(tasks) \subseteq SearchTasks(Ids)
    BY <1>2 DEF Elements
  <2> QED BY <2>1 DEF SearchTasks
<1>11. PlanShape(made)
  BY <1>1, <1>3, <1>5, <1>6, <1>9, <1>10 DEF PlanShape, Distinct
<1>12. made.accepted = Elements(accepted)
  BY <1>1 DEF ToSet, Elements
<1> QED BY <1>1, <1>5, <1>6, <1>7, <1>11, <1>12 DEF made, selected, tasks
=============================================================================
