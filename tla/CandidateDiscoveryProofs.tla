----------------------- MODULE CandidateDiscoveryProofs -----------------------
(***************************************************************************)
(* A candidate-discovery run keeps its limits and honours its stops, for   *)
(* any plan, any answers of the provider and any settings: the control of  *)
(* the run, CandidateDiscoveryRun.  And it loses no company it was told of *)
(* and no evidence for one, and shows no site as a company, for any names, *)
(* pages and answers: what the run knows, CandidateUniverse.  The two      *)
(* share no variable; the second part begins with the facts about least    *)
(* elements, folds and subsequences that its recursive helpers need.       *)
(***************************************************************************)
EXTENDS CandidateDiscoveryRun, CandidateUniverse,
        SequenceTheorems, FiniteSetTheorems, WellFoundedInduction, TLAPS

FoundType == [names : SUBSET Names, rejected : SUBSET Names, linked : BOOLEAN,
              issues : SUBSET Issues, salvaged : BOOLEAN, gaps : BOOLEAN, risk : BOOLEAN,
              queue : BOOLEAN, expanded : BOOLEAN]
GateType == [task : Tasks \cup {NoTask}, names : SUBSET (Names \cup {NoName}), scope : SUBSET Names]
RanType == [executed : Nat, skipped : Nat]

\* A gate task is at hand while names are left for it.
GateSound == gate.names # {} => InGatePass /\ todo # <<>> /\ gate.task \in Tasks

\* Where a run that is stopped for review can be: no phase with web tasks.
StopSound ==
  stopped # "" => \/ Recovering /\ pending = 0
                  \/ stage = "gates" /\ todo = <<>>
                  \/ stage \in {"last extraction", "review", "done"}

\* A decision to stop that the run did not act on was made for a refused task,
\* and refusals are not forgotten.
StopsHaveACause == stops => stopped # "" \/ exhausted \/ handoff = "blocked"

ReviewComesLast == stage # "done" => handoff = "open"

\* What lies above the limit was lent by the reserve.
BudgetSound == settings.total > 0 => total <= settings.total + reserve

IInv == /\ TypeOK /\ GateSound /\ StopSound /\ StopsHaveACause /\ ReviewComesLast /\ BudgetSound
        /\ StopIsHonoured

-----------------------------------------------------------------------------
\* Types of the parts

LEMMA SettingsTyped ==
  ASSUME settings \in Settings
  PROVE  /\ settings.total \in Nat /\ settings.perKey \in Nat /\ settings.reserve \in Nat
         /\ settings.useful \in Nat /\ settings.retries \in Nat /\ settings.revisions \in Nat
         /\ settings.hints \in BOOLEAN
BY SettingsAssumption DEF Setting

LEMMA TasksTyped ==
  /\ DiscoveryTasks \in Seq(Tasks) /\ GateTasks \in Seq(Tasks) /\ CoverageTasks \subseteq Seq(Tasks)
  /\ \A t \in Tasks : Key(t) \in Keys
  /\ \A t \in Tasks, n \in Names \cup {NoName} : <<SubjectOf[t], n>> \in Keys
  /\ <<Target, NoName>> \in Keys /\ <<CrossCheck, NoName>> \in Keys
BY TasksAssumption DEF Key, Keys

LEMMA BoundsTyped == MaxVariants \in Nat /\ MaxCrossChecks \in Nat /\ MaxIterations \in Nat
BY BoundsAssumption

LEMMA FoundTyped ==
  ASSUME NEW f \in FoundType
  PROVE  /\ Eligible(f) \in SUBSET Names
         /\ Cleared(f) \in FoundType
         /\ \A a \in Answers : /\ Merged(f, a) \in FoundType /\ Covered(f, a) \in FoundType
                               /\ WithGaps(f, a) \in FoundType
         /\ [f EXCEPT !.expanded = TRUE] \in FoundType
         /\ \A new \in SUBSET Names, salvaged \in BOOLEAN :
              /\ [f EXCEPT !.names = f.names \cup new, !.linked = f.linked \/ new # {}] \in FoundType
              /\ [f EXCEPT !.names = f.names \cup new, !.linked = f.linked \/ new # {},
                           !.salvaged = TRUE] \in FoundType
<1>1. Eligible(f) \in SUBSET Names
  BY DEF Eligible, FoundType
<1>2. Cleared(f) \in FoundType /\ [f EXCEPT !.expanded = TRUE] \in FoundType
  BY DEF Cleared, FoundType
<1>3. ASSUME NEW a \in Answers
      PROVE  /\ Merged(f, a) \in FoundType /\ Covered(f, a) \in FoundType
             /\ WithGaps(f, a) \in FoundType
  <2>1. a \in Answer
    BY AnswersAssumption
  <2>2. Merged(f, a) \in FoundType
    BY <2>1 DEF Merged, FoundType, Answer
  <2>3. Covered(f, a) \in FoundType
    BY <2>1, <2>2, ZenonT(60) DEF Covered, FoundType, Answer
  <2>4. WithGaps(f, a) \in FoundType
    BY <2>1, <2>2 DEF WithGaps, FoundType, Answer
  <2> QED
    BY <2>2, <2>3, <2>4
<1>4. ASSUME NEW new \in SUBSET Names
      PROVE  /\ [f EXCEPT !.names = f.names \cup new, !.linked = f.linked \/ new # {}] \in FoundType
             /\ [f EXCEPT !.names = f.names \cup new, !.linked = f.linked \/ new # {},
                          !.salvaged = TRUE] \in FoundType
  BY DEF FoundType
<1> QED
  BY <1>1, <1>2, <1>3, <1>4

LEMMA PlannedTyped ==
  ASSUME found \in FoundType, NEW targets \in BOOLEAN, NEW unselected \in BOOLEAN
  PROVE  Planned(targets, unselected) \in FoundType
BY DEF Planned, FoundType

LEMMA ExpandedTyped ==
  ASSUME found \in FoundType, NEW a \in Answers
  PROVE  Expanded(a) \in FoundType
<1> DEFINE base == IF stage = "after discovery" THEN Merged(found, a) ELSE WithGaps(found, a)
           f == [base EXCEPT !.expanded = TRUE]
<1>1. f \in FoundType
  BY FoundTyped
<1>2. Cleared(f) \in FoundType
  BY <1>1, FoundTyped
<1> HIDE DEF f
<1> QED
  BY <1>1, <1>2 DEF Expanded, f

-----------------------------------------------------------------------------
\* The task budget

BudgetOK ==
  /\ spent \in [Keys -> Nat] /\ total \in Nat /\ reserve \in 0..settings.reserve
  /\ exhausted \in BOOLEAN /\ BudgetSound

\* Every use of the budget keeps its limits; a refusal is not forgotten.
LEMMA BudgetStep ==
  ASSUME TypeOK, BudgetSound, UNCHANGED settings, NEW key \in Keys,
         \/ UNCHANGED budget \/ Accept(key) \/ Refuse(key)
         \/ AcceptOnReserve(key) \/ RefuseReserved(key)
  PROVE  BudgetOK' /\ (exhausted => exhausted')
<1>0. /\ spent \in [Keys -> Nat] /\ total \in Nat /\ reserve \in 0..settings.reserve
      /\ exhausted \in BOOLEAN /\ settings.total \in Nat /\ settings.reserve \in Nat
  BY SettingsTyped DEF TypeOK
<1>1. CASE UNCHANGED budget
  BY <1>0, <1>1 DEF budget, BudgetOK, BudgetSound
<1>2. CASE Accept(key)
  BY <1>0, <1>2 DEF Accept, Blocked, BudgetOK, BudgetSound
<1>3. CASE Refuse(key) \/ RefuseReserved(key)
  BY <1>0, <1>3 DEF Refuse, RefuseReserved, BudgetOK, BudgetSound
<1>4. CASE AcceptOnReserve(key)
  BY <1>0, <1>4 DEF AcceptOnReserve, BudgetOK, BudgetSound
<1> QED
  BY <1>1, <1>2, <1>3, <1>4

-----------------------------------------------------------------------------
\* Types of the whole

AttemptsType == [retries : 0..settings.retries, repairs : 0..settings.retries,
                 revisions : 0..settings.revisions]

LEMMA Typed ==
  ASSUME TypeOK
  PROVE  /\ settings \in Settings /\ coverage \in CoverageTasks /\ coverage \in Seq(Tasks)
         /\ stage \in Stages /\ todo \in Seq(Tasks) /\ tries \in 0..settings.useful
         /\ gate \in GateType /\ found \in FoundType
         /\ scope \in SUBSET Names /\ before \in SUBSET Names /\ iteration \in 0..MaxIterations
         /\ pending \in Nat /\ ran \in RanType /\ attempts \in AttemptsType
         /\ exhausted \in BOOLEAN /\ stopped \in StopReasons /\ stops \in BOOLEAN
         /\ handoff \in {"open", "pending", "blocked"}
         /\ settings.useful \in Nat /\ settings.retries \in Nat /\ settings.revisions \in Nat
         /\ MaxIterations \in Nat /\ MaxVariants \in Nat /\ MaxCrossChecks \in Nat
BY TasksTyped, SettingsTyped, BoundsTyped DEF TypeOK, GateType, FoundType, RanType, AttemptsType

LEMMA TypedNext ==
  ASSUME settings' \in Settings, coverage' \in CoverageTasks, stage' \in Stages,
         todo' \in Seq(Tasks), tries' \in 0..settings'.useful, gate' \in GateType,
         found' \in FoundType, scope' \in SUBSET Names, before' \in SUBSET Names,
         iteration' \in 0..MaxIterations, pending' \in Nat, ran' \in RanType,
         attempts' \in AttemptsType', BudgetOK', stopped' \in StopReasons, stops' \in BOOLEAN,
         handoff' \in {"open", "pending", "blocked"}
  PROVE  TypeOK'
BY DEF TypeOK, GateType, FoundType, RanType, AttemptsType, BudgetOK

LEMMA AnswerTyped ==
  ASSUME TypeOK
  PROVE  /\ found \in FoundType
         /\ \A a \in Answers : /\ Merged(found, a) \in FoundType /\ Covered(found, a) \in FoundType
                               /\ Expanded(a) \in FoundType
<1>1. found \in FoundType
  BY Typed
<1> QED
  BY <1>1, FoundTyped, ExpandedTyped

LEMMA NoGateTyped == \A S \in SUBSET Names : NoGate \in GateType /\ [NoGate EXCEPT !.scope = S] \in GateType
BY DEF NoGate, GateType

\* Tasks the provider is asked, or refused, in the order of the phase.
LEMMA OnwardTyped ==
  ASSUME TypeOK, todo # <<>>, UNCHANGED settings,
         AfterRefusal \/ \E a \in Answers : AfterAnswer(a)
  PROVE  todo' \in Seq(Tasks) /\ tries' \in 0..settings'.useful
<1>1. Again \/ Onward
  BY DEF AfterRefusal, AfterAnswer
<1>2. tries \in 0..settings.useful /\ settings.useful \in Nat /\ todo \in Seq(Tasks)
  BY Typed
<1>3. CASE Again
  BY <1>2, <1>3 DEF Again
<1>4. CASE Onward
  BY <1>2, <1>4 DEF Onward
<1> QED
  BY <1>1, <1>3, <1>4

LEMMA FrameTyped ==
  ASSUME TypeOK, BudgetSound, UNCHANGED budget, UNCHANGED settings
  PROVE  BudgetOK'
BY SettingsTyped DEF TypeOK, budget, BudgetOK, BudgetSound

\* The actions of one kind of step each keep the types.
LEMMA DiscoverTyped == ASSUME TypeOK, BudgetSound, Discover PROVE TypeOK' /\ BudgetOK'
<1>1. Head(todo) \in Tasks /\ Key(Head(todo)) \in Keys
  BY Typed, TasksTyped, SMTT(30) DEF Discover
<1>2. found' \in FoundType /\ scope' \in SUBSET Names
  <2>1. found' \in FoundType
    BY AnswerTyped DEF Discover
  <2> QED
    BY <2>1, FoundTyped DEF Discover
<1>3. BudgetOK'
  BY <1>1, BudgetStep DEF Discover
<1>4. todo' \in Seq(Tasks) /\ tries' \in 0..settings'.useful
  BY OnwardTyped DEF Discover
<1> QED
  BY <1>2, <1>3, <1>4, Typed, TypedNext DEF Discover, AttemptsType

LEMMA CoverTyped == ASSUME TypeOK, BudgetSound, Cover PROVE TypeOK' /\ BudgetOK'
<1>1. Head(todo) \in Tasks /\ Key(Head(todo)) \in Keys
  BY Typed, TasksTyped, SMTT(30) DEF Cover
<1>2. found' \in FoundType
  BY AnswerTyped DEF Cover
<1>3. BudgetOK'
  BY <1>1, BudgetStep DEF Cover
<1>4. todo' \in Seq(Tasks) /\ tries' \in 0..settings'.useful
  BY OnwardTyped DEF Cover
<1> QED
  BY <1>2, <1>3, <1>4, Typed, TypedNext DEF Cover, AttemptsType

LEMMA ExtractTyped == ASSUME TypeOK, BudgetSound, Extract PROVE TypeOK' /\ BudgetOK'
<1>1. found' \in FoundType /\ scope' \in SUBSET Names
  <2>1. PICK new \in SUBSET (Names \ found.names) :
          /\ found' = [found EXCEPT !.names = found.names \cup new,
                                    !.linked = found.linked \/ new # {}]
          /\ scope' = IF new = {} THEN scope ELSE Eligible(found')
    BY DEF Extract
  <2>2. found' \in FoundType
    BY <2>1, Typed, FoundTyped
  <2> QED
    BY <2>1, <2>2, Typed, FoundTyped
<1>2. stage' \in Stages /\ pending' \in Nat
  <2>1. stage' \in Stages
    BY DEF Extract, AfterLastExtraction, Stages
  <2>2. pending' \in {0} \/ pending' \in 0..MaxCrossChecks
    BY Zenon DEF Extract
  <2> QED
    BY <2>1, <2>2, BoundsTyped
<1>3. BudgetOK'
  BY FrameTyped DEF Extract
<1> QED
  BY <1>1, <1>2, <1>3, Typed, TypedNext DEF Extract, AttemptsType

LEMMA CrossCheckTyped ==
  ASSUME TypeOK, BudgetSound, CrossCheckOne PROVE TypeOK' /\ BudgetOK'
<1>1. found' \in FoundType
  BY AnswerTyped DEF CrossCheckOne
<1>2. BudgetOK'
  BY TasksTyped, BudgetStep DEF CrossCheckOne
<1>3. pending' \in Nat
  <2>1. pending \in Nat
    BY Typed
  <2>2. pending' = pending - 1 /\ pending > 0
    BY Zenon DEF CrossCheckOne
  <2> QED
    BY <2>1, <2>2
<1> QED
  BY <1>1, <1>2, <1>3, Typed, TypedNext DEF CrossCheckOne, AttemptsType

\* Ends of phases that decide nothing.
LEMMA PhaseEndTyped ==
  ASSUME TypeOK, BudgetSound, EndDiscovery \/ EndCrossCheck PROVE TypeOK' /\ BudgetOK'
<1>1. stage' \in Stages /\ scope' \in SUBSET Names /\ UNCHANGED <<settings, budget>>
  BY Typed, FoundTyped DEF EndDiscovery, EndCrossCheck, Stages
<1>2. BudgetOK'
  BY <1>1, FrameTyped
<1> QED
  BY <1>1, <1>2, Typed, TypedNext DEF EndDiscovery, EndCrossCheck, work, AttemptsType

\* Recovery: the first task of the phase is asked once more.
LEMMA BaseTyped == ASSUME TypeOK, Looping PROVE BaseKey \in Keys
<1>1. Base \in Seq(Tasks) /\ Base # <<>>
  BY Typed, TasksTyped DEF Base, Looping
<1>2. Base[1] \in Tasks
  BY <1>1
<1> QED
  BY <1>2, TasksTyped DEF BaseKey

LEMMA AdaptiveTyped ==
  ASSUME TypeOK, BudgetSound, Looping, NEW clears \in BOOLEAN, Adaptive(clears),
         attempts' \in AttemptsType
  PROVE  TypeOK' /\ BudgetOK'
<1>1. found' \in FoundType
  <2>1. CASE \E a \in Answers : found' = IF clears /\ a.issues = {} THEN Cleared(Merged(found, a))
                                                                    ELSE Merged(found, a)
    BY <2>1, AnswerTyped, FoundTyped
  <2>2. CASE found' = IF clears THEN Cleared(found) ELSE found
    BY <2>2, AnswerTyped, FoundTyped
  <2> QED
    BY <2>1, <2>2, Zenon DEF Adaptive
<1>2. scope' \in SUBSET Names
  BY <1>1, FoundTyped DEF Adaptive
<1>3. BudgetOK'
  BY BaseTyped, BudgetStep DEF Adaptive
<1> QED
  BY <1>1, <1>2, <1>3, Typed, TypedNext DEF Adaptive, AttemptsType

LEMMA CountTyped ==
  ASSUME TypeOK
  PROVE  /\ attempts.retries < settings.retries =>
              [attempts EXCEPT !.retries = attempts.retries + 1] \in AttemptsType
         /\ attempts.repairs < settings.retries =>
              [attempts EXCEPT !.repairs = attempts.repairs + 1] \in AttemptsType
         /\ attempts.revisions < settings.revisions =>
              [attempts EXCEPT !.revisions = attempts.revisions + 1] \in AttemptsType
<1>1. /\ attempts \in AttemptsType
      /\ settings.retries \in Nat /\ settings.revisions \in Nat
  BY Typed
<1>2. /\ attempts.retries \in 0..settings.retries /\ attempts.repairs \in 0..settings.retries
      /\ attempts.revisions \in 0..settings.revisions
  BY <1>1 DEF AttemptsType
<1> QED
  BY <1>1, <1>2 DEF AttemptsType

LEMMA RecoveryTaskTyped ==
  ASSUME TypeOK, BudgetSound, RetrySource \/ RepairExtraction \/ RevisePlan
  PROVE  TypeOK' /\ BudgetOK'
<1>1. attempts' \in AttemptsType
  BY CountTyped DEF RetrySource, RepairExtraction, RevisePlan
<1> QED
  BY <1>1, AdaptiveTyped DEF RetrySource, RepairExtraction, RevisePlan

LEMMA SalvageTyped == ASSUME TypeOK, BudgetSound, Salvage PROVE TypeOK' /\ BudgetOK'
<1>1. found' \in FoundType
  <2>1. PICK new \in SUBSET Names :
          found' = [found EXCEPT !.names = found.names \cup new,
                                 !.linked = found.linked \/ new # {}, !.salvaged = TRUE]
    BY Zenon DEF Salvage
  <2> QED
    BY <2>1, AnswerTyped, FoundTyped
<1>2. scope' \in SUBSET Names /\ UNCHANGED <<settings, budget>>
  BY <1>1, FoundTyped DEF Salvage
<1>3. BudgetOK'
  BY <1>2, FrameTyped
<1> QED
  BY <1>1, <1>2, <1>3, Typed, TypedNext DEF Salvage, work, AttemptsType

LEMMA StopRecoveryTyped == ASSUME TypeOK, BudgetSound, StopRecovery PROVE TypeOK' /\ BudgetOK'
<1>1. stopped' \in StopReasons /\ stops' \in BOOLEAN /\ UNCHANGED <<settings, budget>>
  BY DEF StopRecovery, Stop, StopReasons
<1>2. BudgetOK'
  BY <1>1, FrameTyped
<1> QED
  BY <1>1, <1>2, Typed, TypedNext DEF StopRecovery, work, AttemptsType

LEMMA PlanTargetedTyped ==
  ASSUME TypeOK, BudgetSound, PlanTargetedExpansion PROVE TypeOK' /\ BudgetOK'
<1>1. /\ attempts \in AttemptsType /\ stopped \in StopReasons /\ stops \in BOOLEAN
      /\ settings.retries \in Nat /\ settings.revisions \in Nat /\ found \in FoundType
  BY Typed
<1>2. attempts' \in AttemptsType
  BY CountTyped DEF PlanTargetedExpansion
<1>3. PICK targets \in BOOLEAN, unselected \in BOOLEAN, variants \in 0..MaxVariants :
        /\ found' = Planned(targets, unselected) /\ pending' = variants
        /\ IF variants = 0 THEN Stop("no expansion") ELSE UNCHANGED <<stopped, stops>>
  BY Zenon DEF PlanTargetedExpansion
<1>4. found' \in FoundType /\ pending' \in Nat
  <2>1. found' \in FoundType
    BY <1>1, <1>3, PlannedTyped
  <2>2. pending' \in 0..MaxVariants
    BY <1>3, Zenon
  <2> QED
    BY <2>1, <2>2, BoundsTyped
<1>5. stopped' \in StopReasons /\ stops' \in BOOLEAN
  BY <1>1, <1>3 DEF Stop, StopReasons
<1>6. ran' \in RanType
  BY DEF PlanTargetedExpansion, NotRan, RanType
<1>7. BudgetOK'
  BY FrameTyped DEF PlanTargetedExpansion
<1> QED
  BY <1>2, <1>4, <1>5, <1>6, <1>7, Typed, TypedNext DEF PlanTargetedExpansion, AttemptsType

\* One task of an expansion, whichever executes it.
LEMMA ExpansionTaskTyped ==
  ASSUME TypeOK, BudgetSound, ExpansionTask, pending > 0, UNCHANGED settings
  PROVE  /\ found' \in FoundType /\ scope' \in SUBSET Names
         /\ pending' \in Nat /\ ran' \in RanType /\ BudgetOK' /\ (exhausted => exhausted')
<1>1. pending \in Nat /\ ran \in RanType /\ found \in FoundType /\ scope \in SUBSET Names
  BY Typed
<1>2. found' \in FoundType
  BY <1>1, AnswerTyped, FoundTyped DEF ExpansionTask
<1>3. scope' \in SUBSET Names
  BY <1>1, <1>2, FoundTyped DEF ExpansionTask
<1>4. pending' \in Nat
  <2>1. pending' = pending - 1
    BY Zenon DEF ExpansionTask
  <2> QED
    BY <1>1, <2>1
<1>5. ran' \in RanType
  <2>1. ran' = Skipped \/ ran' = [ran EXCEPT !.executed = ran.executed + 1]
    BY Zenon DEF ExpansionTask
  <2> QED
    BY <1>1, <2>1 DEF Skipped, RanType
<1>6. BudgetOK' /\ (exhausted => exhausted')
  BY TasksTyped, BudgetStep DEF ExpansionTask, AcceptExpansion
<1> QED
  BY <1>2, <1>3, <1>4, <1>5, <1>6

LEMMA ExpandTargetedTyped == ASSUME TypeOK, BudgetSound, ExpandTargeted PROVE TypeOK' /\ BudgetOK'
<1>1. stopped' \in StopReasons /\ stops' \in BOOLEAN
  BY Typed DEF ExpandTargeted, Stop, StopReasons
<1>2. ExpansionTask /\ pending > 0 /\ UNCHANGED settings
  BY DEF ExpandTargeted
<1> QED
  BY <1>1, <1>2, ExpansionTaskTyped, Typed, TypedNext DEF ExpandTargeted, AttemptsType

LEMMA ExpandTyped == ASSUME TypeOK, BudgetSound, Expand PROVE TypeOK' /\ BudgetOK'
<1>1. ExpansionTask /\ pending > 0 /\ UNCHANGED settings
  BY DEF Expand
<1>2. stage' \in Stages
  BY Typed DEF Expand, Stages
<1> QED
  BY <1>1, <1>2, ExpansionTaskTyped, Typed, TypedNext DEF Expand, AttemptsType

LEMMA EndRecoveryTyped == ASSUME TypeOK, BudgetSound, EndRecovery PROVE TypeOK' /\ BudgetOK'
<1>1. stage' \in Stages /\ stops' \in BOOLEAN
  BY Typed DEF EndRecovery, Stages
<1>2. todo' \in Seq(Tasks)
  <2>1. todo' = todo \/ todo' = GateTasks \/ todo' = <<>>
    BY Zenon DEF EndRecovery
  <2>2. todo \in Seq(Tasks)
    BY Typed
  <2>3. <<>> \in Seq(Tasks)
    OBVIOUS
  <2>4. GateTasks \in Seq(Tasks)
    BY TasksTyped
  <2> QED
    BY <2>1, <2>2, <2>3, <2>4, Zenon
<1>3. gate' \in GateType
  BY Typed, NoGateTyped DEF EndRecovery
<1>4. attempts' \in AttemptsType'
  <2>1. settings.retries \in Nat /\ settings.revisions \in Nat
    BY Typed
  <2>2. attempts' = NoAttempts /\ settings' = settings
    BY DEF EndRecovery
  <2> QED
    BY <2>1, <2>2 DEF NoAttempts, AttemptsType
<1>5. BudgetOK'
  BY FrameTyped DEF EndRecovery
<1> QED
  BY <1>1, <1>2, <1>3, <1>4, <1>5, Typed, TypedNext DEF EndRecovery

LEMMA TakeGateTyped == ASSUME TypeOK, BudgetSound, TakeGate PROVE TypeOK' /\ BudgetOK'
<1>1. /\ todo \in Seq(Tasks) /\ todo # <<>> /\ gate \in GateType
      /\ Head(todo) \in Tasks /\ Tail(todo) \in Seq(Tasks)
  <2>1. todo \in Seq(Tasks) /\ gate \in GateType
    BY Typed
  <2>2. todo # <<>>
    BY DEF TakeGate
  <2> QED
    BY <2>1, <2>2
<1>2. todo' \in Seq(Tasks)
  BY <1>1 DEF TakeGate
<1>3. gate' \in GateType
  <2>1. Materialized \in SUBSET Names
    BY <1>1, AnswerTyped, FoundTyped DEF Materialized, GateType
  <2>2. ASSUME NEW names \in SUBSET Names
        PROVE  [gate EXCEPT !.task = Head(todo),
                            !.names = IF names = {} THEN {NoName} ELSE names] \in GateType
    BY <1>1 DEF GateType
  <2> DEFINE names == IF Head(todo) \in Range(GateTasks) THEN Materialized ELSE {}
  <2>3. \/ gate' = gate
        \/ gate' = [gate EXCEPT !.task = Head(todo),
                                !.names = IF names = {} THEN {NoName} ELSE names]
    BY Zenon DEF TakeGate
  <2>4. names \in SUBSET Names
    BY <2>1
  <2> HIDE DEF names
  <2> QED
    BY <1>1, <2>2, <2>3, <2>4
<1>4. BudgetOK'
  BY FrameTyped DEF TakeGate
<1> QED
  BY <1>2, <1>3, <1>4, Typed, TypedNext DEF TakeGate, AttemptsType

LEMMA RunGateTyped ==
  ASSUME TypeOK, GateSound, BudgetSound, NEW n \in Names \cup {NoName}, RunGate(n)
  PROVE  TypeOK' /\ BudgetOK'
<1>1. gate \in GateType /\ todo \in Seq(Tasks)
  BY Typed
<1>2. todo # <<>> /\ gate.task \in Tasks
  BY DEF GateSound, RunGate
<1>3. found' \in FoundType
  BY AnswerTyped DEF RunGate
<1>4. BudgetOK'
  BY <1>2, TasksTyped, BudgetStep DEF RunGate
<1>5. todo' \in Seq(Tasks)
  <2>1. Tail(todo) \in Seq(Tasks)
    BY <1>1, <1>2
  <2> QED
    BY <1>1, <2>1 DEF RunGate
<1>6. gate' \in GateType
  <2>1. [gate EXCEPT !.names = gate.names \ {n}] \in GateType
    BY <1>1 DEF GateType
  <2>2. [NoGate EXCEPT !.scope = Eligible(found')] \in GateType
    BY <1>3, FoundTyped, NoGateTyped
  <2> QED
    BY <2>1, <2>2, Zenon DEF RunGate
<1> QED
  BY <1>3, <1>4, <1>5, <1>6, Typed, TypedNext DEF RunGate, AttemptsType

LEMMA CoverOrExpandTyped ==
  ASSUME TypeOK, CoverOrExpand
  PROVE  /\ stage' \in Stages /\ iteration' \in 0..MaxIterations /\ todo' \in Seq(Tasks)
         /\ before' \in SUBSET Names /\ gate' \in GateType
<1>1. /\ todo \in Seq(Tasks) /\ coverage \in Seq(Tasks) /\ iteration \in 0..MaxIterations
      /\ MaxIterations \in Nat /\ before \in SUBSET Names
  BY Typed
<1>2. found.names \in SUBSET Names
  BY AnswerTyped DEF FoundType
<1>3. gate' \in GateType
  BY NoGateTyped DEF CoverOrExpand
<1>4. stage' \in Stages
  BY DEF CoverOrExpand, Stages
<1>5. iteration' \in 0..MaxIterations
  <2>1. iteration' = iteration \/ (iteration' = iteration + 1 /\ iteration < MaxIterations)
    BY Zenon DEF CoverOrExpand, MayCover
  <2> QED
    BY <1>1, <2>1
<1>6. todo' \in Seq(Tasks) /\ before' \in SUBSET Names
  <2>1. (todo' = todo \/ todo' = coverage) /\ (before' = before \/ before' = found.names)
    BY Zenon DEF CoverOrExpand
  <2> QED
    BY <1>1, <1>2, <2>1
<1> QED
  BY <1>3, <1>4, <1>5, <1>6

LEMMA EndPassTyped ==
  ASSUME TypeOK, BudgetSound, EndGates \/ EndNewNames
  PROVE  TypeOK' /\ BudgetOK'
<1>1. CoverOrExpand
  BY DEF EndGates, EndNewNames
<1>2. scope' \in SUBSET Names
  BY Typed, FoundTyped DEF EndGates, EndNewNames, GateType
<1>3. stops' \in BOOLEAN
  BY Typed DEF EndGates, EndNewNames
<1>4. BudgetOK'
  BY FrameTyped DEF EndGates, EndNewNames
<1> QED
  BY <1>1, <1>2, <1>3, <1>4, CoverOrExpandTyped, Typed, TypedNext
  DEF EndGates, EndNewNames, AttemptsType

LEMMA EndCoverageTyped == ASSUME TypeOK, BudgetSound, EndCoverage PROVE TypeOK' /\ BudgetOK'
<1>1. todo' \in Seq(Tasks)
  <2>1. DiscoveryTasks \o GateTasks \in Seq(Tasks) /\ todo \in Seq(Tasks)
    BY Typed, TasksTyped
  <2> QED
    BY <2>1 DEF EndCoverage
<1>2. gate' \in GateType
  <2>1. found.names \ before \in SUBSET Names
    BY AnswerTyped DEF FoundType
  <2> QED
    BY <2>1, Typed, NoGateTyped DEF EndCoverage
<1>3. stage' \in Stages
  BY DEF EndCoverage, Stages
<1>4. BudgetOK'
  BY FrameTyped DEF EndCoverage
<1> QED
  BY <1>1, <1>2, <1>3, <1>4, Typed, TypedNext DEF EndCoverage, AttemptsType

LEMMA PlanExpansionTyped == ASSUME TypeOK, BudgetSound, PlanExpansion PROVE TypeOK' /\ BudgetOK'
<1>1. PICK targets \in BOOLEAN, unselected \in BOOLEAN, variants \in 0..MaxVariants :
        /\ found' = Planned(targets, unselected) /\ pending' = variants
        /\ stage' = IF variants = 0 THEN "after coverage" ELSE "expansion"
  BY Zenon DEF PlanExpansion
<1>2. found' \in FoundType
  BY <1>1, AnswerTyped, PlannedTyped
<1>3. pending' \in 0..MaxVariants
  BY <1>1, Zenon
<1>4. pending' \in Nat
  BY <1>3, BoundsTyped
<1>5. stage' \in Stages
  BY <1>1 DEF Stages
<1>6. ran' \in RanType
  BY DEF PlanExpansion, NotRan, RanType
<1>7. BudgetOK'
  BY FrameTyped DEF PlanExpansion
<1> QED
  BY <1>2, <1>4, <1>5, <1>6, <1>7, Typed, TypedNext DEF PlanExpansion, AttemptsType

LEMMA ReviewTyped ==
  ASSUME TypeOK, BudgetSound, NEW unmet \in BOOLEAN, ReviewHandoff(unmet)
  PROVE  TypeOK' /\ BudgetOK'
<1>1. stage' \in Stages /\ handoff' \in {"open", "pending", "blocked"}
  BY DEF ReviewHandoff, Stages
<1>2. stopped' \in StopReasons /\ stops' \in BOOLEAN
  BY Typed DEF ReviewHandoff, StopReasons
<1>3. scope' \in SUBSET Names
  BY AnswerTyped, FoundTyped DEF ReviewHandoff
<1>4. UNCHANGED <<settings, coverage, found, budget, work>>
  BY DEF ReviewHandoff
<1>5. BudgetOK'
  BY <1>4, FrameTyped
<1> QED
  BY <1>1, <1>2, <1>3, <1>4, <1>5, Typed, TypedNext DEF work, AttemptsType

\* Every step keeps the types and the limits of the budget.
LEMMA StepTyped ==
  ASSUME TypeOK, GateSound, BudgetSound, [Next]_vars
  PROVE  TypeOK' /\ BudgetSound'
<1>1. CASE Step
  BY <1>1, DiscoverTyped, CoverTyped, ExtractTyped, CrossCheckTyped, PhaseEndTyped,
     RecoveryTaskTyped, SalvageTyped, StopRecoveryTyped, PlanTargetedTyped, ExpandTargetedTyped,
     EndRecoveryTyped, TakeGateTyped, RunGateTyped, EndPassTyped, EndCoverageTyped,
     PlanExpansionTyped, ExpandTyped, ReviewTyped, Zenon DEF Step, BudgetOK
<1>2. CASE UNCHANGED vars
  <2>1. UNCHANGED <<settings, budget>>
    BY <1>2 DEF vars
  <2>2. BudgetOK'
    BY <2>1, FrameTyped
  <2> QED
    BY <1>2, <2>2, Typed, TypedNext DEF vars, work, AttemptsType, BudgetOK
<1> QED
  BY <1>1, <1>2 DEF Next, Finished

-----------------------------------------------------------------------------
\* Stops

Control == GateSound /\ StopSound /\ StopsHaveACause /\ ReviewComesLast /\ StopIsHonoured

\* A refusal is not forgotten, whoever is refused.
LEMMA ExhaustedStays ==
  ASSUME NEW key,
         Accept(key) \/ Refuse(key) \/ AcceptOnReserve(key) \/ RefuseReserved(key)
  PROVE  exhausted => exhausted'
BY DEF Accept, Refuse, AcceptOnReserve, RefuseReserved

\* Steps that decide no stop and leave the phase, or go on to the next one.
LEMMA DiscoveryControl ==
  ASSUME TypeOK, Control, Discover \/ EndDiscovery \/ Extract \/ CrossCheckOne \/ EndCrossCheck
  PROVE  Control'
<1> USE DEF Control, GateSound, StopSound, StopsHaveACause, ReviewComesLast, StopIsHonoured,
            InGatePass, Recovering
<1>1. CASE Discover
  BY <1>1, ExhaustedStays DEF Discover
<1>2. CASE EndDiscovery
  BY <1>2 DEF EndDiscovery, budget, work
<1>3. CASE Extract
  BY <1>3 DEF Extract, AfterLastExtraction, budget
<1>4. CASE CrossCheckOne
  BY <1>4, ExhaustedStays DEF CrossCheckOne
<1>5. CASE EndCrossCheck
  BY <1>5 DEF EndCrossCheck, budget, work
<1> QED
  BY <1>1, <1>2, <1>3, <1>4, <1>5

LEMMA LastVariant ==
  ASSUME NEW n \in Nat, n > 0
  PROVE  n # 0 /\ (n = 1 => n - 1 = 0)
OBVIOUS

LEMMA NoneLeft == ~ (0 > 0)
OBVIOUS

LEMMA HeadTyped ==
  ASSUME NEW queue \in Seq(Tasks), queue # <<>>
  PROVE  Head(queue) \in Tasks
OBVIOUS

LEMMA RecoveryControl ==
  ASSUME TypeOK, Control,
         \/ RetrySource \/ RepairExtraction \/ RevisePlan \/ Salvage \/ StopRecovery
         \/ PlanTargetedExpansion \/ ExpandTargeted \/ EndRecovery
  PROVE  Control'
<1> USE DEF Control, GateSound, StopSound, StopsHaveACause, ReviewComesLast, StopIsHonoured,
            InGatePass, Recovering
<1>1. CASE RetrySource \/ RepairExtraction \/ RevisePlan
  <2>1. Looping /\ \E clears \in BOOLEAN : Adaptive(clears)
    BY <1>1 DEF RetrySource, RepairExtraction, RevisePlan
  <2>2. exhausted => exhausted'
    BY <2>1, ExhaustedStays, Zenon DEF Adaptive
  <2>3. UNCHANGED <<stage, todo, gate, pending, stopped, stops, handoff>>
    BY <2>1 DEF Adaptive
  <2> QED
    BY <2>2, <2>3
<1>2. CASE Salvage
  BY <1>2 DEF Salvage, Looping, budget, work
<1>3. CASE StopRecovery
  BY <1>3 DEF StopRecovery, Looping, Stop, budget, work
<1>4. CASE PlanTargetedExpansion
  BY <1>4, BoundsTyped DEF PlanTargetedExpansion, Looping, Stop, budget
<1>5. CASE ExpandTargeted
  <2>1. exhausted => exhausted'
    BY <1>5, ExhaustedStays, Zenon DEF ExpandTargeted, ExpansionTask, AcceptExpansion, budget
  <2>2. /\ Recovering /\ pending > 0 /\ pending' = pending - 1
        /\ UNCHANGED <<stage, todo, gate, handoff>>
    BY <1>5, Zenon DEF ExpandTargeted, ExpansionTask
  <2>4. \/ pending = 1 /\ stopped' # ""
        \/ UNCHANGED <<stopped, stops>>
    BY <1>5 DEF ExpandTargeted, Stop
  <2>3. pending \in Nat
    BY Typed
  <2>5. pending # 0 /\ (pending = 1 => pending' = 0)
    BY <2>2, <2>3, LastVariant, Zenon
  <2>6. stopped = ""
    BY <2>2, <2>5
  <2>7. StopSound'
    <3>1. CASE pending = 1
      BY <2>2, <2>5, <3>1
    <3>2. CASE UNCHANGED <<stopped, stops>>
      BY <2>6, <3>2
    <3> QED
      BY <2>4, <3>1, <3>2
  <2>8. GateSound' /\ ReviewComesLast' /\ StopIsHonoured'
    BY <2>2
  <2>9. StopsHaveACause'
    BY <2>1, <2>2, <2>4
  <2> QED
    BY <2>7, <2>8, <2>9
<1>6. CASE EndRecovery
  BY <1>6 DEF EndRecovery, RecoveryDecision, NoGate, budget
<1> QED
  BY <1>1, <1>2, <1>3, <1>4, <1>5, <1>6

LEMMA GateControl ==
  ASSUME TypeOK, Control, TakeGate \/ \E n \in Names \cup {NoName} : RunGate(n)
  PROVE  Control'
<1> USE DEF Control, GateSound, StopSound, StopsHaveACause, ReviewComesLast, StopIsHonoured,
            InGatePass, Recovering
<1>1. CASE TakeGate
  <2>1. /\ InGatePass /\ todo # <<>> /\ UNCHANGED <<stage, stopped, stops, handoff, pending>>
        /\ UNCHANGED exhausted
    BY <1>1 DEF TakeGate, budget
  <2>0. gate.names = {}
    BY <1>1, TasksAssumption DEF TakeGate, NoTask
  <2>2. UNCHANGED gate \/ (todo' = todo /\ gate'.task = Head(todo))
    BY <1>1, Typed DEF TakeGate, GateType
  <2>3. Head(todo) \in Tasks
    <3>1. todo \in Seq(Tasks)
      BY Typed
    <3> QED
      BY <2>1, <3>1, HeadTyped, Zenon
  <2> QED
    BY <2>0, <2>1, <2>2, <2>3
<1>2. ASSUME NEW n \in Names \cup {NoName}, RunGate(n)
      PROVE  Control'
  <2>1. exhausted => exhausted'
    BY <1>2, ExhaustedStays, Zenon DEF RunGate
  <2>2. /\ InGatePass /\ gate.names # {} /\ UNCHANGED <<stage, stopped, stops, handoff, pending>>
        /\ \/ gate'.names = {} /\ todo' = Tail(todo)
           \/ gate'.task = gate.task /\ todo' = todo
    BY <1>2, Typed DEF RunGate, NoGate, GateType
  <2> QED
    BY <2>1, <2>2
<1> QED
  BY <1>1, <1>2

LEMMA CoverageControl ==
  ASSUME TypeOK, Control,
         EndGates \/ Cover \/ EndCoverage \/ EndNewNames \/ PlanExpansion \/ Expand
  PROVE  Control'
<1> USE DEF Control, GateSound, StopSound, StopsHaveACause, ReviewComesLast, StopIsHonoured,
            InGatePass, Recovering
<1>1. CASE EndGates
  BY <1>1 DEF EndGates, CoverOrExpand, MayCover, NoGate, budget
<1>2. CASE Cover
  BY <1>2, ExhaustedStays DEF Cover
<1>3. CASE EndCoverage
  BY <1>3 DEF EndCoverage, NoGate, budget
<1>4. CASE EndNewNames
  <2>1. /\ gate'.names = {} /\ stopped = ""
        /\ UNCHANGED <<stopped, stops, handoff, exhausted>> /\ stage' # "done" /\ stage # "done"
    BY <1>4 DEF EndNewNames, CoverOrExpand, NoGate, budget
  <2> QED
    BY <2>1
<1>5. CASE PlanExpansion
  BY <1>5 DEF PlanExpansion, budget
<1>6. CASE Expand
  <2>1. exhausted => exhausted'
    BY <1>6, ExhaustedStays, Zenon DEF Expand, ExpansionTask, AcceptExpansion, budget
  <2>2. /\ stage = "expansion" /\ stage' \in {"after coverage", "expansion"}
        /\ UNCHANGED <<todo, gate, stopped, stops, handoff>>
    BY <1>6 DEF Expand
  <2> QED
    BY <2>1, <2>2
<1> QED
  BY <1>1, <1>2, <1>3, <1>4, <1>5, <1>6

\* The review asks for everything a decision to stop can stand on.
LEMMA ReviewControl ==
  ASSUME TypeOK, Control, NEW unmet \in BOOLEAN, ReviewHandoff(unmet)
  PROVE  Control'
BY DEF ReviewHandoff, SignalStop, Control, GateSound, StopSound, StopsHaveACause, ReviewComesLast,
       StopIsHonoured, InGatePass, Recovering, budget, work

-----------------------------------------------------------------------------
\* The inductive invariant

LEMMA InitIInv == Init => IInv
<1> SUFFICES ASSUME Init PROVE IInv
  OBVIOUS
<1>1. settings \in Settings /\ coverage \in CoverageTasks
  BY DEF Init
<1>2. /\ settings.useful \in Nat /\ settings.retries \in Nat /\ settings.revisions \in Nat
      /\ settings.reserve \in Nat /\ settings.total \in Nat
  BY <1>1, SettingsTyped
<1>3. NoGate \in GateType /\ NoAttempts \in AttemptsType /\ NotRan \in RanType
  BY <1>2 DEF NoGate, GateType, NoAttempts, AttemptsType, NotRan, RanType
<1>4. found \in FoundType
  BY DEF Init, FoundType
<1>5. spent \in [Keys -> Nat]
  BY DEF Init
<1>6. TypeOK
  <2>1. stage \in Stages /\ stopped \in StopReasons /\ todo \in Seq(Tasks)
    BY TasksTyped DEF Init, Stages, StopReasons
  <2>0. tries = 0 /\ iteration = 0 /\ pending = 0 /\ total = 0 /\ reserve = 0
    BY Zenon DEF Init
  <2>2. /\ tries \in 0..settings.useful /\ iteration \in 0..MaxIterations /\ pending \in Nat
        /\ total \in Nat /\ reserve \in 0..settings.reserve
    BY <1>2, <2>0, BoundsTyped
  <2>3. gate \in GateType /\ attempts \in AttemptsType /\ ran \in RanType
    BY <1>3 DEF Init
  <2>4. /\ scope \in SUBSET Names /\ before \in SUBSET Names /\ exhausted \in BOOLEAN
        /\ stops \in BOOLEAN /\ handoff \in {"open", "pending", "blocked"}
    BY DEF Init
  <2> QED
    BY <1>1, <1>4, <1>5, <2>1, <2>2, <2>3, <2>4
    DEF TypeOK, GateType, FoundType, RanType, AttemptsType
<1>7. Control
  BY DEF Init, NoGate, Control, GateSound, StopSound, StopsHaveACause, ReviewComesLast,
         StopIsHonoured
<1>8. BudgetSound
  <2>1. total = 0 /\ reserve = 0
    BY DEF Init
  <2> QED
    BY <1>2, <2>1 DEF BudgetSound
<1> QED
  BY <1>6, <1>7, <1>8 DEF IInv, Control

LEMMA StepControl == ASSUME TypeOK, Control, [Next]_vars PROVE Control'
<1>1. CASE Step
  BY <1>1, DiscoveryControl, RecoveryControl, GateControl, CoverageControl, ReviewControl, Zenon
  DEF Step
<1>2. CASE UNCHANGED vars
  BY <1>2 DEF vars, budget, work, Control, GateSound, StopSound, StopsHaveACause,
              ReviewComesLast, StopIsHonoured, InGatePass, Recovering
<1> QED
  BY <1>1, <1>2 DEF Next, Finished

LEMMA StepIInv == IInv /\ [Next]_vars => IInv'
<1> SUFFICES ASSUME IInv, [Next]_vars PROVE IInv'
  OBVIOUS
<1>1. TypeOK /\ GateSound /\ BudgetSound /\ Control
  BY DEF IInv, Control
<1>2. TypeOK' /\ BudgetSound'
  BY <1>1, StepTyped
<1>3. Control'
  BY <1>1, StepControl
<1> QED
  BY <1>2, <1>3, Zenon DEF IInv, Control

THEOREM InvariantHolds == Spec => []IInv
BY InitIInv, StepIInv, PTL DEF Spec

\* The types hold, and with them every limit of attempts, iterations and reserve.
THEOREM LimitsAreKept == Spec => []TypeOK
<1>1. IInv => TypeOK
  BY DEF IInv
<1> QED
  BY <1>1, InvariantHolds, PTL

\* A recorded stop, acted on or not, blocks the handoff to signal monitoring.
THEOREM StopsAreHonoured == Spec => []StopIsHonoured
<1>1. IInv => StopIsHonoured
  BY DEF IInv
<1> QED
  BY <1>1, InvariantHolds, PTL

\* The total of accepted tasks exceeds its limit by the reserve at most.
THEOREM TotalStaysBounded == Spec => []TotalIsBounded
<1>1. ASSUME IInv PROVE TotalIsBounded
  <2>1. /\ total \in Nat /\ reserve \in 0..settings.reserve
        /\ settings.total \in Nat /\ settings.reserve \in Nat
    BY <1>1, SettingsTyped DEF IInv, TypeOK
  <2> QED
    BY <1>1, <2>1 DEF IInv, BudgetSound, TotalIsBounded
<1> QED
  BY <1>1, InvariantHolds, PTL

\* A step of a stopped run uses no budget.
LEMMA StoppedStep ==
  ASSUME IInv, stopped # "", Step
  PROVE  UNCHANGED budget
<1>1. /\ TypeOK /\ GateSound
      /\ \/ Recovering /\ pending = 0
         \/ stage = "gates" /\ todo = <<>>
         \/ stage \in {"last extraction", "review", "done"}
  BY DEF IInv, StopSound
<1>2. ~ Discover /\ ~ CrossCheckOne /\ ~ Cover /\ ~ Expand
  BY <1>1 DEF Recovering, Discover, CrossCheckOne, Cover, Expand
<1>3. ~ RetrySource /\ ~ RepairExtraction /\ ~ RevisePlan
  BY DEF RetrySource, RepairExtraction, RevisePlan, Looping
<1>4. ~ ExpandTargeted
  <2>1. ExpandTargeted => Recovering /\ pending > 0
    BY Zenon DEF ExpandTargeted
  <2> QED
    BY <1>1, <2>1, NoneLeft, Zenon DEF Recovering
<1>5. \A n \in Names \cup {NoName} : ~ RunGate(n)
  BY <1>1 DEF RunGate, GateSound, InGatePass, Recovering
<1>6. ASSUME NEW unmet \in BOOLEAN, ReviewHandoff(unmet) PROVE UNCHANGED budget
  BY <1>6 DEF ReviewHandoff
<1>7. EndDiscovery \/ Extract \/ EndCrossCheck \/ Salvage \/ StopRecovery => UNCHANGED budget
  BY DEF EndDiscovery, Extract, EndCrossCheck, Salvage, StopRecovery
<1>8. PlanTargetedExpansion \/ EndRecovery \/ TakeGate \/ EndGates => UNCHANGED budget
  BY DEF PlanTargetedExpansion, EndRecovery, TakeGate, EndGates
<1>9. EndCoverage \/ EndNewNames \/ PlanExpansion => UNCHANGED budget
  BY DEF EndCoverage, EndNewNames, PlanExpansion
<1> QED
  BY <1>2, <1>3, <1>4, <1>5, <1>6, <1>7, <1>8, <1>9, Zenon DEF Step

\* Once a run is stopped for review, nothing is admitted or refused any more.
THEOREM StopsAreFinal == Spec => StopIsFinal
<1>1. IInv /\ [Next]_vars => [stopped # "" => UNCHANGED budget]_vars
  BY StoppedStep DEF Next, Finished, vars
<1> QED
  BY <1>1, InvariantHolds, PTL DEF Spec, StopIsFinal


-----------------------------------------------------------------------------
\* The folds the universe is built with

Below == {p \in Nat \X Nat : p[1] < p[2]}
LEMMA BelowIsWellFounded == IsWellFoundedOn(Below, Nat)
BY NatLessThanWellFounded, Zenon DEF OpToRel, Below

LEMMA LeastNatural ==
  ASSUME NEW S, S \subseteq Nat, S # {}
  PROVE  \E n \in S : \A m \in S : n <= m
<1>1. \E n \in S : \A m \in S : ~ (<<m, n>> \in Below)
  BY BelowIsWellFounded, WFMin, Zenon
<1>2. \A m, n \in S : ~ (<<m, n>> \in Below) => n <= m
  BY SMT DEF Below
<1> QED BY <1>1, <1>2

LEMMA UpTo ==
  ASSUME NEW n \in Nat, NEW T, 0 \in T, \A k \in 1 .. n : k - 1 \in T => k \in T
  PROVE  0 .. n \subseteq T
<1> SUFFICES ASSUME NEW x \in 0 .. n, x \notin T PROVE FALSE
  OBVIOUS
<1>1. PICK m \in (0 .. n) \ T : \A k \in (0 .. n) \ T : m <= k
  <2>1. (0 .. n) \ T \subseteq Nat /\ (0 .. n) \ T # {}
    OBVIOUS
  <2> QED BY <2>1, LeastNatural
<1>2. m # 0 /\ m \in 1 .. n /\ m - 1 \in 0 .. n /\ m - 1 < m
  BY <1>1
<1>3. m - 1 \in T
  BY <1>1, <1>2
<1> QED BY <1>1, <1>2, <1>3

LEMMA MinIn ==
  ASSUME NEW S \in SUBSET Nat, S # {}
  PROVE  Min(S) \in S /\ \A y \in S : Min(S) <= y
BY LeastNatural DEF Min

LEMMA MaxIn ==
  ASSUME NEW n \in Nat, NEW S \in SUBSET (0 .. n), S # {}
  PROVE  Max(S) \in S /\ \A y \in S : Max(S) >= y
<1> DEFINE D == {n - y : y \in S}
<1>1. D \subseteq Nat /\ D # {}
  <2>1. \A y \in S : y \in 0 .. n /\ n - y \in Nat
    OBVIOUS
  <2> QED BY <2>1
<1>2. PICK d \in D : \A e \in D : d <= e
  BY <1>1, LeastNatural
<1>3. PICK x \in S : d = n - x
  BY <1>2
<1>4. \A y \in S : n - x <= n - y
  BY <1>2, <1>3
<1>5. \A y \in S : x >= y
  BY <1>4
<1> QED BY <1>3, <1>5 DEF Max

LEMMA MaxUpTo ==
  ASSUME NEW n \in Nat \ {0}
  PROVE  Max(1 .. n) = n /\ (1 .. n) \ {n} = 1 .. (n - 1) /\ 1 .. n # {}
<1>1. 1 .. n \in SUBSET (0 .. n) /\ n \in 1 .. n
  OBVIOUS
<1>2. Max(1 .. n) \in 1 .. n /\ Max(1 .. n) >= n
  BY <1>1, MaxIn
<1> QED BY <1>2

\* A fold of 1 .. n from its largest element, as the community modules define it;
\* a function that agrees with it wherever it is in V; and its values h one by one.
Folding(V, base, n, step, it) ==
  /\ it \in [SUBSET (1 .. n) -> V]
  /\ \A t \in SUBSET (1 .. n) :
       it[t] = IF t = {} THEN base ELSE step[<<Max(t), it[t \ {Max(t)}]>>]
Agrees(V, base, n, step, it) ==
  /\ it[{}] = base
  /\ \A t \in SUBSET (1 .. n) :
       t # {} /\ it[t \ {Max(t)}] \in V => it[t] = step[<<Max(t), it[t \ {Max(t)}]>>]
Values(V, base, n, step, it, h) ==
  /\ h \in [0 .. n -> V] /\ h[0] = base /\ h[n] = it[1 .. n]
  /\ \A k \in 1 .. n : h[k] = step[<<k, h[k - 1]>>]

LEMMA FoldExists ==
  ASSUME NEW V, NEW base \in V, NEW n \in Nat, NEW step \in [(1 .. n) \X V -> V]
  PROVE  \E it : Folding(V, base, n, step, it)
<1> DEFINE Good(m) == \E it \in [SUBSET (1 .. m) -> V] :
             \A t \in SUBSET (1 .. m) :
               it[t] = IF t = {} THEN base ELSE step[<<Max(t), it[t \ {Max(t)}]>>]
           T == {m \in 0 .. n : Good(m)}
<1>1. 0 \in T
  <2> DEFINE it == [t \in SUBSET (1 .. 0) |-> base]
  <2>1. it \in [SUBSET (1 .. 0) -> V] /\ \A t \in SUBSET (1 .. 0) : t = {} /\ it[t] = base
    BY 1 .. 0 = {}
  <2> HIDE DEF it
  <2>2. Good(0)
    BY <2>1
  <2> HIDE DEF Good
  <2> QED BY <2>2
<1>2. ASSUME NEW m \in 1 .. n, m - 1 \in T PROVE m \in T
  <2>1. PICK it \in [SUBSET (1 .. (m - 1)) -> V] :
            \A t \in SUBSET (1 .. (m - 1)) :
               it[t] = IF t = {} THEN base ELSE step[<<Max(t), it[t \ {Max(t)}]>>]
    BY <1>2
  <2> DEFINE next == [t \in SUBSET (1 .. m) |->
                        IF m \in t THEN step[<<m, it[t \ {m}]>>] ELSE it[t]]
  <2>2. \A t \in SUBSET (1 .. m) : m \in t => t \ {m} \in SUBSET (1 .. (m - 1)) /\ Max(t) = m
    <3> TAKE t \in SUBSET (1 .. m)
    <3> HAVE m \in t
    <3>1. Max(t) \in t /\ Max(t) >= m
      <4>1. t \in SUBSET (0 .. m) /\ t # {} /\ m \in Nat
        OBVIOUS
      <4> HIDE DEF next, Good, T
      <4> QED BY <4>1, MaxIn
    <3>2. t \ {m} \in SUBSET (1 .. (m - 1))
      <4>1. \A x \in t : x \in 1 .. m
        OBVIOUS
      <4>2. \A x \in 1 .. m : x # m => x \in 1 .. (m - 1)
        OBVIOUS
      <4> QED BY <4>1, <4>2
    <3>3. \A x \in 1 .. m : x >= m => x = m
      OBVIOUS
    <3> HIDE DEF next, Good, T
    <3>4. Max(t) \in 1 .. m
      BY <3>1
    <3> QED BY <3>1, <3>2, <3>3, <3>4
  <2>3. \A t \in SUBSET (1 .. m) : m \notin t => t \in SUBSET (1 .. (m - 1))
    OBVIOUS
  <2>4. next \in [SUBSET (1 .. m) -> V]
    <3> SUFFICES ASSUME NEW t \in SUBSET (1 .. m) PROVE next[t] \in V
      BY Zenon DEF next
    <3>1. CASE m \in t
      BY <3>1, <2>2, <2>1
    <3>2. CASE m \notin t
      BY <3>2, <2>3, <2>1
    <3> QED BY <3>1, <3>2
  <2>5. ASSUME NEW t \in SUBSET (1 .. m)
        PROVE  next[t] = IF t = {} THEN base ELSE step[<<Max(t), next[t \ {Max(t)}]>>]
    <3>1. CASE m \in t
      <4>1. next[t] = step[<<m, it[t \ {m}]>>]
        BY <3>1
      <4>2. next[t \ {m}] = it[t \ {m}]
        OBVIOUS
      <4> QED BY <3>1, <4>1, <4>2, <2>2
    <3>2. CASE m \notin t
      <4>1. next[t] = it[t] /\ t \in SUBSET (1 .. (m - 1))
        BY <3>2, <2>3
      <4>2. t # {} => next[t \ {Max(t)}] = it[t \ {Max(t)}]
        BY <3>2
      <4> QED BY <4>1, <4>2, <2>1
    <3> QED BY <3>1, <3>2
  <2> HIDE DEF next
  <2>6. Good(m)
    BY <2>4, <2>5
  <2> HIDE DEF Good
  <2> QED BY <2>6
<1> HIDE DEF T, Good
<1>3. 0 .. n \subseteq T
  BY <1>1, <1>2, UpTo
<1>4. n \in T
  BY <1>3
<1>5. Good(n)
  BY <1>4 DEF T
<1> QED BY <1>5 DEF Good, Folding

LEMMA FoldSteps ==
  ASSUME NEW V, NEW base \in V, NEW n \in Nat, NEW step \in [(1 .. n) \X V -> V], NEW it,
         Agrees(V, base, n, step, it)
  PROVE  \E h : Values(V, base, n, step, it, h)
<1> DEFINE T == {k \in 0 .. n : it[1 .. k] \in V}
           h == [k \in 0 .. n |-> it[1 .. k]]
<1>1. \A k \in 1 .. n : it[1 .. (k - 1)] \in V => it[1 .. k] = step[<<k, it[1 .. (k - 1)]>>]
  <2> TAKE k \in 1 .. n
  <2>1. Max(1 .. k) = k /\ (1 .. k) \ {k} = 1 .. (k - 1) /\ 1 .. k # {}
    <3>1. k \in Nat \ {0}
      OBVIOUS
    <3> QED BY <3>1, MaxUpTo
  <2>2. 1 .. k \in SUBSET (1 .. n)
    OBVIOUS
  <2> QED BY <2>1, <2>2 DEF Agrees
<1>2. 0 \in T
  BY 1 .. 0 = {} DEF Agrees
<1>3. \A k \in 1 .. n : k - 1 \in T => k \in T
  <2> TAKE k \in 1 .. n
  <2> HAVE k - 1 \in T
  <2>1. it[1 .. (k - 1)] \in V
    OBVIOUS
  <2>2. it[1 .. k] = step[<<k, it[1 .. (k - 1)]>>]
    BY <2>1, <1>1
  <2>3. step[<<k, it[1 .. (k - 1)]>>] \in V
    BY <2>1
  <2> QED BY <2>2, <2>3
<1> HIDE DEF T
<1>4. 0 .. n \subseteq T
  BY <1>2, <1>3, UpTo
<1>5. \A k \in 0 .. n : it[1 .. k] \in V
  BY <1>4 DEF T
<1>6. h \in [0 .. n -> V] /\ h[0] = base /\ h[n] = it[1 .. n]
  BY <1>5, 1 .. 0 = {} DEF Agrees
<1>7. \A k \in 1 .. n : h[k] = step[<<k, h[k - 1]>>]
  BY <1>1, <1>5
<1> HIDE DEF h
<1> QED BY <1>6, <1>7 DEF Values

LEMMA FoldIn ==
  ASSUME NEW V, NEW base \in V, NEW n \in Nat, NEW step \in [(1 .. n) \X V -> V], NEW it,
         Agrees(V, base, n, step, it)
  PROVE  it[1 .. n] \in V
<1>1. PICK h : Values(V, base, n, step, it, h)
  BY FoldSteps
<1>2. h \in [0 .. n -> V] /\ h[n] = it[1 .. n] /\ n \in 0 .. n
  BY <1>1 DEF Values
<1> QED BY <1>2

LEMMA MaxInRange ==
  ASSUME NEW n \in Nat
  PROVE  \A t \in SUBSET (1 .. n) : t # {} => Max(t) \in 1 .. n /\ t \ {Max(t)} \in SUBSET (1 .. n)
<1> TAKE t \in SUBSET (1 .. n)
<1> HAVE t # {}
<1>1. t \in SUBSET (0 .. n)
  OBVIOUS
<1>2. Max(t) \in t
  BY <1>1, MaxIn
<1> QED BY <1>2

\* The elements of a sequence, and of what is made of it.
LEMMA RangeFacts ==
  ASSUME NEW T, NEW q \in Seq(T)
  PROVE  /\ Range(q) \subseteq T /\ Range(<<>>) = {}
         /\ \A k \in DOMAIN q : q[k] \in Range(q)
         /\ \A x \in Range(q) : \E k \in DOMAIN q : q[k] = x
BY DEF Range

LEMMA AppendFacts ==
  ASSUME NEW T, NEW q \in Seq(T), NEW x \in T
  PROVE  /\ Append(q, x) \in Seq(T) /\ Range(Append(q, x)) = Range(q) \cup {x}
         /\ Len(Append(q, x)) = Len(q) + 1
         /\ \A k \in DOMAIN q : Append(q, x)[k] = q[k]
         /\ Append(q, x)[Len(q) + 1] = x
<1> DEFINE r == Append(q, x)
<1>1. /\ r \in Seq(T) /\ Len(r) = Len(q) + 1 /\ Len(q) \in Nat
      /\ DOMAIN q = 1 .. Len(q) /\ DOMAIN r = 1 .. (Len(q) + 1)
      /\ \A k \in DOMAIN q : r[k] = q[k]
      /\ r[Len(q) + 1] = x
  OBVIOUS
<1> HIDE DEF r
<1>2. \A k \in DOMAIN r : k \in DOMAIN q \/ k = Len(q) + 1
  BY <1>1
<1>3. Range(r) = Range(q) \cup {x}
  <2>1. \A y \in Range(r) : y \in Range(q) \cup {x}
    BY <1>1, <1>2 DEF Range
  <2>2. \A k \in DOMAIN q : k \in DOMAIN r
    BY <1>1
  <2>3. \A y \in Range(q) \cup {x} : y \in Range(r)
    <3>1. Len(q) + 1 \in DOMAIN r
      BY <1>1
    <3> QED BY <3>1, <2>2, <1>1 DEF Range
  <2> QED BY <2>1, <2>3
<1> QED BY <1>1, <1>3 DEF r

LEMMA ConcatFacts ==
  ASSUME NEW T, NEW p \in Seq(T), NEW q \in Seq(T)
  PROVE  /\ p \o q \in Seq(T) /\ Range(p \o q) = Range(p) \cup Range(q)
         /\ Len(p \o q) = Len(p) + Len(q)
         /\ \A k \in DOMAIN p : (p \o q)[k] = p[k]
<1> DEFINE r == p \o q
<1>1. /\ r \in Seq(T) /\ Len(r) = Len(p) + Len(q) /\ Len(p) \in Nat /\ Len(q) \in Nat
      /\ DOMAIN p = 1 .. Len(p) /\ DOMAIN q = 1 .. Len(q) /\ DOMAIN r = 1 .. (Len(p) + Len(q))
      /\ \A k \in DOMAIN p : r[k] = p[k]
      /\ \A k \in DOMAIN q : r[Len(p) + k] = q[k]
  OBVIOUS
<1> HIDE DEF r
<1>2. \A k \in DOMAIN r : k \in DOMAIN p \/ \E j \in DOMAIN q : k = Len(p) + j
  <2> TAKE k \in DOMAIN r
  <2>1. CASE k <= Len(p)
    BY <2>1, <1>1
  <2>2. CASE k > Len(p)
    <3>1. k - Len(p) \in DOMAIN q /\ k = Len(p) + (k - Len(p))
      BY <2>2, <1>1
    <3> QED BY <3>1
  <2> QED BY <2>1, <2>2, <1>1
<1>3. /\ \A k \in DOMAIN p : k \in DOMAIN r
      /\ \A k \in DOMAIN q : Len(p) + k \in DOMAIN r
  BY <1>1
<1>4. \A y \in Range(r) : y \in Range(p) \cup Range(q)
  BY <1>1, <1>2 DEF Range
<1>5. \A y \in Range(p) \cup Range(q) : y \in Range(r)
  BY <1>1, <1>3 DEF Range
<1> QED BY <1>1, <1>4, <1>5 DEF r

LEMMA UpdateFacts ==
  ASSUME NEW T, NEW q \in Seq(T), NEW i \in DOMAIN q, NEW x \in T
  PROVE  /\ [q EXCEPT ![i] = x] \in Seq(T) /\ DOMAIN [q EXCEPT ![i] = x] = DOMAIN q
         /\ \A k \in DOMAIN q : [q EXCEPT ![i] = x][k] = IF k = i THEN x ELSE q[k]
         /\ Range([q EXCEPT ![i] = x]) \subseteq Range(q) \cup {x} /\ x \in Range([q EXCEPT ![i] = x])
         /\ \A y \in Range(q) : y # q[i] => y \in Range([q EXCEPT ![i] = x])
<1> DEFINE r == [q EXCEPT ![i] = x]
<1>1. /\ r \in Seq(T) /\ DOMAIN r = DOMAIN q
      /\ \A k \in DOMAIN q : r[k] = IF k = i THEN x ELSE q[k]
  OBVIOUS
<1> HIDE DEF r
<1>2. /\ Range(r) \subseteq Range(q) \cup {x} /\ x \in Range(r)
      /\ \A y \in Range(q) : y # q[i] => y \in Range(r)
  BY <1>1 DEF Range
<1> QED BY <1>1, <1>2 DEF r

\* A subsequence is built position by position.
SubSeqValues(T, s, S, h) ==
  /\ h \in [0 .. Len(s) -> Seq(T)] /\ h[0] = <<>> /\ SubSeqAt(s, S) = h[Len(s)]
  /\ \A k \in 1 .. Len(s) : h[k] = IF k \in S THEN Append(h[k - 1], s[k]) ELSE h[k - 1]

LEMMA SubSeqFold ==
  ASSUME NEW T, NEW s \in Seq(T), NEW S
  PROVE  \E h : SubSeqValues(T, s, S, h)
<1> DEFINE n == Len(s)
           Keep(kept, k) == IF k \in S THEN Append(kept, s[k]) ELSE kept
           step == [p \in (1 .. n) \X Seq(T) |-> Keep(p[2], p[1])]
           Is(f) == f = [t \in SUBSET DOMAIN [i \in DOMAIN s |-> i] |->
                             IF t = {} THEN <<>>
                             ELSE Keep(f[t \ {Max(t)}], [i \in DOMAIN s |-> i][Max(t)])]
           made == CHOOSE f : Is(f)
<1>1. SubSeqAt(s, S) = made[DOMAIN [i \in DOMAIN s |-> i]]
  BY Zenon DEF SubSeqAt, FoldLeftDomain, FoldLeft, MapThenFoldSet
<1>2. DOMAIN s = 1 .. n /\ n \in Nat /\ DOMAIN [i \in DOMAIN s |-> i] = 1 .. n
  OBVIOUS
<1>3. \A k \in 1 .. n : \A v \in Seq(T) : Keep(v, k) \in Seq(T)
  BY <1>2
<1>4. step \in [(1 .. n) \X Seq(T) -> Seq(T)] /\ <<>> \in Seq(T)
  BY <1>3
<1> HIDE DEF step
<1>5. \E f : Folding(Seq(T), <<>>, n, step, f)
  BY <1>2, <1>4, FoldExists
<1>6. \A t \in SUBSET (1 .. n) : t # {} => Max(t) \in 1 .. n /\ t \ {Max(t)} \in SUBSET (1 .. n)
  <2> TAKE t \in SUBSET (1 .. n)
  <2> HAVE t # {}
  <2>1. t \in SUBSET (0 .. n)
    OBVIOUS
  <2>2. Max(t) \in t
    BY <1>2, <2>1, MaxIn
  <2> QED BY <2>2
<1>7. \E f : Is(f)
  <2>1. PICK f : Folding(Seq(T), <<>>, n, step, f)
    BY <1>5
  <2>2. \A t \in SUBSET (1 .. n) : t # {} => f[t] = Keep(f[t \ {Max(t)}], [i \in DOMAIN s |-> i][Max(t)])
    BY <2>1, <1>6, <1>2 DEF step, Folding
  <2>3. Is(f)
    BY <2>1, <2>2, <1>2 DEF Folding
  <2> QED BY <2>3
<1>8. Is(made)
  BY <1>7, Zenon
<1> HIDE DEF made
<1>9. Agrees(Seq(T), <<>>, n, step, made)
  <2>1. \A t \in SUBSET (1 .. n) : t # {} => made[t] = Keep(made[t \ {Max(t)}], Max(t))
    BY <1>8, <1>2, <1>6
  <2> QED BY <1>8, <2>1, <1>2, <1>6 DEF step, Agrees
<1>10. PICK h : Values(Seq(T), <<>>, n, step, made, h)
  BY <1>2, <1>4, <1>9, FoldSteps
<1>11. \A k \in 1 .. n : h[k] = Keep(h[k - 1], k)
  <2> TAKE k \in 1 .. n
  <2>1. h[k - 1] \in Seq(T) /\ <<k, h[k - 1]>> \in (1 .. n) \X Seq(T)
    <3>1. h \in [0 .. n -> Seq(T)]
      BY <1>10 DEF Values
    <3>2. k - 1 \in 0 .. n
      BY <1>2
    <3> QED BY <3>1, <3>2
  <2>2. step[<<k, h[k - 1]>>] = Keep(h[k - 1], k)
    BY <2>1, Zenon DEF step
  <2> QED BY <2>2, <1>10 DEF Values
<1> QED BY <1>1, <1>2, <1>10, <1>11 DEF SubSeqValues, Values

\* The subsequence has the elements at the positions in S and no others.
LEMMA SubSeqElements ==
  ASSUME NEW T, NEW s \in Seq(T), NEW S
  PROVE  /\ SubSeqAt(s, S) \in Seq(T)
         /\ Range(SubSeqAt(s, S)) = {s[k] : k \in DOMAIN s \cap S}
<1> DEFINE n == Len(s)
<1>1. DOMAIN s = 1 .. n /\ n \in Nat
  OBVIOUS
<1>2. PICK h \in [0 .. n -> Seq(T)] :
        /\ h[0] = <<>> /\ SubSeqAt(s, S) = h[n]
        /\ \A k \in 1 .. n : h[k] = IF k \in S THEN Append(h[k - 1], s[k]) ELSE h[k - 1]
  <2>1. \E h : SubSeqValues(T, s, S, h)
    BY SubSeqFold
  <2> QED BY <2>1 DEF SubSeqValues
<1> DEFINE U == {k \in 0 .. n : Range(h[k]) = {s[j] : j \in (1 .. k) \cap S}}
<1>3. 0 \in U
  <2>1. Range(h[0]) = {} /\ 1 .. 0 = {} /\ 0 \in 0 .. n
    BY <1>1, <1>2 DEF Range
  <2> QED BY <2>1
<1>4. ASSUME NEW k \in 1 .. n, k - 1 \in U PROVE k \in U
  <2>1. Range(h[k - 1]) = {s[j] : j \in (1 .. (k - 1)) \cap S}
    BY <1>4
  <2>2. (1 .. k) = (1 .. (k - 1)) \cup {k} /\ h[k - 1] \in Seq(T) /\ s[k] \in T
    <3>1. k - 1 \in 0 .. n /\ k \in DOMAIN s /\ k \in Nat
      BY <1>1
    <3>2. h[k - 1] \in Seq(T) /\ s[k] \in T
      BY <3>1, <1>2
    <3>3. (1 .. k) = (1 .. (k - 1)) \cup {k}
      BY <3>1
    <3> QED BY <3>2, <3>3
  <2>3. Range(Append(h[k - 1], s[k])) = Range(h[k - 1]) \cup {s[k]}
    BY <2>2, AppendFacts
  <2>4. Range(h[k]) = {s[j] : j \in (1 .. k) \cap S}
    <3>1. CASE k \in S
      <4>1. Range(h[k]) = Range(h[k - 1]) \cup {s[k]}
        BY <3>1, <1>2, <2>3
      <4> QED BY <4>1, <2>1, <2>2, <3>1
    <3>2. CASE k \notin S
      <4>1. (1 .. k) \cap S = (1 .. (k - 1)) \cap S /\ h[k] = h[k - 1]
        BY <3>2, <2>2, <1>2
      <4> QED BY <4>1, <2>1
    <3> QED BY <3>1, <3>2
  <2>5. k \in 0 .. n
    BY <1>1
  <2> HIDE DEF n
  <2> QED BY <2>4, <2>5
<1> HIDE DEF U
<1>5. n \in U
  <2>1. 0 .. n \subseteq U
    BY <1>1, <1>3, <1>4, UpTo
  <2> QED BY <2>1, <1>1
<1>6. Range(h[n]) = {s[j] : j \in (1 .. n) \cap S} /\ h[n] \in Seq(T)
  BY <1>5, <1>1, <1>2 DEF U
<1> QED BY <1>6, <1>2, <1>1

\* Elements at different positions of S that differ stay different.
LEMMA SubSeqInjective ==
  ASSUME NEW T, NEW s \in Seq(T), NEW S,
         \A j, k \in DOMAIN s \cap S : s[j] = s[k] => j = k
  PROVE  IsInjective(SubSeqAt(s, S))
<1> DEFINE n == Len(s)
<1>1. DOMAIN s = 1 .. n /\ n \in Nat
  OBVIOUS
<1>2. PICK h \in [0 .. n -> Seq(T)] :
        /\ h[0] = <<>> /\ SubSeqAt(s, S) = h[n]
        /\ \A k \in 1 .. n : h[k] = IF k \in S THEN Append(h[k - 1], s[k]) ELSE h[k - 1]
  <2>1. \E h : SubSeqValues(T, s, S, h)
    BY SubSeqFold
  <2> QED BY <2>1 DEF SubSeqValues
<1> DEFINE Fine(k) == /\ IsInjective(h[k])
                      /\ \A x \in Range(h[k]) : \E j \in (1 .. k) \cap S : x = s[j]
           U == {k \in 0 .. n : Fine(k)}
<1>3. 0 \in U
  <2>1. h[0] = <<>> /\ DOMAIN <<>> = {} /\ Range(<<>>) = {} /\ 0 \in 0 .. n
    BY <1>1, <1>2 DEF Range
  <2>2. IsInjective(h[0])
    BY <2>1 DEF IsInjective
  <2> QED BY <2>1, <2>2
<1>4. ASSUME NEW k \in 1 .. n, k - 1 \in U PROVE k \in U
  <2>1. Fine(k - 1) /\ k \in 0 .. n
    BY <1>1, <1>4
  <2>2. h[k - 1] \in Seq(T) /\ s[k] \in T /\ k \in DOMAIN s /\ k \in Nat
    BY <1>1, <1>2
  <2>3. \A j \in 1 .. (k - 1) : j \in 1 .. k /\ j \in DOMAIN s /\ j # k
    BY <1>1
  <2>4. CASE k \in S
    <3>1. h[k] = Append(h[k - 1], s[k])
      BY <2>4, <1>2
    <3>2. s[k] \notin Range(h[k - 1])
      BY <2>1, <2>2, <2>3, <2>4
    <3> DEFINE q == h[k - 1]  r == Append(h[k - 1], s[k])
    <3>3. /\ DOMAIN q = 1 .. Len(q) /\ DOMAIN r = 1 .. (Len(q) + 1) /\ Len(q) \in Nat
          /\ \A j \in DOMAIN q : r[j] = q[j] /\ r[j] # s[k]
          /\ r[Len(q) + 1] = s[k]
      BY <2>2, <3>2, AppendFacts DEF Range
    <3>4. \A i, j \in DOMAIN q : q[i] = q[j] => i = j
      BY <2>1 DEF IsInjective
    <3>5. Range(r) = Range(q) \cup {s[k]}
      BY <2>2, AppendFacts
    <3> HIDE DEF q, r
    <3>6. \A j \in DOMAIN r : j \in DOMAIN q \/ j = Len(q) + 1
      BY <3>3
    <3>7. IsInjective(r)
      BY <3>3, <3>4, <3>6 DEF IsInjective
    <3>8. \A x \in Range(r) : \E j \in (1 .. k) \cap S : x = s[j]
      <4>1. k \in 1 .. k
        BY <2>2
      <4> QED BY <4>1, <3>5, <2>1, <2>3, <2>4 DEF q
    <3> QED BY <3>1, <3>7, <3>8, <2>1 DEF r
  <2>5. CASE k \notin S
    <3>1. h[k] = h[k - 1]
      BY <2>5, <1>2
    <3> QED BY <3>1, <2>1, <2>3
  <2> QED BY <2>4, <2>5
<1> HIDE DEF U, Fine
<1>5. n \in U
  <2>1. 0 .. n \subseteq U
    BY <1>1, <1>3, <1>4, UpTo
  <2> QED BY <2>1, <1>1
<1> QED BY <1>5, <1>2 DEF U, Fine

\* What is taken of a sequence begins with its first m elements if these are.
LEMMA SubSeqPrefix ==
  ASSUME NEW T, NEW s \in Seq(T), NEW S, NEW m \in 0 .. Len(s), 1 .. m \subseteq S
  PROVE  Len(SubSeqAt(s, S)) >= m /\ \A k \in 1 .. m : SubSeqAt(s, S)[k] = s[k]
<1> DEFINE n == Len(s)
<1>1. DOMAIN s = 1 .. n /\ n \in Nat /\ m \in Nat /\ m <= n
  OBVIOUS
<1>2. PICK h \in [0 .. n -> Seq(T)] :
        /\ h[0] = <<>> /\ SubSeqAt(s, S) = h[n]
        /\ \A k \in 1 .. n : h[k] = IF k \in S THEN Append(h[k - 1], s[k]) ELSE h[k - 1]
  <2>1. \E h : SubSeqValues(T, s, S, h)
    BY SubSeqFold
  <2> QED BY <2>1 DEF SubSeqValues
<1> DEFINE Fine(k) == /\ k <= m => Len(h[k]) = k
                      /\ k > m => Len(h[k]) >= m
                      /\ \A j \in 1 .. m : j <= k => h[k][j] = s[j]
           U == {k \in 0 .. n : Fine(k)}
<1>3. 0 \in U
  BY <1>1, <1>2
<1>4. ASSUME NEW k \in 1 .. n, k - 1 \in U PROVE k \in U
  <2>1. Fine(k - 1) /\ k \in 0 .. n /\ k - 1 \in Nat /\ k \in Nat
    BY <1>1, <1>4
  <2>2. h[k - 1] \in Seq(T) /\ s[k] \in T
    BY <1>1, <1>2
  <2> DEFINE q == h[k - 1]  r == Append(h[k - 1], s[k])
  <2>3. /\ Len(r) = Len(q) + 1 /\ DOMAIN q = 1 .. Len(q) /\ Len(q) \in Nat
        /\ \A j \in DOMAIN q : r[j] = q[j]
        /\ r[Len(q) + 1] = s[k]
    BY <2>2, AppendFacts
  <2>4. h[k] = IF k \in S THEN r ELSE q
    BY <1>2
  <2>5. k <= m => k \in S
    BY <1>1
  <2>6. /\ k - 1 <= m => Len(q) = k - 1
        /\ k - 1 > m => Len(q) >= m
        /\ \A j \in 1 .. m : j <= k - 1 => q[j] = s[j]
    BY <2>1
  <2> HIDE DEF q, r, Fine
  <2>7. CASE k <= m
    <3>1. h[k] = r /\ Len(q) = k - 1
      BY <2>1, <2>4, <2>5, <2>6, <2>7, <1>1
    <3>2. \A j \in 1 .. m : j <= k => r[j] = s[j]
      <4> TAKE j \in 1 .. m
      <4> HAVE j <= k
      <4>1. CASE j = k
        BY <4>1, <3>1, <2>3, <2>1
      <4>2. CASE j # k
        BY <4>2, <3>1, <2>3, <2>6, <2>1
      <4> QED BY <4>1, <4>2
    <3>3. Len(h[k]) = k
      BY <3>1, <2>3, <2>1
    <3> QED BY <3>1, <3>2, <3>3, <2>7, <2>1, <1>1 DEF Fine
  <2>8. CASE k > m
    <3>1. Len(q) >= m /\ \A j \in 1 .. m : q[j] = s[j] /\ j \in DOMAIN q /\ j <= k
      BY <2>1, <2>3, <2>6, <2>8, <1>1
    <3>2. Len(r) >= m /\ \A j \in 1 .. m : r[j] = s[j]
      BY <3>1, <2>3, <1>1
    <3>3. h[k] = r \/ h[k] = q
      BY <2>4
    <3>4. Len(h[k]) >= m /\ \A j \in 1 .. m : h[k][j] = s[j]
      BY <3>1, <3>2, <3>3
    <3> QED BY <3>4, <2>8, <2>1, <1>1 DEF Fine
  <2> QED BY <2>7, <2>8, <2>1, <1>1
<1> HIDE DEF U, Fine
<1>5. n \in U
  <2>1. 0 .. n \subseteq U
    BY <1>1, <1>3, <1>4, UpTo
  <2> QED BY <2>1, <1>1
<1>6. Fine(n)
  BY <1>5 DEF U
<1>7. Len(h[n]) >= m /\ \A j \in 1 .. m : h[n][j] = s[j]
  BY <1>6, <1>1 DEF Fine
<1> QED BY <1>7, <1>2

-----------------------------------------------------------------------------
\* Entity resolution

LEMMA ObservationFields ==
  ASSUME NEW o \in Observations
  PROVE  /\ o.name \in Spellings /\ o.type \in Types \cup {None} /\ o.id \in Ids \cup {None}
         /\ o.refs \in SUBSET Refs /\ o.verdicts \in Verdicts /\ o.hint \in Spellings \cup {None}
         /\ MergeKey(o) \in Spellings \cup Ids
BY UniverseConstants DEF Observations, MergeKey

LEMMA Resolved ==
  ASSUME NEW o \in Observations
  PROVE  /\ InferType(o) \in Types
         /\ [o EXCEPT !.type = InferType(o)] \in Observations
         /\ [o EXCEPT !.type = InferType(o)].name = o.name
         /\ [o EXCEPT !.type = InferType(o)].refs = o.refs
         /\ [o EXCEPT !.type = InferType(o)].type = InferType(o)
         /\ MergeKey([o EXCEPT !.type = InferType(o)]) = MergeKey(o)
         /\ o.type \in Types => [o EXCEPT !.type = InferType(o)] = o
<1>1. InferType(o) \in Types
  BY ObservationFields, UniverseConstants DEF InferType, Types
<1>2. \A t \in Types : /\ [o EXCEPT !.type = t] \in Observations
                       /\ [o EXCEPT !.type = t].name = o.name
                       /\ [o EXCEPT !.type = t].id = o.id
                       /\ [o EXCEPT !.type = t].refs = o.refs
                       /\ [o EXCEPT !.type = t].type = t
                       /\ o.type = t => [o EXCEPT !.type = t] = o
  BY DEF Observations
<1>3. o.type \in Types => InferType(o) = o.type
  BY DEF InferType
<1> QED BY <1>1, <1>2, <1>3 DEF MergeKey

LEMMA WithTypesFacts ==
  ASSUME NEW obs \in Seq(Observations)
  PROVE  /\ WithTypes(obs) \in Seq(Observations) /\ Len(WithTypes(obs)) = Len(obs)
         /\ DOMAIN WithTypes(obs) = DOMAIN obs
         /\ \A k \in DOMAIN obs :
              LET p == WithTypes(obs)[k]
              IN /\ p.name = obs[k].name /\ p.refs = obs[k].refs /\ MergeKey(p) = MergeKey(obs[k])
                 /\ p.type = InferType(obs[k]) /\ p.type \in Types
                 /\ obs[k].type \in Types => p = obs[k]
<1>1. DOMAIN obs = 1 .. Len(obs) /\ Len(obs) \in Nat /\ \A k \in DOMAIN obs : obs[k] \in Observations
  OBVIOUS
<1>2. \A k \in DOMAIN obs :
        LET p == [obs[k] EXCEPT !.type = InferType(obs[k])]
        IN /\ p \in Observations
           /\ p.name = obs[k].name /\ p.refs = obs[k].refs /\ MergeKey(p) = MergeKey(obs[k])
           /\ p.type = InferType(obs[k]) /\ p.type \in Types
           /\ obs[k].type \in Types => p = obs[k]
  <2> TAKE k \in DOMAIN obs
  <2>1. obs[k] \in Observations
    BY <1>1
  <2> QED BY <2>1, Resolved
<1>3. \A k \in DOMAIN obs : WithTypes(obs)[k] = [obs[k] EXCEPT !.type = InferType(obs[k])]
  BY DEF WithTypes
<1>4. WithTypes(obs) \in Seq(Observations) /\ Len(WithTypes(obs)) = Len(obs)
      /\ DOMAIN WithTypes(obs) = DOMAIN obs
  <2> HIDE DEF Observations
  <2> QED BY <1>1, <1>2 DEF WithTypes
<1> HIDE DEF Observations
<1> QED BY <1>2, <1>3, <1>4

\* The resolved observations with a property: in Observations, each made of a
\* delivered one.
LEMMA AccountsFacts ==
  ASSUME NEW obs \in Seq(Observations)
  PROVE  /\ Accounts(obs) \in Seq(Observations)
         /\ \A o \in Range(Accounts(obs)) :
              /\ o.type \in {"legal_entity", "unknown_entity"}
              /\ \E k \in DOMAIN obs : /\ o.name = obs[k].name /\ MergeKey(o) = MergeKey(obs[k])
                                       /\ o.type = InferType(obs[k])
         /\ \A k \in DOMAIN obs : InferType(obs[k]) # "site" =>
              \E o \in Range(Accounts(obs)) :
                 MergeKey(o) = MergeKey(obs[k]) /\ o.name = obs[k].name /\ o.refs = obs[k].refs
<1> DEFINE w == WithTypes(obs)
           S == {k \in DOMAIN w : ~ IsSite(w[k])}
<1>1. Accounts(obs) = SubSeqAt(w, S)
  BY Zenon DEF Accounts, Those, Where
<1>2. w \in Seq(Observations) /\ DOMAIN w = DOMAIN obs
  BY WithTypesFacts
<1>3. \A k \in DOMAIN obs : /\ w[k].name = obs[k].name /\ w[k].refs = obs[k].refs
                            /\ w[k].type = InferType(obs[k]) /\ w[k].type \in Types
                            /\ MergeKey(w[k]) = MergeKey(obs[k])
  BY WithTypesFacts
<1> HIDE DEF w
<1>4. /\ Accounts(obs) \in Seq(Observations)
      /\ Range(Accounts(obs)) = {w[k] : k \in DOMAIN w \cap S}
  BY <1>1, <1>2, SubSeqElements
<1>5. \A k \in DOMAIN w \cap S : k \in DOMAIN obs /\ w[k].type \in {"legal_entity", "unknown_entity"}
  <2> TAKE k \in DOMAIN w \cap S
  <2>1. k \in DOMAIN obs /\ ~ IsSite(w[k])
    BY <1>2
  <2>2. w[k].type \in Types /\ w[k].type # "site"
    BY <2>1, <1>3 DEF IsSite
  <2> QED BY <2>1, <2>2 DEF Types
<1>6. \A k \in DOMAIN obs : InferType(obs[k]) # "site" => k \in DOMAIN w \cap S
  BY <1>2, <1>3 DEF IsSite
<1> HIDE DEF S
<1> QED BY <1>3, <1>4, <1>5, <1>6

LEMMA SitesFacts ==
  ASSUME NEW obs \in Seq(Observations)
  PROVE  /\ SitesOf(obs) \in Seq(Observations)
         /\ \A k \in DOMAIN obs : InferType(obs[k]) = "site" =>
              \E o \in Range(SitesOf(obs)) : o.name = obs[k].name
<1> DEFINE w == WithTypes(obs)
           S == {k \in DOMAIN w : IsSite(w[k])}
<1>1. SitesOf(obs) = SubSeqAt(w, S)
  BY Zenon DEF SitesOf, Those, Where
<1>2. w \in Seq(Observations) /\ DOMAIN w = DOMAIN obs
  BY WithTypesFacts
<1>3. \A k \in DOMAIN obs : w[k].name = obs[k].name /\ w[k].type = InferType(obs[k])
  BY WithTypesFacts
<1> HIDE DEF w
<1>4. /\ SitesOf(obs) \in Seq(Observations)
      /\ Range(SitesOf(obs)) = {w[k] : k \in DOMAIN w \cap S}
  BY <1>1, <1>2, SubSeqElements
<1>5. \A k \in DOMAIN obs : InferType(obs[k]) = "site" => k \in DOMAIN w \cap S
  BY <1>2, <1>3 DEF IsSite
<1> HIDE DEF S
<1> QED BY <1>3, <1>4, <1>5

\* What is collected is resolved already: it stays where it is.
LEMMA AccountsPrefix ==
  ASSUME NEW obs \in Seq(Observations), NEW finds \in Seq(Observations),
         \A k \in DOMAIN obs : obs[k].type \in {"legal_entity", "unknown_entity"}
  PROVE  /\ Len(Accounts(obs \o finds)) >= Len(obs)
         /\ \A k \in 1 .. Len(obs) : Accounts(obs \o finds)[k] = obs[k]
<1> DEFINE all == obs \o finds
           w == WithTypes(all)
           S == {k \in DOMAIN w : ~ IsSite(w[k])}
           m == Len(obs)
<1>1. Accounts(all) = SubSeqAt(w, S)
  BY Zenon DEF Accounts, Those, Where
<1>2. /\ all \in Seq(Observations) /\ Len(all) >= m /\ m \in Nat /\ DOMAIN obs = 1 .. m
      /\ \A k \in 1 .. m : all[k] = obs[k] /\ k \in DOMAIN all
  BY ConcatFacts
<1> HIDE DEF all
<1>3. /\ w \in Seq(Observations) /\ DOMAIN w = DOMAIN all /\ Len(w) = Len(all)
      /\ \A k \in DOMAIN all : all[k].type \in Types => w[k] = all[k]
  BY <1>2, WithTypesFacts
<1>4. \A k \in 1 .. m : w[k] = obs[k] /\ obs[k].type # "site"
  <2> TAKE k \in 1 .. m
  <2>1. all[k] = obs[k] /\ k \in DOMAIN all
    BY <1>2
  <2>2. obs[k].type \in Types /\ obs[k].type # "site"
    BY <1>2 DEF Types
  <2> QED BY <2>1, <2>2, <1>3
<1> HIDE DEF w
<1>5. 1 .. m \subseteq S /\ m \in 0 .. Len(w)
  BY <1>2, <1>3, <1>4 DEF IsSite
<1> HIDE DEF S, m
<1>6. Len(SubSeqAt(w, S)) >= m /\ \A k \in 1 .. m : SubSeqAt(w, S)[k] = w[k]
  BY <1>3, <1>5, SubSeqPrefix
<1> QED BY <1>1, <1>4, <1>6 DEF m, all

-----------------------------------------------------------------------------
\* Merging

\* One observation per key; and what of an observation is still in a sequence.
OnePerKey(q) == \A j, k \in DOMAIN q : MergeKey(q[j]) = MergeKey(q[k]) => j = k
Holds(q, o) == \E p \in Range(q) : MergeKey(p) = MergeKey(o) /\ o.refs \subseteq p.refs
HoldsNamed(q, o) ==
  \E p \in Range(q) : MergeKey(p) = MergeKey(o) /\ p.name = o.name /\ o.refs \subseteq p.refs
\* p has its name and type from o
Stems(p, o) == p.name = o.name /\ p.type = o.type /\ MergeKey(p) = MergeKey(o)

LEMMA MergedFacts ==
  ASSUME NEW t \in Observations, NEW o \in Observations
  PROVE  /\ MergedInto(t, o) \in Observations /\ Stems(MergedInto(t, o), t)
         /\ MergedInto(t, o).refs = t.refs \cup o.refs
<1> DEFINE v == [r \in Rules |-> IF o.verdicts[r].status # "none" THEN o.verdicts[r] ELSE t.verdicts[r]]
           p == MergedInto(t, o)
<1>1. v \in Verdicts
  <2>1. o.verdicts \in Verdicts /\ t.verdicts \in Verdicts
    BY ObservationFields
  <2> QED BY <2>1 DEF Verdicts
<1>2. p = [t EXCEPT !.refs = t.refs \cup o.refs, !.verdicts = v]
  BY DEF MergedInto
<1>3. t.refs \cup o.refs \in SUBSET Refs
  BY ObservationFields
<1> HIDE DEF v, p
<1>4. /\ p \in Observations /\ p.name = t.name /\ p.type = t.type /\ p.id = t.id
      /\ p.refs = t.refs \cup o.refs
  BY <1>1, <1>2, <1>3 DEF Observations
<1> QED BY <1>4 DEF p, Stems, MergeKey

LEMMA AppendedFacts ==
  ASSUME NEW o \in Observations
  PROVE  /\ [o EXCEPT !.hint = None] \in Observations /\ Stems([o EXCEPT !.hint = None], o)
         /\ [o EXCEPT !.hint = None].refs = o.refs
<1> DEFINE p == [o EXCEPT !.hint = None]
<1>1. p \in Observations /\ p.name = o.name /\ p.type = o.type /\ p.id = o.id /\ p.refs = o.refs
  BY DEF Observations
<1> HIDE DEF p
<1>2. Stems(p, o)
  BY <1>1 DEF Stems, MergeKey
<1> QED BY <1>1, <1>2 DEF p

\* Merging one observation takes nothing away, adds the evidence, invents no
\* name and keeps one observation per key.
LEMMA MergeStep ==
  ASSUME NEW merged \in Seq(Observations), OnePerKey(merged), NEW o \in Observations
  PROVE  /\ MergeObservation(merged, o) \in Seq(Observations)
         /\ OnePerKey(MergeObservation(merged, o))
         /\ \A t \in Range(merged) : HoldsNamed(MergeObservation(merged, o), t)
         /\ Holds(MergeObservation(merged, o), o)
         /\ (\A t \in Range(merged) : MergeKey(t) # MergeKey(o)) =>
               HoldsNamed(MergeObservation(merged, o), o)
         /\ \A p \in Range(MergeObservation(merged, o)) : \E q \in Range(merged) \cup {o} : Stems(p, q)
<1> DEFINE same == {k \in DOMAIN merged : MergeKey(merged[k]) = MergeKey(o)}
           r == MergeObservation(merged, o)
<1>1. r = IF same = {} THEN Append(merged, [o EXCEPT !.hint = None])
          ELSE [merged EXCEPT ![Min(same)] = MergedInto(merged[Min(same)], o)]
  BY DEF MergeObservation, Where
<1>2. /\ DOMAIN merged = 1 .. Len(merged) /\ Len(merged) \in Nat
      /\ \A k \in DOMAIN merged : merged[k] \in Observations /\ merged[k] \in Range(merged)
  BY RangeFacts
<1> HIDE DEF r
<1>3. CASE same = {}
  <2> DEFINE p == [o EXCEPT !.hint = None]
  <2>1. /\ r = Append(merged, p) /\ p \in Observations /\ Stems(p, o) /\ p.refs = o.refs
    BY <1>1, <1>3, AppendedFacts
  <2> HIDE DEF p
  <2>2. /\ r \in Seq(Observations) /\ Range(r) = Range(merged) \cup {p}
        /\ Len(r) = Len(merged) + 1 /\ r[Len(merged) + 1] = p
        /\ \A k \in DOMAIN merged : r[k] = merged[k]
    BY <2>1, AppendFacts
  <2>3. \A k \in DOMAIN r : k \in DOMAIN merged \/ k = Len(merged) + 1
    BY <2>2, <1>2
  <2>4. \A k \in DOMAIN merged : MergeKey(merged[k]) # MergeKey(p)
    BY <1>3, <2>1 DEF Stems
  <2>5. OnePerKey(r)
    BY <2>2, <2>3, <2>4 DEF OnePerKey
  <2>6. HoldsNamed(r, o) /\ Holds(r, o)
    BY <2>1, <2>2 DEF HoldsNamed, Holds, Stems
  <2>7. \A t \in Range(merged) : HoldsNamed(r, t)
    BY <2>2 DEF HoldsNamed
  <2>8. \A u \in Range(r) : \E q \in Range(merged) \cup {o} : Stems(u, q)
    <3>1. \A u \in Range(merged) : Stems(u, u)
      BY DEF Stems
    <3> QED BY <2>1, <2>2, <3>1
  <2> QED BY <2>2, <2>5, <2>6, <2>7, <2>8 DEF r
<1>4. CASE same # {}
  <2> DEFINE i == Min(same)
             p == MergedInto(merged[i], o)
  <2>1. i \in DOMAIN merged /\ MergeKey(merged[i]) = MergeKey(o)
    <3>1. same \in SUBSET Nat
      BY <1>2
    <3> QED BY <3>1, <1>4, MinIn
  <2>2. r = [merged EXCEPT ![i] = p]
    BY <1>1, <1>4
  <2> HIDE DEF i
  <2>3. p \in Observations /\ Stems(p, merged[i]) /\ p.refs = merged[i].refs \cup o.refs
    BY <1>2, <2>1, MergedFacts
  <2> HIDE DEF p, same
  <2>4. /\ r \in Seq(Observations) /\ DOMAIN r = DOMAIN merged
        /\ \A k \in DOMAIN merged : r[k] = IF k = i THEN p ELSE merged[k]
        /\ Range(r) \subseteq Range(merged) \cup {p} /\ p \in Range(r)
        /\ \A y \in Range(merged) : y # merged[i] => y \in Range(r)
    BY <2>1, <2>2, <2>3, UpdateFacts
  <2>5. OnePerKey(r)
    <3>1. \A k \in DOMAIN merged : MergeKey(r[k]) = MergeKey(merged[k])
      BY <2>3, <2>4 DEF Stems
    <3> QED BY <3>1, <2>4 DEF OnePerKey
  <2>6. Holds(r, o)
    BY <2>1, <2>3, <2>4 DEF Holds, Stems
  <2>7. \A t \in Range(merged) : HoldsNamed(r, t)
    <3> TAKE t \in Range(merged)
    <3>1. CASE t = merged[i]
      BY <3>1, <2>3, <2>4 DEF HoldsNamed, Stems
    <3>2. CASE t # merged[i]
      BY <3>2, <2>4 DEF HoldsNamed
    <3> QED BY <3>1, <3>2
  <2>8. \A u \in Range(r) : \E q \in Range(merged) \cup {o} : Stems(u, q)
    <3>1. \A u \in Range(merged) : Stems(u, u)
      BY DEF Stems
    <3> QED BY <1>2, <2>1, <2>3, <2>4, <3>1
  <2>9. ~ \A t \in Range(merged) : MergeKey(t) # MergeKey(o)
    BY <1>2, <2>1
  <2> QED BY <2>4, <2>5, <2>6, <2>7, <2>8, <2>9 DEF r
<1> QED BY <1>3, <1>4

MergedSeqs == {q \in Seq(Observations) : OnePerKey(q)}

\* The observations are merged one after the other.
MergeValues(acc, h) ==
  /\ h \in [0 .. Len(acc) -> MergedSeqs] /\ h[0] = <<>> /\ MergeObservations(acc) = h[Len(acc)]
  /\ \A k \in 1 .. Len(acc) : h[k] = MergeObservation(h[k - 1], acc[k])

LEMMA MergeFold ==
  ASSUME NEW acc \in Seq(Observations)
  PROVE  \E h : MergeValues(acc, h)
<1> DEFINE n == Len(acc)
           V == MergedSeqs
           step == [p \in (1 .. n) \X V |-> MergeObservation(p[2], acc[p[1]])]
           Is(f) == f = [t \in SUBSET DOMAIN acc |->
                           IF t = {} THEN <<>> ELSE MergeObservation(f[t \ {Max(t)}], acc[Max(t)])]
           made == CHOOSE f : Is(f)
<1>1. MergeObservations(acc) = made[DOMAIN acc]
  BY Zenon DEF MergeObservations, FoldLeft, MapThenFoldSet
<1>2. DOMAIN acc = 1 .. n /\ n \in Nat /\ \A k \in 1 .. n : acc[k] \in Observations
  OBVIOUS
<1>3. <<>> \in V /\ \A v \in V : \A k \in 1 .. n : MergeObservation(v, acc[k]) \in V
  <2>1. <<>> \in V
    BY DEF MergedSeqs, OnePerKey
  <2>2. ASSUME NEW v \in V, NEW k \in 1 .. n PROVE MergeObservation(v, acc[k]) \in V
    <3>1. v \in Seq(Observations) /\ OnePerKey(v) /\ acc[k] \in Observations
      BY <1>2 DEF MergedSeqs
    <3> QED BY <3>1, MergeStep DEF MergedSeqs
  <2> QED BY <2>1, <2>2
<1> HIDE DEF V, n
<1>4. step \in [(1 .. n) \X V -> V]
  BY <1>3
<1>5. \A t \in SUBSET (1 .. n) : t # {} => Max(t) \in 1 .. n /\ t \ {Max(t)} \in SUBSET (1 .. n)
  <2> TAKE t \in SUBSET (1 .. n)
  <2> HAVE t # {}
  <2>1. t \in SUBSET (0 .. n)
    OBVIOUS
  <2>2. Max(t) \in t
    BY <1>2, <2>1, MaxIn
  <2> QED BY <2>2
<1> HIDE DEF step
<1>6. PICK g : Folding(V, <<>>, n, step, g)
  BY <1>2, <1>3, <1>4, FoldExists
<1>7. Is(g)
  <2>1. \A t \in SUBSET (1 .. n) : t # {} => g[t] = MergeObservation(g[t \ {Max(t)}], acc[Max(t)])
    BY <1>5, <1>6 DEF step, Folding
  <2> QED BY <1>2, <1>6, <2>1 DEF Folding
<1>8. Is(made)
  BY <1>7, Zenon
<1> HIDE DEF made
<1>9. Agrees(V, <<>>, n, step, made)
  <2>1. \A t \in SUBSET (1 .. n) : t # {} => made[t] = MergeObservation(made[t \ {Max(t)}], acc[Max(t)])
    BY <1>2, <1>8
  <2> QED BY <1>2, <1>5, <1>8, <2>1 DEF step, Agrees
<1>10. PICK h : Values(V, <<>>, n, step, made, h)
  BY <1>2, <1>3, <1>4, <1>9, FoldSteps
<1>11. \A k \in 1 .. n : h[k] = MergeObservation(h[k - 1], acc[k])
  <2> TAKE k \in 1 .. n
  <2>1. h[k - 1] \in V /\ <<k, h[k - 1]>> \in (1 .. n) \X V
    BY <1>2, <1>10 DEF Values
  <2>2. step[<<k, h[k - 1]>>] = MergeObservation(h[k - 1], acc[k])
    BY <2>1, Zenon DEF step
  <2> QED BY <2>2, <1>10 DEF Values
<1> QED BY <1>1, <1>2, <1>10, <1>11 DEF n, V, MergeValues, Values

\* What merging makes of a sequence: everything is held, under its own name if
\* it is the first of its key, and nothing is invented.
LEMMA MergesAll ==
  ASSUME NEW acc \in Seq(Observations)
  PROVE  /\ MergeObservations(acc) \in Seq(Observations) /\ OnePerKey(MergeObservations(acc))
         /\ \A k \in DOMAIN acc : Holds(MergeObservations(acc), acc[k])
         /\ \A k \in DOMAIN acc :
              (\A j \in 1 .. (k - 1) : MergeKey(acc[j]) # MergeKey(acc[k])) =>
                 HoldsNamed(MergeObservations(acc), acc[k])
         /\ \A p \in Range(MergeObservations(acc)) : \E k \in DOMAIN acc : Stems(p, acc[k])
<1> DEFINE n == Len(acc)
           IsFirst(k) == \A j \in 1 .. (k - 1) : MergeKey(acc[j]) # MergeKey(acc[k])
<1>1. DOMAIN acc = 1 .. n /\ n \in Nat /\ \A k \in 1 .. n : acc[k] \in Observations
  OBVIOUS
<1>2. PICK h \in [0 .. n -> MergedSeqs] :
        /\ h[0] = <<>> /\ MergeObservations(acc) = h[n]
        /\ \A k \in 1 .. n : h[k] = MergeObservation(h[k - 1], acc[k])
  <2>1. \E h : MergeValues(acc, h)
    BY MergeFold
  <2> QED BY <2>1 DEF MergeValues
<1> HIDE DEF n
<1> DEFINE Fine(k) == /\ \A j \in 1 .. k : Holds(h[k], acc[j])
                      /\ \A j \in 1 .. k : IsFirst(j) => HoldsNamed(h[k], acc[j])
                      /\ \A p \in Range(h[k]) : \E j \in 1 .. k : Stems(p, acc[j])
           U == {k \in 0 .. n : Fine(k)}
<1>3. 0 \in U
  BY <1>1, <1>2 DEF Range
<1>4. ASSUME NEW k \in 1 .. n, k - 1 \in U PROVE k \in U
  <2>1. Fine(k - 1) /\ k \in 0 .. n /\ k - 1 \in 0 .. n /\ k \in Nat
    BY <1>1, <1>4
  <2>2. h[k - 1] \in Seq(Observations) /\ OnePerKey(h[k - 1]) /\ acc[k] \in Observations
    BY <1>1, <1>2, <2>1 DEF MergedSeqs
  <2>3. /\ \A t \in Range(h[k - 1]) : HoldsNamed(h[k], t)
        /\ Holds(h[k], acc[k])
        /\ (\A t \in Range(h[k - 1]) : MergeKey(t) # MergeKey(acc[k])) => HoldsNamed(h[k], acc[k])
        /\ \A p \in Range(h[k]) : \E q \in Range(h[k - 1]) \cup {acc[k]} : Stems(p, q)
    <3> DEFINE q == h[k - 1]
               o == acc[k]
    <3>1. h[k] = MergeObservation(q, o)
      BY <1>2
    <3>2. q \in Seq(Observations) /\ OnePerKey(q) /\ o \in Observations
      BY <2>2
    <3> HIDE DEF q, o
    <3>3. /\ \A t \in Range(q) : HoldsNamed(MergeObservation(q, o), t)
          /\ Holds(MergeObservation(q, o), o)
          /\ (\A t \in Range(q) : MergeKey(t) # MergeKey(o)) => HoldsNamed(MergeObservation(q, o), o)
          /\ \A p \in Range(MergeObservation(q, o)) : \E t \in Range(q) \cup {o} : Stems(p, t)
      BY <3>2, MergeStep
    <3> QED BY <3>1, <3>3 DEF q, o
  <2>4. \A j \in 1 .. k : j = k \/ j \in 1 .. (k - 1)
    BY <2>1
  <2>5. \A j \in 1 .. (k - 1) : j \in 1 .. k
    BY <2>1
  <2>6. k \in 1 .. k
    BY <2>1
  <2> HIDE DEF Fine, IsFirst
  <2>7. \A j \in 1 .. k : Holds(h[k], acc[j])
    <3>1. \A j \in 1 .. (k - 1) : Holds(h[k - 1], acc[j])
      BY <2>1 DEF Fine
    <3> QED BY <3>1, <2>3, <2>4 DEF Holds, HoldsNamed
  <2>8. \A j \in 1 .. k : IsFirst(j) => HoldsNamed(h[k], acc[j])
    <3>1. \A j \in 1 .. (k - 1) : IsFirst(j) => HoldsNamed(h[k], acc[j])
      <4>1. \A j \in 1 .. (k - 1) : IsFirst(j) => HoldsNamed(h[k - 1], acc[j])
        BY <2>1 DEF Fine
      <4> QED BY <4>1, <2>3 DEF HoldsNamed
    <3>2. IsFirst(k) => HoldsNamed(h[k], acc[k])
      <4>1. \A t \in Range(h[k - 1]) : \E j \in 1 .. (k - 1) : Stems(t, acc[j])
        BY <2>1 DEF Fine
      <4>2. IsFirst(k) => \A t \in Range(h[k - 1]) : MergeKey(t) # MergeKey(acc[k])
        BY <4>1 DEF IsFirst, Stems
      <4> QED BY <4>2, <2>3
    <3> QED BY <3>1, <3>2, <2>4
  <2>9. \A p \in Range(h[k]) : \E j \in 1 .. k : Stems(p, acc[j])
    <3> TAKE p \in Range(h[k])
    <3>1. PICK q \in Range(h[k - 1]) \cup {acc[k]} : Stems(p, q)
      BY <2>3
    <3>2. CASE q = acc[k]
      BY <3>1, <3>2, <2>6
    <3>3. CASE q \in Range(h[k - 1])
      <4>1. PICK j \in 1 .. (k - 1) : Stems(q, acc[j])
        BY <3>3, <2>1 DEF Fine
      <4> QED BY <4>1, <3>1, <2>5 DEF Stems
    <3> QED BY <3>1, <3>2, <3>3
  <2> QED BY <2>1, <2>7, <2>8, <2>9 DEF Fine
<1> HIDE DEF U, Fine
<1>5. n \in U
  <2>1. 0 .. n \subseteq U
    BY <1>1, <1>3, <1>4, UpTo
  <2> QED BY <2>1, <1>1
<1>6. Fine(n) /\ h[n] \in MergedSeqs
  BY <1>1, <1>2, <1>5 DEF U
<1> QED BY <1>1, <1>2, <1>6 DEF Fine, MergedSeqs

\* n is the name of a collected observation, or of a found one that is no site.
NamedIn(obs, finds, n) == \/ \E o \in Range(obs) : n = o.name
                          \/ \E o \in Range(finds) : n = o.name /\ InferType(o) # "site"

\* Resolving and merging again what is collected together with what a task found.
LEMMA CollectedAndFound ==
  ASSUME NEW obs \in Seq(Observations), OnePerKey(obs), NEW finds \in Seq(Observations),
         \A k \in DOMAIN obs : obs[k].type \in {"legal_entity", "unknown_entity"}
  PROVE  LET r == MergeObservations(Accounts(obs \o finds))
         IN /\ r \in Seq(Observations) /\ OnePerKey(r)
            /\ \A p \in Range(r) : p.type \in {"legal_entity", "unknown_entity"}
            /\ \A o \in Range(obs) : HoldsNamed(r, o)
            /\ \A k \in DOMAIN finds : InferType(finds[k]) # "site" =>
                 \E p \in Range(r) : MergeKey(p) = MergeKey(finds[k])
            /\ \A p \in Range(r) : NamedIn(obs, finds, p.name)
            /\ \A o \in Range(Accounts(obs \o finds)) : NamedIn(obs, finds, o.name)
<1> DEFINE all == obs \o finds
           acc == Accounts(all)
           r == MergeObservations(acc)
<1>1. /\ all \in Seq(Observations) /\ Range(all) = Range(obs) \cup Range(finds)
      /\ DOMAIN obs = 1 .. Len(obs) /\ Len(obs) \in Nat
  BY ConcatFacts
<1>2. \A x \in Range(all) : \E k \in DOMAIN all : all[k] = x
  BY DEF Range
<1>3. /\ acc \in Seq(Observations)
      /\ \A o \in Range(acc) : /\ o.type \in {"legal_entity", "unknown_entity"}
                               /\ \E k \in DOMAIN all : /\ o.name = all[k].name
                                                       /\ InferType(all[k]) # "site"
      /\ \A k \in DOMAIN all : InferType(all[k]) # "site" =>
           \E o \in Range(acc) : MergeKey(o) = MergeKey(all[k])
  <2> HIDE DEF all
  <2> QED BY <1>1, AccountsFacts
<1>4. Len(acc) >= Len(obs) /\ \A k \in 1 .. Len(obs) : acc[k] = obs[k]
  BY AccountsPrefix
<1> HIDE DEF all, acc
<1>5. DOMAIN acc = 1 .. Len(acc) /\ Len(acc) \in Nat /\ \A k \in DOMAIN acc : acc[k] \in Range(acc)
  BY <1>3, RangeFacts
<1>6. /\ r \in Seq(Observations) /\ OnePerKey(r)
      /\ \A k \in DOMAIN acc : Holds(r, acc[k])
      /\ \A k \in DOMAIN acc : (\A j \in 1 .. (k - 1) : MergeKey(acc[j]) # MergeKey(acc[k])) =>
                                  HoldsNamed(r, acc[k])
      /\ \A p \in Range(r) : \E k \in DOMAIN acc : Stems(p, acc[k])
  BY <1>3, MergesAll
<1> HIDE DEF r
<1>7. \A p \in Range(r) : p.type \in {"legal_entity", "unknown_entity"}
  BY <1>3, <1>5, <1>6 DEF Stems
<1>8. \A o \in Range(obs) : HoldsNamed(r, o)
  <2> TAKE o \in Range(obs)
  <2>1. PICK k \in 1 .. Len(obs) : obs[k] = o
    BY <1>1 DEF Range
  <2>2. k \in DOMAIN acc /\ acc[k] = o
    BY <1>4, <1>5, <2>1, <1>1
  <2>3. \A j \in 1 .. (k - 1) : j \in 1 .. Len(obs) /\ j # k
    BY <1>1
  <2>4. \A j \in 1 .. (k - 1) : MergeKey(acc[j]) # MergeKey(acc[k])
    BY <1>1, <1>4, <2>1, <2>3 DEF OnePerKey
  <2> QED BY <2>2, <2>4, <1>6
<1>9. \A k \in DOMAIN finds : InferType(finds[k]) # "site" =>
        \E p \in Range(r) : MergeKey(p) = MergeKey(finds[k])
  <2> TAKE k \in DOMAIN finds
  <2> HAVE InferType(finds[k]) # "site"
  <2>1. finds[k] \in Range(all)
    BY <1>1 DEF Range
  <2>2. PICK o \in Range(acc) : MergeKey(o) = MergeKey(finds[k])
    BY <2>1, <1>2, <1>3
  <2>3. PICK j \in DOMAIN acc : acc[j] = o
    BY DEF Range
  <2> QED BY <2>2, <2>3, <1>6 DEF Holds
<1>10. \A o \in Range(acc) : NamedIn(obs, finds, o.name)
  <2> TAKE o \in Range(acc)
  <2>1. PICK k \in DOMAIN all : o.name = all[k].name /\ InferType(all[k]) # "site"
    BY <1>3
  <2>2. all[k] \in Range(obs) \cup Range(finds)
    BY <1>1 DEF Range
  <2> QED BY <2>1, <2>2 DEF NamedIn
<1>11. \A p \in Range(r) : NamedIn(obs, finds, p.name)
  BY <1>5, <1>6, <1>10 DEF Stems
<1> QED BY <1>6, <1>7, <1>8, <1>9, <1>10, <1>11 DEF r, acc, all

\* A site is linked to one of the accounts, or to none.
LEMMA LinkIsAnAccount ==
  ASSUME NEW accounts \in Seq(Observations), NEW site, NEW src
  PROVE  LinkOf(site, accounts, src) \in {None} \cup {o.name : o \in Range(accounts)}
<1> DEFINE hinted == {k \in DOMAIN accounts : site.hint # None /\ SameText(site.hint, accounts[k].name)}
           sharing == {k \in DOMAIN accounts : site.refs \cap RefsOfAccount(accounts, accounts[k].name) # {}}
           named == {s.page : s \in {t \in Range(src) : t.ref \in site.refs}}
           only == Len(accounts) = 1 /\ \E p \in named : accounts[1].name \in Range(LegalNames[p])
<1>1. LinkOf(site, accounts, src) = IF hinted # {} THEN accounts[Min(hinted)].name
                                    ELSE IF sharing # {} THEN accounts[Min(sharing)].name
                                    ELSE IF only THEN accounts[1].name ELSE None
  BY Zenon DEF LinkOf, Where
<1>2. hinted \in SUBSET Nat /\ sharing \in SUBSET Nat
  <2>1. DOMAIN accounts \subseteq Nat
    OBVIOUS
  <2> QED BY <2>1
<1>3. /\ hinted # {} => Min(hinted) \in DOMAIN accounts
      /\ sharing # {} => Min(sharing) \in DOMAIN accounts
      /\ only => 1 \in DOMAIN accounts
  <2>1. hinted \subseteq DOMAIN accounts /\ sharing \subseteq DOMAIN accounts
    OBVIOUS
  <2>2. only => 1 \in DOMAIN accounts
    OBVIOUS
  <2> HIDE DEF hinted, sharing, only
  <2> QED BY <1>2, <2>1, <2>2, MinIn
<1> HIDE DEF hinted, sharing, named, only
<1>4. \A k \in DOMAIN accounts : accounts[k].name \in {o.name : o \in Range(accounts)}
  BY DEF Range
<1> QED BY <1>1, <1>3, <1>4

LEMMA UnresolvedFacts ==
  ASSUME NEW obs \in Seq(Observations), NEW src
  PROVE  /\ UnresolvedGaps(obs, src) \in Seq(Gaps)
         /\ \A g \in Range(UnresolvedGaps(obs, src)) : g.type = "site"
         /\ \A s \in Range(SitesOf(obs)) : LinkOf(s, Accounts(obs), src) = None =>
              \E g \in Range(UnresolvedGaps(obs, src)) : g.name = s.name
<1> DEFINE sites == SitesOf(obs)
           S == {k \in DOMAIN sites : LinkOf(sites[k], Accounts(obs), src) = None}
           open == SubSeqAt(sites, S)
           u == [k \in DOMAIN open |-> [name |-> open[k].name, type |-> "site",
                                        refs |-> open[k].refs, blocked |-> FALSE]]
<1>1. UnresolvedGaps(obs, src) = u
  BY Zenon DEF UnresolvedGaps, Those, Where
<1>2. sites \in Seq(Observations)
  BY SitesFacts
<1> HIDE DEF sites
<1>3. open \in Seq(Observations) /\ Range(open) = {sites[k] : k \in DOMAIN sites \cap S}
  BY <1>2, SubSeqElements
<1> HIDE DEF open
<1>4. DOMAIN open = 1 .. Len(open) /\ Len(open) \in Nat /\ \A k \in DOMAIN open : open[k] \in Observations
  BY <1>3
<1>5. \A k \in DOMAIN open : [name |-> open[k].name, type |-> "site",
                              refs |-> open[k].refs, blocked |-> FALSE] \in Gaps
  BY <1>4, ObservationFields DEF Gaps, Types
<1>6. u \in Seq(Gaps) /\ DOMAIN u = DOMAIN open
  <2> HIDE DEF Gaps
  <2> QED BY <1>4, <1>5
<1>7. \A k \in DOMAIN open : u[k].type = "site" /\ u[k].name = open[k].name
  OBVIOUS
<1> HIDE DEF u
<1>8. \A g \in Range(u) : g.type = "site"
  BY <1>6, <1>7 DEF Range
<1>9. \A s \in Range(sites) : LinkOf(s, Accounts(obs), src) = None => \E g \in Range(u) : g.name = s.name
  <2> TAKE s \in Range(sites)
  <2> HAVE LinkOf(s, Accounts(obs), src) = None
  <2>1. PICK k \in DOMAIN sites : sites[k] = s
    BY DEF Range
  <2>2. k \in DOMAIN sites \cap S
    BY <2>1
  <2>3. s \in Range(open)
    BY <1>3, <2>1, <2>2
  <2>4. PICK j \in DOMAIN open : open[j] = s
    BY <2>3 DEF Range
  <2>5. u[j] \in Range(u) /\ u[j].name = s.name
    BY <1>6, <1>7, <2>4 DEF Range
  <2> QED BY <2>5
<1> QED BY <1>1, <1>6, <1>8, <1>9 DEF sites

-----------------------------------------------------------------------------
\* Sources

SourceRows == [ref : Refs, page : Pages]

LEMMA DedupeFacts ==
  ASSUME NEW src \in Seq(SourceRows)
  PROVE  DedupeSources(src) \in Seq(SourceRows) /\ IsInjective(DedupeSources(src))
<1> DEFINE S == {k \in DOMAIN src : \A j \in 1 .. k - 1 : src[j] # src[k]}
<1>1. DedupeSources(src) = SubSeqAt(src, S)
  BY Zenon DEF DedupeSources
<1>2. DOMAIN src = 1 .. Len(src) /\ Len(src) \in Nat
  OBVIOUS
<1>3. \A j, k \in DOMAIN src \cap S : src[j] = src[k] => j = k
  <2> SUFFICES ASSUME NEW j \in DOMAIN src \cap S, NEW k \in DOMAIN src \cap S,
                      src[j] = src[k], j < k
               PROVE  FALSE
    BY <1>2
  <2>1. j \in 1 .. k - 1
    BY <1>2
  <2> QED BY <2>1
<1> HIDE DEF S
<1> QED BY <1>1, <1>3, SubSeqElements, SubSeqInjective

LEMMA CitedFacts ==
  ASSUME NEW pages \in Seq(Pages), NEW K
  PROVE  Cited(pages, K) \in Seq(SourceRows)
<1> DEFINE rows == [k \in DOMAIN pages |-> [ref |-> RefOf(pages, k), page |-> pages[k]]]
<1>1. DOMAIN pages = 1 .. Len(pages) /\ Len(pages) \in Nat /\ \A k \in DOMAIN pages : pages[k] \in Pages
  OBVIOUS
<1>2. \A k \in DOMAIN pages : RefOf(pages, k) \in Refs
  BY <1>1 DEF RefOf, Refs
<1>3. \A k \in DOMAIN pages : [ref |-> RefOf(pages, k), page |-> pages[k]] \in SourceRows
  BY <1>1, <1>2 DEF SourceRows
<1>4. rows \in Seq(SourceRows)
  BY <1>1, <1>3
<1> HIDE DEF rows
<1> QED BY <1>4, SubSeqElements DEF Cited, rows

-----------------------------------------------------------------------------
\* Answers

LEMMA AnswerFacts ==
  ASSUME NEW a \in ProviderAnswers
  PROVE  /\ a.pages \in Seq(Pages) /\ a.found \in Seq(Observations) /\ a.gaps \in Seq(Gaps)
BY AnswersAreShaped DEF AnswerShape

LEMMA GapFields ==
  ASSUME NEW g \in Gaps
  PROVE  g.name \in Spellings /\ g.type \in Types /\ g.refs \in SUBSET Refs /\ g.blocked \in BOOLEAN
BY DEF Gaps

LEMMA GapObservationFacts ==
  ASSUME NEW some \in Seq(Gaps)
  PROVE  /\ GapObservations(some) \in Seq(Observations)
         /\ \A o \in Range(GapObservations(some)) : \E g \in Range(some) : o.name = g.name
<1> DEFINE r == GapObservations(some)
           Of(g) == [name |-> g.name, type |-> None, id |-> None, refs |-> g.refs,
                     verdicts |-> NoVerdicts, hint |-> None]
<1>1. DOMAIN some = 1 .. Len(some) /\ Len(some) \in Nat /\ \A k \in DOMAIN some : some[k] \in Gaps
  OBVIOUS
<1>2. NoVerdicts \in Verdicts
  BY DEF NoVerdicts, Verdicts
<1>3. \A g \in Gaps : Of(g) \in Observations /\ Of(g).name = g.name
  BY <1>2, GapFields DEF Observations
<1>4. r = [k \in DOMAIN some |-> Of(some[k])]
  BY Zenon DEF GapObservations
<1> HIDE DEF Of, r
<1>5. r \in Seq(Observations) /\ DOMAIN r = DOMAIN some /\ \A k \in DOMAIN some : r[k] = Of(some[k])
  <2> HIDE DEF Observations, Gaps
  <2> QED BY <1>1, <1>3, <1>4
<1>6. \A o \in Range(r) : \E g \in Range(some) : o.name = g.name
  <2> TAKE o \in Range(r)
  <2>1. PICK k \in DOMAIN some : o = Of(some[k])
    BY <1>5 DEF Range
  <2>2. some[k] \in Gaps /\ some[k] \in Range(some)
    BY <1>1 DEF Range
  <2> QED BY <2>1, <2>2, <1>3
<1> QED BY <1>5, <1>6 DEF r

-----------------------------------------------------------------------------
\* merge_result

Collected == {"legal_entity", "unknown_entity"}

LEMMA MergeResultFacts ==
  ASSUME sources \in Seq(SourceRows), observations \in Seq(Observations), OnePerKey(observations),
         \A k \in DOMAIN observations : observations[k].type \in Collected,
         gaps \in Seq(Gaps), linked \subseteq [site : Spellings, account : Spellings],
         NEW newSources \in Seq(SourceRows), NEW finds \in Seq(Observations), NEW newGaps \in Seq(Gaps),
         MergeResult(newSources, finds, newGaps)
  PROVE  /\ sources' \in Seq(SourceRows) /\ IsInjective(sources')
         /\ observations' \in Seq(Observations) /\ OnePerKey(observations')
         /\ \A p \in Range(observations') : p.type \in Collected /\ NamedIn(observations, finds, p.name)
         /\ \A o \in Range(observations) : HoldsNamed(observations', o)
         /\ \A o \in Range(finds) : InferType(o) # "site" =>
              \E p \in Range(observations') : MergeKey(p) = MergeKey(o)
         /\ gaps' \in Seq(Gaps) /\ Range(gaps) \cup Range(newGaps) \subseteq Range(gaps')
         /\ \A g \in Range(gaps') : g \in Range(gaps) \cup Range(newGaps) \/ g.type = "site"
         /\ linked \subseteq linked' /\ linked' \subseteq [site : Spellings, account : Spellings]
         /\ \A l \in linked' \ linked : NamedIn(observations, finds, l.account)
         /\ \A o \in Range(finds) : InferType(o) = "site" =>
              \/ \E g \in Range(gaps') : g.name = o.name
              \/ \E l \in linked' : l.site = o.name
<1> DEFINE src == DedupeSources(sources \o newSources)
           all == observations \o finds
           u == UnresolvedGaps(all, src)
           lnk == {l \in Links(all, src) : l.account # None}
<1>1. /\ sources' = src /\ observations' = MergeObservations(Accounts(all))
      /\ gaps' = (gaps \o newGaps) \o u /\ linked' = linked \cup lnk
  BY DEF MergeResult, MergeGaps
<1>2. src \in Seq(SourceRows) /\ IsInjective(src)
  BY ConcatFacts, DedupeFacts
<1>3. all \in Seq(Observations) /\ Range(all) = Range(observations) \cup Range(finds)
  BY ConcatFacts
<1> DEFINE r == MergeObservations(Accounts(all))
<1>4. /\ r \in Seq(Observations) /\ OnePerKey(r)
      /\ \A p \in Range(r) : p.type \in Collected
      /\ \A o \in Range(observations) : HoldsNamed(r, o)
      /\ \A k \in DOMAIN finds : InferType(finds[k]) # "site" =>
           \E p \in Range(r) : MergeKey(p) = MergeKey(finds[k])
      /\ \A p \in Range(r) : NamedIn(observations, finds, p.name)
      /\ \A o \in Range(Accounts(all)) : NamedIn(observations, finds, o.name)
  BY CollectedAndFound DEF Collected
<1> HIDE DEF all, src, r
<1>5. \A x \in Range(finds) : \E k \in DOMAIN finds : finds[k] = x
  BY DEF Range
<1>6. /\ u \in Seq(Gaps)
      /\ \A g \in Range(u) : g.type = "site"
      /\ \A s \in Range(SitesOf(all)) : LinkOf(s, Accounts(all), src) = None =>
           \E g \in Range(u) : g.name = s.name
  BY <1>3, UnresolvedFacts
<1> HIDE DEF u
<1>7. /\ gaps \o newGaps \in Seq(Gaps) /\ Range(gaps \o newGaps) = Range(gaps) \cup Range(newGaps)
  BY ConcatFacts
<1>8. gaps' \in Seq(Gaps) /\ Range(gaps') = (Range(gaps) \cup Range(newGaps)) \cup Range(u)
  <2>1. \A q \in Seq(Gaps) : q \o u \in Seq(Gaps) /\ Range(q \o u) = Range(q) \cup Range(u)
    BY <1>6, ConcatFacts
  <2> QED BY <1>1, <1>7, <2>1
<1>9. /\ SitesOf(all) \in Seq(Observations) /\ Accounts(all) \in Seq(Observations)
      /\ \A k \in DOMAIN all : InferType(all[k]) = "site" => \E s \in Range(SitesOf(all)) : s.name = all[k].name
  BY <1>3, SitesFacts, AccountsFacts
<1>10. \A s \in Range(SitesOf(all)) : s.name \in Spellings
  <2>1. \A s \in Range(SitesOf(all)) : s \in Observations
    BY <1>9, RangeFacts
  <2> QED BY <2>1, ObservationFields
<1>11. \A s : LinkOf(s, Accounts(all), src) \in {None} \cup {o.name : o \in Range(Accounts(all))}
  BY <1>9, LinkIsAnAccount
<1>12. \A o \in Range(Accounts(all)) : o.name \in Spellings
  <2>1. \A s \in Range(Accounts(all)) : s \in Observations
    BY <1>9, RangeFacts
  <2> QED BY <2>1, ObservationFields
<1>13. \A l \in lnk : /\ l \in [site : Spellings, account : Spellings]
                      /\ NamedIn(observations, finds, l.account)
  <2> TAKE l \in lnk
  <2>1. PICK s \in Range(SitesOf(all)) : l = [site |-> s.name, account |-> LinkOf(s, Accounts(all), src)]
    BY DEF Links
  <2>2. l.account # None /\ l.account = LinkOf(s, Accounts(all), src)
    BY <2>1
  <2>3. PICK o \in Range(Accounts(all)) : l.account = o.name
    BY <2>2, <1>11
  <2> QED BY <2>1, <2>2, <2>3, <1>4, <1>10, <1>12
<1>14. \A s \in Range(SitesOf(all)) : LinkOf(s, Accounts(all), src) # None => \E l \in lnk : l.site = s.name
  <2> TAKE s \in Range(SitesOf(all))
  <2> DEFINE a == LinkOf(s, Accounts(all), src)
             n == s.name
             l == [site |-> n, account |-> a]
  <2> HAVE a # None
  <2>1. l \in Links(all, src)
    BY DEF Links
  <2> HIDE DEF a, n
  <2>2. l.site = n /\ l.account = a
    OBVIOUS
  <2> HIDE DEF l
  <2>3. l \in lnk
    BY <2>1, <2>2
  <2> QED BY <2>2, <2>3 DEF n
<1>15. \A o \in Range(finds) : InferType(o) = "site" =>
         \/ \E g \in Range(gaps') : g.name = o.name
         \/ \E l \in linked' : l.site = o.name
  <2> TAKE o \in Range(finds)
  <2> HAVE InferType(o) = "site"
  <2>1. PICK k \in DOMAIN all : all[k] = o
    BY <1>3 DEF Range
  <2>2. PICK s \in Range(SitesOf(all)) : s.name = o.name
    BY <1>9, <2>1
  <2>3. CASE LinkOf(s, Accounts(all), src) = None
    BY <2>2, <2>3, <1>6, <1>8
  <2>4. CASE LinkOf(s, Accounts(all), src) # None
    BY <2>2, <2>4, <1>1, <1>14
  <2> QED BY <2>3, <2>4
<1>16. observations' = r
  BY <1>1 DEF r
<1> HIDE DEF lnk
<1>17. \A o \in Range(finds) : InferType(o) # "site" => \E p \in Range(r) : MergeKey(p) = MergeKey(o)
  BY <1>4, <1>5
<1>18. /\ linked \subseteq linked' /\ linked' \subseteq [site : Spellings, account : Spellings]
       /\ \A l \in linked' \ linked : NamedIn(observations, finds, l.account)
  BY <1>1, <1>13
<1>19. /\ Range(gaps) \cup Range(newGaps) \subseteq Range(gaps')
       /\ \A g \in Range(gaps') : g \in Range(gaps) \cup Range(newGaps) \/ g.type = "site"
  BY <1>6, <1>8
<1>20. sources' \in Seq(SourceRows) /\ IsInjective(sources')
  BY <1>1, <1>2
<1> QED BY <1>4, <1>8, <1>15, <1>16, <1>17, <1>18, <1>19, <1>20

-----------------------------------------------------------------------------
\* The invariant

\* A name is vouched for by a delivery that is not only of a site.
Vouched(n) == \E d \in delivered : d.name = n /\ d.as # "site"

\* What a delivery became: a gap, an observation under its key, a linked site.
Traced(d) ==
  /\ d.as = "gap" => \E g \in Range(gaps) : g.name = d.name
  /\ d.as \in Collected => \E o \in Range(observations) : MergeKey(o) = d.key
  /\ d.as = "site" => \/ \E g \in Range(gaps) : g.name = d.name
                      \/ \E l \in linked : l.site = d.name

AllVouched ==
  /\ \A o \in Range(observations) : Vouched(o.name)
  /\ \A g \in Range(gaps) \cup Range(review) : g.type = "site" \/ Vouched(g.name)
  /\ \A l \in linked : Vouched(l.account)
AllTraced == \A d \in delivered : Traced(d)
AllListed ==
  phase \in {"finalized", "saved"} => \A x \in Range(observations) \cup Range(gaps) : Listed(x.name)

UniverseInv == UniverseTypeOK /\ AllVouched /\ AllTraced /\ AllListed /\ SitesStayOffSurface

TypedDeliveries == [name : Spellings, key : Spellings \cup Ids, as : Types \cup {"gap"}]
Evidence ==
  \A o \in Range(observations) : \E p \in Range(observations') :
    MergeKey(p) = MergeKey(o) /\ p.name = o.name /\ o.refs \subseteq p.refs

LEMMA KeyIsTyped ==
  ASSUME NEW o \in Observations
  PROVE  MergeKey(o) \in Spellings \cup Ids /\ InferType(o) \in Types /\ o.name \in Spellings
BY UniverseConstants, ObservationFields DEF MergeKey, InferType, Types

LEMMA DeliveriesFacts ==
  ASSUME NEW finds \in Seq(Observations)
  PROVE  Deliveries(finds) \subseteq TypedDeliveries
<1> SUFFICES ASSUME NEW d \in Deliveries(finds) PROVE d \in TypedDeliveries
  OBVIOUS
<1>1. PICK o \in Range(finds) : d = [name |-> o.name, key |-> MergeKey(o), as |-> InferType(o)]
  BY DEF Deliveries
<1>2. o \in Observations
  BY <1>1, RangeFacts
<1> QED BY <1>1, <1>2, KeyIsTyped DEF TypedDeliveries

LEMMA EachIsDelivered ==
  ASSUME NEW finds
  PROVE  \A o \in Range(finds) : \E d \in Deliveries(finds) : d.name = o.name /\ d.as = InferType(o)
<1> TAKE o \in Range(finds)
<1> DEFINE n == o.name
           key == MergeKey(o)
           as == InferType(o)
           d == [name |-> n, key |-> key, as |-> as]
<1>1. d \in Deliveries(finds)
  BY DEF Deliveries
<1> HIDE DEF n, key, as
<1>2. d.name = n /\ d.as = as
  OBVIOUS
<1> HIDE DEF d
<1> QED BY <1>1, <1>2 DEF n, as

\* What is collected after a step, and what the step leaves.
MergedSoundly ==
  /\ sources' \in Seq(SourceRows) /\ IsInjective(sources')
  /\ observations' \in Seq(Observations) /\ OnePerKey(observations')
  /\ \A k \in DOMAIN observations' : observations'[k].type \in Collected
  /\ gaps' \in Seq(Gaps) /\ linked' \subseteq [site : Spellings, account : Spellings]
  /\ delivered' \subseteq TypedDeliveries
  /\ AllVouched' /\ AllTraced' /\ Evidence

\* The deliveries new are of what was found and of the gaps, and leave neither out.
Tells(new, finds, newGaps) ==
  /\ \A o \in Range(finds) : InferType(o) # "site" => \E d \in new : d.name = o.name /\ d.as # "site"
  /\ \A g \in Range(newGaps) : g.type = "site" \/ \E d \in new : d.name = g.name /\ d.as # "site"
  /\ \A d \in new :
       /\ d.as = "gap" => \E g \in Range(newGaps) : g.name = d.name
       /\ d.as # "gap" => \E o \in Range(finds) :
                            d.name = o.name /\ d.key = MergeKey(o) /\ d.as = InferType(o)

\* A task's result is merged and what it told is recorded as delivered: what was
\* vouched for and traced stays so, and so does what is new.
LEMMA MergingKeeps ==
  ASSUME UniverseTypeOK, AllVouched, AllTraced,
         NEW newSources \in Seq(SourceRows), NEW finds \in Seq(Observations), NEW newGaps \in Seq(Gaps),
         MergeResult(newSources, finds, newGaps),
         NEW new \in SUBSET TypedDeliveries, delivered' = delivered \cup new,
         Tells(new, finds, newGaps),
         \A g \in Range(review') : g.type = "site" \/ g \in Range(review)
  PROVE  MergedSoundly
<1>1. /\ sources \in Seq(SourceRows) /\ observations \in Seq(Observations)
      /\ \A k \in DOMAIN observations : observations[k].type \in Collected
      /\ gaps \in Seq(Gaps) /\ linked \subseteq [site : Spellings, account : Spellings]
      /\ delivered \subseteq TypedDeliveries
  BY DEF UniverseTypeOK, SourceRows, Collected, TypedDeliveries
<1>2. OnePerKey(observations)
  BY DEF UniverseTypeOK, OnePerKey
<1>3. /\ sources' \in Seq(SourceRows) /\ IsInjective(sources')
      /\ observations' \in Seq(Observations) /\ OnePerKey(observations')
      /\ \A p \in Range(observations') : p.type \in Collected /\ NamedIn(observations, finds, p.name)
      /\ \A o \in Range(observations) : HoldsNamed(observations', o)
      /\ \A o \in Range(finds) : InferType(o) # "site" =>
           \E p \in Range(observations') : MergeKey(p) = MergeKey(o)
      /\ gaps' \in Seq(Gaps) /\ Range(gaps) \cup Range(newGaps) \subseteq Range(gaps')
      /\ \A g \in Range(gaps') : g \in Range(gaps) \cup Range(newGaps) \/ g.type = "site"
      /\ linked \subseteq linked' /\ linked' \subseteq [site : Spellings, account : Spellings]
      /\ \A l \in linked' \ linked : NamedIn(observations, finds, l.account)
      /\ \A o \in Range(finds) : InferType(o) = "site" =>
           \/ \E g \in Range(gaps') : g.name = o.name
           \/ \E l \in linked' : l.site = o.name
  BY <1>1, <1>2, MergeResultFacts
<1>4. \A k \in DOMAIN observations' : observations'[k].type \in Collected
  BY <1>3 DEF Range
<1>5. delivered' \subseteq TypedDeliveries
  BY <1>1
<1>6. \A n : Vouched(n) => Vouched(n)'
  BY DEF Vouched
<1>7. \A n : NamedIn(observations, finds, n) => Vouched(n)'
  BY <1>6 DEF NamedIn, AllVouched, Vouched, Tells
<1>8. AllVouched'
  <2>1. \A o \in Range(observations') : Vouched(o.name)'
    BY <1>3, <1>7
  <2>2. \A g \in Range(gaps') \cup Range(review') : g.type = "site" \/ Vouched(g.name)'
    <3>1. \A g \in Range(newGaps) : g.type = "site" \/ Vouched(g.name)'
      BY DEF Vouched, Tells
    <3>2. \A g \in Range(gaps) \cup Range(review) : g.type = "site" \/ Vouched(g.name)'
      BY <1>6 DEF AllVouched
    <3> QED BY <3>1, <3>2, <1>3
  <2>3. \A l \in linked' : Vouched(l.account)'
    <3>1. \A l \in linked : Vouched(l.account)'
      BY <1>6 DEF AllVouched
    <3> QED BY <3>1, <1>3, <1>7
  <2> QED BY <2>1, <2>2, <2>3 DEF AllVouched
<1>9. AllTraced'
  <2> SUFFICES ASSUME NEW d \in delivered' PROVE Traced(d)'
    BY DEF AllTraced
  <2>1. CASE d \in delivered
    <3>1. Traced(d)
      BY <2>1 DEF AllTraced
    <3>2. d.as = "gap" => \E g \in Range(gaps') : g.name = d.name
      BY <3>1, <1>3 DEF Traced
    <3>3. d.as \in Collected => \E o \in Range(observations') : MergeKey(o) = d.key
      BY <3>1, <1>3 DEF Traced, HoldsNamed
    <3>4. d.as = "site" => \/ \E g \in Range(gaps') : g.name = d.name
                           \/ \E l \in linked' : l.site = d.name
      BY <3>1, <1>3 DEF Traced
    <3> QED BY <3>2, <3>3, <3>4 DEF Traced
  <2>2. CASE d \in new
    <3>1. CASE d.as = "gap"
      <4>1. \E g \in Range(gaps') : g.name = d.name
        BY <2>2, <3>1, <1>3 DEF Tells
      <4> QED BY <4>1, <3>1 DEF Traced, Collected
    <3>2. CASE d.as # "gap"
      <4>1. PICK o \in Range(finds) : d.name = o.name /\ d.key = MergeKey(o) /\ d.as = InferType(o)
        BY <2>2, <3>2 DEF Tells
      <4>2. d.as \in Collected => \E p \in Range(observations') : MergeKey(p) = d.key
        <5> HAVE d.as \in Collected
        <5>1. InferType(o) # "site"
          BY <4>1 DEF Collected
        <5>2. PICK p \in Range(observations') : MergeKey(p) = MergeKey(o)
          BY <5>1, <1>3
        <5> QED BY <4>1, <5>2
      <4>3. d.as = "site" => \/ \E g \in Range(gaps') : g.name = d.name
                             \/ \E l \in linked' : l.site = d.name
        <5> HAVE d.as = "site"
        <5>1. InferType(o) = "site"
          BY <4>1
        <5>2. (\E g \in Range(gaps') : g.name = o.name) \/ (\E l \in linked' : l.site = o.name)
          BY <5>1, <1>3
        <5> QED BY <4>1, <5>2
      <4> QED BY <4>2, <4>3, <3>2 DEF Traced
    <3> QED BY <3>1, <3>2
  <2> QED BY <2>1, <2>2
<1>10. Evidence
  BY <1>3 DEF Evidence, HoldsNamed
<1> QED BY <1>3, <1>4, <1>5, <1>8, <1>9, <1>10 DEF MergedSoundly

-----------------------------------------------------------------------------
\* What stays in a set at every element of a fold is in it at the end.

\* The mentions of the texts, one after the other.
LEMMA MentionsFold ==
  ASSUME NEW s \in Seq(SourceRows), NEW V, <<>> \in V, \A v \in V : \A k \in DOMAIN s : v \o MentionsOf(s[k]) \in V
  PROVE  AllMentions(s) \in V
<1> DEFINE n == Len(s)
           step == [p \in (1 .. n) \X V |-> p[2] \o MentionsOf(s[p[1]])]
           Is(f) == f = [t \in SUBSET DOMAIN s |-> IF t = {} THEN <<>> ELSE f[t \ {Max(t)}] \o MentionsOf(s[Max(t)])]
           made == CHOOSE f : Is(f)
<1>1. AllMentions(s) = made[DOMAIN s]
  BY Zenon DEF AllMentions, FoldLeft, MapThenFoldSet
<1>2. DOMAIN s = 1 .. n /\ n \in Nat
  OBVIOUS
<1> HIDE DEF n
<1>3. step \in [(1 .. n) \X V -> V]
  BY <1>2
<1>4. \A t \in SUBSET (1 .. n) : t # {} => Max(t) \in 1 .. n /\ t \ {Max(t)} \in SUBSET (1 .. n)
  BY <1>2, MaxInRange
<1> HIDE DEF step
<1>5. PICK g : Folding(V, <<>>, n, step, g)
  BY <1>2, <1>3, FoldExists
<1>6. Is(g)
  <2>1. \A t \in SUBSET (1 .. n) : t # {} => g[t] = g[t \ {Max(t)}] \o MentionsOf(s[Max(t)])
    BY <1>4, <1>5 DEF step, Folding
  <2> QED BY <1>2, <1>5, <2>1 DEF Folding
<1>7. Is(made)
  BY <1>6, Zenon
<1> HIDE DEF made
<1>8. Agrees(V, <<>>, n, step, made)
  <2>1. \A t \in SUBSET (1 .. n) : t # {} => made[t] = made[t \ {Max(t)}] \o MentionsOf(s[Max(t)])
    BY <1>2, <1>7
  <2> QED BY <1>2, <1>4, <1>7, <2>1 DEF step, Agrees
<1>9. made[1 .. n] \in V
  BY <1>2, <1>3, <1>8, FoldIn
<1> QED BY <1>1, <1>2, <1>9

\* The entries that the reviewed gaps leave.
LEMMA ReviewFold ==
  ASSUME NEW s \in Seq(Gaps), NEW V, NEW base \in V, \A v \in V : \A k \in DOMAIN s : MergeReview(v, s[k]) \in V
  PROVE  FoldLeft(MergeReview, base, s) \in V
<1> DEFINE n == Len(s)
           step == [p \in (1 .. n) \X V |-> MergeReview(p[2], s[p[1]])]
           Is(f) == f = [t \in SUBSET DOMAIN s |-> IF t = {} THEN base ELSE MergeReview(f[t \ {Max(t)}], s[Max(t)])]
           made == CHOOSE f : Is(f)
<1>1. FoldLeft(MergeReview, base, s) = made[DOMAIN s]
  BY Zenon DEF FoldLeft, MapThenFoldSet
<1>2. DOMAIN s = 1 .. n /\ n \in Nat
  OBVIOUS
<1> HIDE DEF n
<1>3. step \in [(1 .. n) \X V -> V]
  BY <1>2
<1>4. \A t \in SUBSET (1 .. n) : t # {} => Max(t) \in 1 .. n /\ t \ {Max(t)} \in SUBSET (1 .. n)
  BY <1>2, MaxInRange
<1> HIDE DEF step
<1>5. PICK g : Folding(V, base, n, step, g)
  BY <1>2, <1>3, FoldExists
<1>6. Is(g)
  <2>1. \A t \in SUBSET (1 .. n) : t # {} => g[t] = MergeReview(g[t \ {Max(t)}], s[Max(t)])
    BY <1>4, <1>5 DEF step, Folding
  <2> QED BY <1>2, <1>5, <2>1 DEF Folding
<1>7. Is(made)
  BY <1>6, Zenon
<1> HIDE DEF made
<1>8. Agrees(V, base, n, step, made)
  <2>1. \A t \in SUBSET (1 .. n) : t # {} => made[t] = MergeReview(made[t \ {Max(t)}], s[Max(t)])
    BY <1>2, <1>7
  <2> QED BY <1>2, <1>4, <1>7, <2>1 DEF step, Agrees
<1>9. made[1 .. n] \in V
  BY <1>2, <1>3, <1>8, FoldIn
<1> QED BY <1>1, <1>2, <1>9

Rows == [name : Spellings, accepted : BOOLEAN, refs : SUBSET Refs, noise : BOOLEAN]

\* The rows of the surface.
LEMMA RowsFold ==
  ASSUME NEW s \in Seq(Rows), NEW V, <<>> \in V, \A v \in V : \A k \in DOMAIN s : AppendRow(v, s[k]) \in V
  PROVE  FoldLeft(AppendRow, <<>>, s) \in V
<1> DEFINE n == Len(s)
           step == [p \in (1 .. n) \X V |-> AppendRow(p[2], s[p[1]])]
           Is(f) == f = [t \in SUBSET DOMAIN s |-> IF t = {} THEN <<>> ELSE AppendRow(f[t \ {Max(t)}], s[Max(t)])]
           made == CHOOSE f : Is(f)
<1>1. FoldLeft(AppendRow, <<>>, s) = made[DOMAIN s]
  BY Zenon DEF FoldLeft, MapThenFoldSet
<1>2. DOMAIN s = 1 .. n /\ n \in Nat
  OBVIOUS
<1> HIDE DEF n
<1>3. step \in [(1 .. n) \X V -> V]
  BY <1>2
<1>4. \A t \in SUBSET (1 .. n) : t # {} => Max(t) \in 1 .. n /\ t \ {Max(t)} \in SUBSET (1 .. n)
  BY <1>2, MaxInRange
<1> HIDE DEF step
<1>5. PICK g : Folding(V, <<>>, n, step, g)
  BY <1>2, <1>3, FoldExists
<1>6. Is(g)
  <2>1. \A t \in SUBSET (1 .. n) : t # {} => g[t] = AppendRow(g[t \ {Max(t)}], s[Max(t)])
    BY <1>4, <1>5 DEF step, Folding
  <2> QED BY <1>2, <1>5, <2>1 DEF Folding
<1>7. Is(made)
  BY <1>6, Zenon
<1> HIDE DEF made
<1>8. Agrees(V, <<>>, n, step, made)
  <2>1. \A t \in SUBSET (1 .. n) : t # {} => made[t] = AppendRow(made[t \ {Max(t)}], s[Max(t)])
    BY <1>2, <1>7
  <2> QED BY <1>2, <1>4, <1>7, <2>1 DEF step, Agrees
<1>9. made[1 .. n] \in V
  BY <1>2, <1>3, <1>8, FoldIn
<1> QED BY <1>1, <1>2, <1>9

-----------------------------------------------------------------------------
\* Retrieved candidates

Mentions == [name : Spellings, ref : Refs, type : {"legal_entity", "site"}]

LEMMA MentionsTyped ==
  ASSUME NEW s \in SourceRows
  PROVE  MentionsOf(s) \in Seq(Mentions)
<1> DEFINE L == LegalNames[s.page]
           S == SiteNames[s.page]
           legal == [k \in DOMAIN L |-> [name |-> L[k], ref |-> s.ref, type |-> "legal_entity"]]
           sites == [k \in DOMAIN S |-> [name |-> S[k], ref |-> s.ref, type |-> "site"]]
<1>1. L \in Seq(Spellings) /\ S \in Seq(Spellings) /\ s.ref \in Refs
  BY UniverseConstants DEF SourceRows
<1>2. MentionsOf(s) = legal \o sites
  BY DEF MentionsOf
<1> HIDE DEF L, S
<1>3. /\ DOMAIN L = 1 .. Len(L) /\ Len(L) \in Nat /\ \A k \in DOMAIN L : L[k] \in Spellings
      /\ DOMAIN S = 1 .. Len(S) /\ Len(S) \in Nat /\ \A k \in DOMAIN S : S[k] \in Spellings
  BY <1>1
<1>4. \A n \in Spellings : /\ [name |-> n, ref |-> s.ref, type |-> "legal_entity"] \in Mentions
                           /\ [name |-> n, ref |-> s.ref, type |-> "site"] \in Mentions
  BY <1>1 DEF Mentions
<1>5. /\ \A k \in DOMAIN L : [name |-> L[k], ref |-> s.ref, type |-> "legal_entity"] \in Mentions
      /\ \A k \in DOMAIN S : [name |-> S[k], ref |-> s.ref, type |-> "site"] \in Mentions
  BY <1>3, <1>4
<1> HIDE DEF Mentions
<1>6. legal \in Seq(Mentions) /\ sites \in Seq(Mentions)
  BY <1>3, <1>5
<1> QED BY <1>2, <1>6, ConcatFacts

LEMMA AllMentionsTyped ==
  ASSUME NEW told \in Seq(SourceRows)
  PROVE  AllMentions(told) \in Seq(Mentions)
<1>1. \A v \in Seq(Mentions) : \A k \in DOMAIN told : v \o MentionsOf(told[k]) \in Seq(Mentions)
  <2> TAKE v \in Seq(Mentions)
  <2> TAKE k \in DOMAIN told
  <2>1. MentionsOf(told[k]) \in Seq(Mentions)
    BY MentionsTyped
  <2> QED BY <2>1, ConcatFacts
<1>2. <<>> \in Seq(Mentions)
  OBVIOUS
<1> QED BY <1>1, <1>2, MentionsFold, Zenon

LEMMA FreshTyped ==
  ASSUME NEW all \in Seq(Mentions)
  PROVE  FreshMentions(all) \in Seq(Mentions)
BY SubSeqElements, Zenon DEF FreshMentions

\* ExtractRetrieved with what it finds, opens and newly cites as parameters.
LEMMA ExtractFacts ==
  ASSUME sources \in Seq(SourceRows), retrieved \in Seq(SourceRows), ExtractRetrieved
  PROVE  \/ UNCHANGED <<sources, observations, gaps, linked, review, delivered>>
         \/ \E unknown \in Seq(SourceRows), finds \in Seq(Observations), open \in Seq(Gaps) :
              /\ MergeResult(unknown, finds, open)
              /\ review' = review \o open
              /\ delivered' = delivered \cup Deliveries(finds)
              /\ \A o \in Range(finds) : o.type = "legal_entity"
              /\ \A g \in Range(open) : g.type = "site"
<1> DEFINE telling == Those(retrieved, LAMBDA s : MentionsOf(s) # <<>>)
           U == {k \in DOMAIN telling :
                   /\ telling[k].ref \notin KnownRefs(sources)
                   /\ \A j \in 1 .. k - 1 : telling[j].ref # telling[k].ref}
           unknown == SubSeqAt(telling, U)
           fresh == FreshMentions(AllMentions(telling))
           legal == Those(fresh, LAMBDA m : m.type = "legal_entity")
           sites == Those(fresh, LAMBDA m : m.type = "site")
           Found(m) == [name |-> m.name, type |-> "legal_entity", id |-> None,
                        refs |-> {m.ref}, hint |-> None,
                        verdicts |-> [r \in Rules |-> [status |-> "unknown", refs |-> {m.ref}]]]
           Open(m) == [name |-> m.name, type |-> "site", refs |-> {m.ref}, blocked |-> TRUE]
           finds == [k \in DOMAIN legal |-> Found(legal[k])]
           open == [k \in DOMAIN sites |-> Open(sites[k])]
<1>1. IF finds = <<>>
      THEN UNCHANGED <<sources, observations, gaps, linked, review, delivered>>
      ELSE /\ MergeResult(unknown, finds, open)
           /\ review' = review \o open
           /\ delivered' = delivered \cup Deliveries(finds)
  BY Zenon DEF ExtractRetrieved
<1>2. telling \in Seq(SourceRows)
  BY SubSeqElements, Zenon DEF Those
<1> HIDE DEF telling
<1>3. unknown \in Seq(SourceRows)
  BY <1>2, SubSeqElements
<1>4. fresh \in Seq(Mentions)
  BY <1>2, AllMentionsTyped, FreshTyped
<1> HIDE DEF fresh, U
<1>5. legal \in Seq(Mentions) /\ sites \in Seq(Mentions)
  BY <1>4, SubSeqElements, Zenon DEF Those
<1> HIDE DEF unknown, legal, sites
<1>6. \A m \in Mentions : Found(m) \in Observations /\ Found(m).type = "legal_entity"
  <2> TAKE m \in Mentions
  <2>1. m.name \in Spellings /\ m.ref \in Refs
    BY DEF Mentions
  <2>2. [r \in Rules |-> [status |-> "unknown", refs |-> {m.ref}]] \in Verdicts
    BY <2>1 DEF Verdicts, Given
  <2> QED BY <2>1, <2>2 DEF Observations, Types
<1>7. \A m \in Mentions : Open(m) \in Gaps /\ Open(m).type = "site"
  BY DEF Mentions, Gaps, Types
<1> HIDE DEF Found, Open
<1>8. finds \in Seq(Observations) /\ \A o \in Range(finds) : o.type = "legal_entity"
  <2>1. DOMAIN legal = 1 .. Len(legal) /\ Len(legal) \in Nat /\ \A k \in DOMAIN legal : legal[k] \in Mentions
    BY <1>5
  <2>2. DOMAIN finds = DOMAIN legal /\ \A k \in DOMAIN legal : finds[k] = Found(legal[k])
    OBVIOUS
  <2>3. finds \in Seq(Observations)
    <3> HIDE DEF Observations, Mentions
    <3> QED BY <2>1, <1>6
  <2> QED BY <2>1, <2>2, <2>3, <1>6 DEF Range
<1>9. open \in Seq(Gaps) /\ \A g \in Range(open) : g.type = "site"
  <2>1. DOMAIN sites = 1 .. Len(sites) /\ Len(sites) \in Nat /\ \A k \in DOMAIN sites : sites[k] \in Mentions
    BY <1>5
  <2>2. DOMAIN open = DOMAIN sites /\ \A k \in DOMAIN sites : open[k] = Open(sites[k])
    OBVIOUS
  <2>3. open \in Seq(Gaps)
    <3> HIDE DEF Gaps, Mentions
    <3> QED BY <2>1, <1>7
  <2> QED BY <2>1, <2>2, <2>3, <1>7 DEF Range
<1> HIDE DEF finds, open
<1> QED BY <1>1, <1>3, <1>8, <1>9

-----------------------------------------------------------------------------
\* The steps before finalization

LEMMA CollectingStep ==
  ASSUME UniverseInv, phase' \in {"discovery", "coverage", "closing"}, tasks' \in 0 .. MaxTasks,
         retrieved' \in Seq(SourceRows), review' \in Seq(Gaps), UNCHANGED projected,
         delivered \subseteq delivered', MergedSoundly
  PROVE  UniverseInv' /\ Evidence
<1>1. UniverseTypeOK'
  BY DEF MergedSoundly, UniverseInv, UniverseTypeOK, projected, SourceRows, OnePerKey, Collected, TypedDeliveries
<1>2. AllListed'
  BY DEF AllListed
<1>3. SitesStayOffSurface'
  BY DEF UniverseInv, SitesStayOffSurface, projected
<1> QED BY <1>1, <1>2, <1>3 DEF UniverseInv, MergedSoundly

LEMMA AnsweredStep ==
  ASSUME UniverseInv, NEW a \in ProviderAnswers, phase \in {"discovery", "coverage", "closing"},
         NEW finds \in Seq(Observations), Answered(a, finds),
         Range(a.found) \subseteq Range(finds),
         \A o \in Range(finds) \ Range(a.found) : \E g \in Range(a.gaps) : o.name = g.name
  PROVE  UniverseInv' /\ Evidence
<1> DEFINE cited == Cited(a.pages, a.usable)
           asGap(g) == [name |-> g.name, key |-> Bare[g.name], as |-> "gap"]
           told == Deliveries(a.found)
           open == {asGap(g) : g \in Range(a.gaps)}
           new == told \cup open
<1>1. /\ MergeResult(cited, finds, a.gaps)
      /\ tasks < MaxTasks /\ tasks' = tasks + 1
      /\ retrieved' = retrieved \o Cited(a.pages, DOMAIN a.pages)
      /\ delivered' = delivered \cup new
      /\ UNCHANGED <<phase, review, projected>>
  BY DEF Answered
<1>2. a.pages \in Seq(Pages) /\ a.found \in Seq(Observations) /\ a.gaps \in Seq(Gaps)
  BY AnswerFacts
<1>3. cited \in Seq(SourceRows) /\ Cited(a.pages, DOMAIN a.pages) \in Seq(SourceRows)
  BY <1>2, CitedFacts
<1> HIDE DEF cited
<1>4. told \subseteq TypedDeliveries
  BY <1>2, DeliveriesFacts
<1>5. open \subseteq TypedDeliveries
  <2>1. \A g \in Range(a.gaps) : g \in Gaps
    BY <1>2, RangeFacts
  <2>2. \A g \in Range(a.gaps) : g.name \in Spellings /\ Bare[g.name] \in Spellings
    BY <2>1, GapFields, UniverseConstants
  <2> QED BY <2>2 DEF TypedDeliveries
<1>6. \A g \in Range(a.gaps) : \E d \in open : d.name = g.name /\ d.as # "site"
  <2> TAKE g \in Range(a.gaps)
  <2>1. asGap(g) \in open
    OBVIOUS
  <2>2. asGap(g).name = g.name /\ asGap(g).as = "gap"
    OBVIOUS
  <2> HIDE DEF asGap, open
  <2> QED BY <2>1, <2>2
<1>7. \A o \in Range(a.found) : \E d \in told : d.name = o.name /\ d.as = InferType(o)
  BY EachIsDelivered
<1>8. \A o \in Range(finds) : InferType(o) # "site" => \E d \in new : d.name = o.name /\ d.as # "site"
  BY <1>6, <1>7
<1>9. \A d \in told : \E o \in Range(a.found) : d.name = o.name /\ d.key = MergeKey(o) /\ d.as = InferType(o)
  BY DEF Deliveries
<1>10. \A o \in Range(a.found) : InferType(o) # "gap"
  <2>1. \A o \in Range(a.found) : o \in Observations
    BY <1>2, RangeFacts
  <2> QED BY <2>1, KeyIsTyped DEF Types
<1>11. \A d \in open : d.as = "gap" /\ \E g \in Range(a.gaps) : g.name = d.name
  OBVIOUS
<1> HIDE DEF told, open
<1>12. \A d \in new : /\ d.as = "gap" => \E g \in Range(a.gaps) : g.name = d.name
                      /\ d.as # "gap" => \E o \in Range(finds) :
                           d.name = o.name /\ d.key = MergeKey(o) /\ d.as = InferType(o)
  BY <1>9, <1>10, <1>11
<1>13. \A g \in Range(a.gaps) : g.type = "site" \/ \E d \in new : d.name = g.name /\ d.as # "site"
  BY <1>6
<1>14. new \in SUBSET TypedDeliveries
  BY <1>4, <1>5
<1> HIDE DEF new
<1>15. Tells(new, finds, a.gaps)
  BY <1>8, <1>12, <1>13 DEF Tells
<1>16. UniverseTypeOK /\ AllVouched /\ AllTraced
  BY DEF UniverseInv
<1>17. MergedSoundly
  <2>1. \A g \in Range(review') : g.type = "site" \/ g \in Range(review)
    BY <1>1
  <2> QED BY <1>1, <1>2, <1>3, <1>14, <1>16, <1>15, <2>1, MergingKeeps
<1>18. retrieved' \in Seq(SourceRows)
  BY <1>1, <1>3, <1>16, ConcatFacts DEF UniverseTypeOK, SourceRows
<1>19. review' \in Seq(Gaps) /\ phase' \in {"discovery", "coverage", "closing"} /\ tasks' \in 0 .. MaxTasks
  BY <1>1, <1>16, UniverseConstants DEF UniverseTypeOK
<1>20. UNCHANGED projected /\ delivered \subseteq delivered'
  BY <1>1
<1> QED BY <1>17, <1>18, <1>19, <1>20, CollectingStep

LEMMA RunTaskStep ==
  ASSUME UniverseInv, NEW a \in ProviderAnswers, RunTask(a)
  PROVE  UniverseInv' /\ Evidence
<1>1. phase \in {"discovery", "coverage", "closing"} /\ Answered(a, a.found)
  BY DEF RunTask
<1>2. a.found \in Seq(Observations)
  BY AnswerFacts
<1>3. /\ Range(a.found) \subseteq Range(a.found)
      /\ \A o \in Range(a.found) \ Range(a.found) : \E g \in Range(a.gaps) : o.name = g.name
  OBVIOUS
<1> QED BY <1>1, <1>2, <1>3, AnsweredStep, Zenon

LEMMA RunCoverageTaskStep ==
  ASSUME UniverseInv, NEW a \in ProviderAnswers, RunCoverageTask(a)
  PROVE  UniverseInv' /\ Evidence
<1> DEFINE q == GapObservations(a.gaps)
<1>1. phase \in {"discovery", "coverage", "closing"} /\ Answered(a, a.found \o q)
  BY DEF RunCoverageTask
<1>2. a.found \in Seq(Observations) /\ a.gaps \in Seq(Gaps)
  BY AnswerFacts
<1>3. q \in Seq(Observations) /\ \A o \in Range(q) : \E g \in Range(a.gaps) : o.name = g.name
  BY <1>2, GapObservationFacts
<1> HIDE DEF q
<1>4. a.found \o q \in Seq(Observations) /\ Range(a.found \o q) = Range(a.found) \cup Range(q)
  BY <1>2, <1>3, ConcatFacts
<1>5. /\ Range(a.found) \subseteq Range(a.found \o q)
      /\ \A o \in Range(a.found \o q) \ Range(a.found) : \E g \in Range(a.gaps) : o.name = g.name
  BY <1>3, <1>4
<1> QED BY <1>1, <1>4, <1>5, AnsweredStep, Zenon

LEMMA ExtractRetrievedStep ==
  ASSUME UniverseInv, ExtractRetrieved
  PROVE  UniverseInv' /\ Evidence
<1>1. UniverseTypeOK /\ AllVouched /\ AllTraced
  BY DEF UniverseInv
<1>2. /\ sources \in Seq(SourceRows) /\ IsInjective(sources) /\ retrieved \in Seq(SourceRows)
      /\ observations \in Seq(Observations) /\ OnePerKey(observations)
      /\ \A k \in DOMAIN observations : observations[k].type \in Collected
      /\ gaps \in Seq(Gaps) /\ review \in Seq(Gaps)
      /\ linked \subseteq [site : Spellings, account : Spellings]
      /\ delivered \subseteq TypedDeliveries /\ tasks \in 0 .. MaxTasks
  BY <1>1 DEF UniverseTypeOK, SourceRows, OnePerKey, Collected, TypedDeliveries
<1>3. /\ phase' \in {"discovery", "coverage", "closing"} /\ tasks' \in 0 .. MaxTasks
      /\ retrieved' \in Seq(SourceRows) /\ UNCHANGED projected
  BY <1>2 DEF ExtractRetrieved, AfterExtraction
<1>4. CASE UNCHANGED <<sources, observations, gaps, linked, review, delivered>>
  <2>1. AllVouched' /\ AllTraced'
    BY <1>1, <1>4 DEF AllVouched, Vouched, AllTraced, Traced
  <2>2. Evidence
    BY <1>4 DEF Evidence
  <2>3. MergedSoundly
    BY <1>2, <1>4, <2>1, <2>2 DEF MergedSoundly
  <2>4. review' \in Seq(Gaps) /\ delivered \subseteq delivered'
    BY <1>2, <1>4
  <2> QED BY <1>3, <2>3, <2>4, CollectingStep
<1>5. ASSUME NEW unknown \in Seq(SourceRows), NEW finds \in Seq(Observations), NEW open \in Seq(Gaps),
             MergeResult(unknown, finds, open), review' = review \o open,
             delivered' = delivered \cup Deliveries(finds),
             \A o \in Range(finds) : o.type = "legal_entity",
             \A g \in Range(open) : g.type = "site"
      PROVE  UniverseInv' /\ Evidence
  <2> DEFINE new == Deliveries(finds)
  <2>1. new \in SUBSET TypedDeliveries
    BY DeliveriesFacts
  <2>2. \A o \in Range(finds) : InferType(o) = "legal_entity"
    BY <1>5 DEF InferType, Types
  <2>3. \A o \in Range(finds) : InferType(o) # "site" => \E d \in new : d.name = o.name /\ d.as # "site"
    <3>1. \A o \in Range(finds) : \E d \in new : d.name = o.name /\ d.as = InferType(o)
      BY EachIsDelivered
    <3> QED BY <3>1
  <2>4. \A d \in new : \E o \in Range(finds) : d.name = o.name /\ d.key = MergeKey(o) /\ d.as = InferType(o)
    BY DEF Deliveries
  <2>5. \A d \in new : /\ d.as = "gap" => \E g \in Range(open) : g.name = d.name
                       /\ d.as # "gap" => \E o \in Range(finds) :
                            d.name = o.name /\ d.key = MergeKey(o) /\ d.as = InferType(o)
    BY <2>2, <2>4
  <2>6. delivered' = delivered \cup new
    BY <1>5
  <2> HIDE DEF new
  <2>7. review' \in Seq(Gaps) /\ \A g \in Range(review') : g.type = "site" \/ g \in Range(review)
    BY <1>2, <1>5, ConcatFacts
  <2>8. \A g \in Range(open) : g.type = "site" \/ \E d \in new : d.name = g.name /\ d.as # "site"
    BY <1>5
  <2>9. MergedSoundly
    <3>1. Tells(new, finds, open)
      BY <2>3, <2>5, <2>8 DEF Tells
    <3>2. MergeResult(unknown, finds, open)
      BY <1>5
    <3> QED BY <1>1, <2>1, <2>6, <2>7, <3>1, <3>2, MergingKeeps
  <2>10. delivered \subseteq delivered'
    BY <2>6
  <2> QED BY <1>3, <2>7, <2>9, <2>10, CollectingStep
<1> QED BY <1>2, <1>4, <1>5, ExtractFacts, Zenon

-----------------------------------------------------------------------------
\* Finalization

Entries == [name : Spellings, type : Types, refs : SUBSET Refs, blocked : BOOLEAN, noise : BOOLEAN]

LEMMA EvidenceTyped ==
  ASSUME sources \in Seq(SourceRows), NEW o \in Observations
  PROVE  EvidenceRefs(o) \in SUBSET Refs
<1>1. KnownRefs(sources) \subseteq Refs
  <2>1. \A s \in Range(sources) : s \in SourceRows
    BY RangeFacts
  <2> QED BY <2>1 DEF KnownRefs, SourceRows
<1>2. o.refs \subseteq Refs
  BY ObservationFields
<1> QED BY <1>1, <1>2 DEF EvidenceRefs

\* The promoted observations are the first ones, and the smoke gaps are the rest.
LEMMA PromotedFacts ==
  ASSUME observations \in Seq(Observations)
  PROVE  /\ Promoted \in Seq(Observations) /\ Range(Promoted) \subseteq Range(observations)
         /\ \A o \in Range(observations) : o.name \in NamesIn(Promoted) \cup SmokeGaps
         /\ SmokeGaps \subseteq Spellings
<1> DEFINE n == Len(observations)
           m == Len(Promoted)
           rest == SubSeq(observations, m + 1, n)
<1>1. /\ n \in Nat /\ DOMAIN observations = 1 .. n
      /\ \A k \in 1 .. n : observations[k] \in Observations
  OBVIOUS
<1>2. /\ Promoted \in Seq(Observations) /\ m \in Nat /\ m <= n
      /\ \A k \in 1 .. m : Promoted[k] = observations[k]
  <2>1. CASE SmokeLimit = 0 \/ n <= SmokeLimit
    <3>1. Promoted = observations
      BY <2>1 DEF Promoted
    <3> QED BY <3>1, <1>1
  <2>2. CASE ~ (SmokeLimit = 0 \/ n <= SmokeLimit)
    <3>1. Promoted = SubSeq(observations, 1, SmokeLimit) /\ SmokeLimit \in Nat /\ SmokeLimit < n
      BY <2>2, <1>1, UniverseConstants DEF Promoted
    <3> HIDE DEF n
    <3>2. /\ SubSeq(observations, 1, SmokeLimit) \in Seq(Observations)
          /\ Len(SubSeq(observations, 1, SmokeLimit)) = SmokeLimit
          /\ \A k \in 1 .. SmokeLimit : SubSeq(observations, 1, SmokeLimit)[k] = observations[k]
      BY <3>1, <1>1
    <3>3. SmokeLimit <= n
      BY <3>1, <1>1
    <3> QED BY <3>1, <3>2, <3>3
  <2> QED BY <2>1, <2>2
<1> HIDE DEF n, m
<1>3. DOMAIN Promoted = 1 .. m
  BY <1>2 DEF m
<1>4. /\ rest \in Seq(Observations) /\ DOMAIN rest = 1 .. (n - m)
      /\ \A k \in 1 .. (n - m) : rest[k] = observations[m + k]
  <2>1. m + 1 \in Int /\ n \in Int /\ \A i \in (m + 1) .. n : observations[i] \in Observations
    BY <1>1, <1>2
  <2>2. /\ rest \in Seq(Observations)
        /\ Len(rest) = IF m + 1 <= n THEN n - (m + 1) + 1 ELSE 0
        /\ \A i \in 1 .. n - (m + 1) + 1 : rest[i] = observations[(m + 1) + i - 1]
    BY <2>1, SubSeqProperties
  <2> HIDE DEF rest
  <2>3. Len(rest) = n - m /\ \A k \in 1 .. (n - m) : rest[k] = observations[m + k]
    BY <1>1, <1>2, <2>2
  <2>4. DOMAIN rest = 1 .. Len(rest)
    BY <2>2
  <2> QED BY <2>2, <2>3, <2>4
<1>5. SmokeGaps = NamesIn(rest)
  BY DEF SmokeGaps, m, n
<1> HIDE DEF rest
<1>6. Range(Promoted) \subseteq Range(observations)
  BY <1>1, <1>2, <1>3 DEF Range
<1>7. \A o \in Range(observations) : o \in Range(Promoted) \/ o \in Range(rest)
  <2> TAKE o \in Range(observations)
  <2>1. PICK k \in 1 .. n : o = observations[k]
    BY <1>1 DEF Range
  <2>2. CASE k <= m
    <3>1. k \in DOMAIN Promoted /\ Promoted[k] = o
      BY <1>1, <1>2, <1>3, <2>1, <2>2
    <3> QED BY <3>1 DEF Range
  <2>3. CASE k > m
    <3>1. k - m \in 1 .. (n - m) /\ m + (k - m) = k
      BY <1>1, <1>2, <2>3
    <3>2. k - m \in DOMAIN rest /\ rest[k - m] = o
      BY <1>4, <2>1, <3>1
    <3> QED BY <3>2 DEF Range
  <2> QED BY <1>1, <1>2, <2>2, <2>3
<1>8. \A o \in Range(rest) : o.name \in Spellings
  <2>1. \A o \in Range(rest) : o \in Observations
    BY <1>4, RangeFacts
  <2> QED BY <2>1, ObservationFields
<1> QED BY <1>2, <1>5, <1>6, <1>7, <1>8 DEF NamesIn

\* A public row has the name of a promoted observation.
LEMMA PublicRowsFacts ==
  ASSUME sources \in Seq(SourceRows), observations \in Seq(Observations)
  PROVE  /\ PublicRows \in Seq(Rows) /\ NamesIn(PublicRows) = NamesIn(Promoted)
         /\ \A r \in Range(PublicRows) : r.name \in NamesIn(Promoted)
<1> DEFINE RowOf(o) == [name |-> o.name, accepted |-> IsAccepted(o), refs |-> EvidenceRefs(o),
                        noise |-> IsNoise(o)]
<1>1. PublicRows = [k \in DOMAIN Promoted |-> RowOf(Promoted[k])]
  BY Zenon DEF PublicRows
<1>2. Promoted \in Seq(Observations)
  BY PromotedFacts
<1>3. /\ DOMAIN Promoted = 1 .. Len(Promoted) /\ Len(Promoted) \in Nat
      /\ \A k \in DOMAIN Promoted : Promoted[k] \in Observations
  BY <1>2
<1>4. \A o \in Observations : RowOf(o) \in Rows /\ RowOf(o).name = o.name
  <2> TAKE o \in Observations
  <2>1. o.name \in Spellings /\ EvidenceRefs(o) \in SUBSET Refs
    BY ObservationFields, EvidenceTyped
  <2>2. IsAccepted(o) \in BOOLEAN /\ IsNoise(o) \in BOOLEAN
    BY DEF IsAccepted, IsNoise
  <2> QED BY <2>1, <2>2 DEF Rows
<1> HIDE DEF RowOf
<1>5. /\ PublicRows \in Seq(Rows) /\ DOMAIN PublicRows = DOMAIN Promoted
      /\ \A k \in DOMAIN Promoted : PublicRows[k] = RowOf(Promoted[k])
  <2> HIDE DEF Rows, Observations
  <2> QED BY <1>1, <1>3, <1>4
<1>6. \A k \in DOMAIN Promoted : PublicRows[k].name = Promoted[k].name
  BY <1>3, <1>4, <1>5
<1>7. NamesIn(PublicRows) = NamesIn(Promoted)
  BY <1>5, <1>6 DEF NamesIn, Range
<1>8. \A r \in Range(PublicRows) : r.name \in NamesIn(PublicRows)
  BY DEF NamesIn
<1> QED BY <1>5, <1>7, <1>8

LEMMA TypeOfNameTyped ==
  ASSUME observations \in Seq(Observations),
         \A k \in DOMAIN observations : observations[k].type \in Collected,
         NEW name \in NamesIn(Promoted)
  PROVE  TypeOfName(name) \in Collected
<1> DEFINE S == {k \in DOMAIN observations : observations[k].name \in NamesIn(Promoted)}
           kept == SubSeqAt(observations, S)
           named == {k \in DOMAIN kept : kept[k].name = name}
<1>1. TypeOfName(name) = kept[Max(named)].type
  BY Zenon DEF TypeOfName, Those, Where
<1>2. kept \in Seq(Observations) /\ Range(kept) = {observations[k] : k \in DOMAIN observations \cap S}
  BY SubSeqElements
<1>3. PICK o \in Range(Promoted) : o.name = name
  BY DEF NamesIn
<1>4. PICK k \in DOMAIN observations : observations[k] = o
  BY <1>3, PromotedFacts DEF Range
<1>5. k \in DOMAIN observations \cap S
  BY <1>3, <1>4
<1>6. o \in Range(kept)
  BY <1>2, <1>4, <1>5
<1> HIDE DEF kept, S
<1>7. named # {}
  BY <1>3, <1>6 DEF Range
<1>8. DOMAIN kept = 1 .. Len(kept) /\ Len(kept) \in Nat
  BY <1>2
<1>9. named \in SUBSET (0 .. Len(kept))
  BY <1>8
<1>10. Max(named) \in DOMAIN kept
  BY <1>7, <1>8, <1>9, MaxIn
<1>11. kept[Max(named)] \in Range(kept)
  BY <1>10 DEF Range
<1> QED BY <1>1, <1>2, <1>11

LEMMA UniverseEntriesFacts ==
  ASSUME sources \in Seq(SourceRows), observations \in Seq(Observations),
         \A k \in DOMAIN observations : observations[k].type \in Collected
  PROVE  /\ UniverseEntries \in Seq(Entries)
         /\ \A e \in Range(UniverseEntries) : e.name \in NamesIn(Promoted)
<1> DEFINE q == PublicRows
           EntryOf(r) == [name |-> r.name, type |-> TypeOfName(r.name), refs |-> r.refs,
                          blocked |-> FALSE, noise |-> r.noise]
<1>1. UniverseEntries = [k \in DOMAIN q |-> EntryOf(q[k])]
  BY Zenon DEF UniverseEntries
<1>2. q \in Seq(Rows) /\ \A r \in Range(q) : r.name \in NamesIn(Promoted)
  BY PublicRowsFacts
<1> HIDE DEF q
<1>3. /\ DOMAIN q = 1 .. Len(q) /\ Len(q) \in Nat
      /\ \A k \in DOMAIN q : q[k] \in Rows /\ q[k].name \in NamesIn(Promoted)
  BY <1>2 DEF Range
<1>4. \A r \in Rows : r.name \in NamesIn(Promoted) => EntryOf(r) \in Entries /\ EntryOf(r).name = r.name
  <2> TAKE r \in Rows
  <2> HAVE r.name \in NamesIn(Promoted)
  <2>1. TypeOfName(r.name) \in Types
    BY TypeOfNameTyped DEF Collected, Types
  <2>2. r.name \in Spellings /\ r.refs \in SUBSET Refs /\ r.noise \in BOOLEAN
    BY DEF Rows
  <2> QED BY <2>1, <2>2 DEF Entries
<1> HIDE DEF EntryOf
<1>5. /\ UniverseEntries \in Seq(Entries) /\ DOMAIN UniverseEntries = DOMAIN q
      /\ \A k \in DOMAIN q : UniverseEntries[k] = EntryOf(q[k])
  <2> HIDE DEF Entries, Rows
  <2> QED BY <1>1, <1>3, <1>4
<1>6. \A e \in Range(UniverseEntries) : e.name \in NamesIn(Promoted)
  <2> TAKE e \in Range(UniverseEntries)
  <2>1. PICK k \in DOMAIN q : e = EntryOf(q[k])
    BY <1>5 DEF Range
  <2> QED BY <2>1, <1>3, <1>4
<1> QED BY <1>5, <1>6

\* An entry that is not blocked has the name of one that is vouched for: reviewing
\* a gap keeps that.
FairEntries == {q \in Seq(Entries) : \A e \in Range(q) : e.blocked \/ Vouched(e.name)}

LEMMA ReviewedFacts ==
  ASSUME NEW e \in Entries, NEW g \in Gaps
  PROVE  /\ Reviewed(e, g) \in Entries /\ Reviewed(e, g).name = e.name
         /\ e.blocked => Reviewed(e, g).blocked
<1> DEFINE type == IF e.type = "unknown_entity" THEN g.type ELSE e.type
           refs == e.refs \cup g.refs
           blocked == e.blocked \/ g.blocked \/ type = "site"
           With(t, f, b) == [e EXCEPT !.type = t, !.refs = f, !.blocked = b]
<1>1. Reviewed(e, g) = With(type, refs, blocked)
  BY DEF Reviewed
<1>2. type \in Types /\ refs \in SUBSET Refs /\ blocked \in BOOLEAN
  BY GapFields DEF Entries
<1>3. \A t \in Types, f \in SUBSET Refs, b \in BOOLEAN :
        With(t, f, b) \in Entries /\ With(t, f, b).name = e.name /\ With(t, f, b).blocked = b
  BY DEF Entries
<1>4. e.blocked => blocked
  OBVIOUS
<1> HIDE DEF type, refs, blocked, With
<1> QED BY <1>1, <1>2, <1>3, <1>4

LEMMA MergeReviewStep ==
  ASSUME NEW q \in FairEntries, NEW g \in Gaps, g.type = "site" \/ Vouched(g.name)
  PROVE  MergeReview(q, g) \in FairEntries
<1> DEFINE same == {k \in DOMAIN q : q[k].name = g.name}
           i == Max(same)
           x == [name |-> g.name, type |-> g.type, refs |-> g.refs,
                 blocked |-> g.blocked \/ g.type # "legal_entity", noise |-> FALSE]
<1>1. MergeReview(q, g) = IF same # {} THEN [q EXCEPT ![i] = Reviewed(q[i], g)] ELSE Append(q, x)
  BY DEF MergeReview, Where
<1>2. q \in Seq(Entries) /\ \A e \in Range(q) : e.blocked \/ Vouched(e.name)
  BY DEF FairEntries
<1>3. DOMAIN q = 1 .. Len(q) /\ Len(q) \in Nat /\ same \in SUBSET (0 .. Len(q))
  BY <1>2
<1>4. CASE same # {}
  <2>1. i \in DOMAIN q
    BY <1>3, <1>4, MaxIn
  <2> HIDE DEF same, i
  <2>2. q[i] \in Entries /\ q[i] \in Range(q)
    BY <1>2, <2>1 DEF Range
  <2> DEFINE y == Reviewed(q[i], g)
  <2>3. y \in Entries /\ y.name = q[i].name /\ (q[i].blocked => y.blocked)
    BY <2>2, ReviewedFacts
  <2>4. y.blocked \/ Vouched(y.name)
    BY <1>2, <2>2, <2>3
  <2> HIDE DEF y
  <2>5. /\ [q EXCEPT ![i] = y] \in Seq(Entries)
        /\ Range([q EXCEPT ![i] = y]) \subseteq Range(q) \cup {y}
    BY <1>2, <2>1, <2>3, UpdateFacts
  <2>6. MergeReview(q, g) = [q EXCEPT ![i] = y]
    BY <1>1, <1>4 DEF y
  <2> QED BY <1>2, <2>4, <2>5, <2>6 DEF FairEntries
<1>5. CASE same = {}
  <2>1. x \in Entries
    BY GapFields DEF Entries
  <2>2. x.blocked = (g.blocked \/ g.type # "legal_entity") /\ x.name = g.name
    OBVIOUS
  <2>3. x.blocked \/ Vouched(x.name)
    BY <2>2
  <2> HIDE DEF x, same
  <2>4. Append(q, x) \in Seq(Entries) /\ Range(Append(q, x)) = Range(q) \cup {x}
    BY <1>2, <2>1, AppendFacts
  <2>5. MergeReview(q, g) = Append(q, x)
    BY <1>1, <1>5
  <2> QED BY <1>2, <2>3, <2>4, <2>5 DEF FairEntries
<1> QED BY <1>4, <1>5

LEMMA UniverseIsFair ==
  ASSUME UniverseTypeOK, AllVouched
  PROVE  Universe \in FairEntries
<1> DEFINE gs == ReviewSources
<1>1. /\ sources \in Seq(SourceRows) /\ observations \in Seq(Observations)
      /\ \A k \in DOMAIN observations : observations[k].type \in Collected
      /\ gaps \in Seq(Gaps) /\ review \in Seq(Gaps)
  BY DEF UniverseTypeOK, SourceRows, Collected
<1>2. UniverseEntries \in FairEntries
  <2>1. UniverseEntries \in Seq(Entries) /\ \A e \in Range(UniverseEntries) : e.name \in NamesIn(Promoted)
    BY <1>1, UniverseEntriesFacts
  <2>2. \A n \in NamesIn(Promoted) : Vouched(n)
    BY <1>1, PromotedFacts DEF AllVouched, NamesIn
  <2> QED BY <2>1, <2>2 DEF FairEntries
<1>3. gs \in Seq(Gaps) /\ \A k \in DOMAIN gs : gs[k] \in Gaps /\ (gs[k].type = "site" \/ Vouched(gs[k].name))
  <2> DEFINE S == {k \in DOMAIN gaps : gaps[k].refs # {} \/ gaps[k].type = "site"}
             open == SubSeqAt(gaps, S)
  <2>1. gs = review \o open
    BY Zenon DEF ReviewSources, Those, Where
  <2>2. open \in Seq(Gaps) /\ Range(open) = {gaps[k] : k \in DOMAIN gaps \cap S}
    BY <1>1, SubSeqElements
  <2>3. Range(open) \subseteq Range(gaps)
    BY <2>2 DEF Range
  <2> HIDE DEF open, gs
  <2>4. gs \in Seq(Gaps) /\ Range(gs) = Range(review) \cup Range(open)
    <3>1. review \in Seq(Gaps) /\ open \in Seq(Gaps)
      BY <1>1, <2>2
    <3>2. review \o open \in Seq(Gaps) /\ Range(review \o open) = Range(review) \cup Range(open)
      BY <3>1, ConcatFacts
    <3> QED BY <2>1, <3>2
  <2>5. \A g \in Range(gs) : g \in Gaps /\ (g.type = "site" \/ Vouched(g.name))
    BY <2>3, <2>4, RangeFacts DEF AllVouched
  <2>6. \A k \in DOMAIN gs : gs[k] \in Range(gs)
    BY DEF Range
  <2> QED BY <2>4, <2>5, <2>6
<1> HIDE DEF gs
<1>4. \A q \in FairEntries : \A k \in DOMAIN gs : MergeReview(q, gs[k]) \in FairEntries
  BY <1>3, MergeReviewStep
<1>5. FoldLeft(MergeReview, UniverseEntries, gs) \in FairEntries
  BY <1>2, <1>3, <1>4, ReviewFold, Zenon
<1>6. Universe = FoldLeft(MergeReview, UniverseEntries, gs)
  BY Zenon DEF Universe, gs
<1> QED BY <1>5, <1>6

\* Rows that are vouched for.
FairRows == {q \in Seq(Rows) : \A r \in Range(q) : Vouched(r.name)}

LEMMA ReviewRowsAreFair ==
  ASSUME Universe \in FairEntries
  PROVE  ReviewRows \in FairRows
<1> DEFINE S == {k \in DOMAIN Universe : Surfaces(Universe[k])}
           visible == SubSeqAt(Universe, S)
           RowOf(e) == [name |-> e.name, accepted |-> FALSE, refs |-> e.refs, noise |-> FALSE]
<1>1. ReviewRows = [k \in DOMAIN visible |-> RowOf(visible[k])]
  BY Zenon DEF ReviewRows, Those, Where
<1>2. Universe \in Seq(Entries) /\ \A e \in Range(Universe) : e.blocked \/ Vouched(e.name)
  BY DEF FairEntries
<1>3. visible \in Seq(Entries) /\ Range(visible) = {Universe[k] : k \in DOMAIN Universe \cap S}
  BY <1>2, SubSeqElements
<1> HIDE DEF visible
<1>4. \A e \in Range(visible) : Vouched(e.name)
  <2> TAKE e \in Range(visible)
  <2>1. PICK k \in DOMAIN Universe : e = Universe[k] /\ Surfaces(Universe[k])
    BY <1>3
  <2>2. e \in Range(Universe) /\ ~ e.blocked
    BY <2>1 DEF Range, Surfaces
  <2> QED BY <2>2, <1>2
<1>5. \A e \in Entries : RowOf(e) \in Rows /\ RowOf(e).name = e.name
  BY DEF Entries, Rows
<1>6. /\ DOMAIN visible = 1 .. Len(visible) /\ Len(visible) \in Nat
      /\ \A k \in DOMAIN visible : visible[k] \in Entries /\ visible[k] \in Range(visible)
  BY <1>3 DEF Range
<1> HIDE DEF RowOf
<1>7. /\ ReviewRows \in Seq(Rows) /\ DOMAIN ReviewRows = DOMAIN visible
      /\ \A k \in DOMAIN visible : ReviewRows[k] = RowOf(visible[k])
  <2> HIDE DEF Entries, Rows
  <2> QED BY <1>1, <1>5, <1>6
<1>8. \A r \in Range(ReviewRows) : Vouched(r.name)
  <2> TAKE r \in Range(ReviewRows)
  <2>1. PICK k \in DOMAIN visible : r = RowOf(visible[k])
    BY <1>7 DEF Range
  <2> QED BY <2>1, <1>4, <1>5, <1>6
<1> QED BY <1>7, <1>8 DEF FairRows

LEMMA AppendRowStep ==
  ASSUME NEW q \in FairRows, NEW row \in Rows, Vouched(row.name)
  PROVE  AppendRow(q, row) \in FairRows
<1> DEFINE same == {k \in DOMAIN q : q[k].name = row.name}
           i == Min(same)
           refs == q[i].refs \cup row.refs
           accepted == q[i].accepted \/ row.accepted
           With(r, f, a) == [r EXCEPT !.refs = f, !.accepted = a]
           y == With(q[i], refs, accepted)
<1>1. q \in Seq(Rows) /\ \A r \in Range(q) : Vouched(r.name)
  BY DEF FairRows
<1>2. DOMAIN q = 1 .. Len(q) /\ Len(q) \in Nat /\ same \in SUBSET Nat
  BY <1>1
<1>3. CASE same # {}
  <2>1. i \in DOMAIN q
    BY <1>2, <1>3, MinIn
  <2>2. AppendRow(q, row) = [q EXCEPT ![i].refs = @ \cup row.refs, ![i].accepted = @ \/ row.accepted]
    BY <1>3, Zenon DEF AppendRow, Where
  <2> HIDE DEF same, i
  <2>3. q[i] \in Rows /\ q[i] \in Range(q)
    BY <1>1, <2>1 DEF Range
  <2>4. AppendRow(q, row) = [q EXCEPT ![i] = y]
    BY <2>1, <2>2, <2>3 DEF Rows
  <2>5. refs \in SUBSET Refs /\ accepted \in BOOLEAN
    BY <2>3 DEF Rows
  <2>6. \A f \in SUBSET Refs, a \in BOOLEAN : With(q[i], f, a) \in Rows /\ With(q[i], f, a).name = q[i].name
    BY <2>3 DEF Rows
  <2> HIDE DEF refs, accepted, With
  <2>7. y \in Rows /\ Vouched(y.name)
    BY <1>1, <2>3, <2>5, <2>6
  <2> HIDE DEF y
  <2>8. /\ [q EXCEPT ![i] = y] \in Seq(Rows)
        /\ Range([q EXCEPT ![i] = y]) \subseteq Range(q) \cup {y}
    BY <1>1, <2>1, <2>7, UpdateFacts
  <2> QED BY <1>1, <2>4, <2>7, <2>8 DEF FairRows
<1>4. CASE same = {}
  <2>1. AppendRow(q, row) = Append(q, row)
    BY <1>4, Zenon DEF AppendRow, Where
  <2>2. Append(q, row) \in Seq(Rows) /\ Range(Append(q, row)) = Range(q) \cup {row}
    BY <1>1, AppendFacts
  <2> QED BY <1>1, <2>1, <2>2 DEF FairRows
<1> QED BY <1>3, <1>4

LEMMA SurfaceIsFair ==
  ASSUME UniverseTypeOK, AllVouched
  PROVE  Surface \in FairRows
<1> DEFINE rows == PublicRows \o ReviewRows
<1>1. sources \in Seq(SourceRows) /\ observations \in Seq(Observations)
  BY DEF UniverseTypeOK, SourceRows
<1>2. PublicRows \in Seq(Rows) /\ \A r \in Range(PublicRows) : Vouched(r.name)
  <2>1. PublicRows \in Seq(Rows) /\ \A r \in Range(PublicRows) : r.name \in NamesIn(Promoted)
    BY <1>1, PublicRowsFacts
  <2>2. \A n \in NamesIn(Promoted) : Vouched(n)
    BY <1>1, PromotedFacts DEF AllVouched, NamesIn
  <2> QED BY <2>1, <2>2
<1>3. ReviewRows \in Seq(Rows) /\ \A r \in Range(ReviewRows) : Vouched(r.name)
  BY UniverseIsFair, ReviewRowsAreFair DEF FairRows
<1>4. rows \in Seq(Rows) /\ Range(rows) = Range(PublicRows) \cup Range(ReviewRows)
  BY <1>2, <1>3, ConcatFacts
<1>5. Surface = FoldLeft(AppendRow, <<>>, rows)
  BY Zenon DEF Surface
<1> HIDE DEF rows
<1>6. \A k \in DOMAIN rows : rows[k] \in Rows /\ Vouched(rows[k].name)
  <2> TAKE k \in DOMAIN rows
  <2>1. rows[k] \in Range(rows)
    BY DEF Range
  <2> QED BY <1>2, <1>3, <1>4, <2>1
<1>7. \A q \in FairRows : \A k \in DOMAIN rows : AppendRow(q, rows[k]) \in FairRows
  BY <1>6, AppendRowStep
<1>8. <<>> \in FairRows
  BY DEF FairRows, Range
<1> QED BY <1>4, <1>5, <1>7, <1>8, RowsFold, Zenon

LedgerRows == [name : Spellings, collection : {"public_candidates", "candidate_universe",
                                               "unresolved_candidate_gaps"}]

LEMMA LedgerTyped ==
  ASSUME NEW N \in SUBSET Spellings,
         NEW c \in {"public_candidates", "candidate_universe", "unresolved_candidate_gaps"}
  PROVE  LedgerOf(N, c) \subseteq LedgerRows /\ \A n \in N : \E row \in LedgerOf(N, c) : row.name = n
<1> DEFINE rowOf(n) == [name |-> n, collection |-> c]
<1>1. LedgerOf(N, c) = {rowOf(n) : n \in N}
  BY DEF LedgerOf
<1>2. \A n \in N : rowOf(n) \in LedgerRows /\ rowOf(n).name = n
  BY DEF LedgerRows
<1> HIDE DEF rowOf
<1> QED BY <1>1, <1>2

LEMMA FinalizeStep ==
  ASSUME UniverseInv, Finalize
  PROVE  UniverseInv' /\ Evidence
<1> DEFINE P == LedgerOf(NamesIn(PublicRows), "public_candidates")
           U == LedgerOf(NamesIn(Universe), "candidate_universe")
           G == LedgerOf(NamesIn(gaps) \cup SmokeGaps, "unresolved_candidate_gaps")
<1>1. UniverseTypeOK /\ AllVouched /\ AllTraced
  BY DEF UniverseInv
<1>2. /\ sources \in Seq(SourceRows) /\ observations \in Seq(Observations)
      /\ \A k \in DOMAIN observations : observations[k].type \in Collected
      /\ gaps \in Seq(Gaps)
  BY <1>1 DEF UniverseTypeOK, SourceRows, Collected
<1>3. /\ phase' = "finalized" /\ surface' = Surface /\ ledger' = (P \cup U) \cup G
      /\ UNCHANGED <<tasks, collected, stored>>
  BY DEF Finalize
<1>4. rejected' = NamesIn(Those(Promoted, IsRejected))
  BY DEF Finalize
<1>5. Surface \in Seq(Rows) /\ \A r \in Range(Surface) : Vouched(r.name)
  BY <1>1, SurfaceIsFair DEF FairRows
<1>6. NamesIn(PublicRows) = NamesIn(Promoted) /\ NamesIn(Promoted) \subseteq Spellings
  <2>1. \A o \in Range(Promoted) : o \in Observations
    BY <1>2, PromotedFacts, RangeFacts
  <2> QED BY <1>2, <2>1, PublicRowsFacts, ObservationFields DEF NamesIn
<1>7. NamesIn(Universe) \subseteq Spellings
  <2>1. Universe \in Seq(Entries)
    BY <1>1, UniverseIsFair DEF FairEntries
  <2>2. \A e \in Range(Universe) : e \in Entries
    BY <2>1, RangeFacts
  <2>3. \A e \in Entries : e.name \in Spellings
    BY DEF Entries
  <2> QED BY <2>2, <2>3 DEF NamesIn
<1>8. NamesIn(gaps) \cup SmokeGaps \subseteq Spellings
  <2>1. \A g \in Range(gaps) : g \in Gaps
    BY <1>2, RangeFacts
  <2> QED BY <1>2, <2>1, GapFields, PromotedFacts DEF NamesIn
<1>9. /\ P \subseteq LedgerRows /\ \A n \in NamesIn(PublicRows) : \E row \in P : row.name = n
      /\ U \subseteq LedgerRows
      /\ G \subseteq LedgerRows /\ \A n \in NamesIn(gaps) \cup SmokeGaps : \E row \in G : row.name = n
  BY <1>6, <1>7, <1>8, LedgerTyped
<1> HIDE DEF P, U, G
<1>10. ledger' \subseteq LedgerRows
  BY <1>3, <1>9
<1>11. rejected' \subseteq Spellings
  <2> DEFINE q == Those(Promoted, IsRejected)
  <2>1. Promoted \in Seq(Observations)
    BY <1>2, PromotedFacts
  <2>2. q \in Seq(Observations)
    BY <2>1, SubSeqElements, Zenon DEF Those
  <2> HIDE DEF q
  <2>3. \A o \in Range(q) : o.name \in Spellings
    <3>1. \A o \in Range(q) : o \in Observations
      BY <2>2, RangeFacts
    <3> QED BY <3>1, ObservationFields
  <2> QED BY <1>4, <2>3 DEF NamesIn, q
<1>12. UniverseTypeOK'
  <2>1. surface' \in Seq(Rows) /\ stored' \in Seq(Rows)
    BY <1>1, <1>3, <1>5 DEF UniverseTypeOK, Rows
  <2>2. /\ phase' \in {"discovery", "coverage", "closing", "finalized", "saved"} /\ tasks' \in 0 .. MaxTasks
        /\ collected' = collected
    BY <1>1, <1>3 DEF UniverseTypeOK
  <2> QED BY <1>1, <1>10, <1>11, <2>1, <2>2 DEF UniverseTypeOK, collected, Rows, LedgerRows
<1>13. AllVouched' /\ AllTraced' /\ Evidence
  BY <1>1, <1>3 DEF collected, AllVouched, Vouched, AllTraced, Traced, Evidence
<1>14. AllListed'
  <2>1. \A o \in Range(observations) : o.name \in NamesIn(PublicRows) \cup SmokeGaps
    BY <1>2, <1>6, PromotedFacts
  <2>2. \A g \in Range(gaps) : g.name \in NamesIn(gaps)
    BY DEF NamesIn
  <2>3. \A n \in NamesIn(PublicRows) \cup (NamesIn(gaps) \cup SmokeGaps) : \E row \in ledger' : row.name = n
    BY <1>3, <1>9
  <2>4. \A x \in Range(observations) \cup Range(gaps) : \E row \in ledger' : row.name = x.name
    BY <2>1, <2>2, <2>3
  <2>5. observations' = observations /\ gaps' = gaps
    BY <1>3 DEF collected
  <2> QED BY <2>4, <2>5 DEF AllListed, Listed
<1>15. SitesStayOffSurface'
  <2>1. delivered' = delivered
    BY <1>3 DEF collected
  <2> QED BY <1>3, <1>5, <2>1 DEF SitesStayOffSurface, Vouched
<1> QED BY <1>12, <1>13, <1>14, <1>15 DEF UniverseInv

LEMMA SaveStep ==
  ASSUME UniverseInv, Save
  PROVE  UniverseInv' /\ Evidence
<1>1. UniverseTypeOK /\ AllVouched /\ AllTraced /\ AllListed /\ SitesStayOffSurface
  BY DEF UniverseInv
<1>2. /\ phase = "finalized" /\ phase' = "saved"
      /\ UNCHANGED <<tasks, collected, surface, ledger, rejected>>
  BY DEF Save
<1>3. stored' = Those(surface, LAMBDA row : ~ row.noise)
  BY DEF Save
<1>4. surface \in Seq(Rows)
  BY <1>1 DEF UniverseTypeOK, Rows
<1>5. stored' \in Seq(Rows)
  BY <1>3, <1>4, SubSeqElements, Zenon DEF Those
<1>6. UniverseTypeOK'
  BY <1>1, <1>2, <1>5 DEF UniverseTypeOK, collected, Rows
<1>7. AllVouched' /\ AllTraced' /\ Evidence
  BY <1>1, <1>2 DEF collected, AllVouched, Vouched, AllTraced, Traced, Evidence
<1>8. AllListed'
  BY <1>1, <1>2 DEF AllListed, Listed, collected
<1>9. SitesStayOffSurface'
  BY <1>1, <1>2 DEF SitesStayOffSurface, collected
<1> QED BY <1>6, <1>7, <1>8, <1>9 DEF UniverseInv

LEMMA InitUniverse ==
  ASSUME UniverseInit
  PROVE  UniverseInv
<1>1. Range(<<>>) = {}
  BY DEF Range
<1>2. UniverseTypeOK
  BY UniverseConstants DEF UniverseInit, UniverseTypeOK, IsInjective
<1>3. AllVouched /\ AllTraced /\ AllListed /\ SitesStayOffSurface
  BY <1>1 DEF UniverseInit, AllVouched, AllTraced, AllListed, SitesStayOffSurface
<1> QED BY <1>2, <1>3 DEF UniverseInv

LEMMA StepUniverse ==
  ASSUME UniverseInv, [UniverseNext]_universeVars
  PROVE  UniverseInv' /\ Evidence
<1>1. ASSUME NEW a \in ProviderAnswers, RunTask(a) PROVE UniverseInv' /\ Evidence
  BY <1>1, RunTaskStep
<1>2. ASSUME NEW a \in ProviderAnswers, RunCoverageTask(a) PROVE UniverseInv' /\ Evidence
  BY <1>2, RunCoverageTaskStep
<1>3. CASE ExtractRetrieved
  BY <1>3, ExtractRetrievedStep
<1>4. CASE Finalize
  BY <1>4, FinalizeStep
<1>5. CASE Save
  BY <1>5, SaveStep
<1>6. CASE UNCHANGED universeVars
  <2>1. UniverseTypeOK' /\ AllVouched' /\ AllTraced' /\ AllListed' /\ SitesStayOffSurface'
    BY <1>6 DEF UniverseInv, universeVars, collected, projected, UniverseTypeOK, AllVouched, Vouched,
                AllTraced, Traced, AllListed, Listed, SitesStayOffSurface
  <2>2. Evidence
    BY <1>6 DEF universeVars, collected, Evidence
  <2> QED BY <2>1, <2>2 DEF UniverseInv
<1> QED BY <1>1, <1>2, <1>3, <1>4, <1>5, <1>6 DEF UniverseNext

LEMMA UniverseInvariantHolds == UniverseSpec => []UniverseInv
<1>1. UniverseInit => UniverseInv
  BY InitUniverse
<1>2. UniverseInv /\ [UniverseNext]_universeVars => UniverseInv'
  BY StepUniverse
<1> QED BY <1>1, <1>2, PTL DEF UniverseSpec

\* What a candidate-discovery run keeps of its companies is always well typed;
\* its sources and observations are without duplicates (merge_result).
THEOREM UniverseTyped == UniverseSpec => []UniverseTypeOK
<1>1. UniverseInv => UniverseTypeOK
  BY DEF UniverseInv
<1> QED BY <1>1, UniverseInvariantHolds, PTL

\* Nothing a provider delivered disappears, however many tasks and sources there
\* are (merge_result, the retrieved candidates, the smoke cap and the ledger).
THEOREM NothingDeliveredIsLost == UniverseSpec => []NothingDisappears
<1>1. UniverseInv => NothingDisappears
  <2> SUFFICES ASSUME UniverseInv, phase \in {"finalized", "saved"}, NEW d \in delivered
               PROVE  Listed(d.name) \/ ListedAs(d) \/ LinkedTo(d)
    BY DEF NothingDisappears
  <2>1. AllVouched /\ AllTraced /\ delivered \subseteq TypedDeliveries
    BY DEF UniverseInv, UniverseTypeOK, TypedDeliveries
  <2>2. \A x \in Range(observations) \cup Range(gaps) : Listed(x.name)
    BY DEF UniverseInv, AllListed
  <2>3. \A e \in delivered : e.as = "gap" => Listed(e.name)
    BY <2>1, <2>2 DEF AllTraced, Traced
  <2>4. \A e \in delivered : e.as \in Collected => ListedAs(e)
    BY <2>1, <2>2 DEF AllTraced, Traced, ListedAs
  <2>5. \A e \in delivered : e.as \in Collected \/ e.as = "gap" \/ e.as = "site"
    BY <2>1 DEF TypedDeliveries, Types, Collected
  <2>6. CASE d.as = "site"
    <3>1. CASE \E g \in Range(gaps) : g.name = d.name
      BY <2>2, <3>1
    <3>2. ASSUME NEW l \in linked, l.site = d.name PROVE LinkedTo(d)
      <4>1. PICK e \in delivered : e.name = l.account /\ e.as # "site"
        BY <2>1 DEF AllVouched, Vouched
      <4>2. Listed(e.name) \/ ListedAs(e)
        BY <2>3, <2>4, <2>5, <4>1
      <4> QED BY <3>2, <4>1, <4>2 DEF LinkedTo
    <3> QED BY <2>1, <2>6, <3>1, <3>2 DEF AllTraced, Traced
  <2> QED BY <2>3, <2>4, <2>5, <2>6
<1> QED BY <1>1, UniverseInvariantHolds, PTL

\* An entity known only as a site never becomes a visible row (entity
\* resolution, the universe's blocking reasons, the surface's filter).
THEOREM SitesNeverSurface == UniverseSpec => []SitesStayOffSurface
<1>1. UniverseInv => SitesStayOffSurface
  BY DEF UniverseInv
<1> QED BY <1>1, UniverseInvariantHolds, PTL

\* No step takes a collected observation away, renames it or drops evidence it
\* has (merge_candidate_observations).
THEOREM EvidenceKept == UniverseSpec => EvidenceIsKept
<1>1. UniverseInv /\ [UniverseNext]_universeVars => Evidence
  BY StepUniverse
<1>2. Evidence <=> \A o \in Range(observations) : \E p \in Range(observations') :
                     MergeKey(p) = MergeKey(o) /\ p.name = o.name /\ o.refs \subseteq p.refs
  BY DEF Evidence
<1> QED BY <1>1, <1>2, UniverseInvariantHolds, PTL DEF UniverseSpec, EvidenceIsKept

=============================================================================
