----------------------- MODULE ExternalCallBudgetProofs -----------------------
(***************************************************************************)
(* Proofs, for every configuration of limits and every size of portfolio,  *)
(* that the external-call budget keeps its limits, keeps its role counters *)
(* and its total together, and keeps the reservations it makes.            *)
(***************************************************************************)
EXTENDS ExternalCallBudget, FiniteSetTheorems, TLAPS

USE DEF Total, Plan, Web, Recall, Searches, Retry

\* The task ids of one portfolio family are finitely many.
LEMMA ItemsFinite == IsFiniteSet(Items)
<1>1. IsFiniteSet(Bases)
  BY TasksAssumption
<1>2. IsFiniteSet(1 .. MaxItems)
  BY BoundsAssumption, FS_Interval
<1>. QED
  BY <1>1, <1>2, FS_Product DEF Items

\* A smaller set of items has a smaller number.
LEMMA ItemsSubset ==
  ASSUME NEW S, NEW T, S \subseteq T, T \subseteq Items
  PROVE  /\ IsFiniteSet(S) /\ IsFiniteSet(T)
         /\ Cardinality(S) \in Nat /\ Cardinality(T) \in Nat
         /\ Cardinality(S) <= Cardinality(T)
<1>1. IsFiniteSet(T)
  BY ItemsFinite, FS_Subset
<1>2. IsFiniteSet(S) /\ Cardinality(S) <= Cardinality(T)
  BY <1>1, FS_Subset
<1>. QED
  BY <1>1, <1>2, FS_CardinalityType

\* A limit that is configured is a number.
LEMMA LimitType ==
  \A k \in Kinds \cup {Retry} : Limit[k] = None \/ Limit[k] \in Nat
BY LimitsAssumption DEF LimitOrNone

-----------------------------------------------------------------------------
\* The budget starts well typed.
LEMMA TypeInit == Init => TypeOK
BY BoundsAssumption DEF Init, TypeOK

\* What a web call, granted or refused, does to the variables it touches.
LEMMA TryWebCallType ==
  ASSUME TypeOK, NEW task, NEW searches \in Reported,
         WebCallAllowed(task) => RecordWebCall(task, searches),
         ~WebCallAllowed(task) => UNCHANGED <<calls, firstUsed>>
  PROVE  /\ calls' \in [Kinds -> Nat]
         /\ firstUsed' \subseteq guaranteed
<1>1. searches \in Nat
  BY BoundsAssumption DEF Reported
<1>. QED
  BY <1>1 DEF TypeOK, RecordWebCall, Role, Kinds, Lookups

\* Every operation keeps every variable in its type.
LEMMA TypeStep == TypeOK /\ [Next]_vars => TypeOK'
<1>. SUFFICES ASSUME TypeOK, [Next]_vars
              PROVE  TypeOK'
  OBVIOUS
<1>. USE DEF TypeOK, budget, portfolio
<1>1. CASE PlannerCall
  <2>1. calls' \in [Kinds -> Nat]
    BY <1>1 DEF PlannerCall, RecordPlannerCall, Kinds, Lookups
  <2>. QED
    BY <1>1, <2>1 DEF PlannerCall
<1>2. CASE PlannerRetry
  <2>1. calls' \in [Kinds -> Nat]
    BY <1>2 DEF PlannerRetry, RecordPlannerCall, Kinds, Lookups
  <2>2. retries' \in [RetryKeys -> Nat]
    BY <1>2 DEF PlannerRetry, SpendRetry, RetryKeys
  <2>. QED
    BY <1>2, <2>1, <2>2 DEF PlannerRetry
<1>3. ASSUME NEW minimum \in 0 .. MaxMinimum, BeginExecution(minimum)
      PROVE  TypeOK'
  <2>1. units' \in Nat
    BY <1>3, LimitType, BoundsAssumption DEF BeginExecution, Capped, Positive, Kinds
  <2>. QED
    BY <1>3, <2>1 DEF BeginExecution
<1>4. ASSUME NEW task \in RegularTasks, NEW searches \in Reported,
             RegularCall(task, searches) \/ RegularRetry(task, searches)
      PROVE  TypeOK'
  <2>1. calls' \in [Kinds -> Nat] /\ firstUsed' \subseteq guaranteed
    BY <1>4, TryWebCallType DEF RegularCall, RegularRetry, TryWebCall
  <2>2. retries' \in [RetryKeys -> Nat]
    BY <1>4 DEF RegularCall, RegularRetry, SpendRetry
  <2>. QED
    BY <1>4, <2>1, <2>2 DEF RegularCall, RegularRetry
<1>5. ASSUME NEW kind \in Lookups, Lookup(kind)
      PROVE  TypeOK'
  BY <1>5 DEF Lookup, Kinds
<1>6. ASSUME NEW b \in Bases, NEW items \in 0 .. MaxItems, NEW leading \in 0 .. MaxItems,
             BeginPortfolio(b, items, leading)
      PROVE  TypeOK'
  BY <1>6, BoundsAssumption DEF BeginPortfolio
<1>7. ASSUME NEW key \in ReserveKeys, AdmitItem(key)
      PROVE  TypeOK'
  <2>1. next' \in 1 .. (MaxItems + 1)
    BY <1>7, BoundsAssumption DEF AdmitItem
  <2>2. <<base, next>> \in Items
    BY <1>7, BoundsAssumption DEF AdmitItem, Items
  <2>3. slices' \in [ReserveKeys -> Nat]
    BY <1>7 DEF AdmitItem
  <2>. QED
    BY <1>7, <2>1, <2>2, <2>3 DEF AdmitItem
<1>8. CASE EndAdmission
  BY <1>8 DEF EndAdmission
<1>9. ASSUME NEW item \in Items, SkipItem(item) \/ FinishItem(item)
      PROVE  TypeOK'
  BY <1>9 DEF SkipItem, FinishItem, Done
<1>10. ASSUME NEW item \in Items, NEW searches \in Reported,
              CallItem(item, searches) \/ RetryItem(item, searches)
       PROVE  TypeOK'
  <2>1. calls' \in [Kinds -> Nat] /\ firstUsed' \subseteq guaranteed
    BY <1>10, TryWebCallType DEF CallItem, RetryItem, TryWebCall
  <2>2. retries' \in [RetryKeys -> Nat]
    BY <1>10 DEF CallItem, RetryItem, SpendRetry
  <2>3. accepted' \subseteq accepted /\ attempt' \in 0 .. 2
    BY <1>10 DEF CallItem, RetryItem, Done
  <2>. QED
    BY <1>10, <2>1, <2>2, <2>3 DEF CallItem, RetryItem
<1>11. CASE EndPortfolio
  BY <1>11, BoundsAssumption DEF EndPortfolio
<1>12. CASE UNCHANGED vars
  BY <1>12 DEF vars
<1>. QED
  BY <1>1, <1>2, <1>3, <1>4, <1>5, <1>6, <1>7, <1>8, <1>9, <1>10, <1>11, <1>12 DEF Next

\* Every variable of the budget and of the admission keeps its type.
THEOREM TypeCorrect == Spec => []TypeOK
BY TypeInit, TypeStep, PTL DEF Spec

-----------------------------------------------------------------------------
(* The four things a step can do to the counters. *)

PlannerCalls ==
  phase = "planning" /\ PlannerCallAllowed /\ RecordPlannerCall /\ UNCHANGED firstUsed

WebCalls(task, searches) == WebCallAllowed(task) /\ RecordWebCall(task, searches)

LooksUp(kind) ==
  HasRoom(kind) /\ calls' = [calls EXCEPT ![kind] = @ + 1] /\ UNCHANGED firstUsed

\* A step that changes the call counters is a planner call, a web call or a lookup.
LEMMA CallsChange ==
  ASSUME [Next]_vars
  PROVE  \/ UNCHANGED <<calls, firstUsed>>
         \/ PlannerCalls
         \/ \E task \in RegularTasks \cup Items, searches \in Reported :
              WebCalls(task, searches)
         \/ \E kind \in Lookups : LooksUp(kind)
<1>. USE DEF budget
<1>1. CASE PlannerCall \/ PlannerRetry
  BY <1>1 DEF PlannerCall, PlannerRetry, PlannerCalls
<1>2. ASSUME NEW task \in RegularTasks, NEW searches \in Reported,
             RegularCall(task, searches) \/ RegularRetry(task, searches)
      PROVE  UNCHANGED <<calls, firstUsed>> \/ WebCalls(task, searches)
  BY <1>2 DEF RegularCall, RegularRetry, TryWebCall, WebCalls
<1>3. ASSUME NEW kind \in Lookups, Lookup(kind)
      PROVE  LooksUp(kind)
  BY <1>3 DEF Lookup, LooksUp
<1>4. ASSUME NEW item \in Items, NEW searches \in Reported,
             CallItem(item, searches) \/ RetryItem(item, searches)
      PROVE  UNCHANGED <<calls, firstUsed>> \/ WebCalls(item, searches)
  BY <1>4 DEF CallItem, RetryItem, TryWebCall, WebCalls
<1>5. ASSUME NEW minimum \in 0 .. MaxMinimum, BeginExecution(minimum)
      PROVE  UNCHANGED <<calls, firstUsed>>
  BY <1>5 DEF BeginExecution
<1>6. ASSUME NEW b \in Bases, NEW items \in 0 .. MaxItems, NEW leading \in 0 .. MaxItems,
             BeginPortfolio(b, items, leading)
      PROVE  UNCHANGED <<calls, firstUsed>>
  BY <1>6 DEF BeginPortfolio
<1>7. ASSUME NEW key \in ReserveKeys, AdmitItem(key)
      PROVE  UNCHANGED <<calls, firstUsed>>
  BY <1>7 DEF AdmitItem
<1>8. ASSUME NEW item \in Items, SkipItem(item) \/ FinishItem(item)
      PROVE  UNCHANGED <<calls, firstUsed>>
  BY <1>8 DEF SkipItem, FinishItem
<1>9. CASE EndAdmission \/ EndPortfolio \/ UNCHANGED vars
  BY <1>9 DEF EndAdmission, EndPortfolio, vars
<1>. QED
  BY <1>1, <1>2, <1>3, <1>4, <1>5, <1>6, <1>7, <1>8, <1>9 DEF Next

\* Retry counters change one at a time, below the limit.
LEMMA RetriesChange ==
  ASSUME [Next]_vars
  PROVE  UNCHANGED retries \/ \E task \in RetryKeys : SpendRetry(task)
<1>. USE DEF budget, RetryKeys
<1>1. CASE PlannerCall \/ PlannerRetry
  BY <1>1 DEF PlannerCall, PlannerRetry
<1>2. ASSUME NEW task \in RegularTasks, NEW searches \in Reported,
             RegularCall(task, searches) \/ RegularRetry(task, searches)
      PROVE  UNCHANGED retries \/ SpendRetry(task)
  BY <1>2 DEF RegularCall, RegularRetry
<1>3. ASSUME NEW kind \in Lookups, Lookup(kind)
      PROVE  UNCHANGED retries
  BY <1>3 DEF Lookup
<1>4. ASSUME NEW item \in Items, NEW searches \in Reported,
             CallItem(item, searches) \/ RetryItem(item, searches)
      PROVE  UNCHANGED retries \/ SpendRetry(item)
  BY <1>4 DEF CallItem, RetryItem
<1>5. ASSUME NEW minimum \in 0 .. MaxMinimum, BeginExecution(minimum)
      PROVE  UNCHANGED retries
  BY <1>5 DEF BeginExecution
<1>6. ASSUME NEW b \in Bases, NEW items \in 0 .. MaxItems, NEW leading \in 0 .. MaxItems,
             BeginPortfolio(b, items, leading)
      PROVE  UNCHANGED retries
  BY <1>6 DEF BeginPortfolio
<1>7. ASSUME NEW key \in ReserveKeys, AdmitItem(key)
      PROVE  UNCHANGED retries
  BY <1>7 DEF AdmitItem
<1>8. ASSUME NEW item \in Items, SkipItem(item) \/ FinishItem(item)
      PROVE  UNCHANGED retries
  BY <1>8 DEF SkipItem, FinishItem
<1>9. CASE EndAdmission \/ EndPortfolio \/ UNCHANGED vars
  BY <1>9 DEF EndAdmission, EndPortfolio, vars
<1>. QED
  BY <1>1, <1>2, <1>3, <1>4, <1>5, <1>6, <1>7, <1>8, <1>9 DEF Next

\* What a granted web call adds to which counter.
LEMMA WebCallCounts ==
  ASSUME TypeOK, NEW task, NEW searches \in Reported, WebCalls(task, searches)
  PROVE  /\ searches \in Nat /\ searches <= MaxSearches
         /\ Role(task) \in {Web, Recall}
         /\ calls'[Role(task)] = calls[Role(task)] + 1
         /\ calls'[Total] = calls[Total] + 1
         /\ calls'[Searches] = calls[Searches] + searches
         /\ \A k \in Kinds \ {Role(task), Total, Searches} : calls'[k] = calls[k]
         /\ HasRoom(Role(task)) /\ HasRoom(Total) /\ HasRoom(Searches)
<1>1. searches \in Nat /\ searches <= MaxSearches
  BY BoundsAssumption DEF Reported
<1>2. HasRoom(Role(task)) /\ HasRoom(Total) /\ HasRoom(Searches)
  BY DEF WebCalls, WebCallAllowed, ProtectedCallAllowed, RegularCallAllowed, Role
<1>. QED
  BY <1>1, <1>2 DEF WebCalls, RecordWebCall, TypeOK, Kinds, Lookups, Role

-----------------------------------------------------------------------------
\* Nothing has been called at the start.
LEMMA LimitsInit == Init => CallsWithinLimits
BY LimitType DEF Init, CallsWithinLimits

\* No operation takes a counter past its limit.
LEMMA LimitsStep == TypeOK /\ CallsWithinLimits /\ [Next]_vars => CallsWithinLimits'
<1>. SUFFICES ASSUME TypeOK, CallsWithinLimits, [Next]_vars
              PROVE  CallsWithinLimits'
  OBVIOUS
<1>. DEFINE Kept(k) == Limit[k] # None => calls'[k] <= Limit[k]
<1>1. ASSUME UNCHANGED <<calls, firstUsed>>, NEW k \in Kinds \ {Searches}
      PROVE  Kept(k)
  BY <1>1 DEF CallsWithinLimits
<1>2. ASSUME PlannerCalls, NEW k \in Kinds \ {Searches}
      PROVE  Kept(k)
  BY <1>2, LimitType
  DEF PlannerCalls, PlannerCallAllowed, RecordPlannerCall, HasRoom, Below,
      CallsWithinLimits, TypeOK, Kinds, Lookups
<1>3. ASSUME NEW task \in RegularTasks \cup Items, NEW searches \in Reported,
             WebCalls(task, searches), NEW k \in Kinds \ {Searches}
      PROVE  Kept(k)
  <2>1. CASE k \in {Role(task), Total}
    BY <1>3, <2>1, WebCallCounts, LimitType DEF HasRoom, Below, TypeOK
  <2>2. CASE k \notin {Role(task), Total}
    BY <1>3, <2>2, WebCallCounts DEF CallsWithinLimits
  <2>. QED
    BY <2>1, <2>2
<1>4. ASSUME NEW kind \in Lookups, LooksUp(kind), NEW k \in Kinds \ {Searches}
      PROVE  Kept(k)
  BY <1>4, LimitType DEF LooksUp, HasRoom, Below, CallsWithinLimits, TypeOK, Kinds
<1>5. ASSUME NEW t \in RetryKeys, Limit[Retry] # None
      PROVE  retries'[t] <= Limit[Retry]
  <2>1. CASE UNCHANGED retries
    BY <1>5, <2>1 DEF CallsWithinLimits
  <2>2. ASSUME NEW task \in RetryKeys, SpendRetry(task)
        PROVE  retries'[t] <= Limit[Retry]
    BY <1>5, <2>2, LimitType DEF SpendRetry, Below, CallsWithinLimits, TypeOK
  <2>. QED
    BY <2>1, <2>2, RetriesChange
<1>6. \A k \in Kinds \ {Searches} : Kept(k)
  BY <1>1, <1>2, <1>3, <1>4, CallsChange
<1>. QED
  BY <1>5, <1>6 DEF CallsWithinLimits

\* No role, total, lookup or retry counter ever exceeds its limit.
THEOREM LimitsAreHard == Spec => []CallsWithinLimits
BY TypeInit, TypeStep, LimitsInit, LimitsStep, PTL DEF Spec

-----------------------------------------------------------------------------
\* Every operation adds as much to the roles as to the total.
LEMMA RolesStep == TypeOK /\ RolesSumToTotal /\ [Next]_vars => RolesSumToTotal'
<1>. SUFFICES ASSUME TypeOK, RolesSumToTotal, [Next]_vars
              PROVE  RolesSumToTotal'
  OBVIOUS
<1>. USE DEF RolesSumToTotal
<1>1. CASE UNCHANGED <<calls, firstUsed>>
  BY <1>1
<1>2. CASE PlannerCalls
  BY <1>2 DEF PlannerCalls, RecordPlannerCall, TypeOK, Kinds, Lookups
<1>3. ASSUME NEW task \in RegularTasks \cup Items, NEW searches \in Reported,
             WebCalls(task, searches)
      PROVE  RolesSumToTotal'
  BY <1>3, WebCallCounts DEF TypeOK, Kinds
<1>4. ASSUME NEW kind \in Lookups, LooksUp(kind)
      PROVE  RolesSumToTotal'
  BY <1>4 DEF LooksUp, Lookups, TypeOK, Kinds
<1>. QED
  BY <1>1, <1>2, <1>3, <1>4, CallsChange

\* The total counter is the sum of the planner, web and recall counters.
THEOREM RolesAddUp == Spec => []RolesSumToTotal
<1>1. Init => RolesSumToTotal
  BY DEF Init, RolesSumToTotal, Kinds
<1>. QED
  BY <1>1, TypeInit, TypeStep, RolesStep, PTL DEF Spec

-----------------------------------------------------------------------------
\* A call is only granted below the search limit, so it overruns by its own report.
LEMMA OverrunStep == TypeOK /\ OverrunIsOneCall /\ [Next]_vars => OverrunIsOneCall'
<1>. SUFFICES ASSUME TypeOK, OverrunIsOneCall, [Next]_vars
              PROVE  OverrunIsOneCall'
  OBVIOUS
<1>. USE DEF OverrunIsOneCall
<1>1. CASE UNCHANGED <<calls, firstUsed>>
  BY <1>1
<1>2. CASE PlannerCalls
  BY <1>2 DEF PlannerCalls, RecordPlannerCall, TypeOK, Kinds, Lookups
<1>3. ASSUME NEW task \in RegularTasks \cup Items, NEW searches \in Reported,
             WebCalls(task, searches)
      PROVE  OverrunIsOneCall'
  BY <1>3, WebCallCounts, LimitType, BoundsAssumption DEF TypeOK, Kinds, HasRoom, Below
<1>4. ASSUME NEW kind \in Lookups, LooksUp(kind)
      PROVE  OverrunIsOneCall'
  BY <1>4 DEF LooksUp, Lookups, TypeOK, Kinds
<1>. QED
  BY <1>1, <1>2, <1>3, <1>4, CallsChange

\* Server-tool searches overrun their limit by less than one call's report.
THEOREM OverrunBounded == Spec => []OverrunIsOneCall
<1>1. Init => OverrunIsOneCall
  BY DEF Init, OverrunIsOneCall, Kinds
<1>. QED
  BY <1>1, TypeInit, TypeStep, OverrunStep, PTL DEF Spec

-----------------------------------------------------------------------------
(* First calls.  FirstCallsReserved is not inductive: while a portfolio is *)
(* being admitted, the room for its calls comes from the admission check,  *)
(* which counts every accepted item, guaranteed or not.                    *)

Reservation ==
  /\ phase \notin {"admit", "execute"} => accepted = {}
  /\ phase = "admit" /\ Limit[Recall] # None => calls[Recall] + Planned <= Limit[Recall]
  /\ FirstCallsReserved

\* Pending items are finitely many, and among the unserved ones.
LEMMA PendingFacts ==
  ASSUME TypeOK
  PROVE  /\ Pending \subseteq accepted /\ accepted \subseteq Items
         /\ Pending \subseteq Unserved /\ Unserved \subseteq Items
         /\ Cardinality(Pending) \in Nat /\ Cardinality(Pending) <= Planned
         /\ Planned \in Nat
         /\ Cardinality(Unserved) \in Nat /\ Cardinality(Pending) <= Cardinality(Unserved)
<1>1. /\ Pending \subseteq accepted /\ accepted \subseteq Items
      /\ Pending \subseteq Unserved /\ Unserved \subseteq Items
  BY DEF Pending, Unserved, TypeOK
<1>. QED
  BY <1>1, ItemsSubset DEF Planned

\* Whoever makes a granted web call, room for the calls still pending is left.
LEMMA GrantedCallLeavesRoom ==
  ASSUME TypeOK, FirstCallsReserved, Limit[Recall] # None,
         NEW task, NEW searches \in Reported, WebCalls(task, searches),
         task \in accepted \/ task \notin protected
  PROVE  calls'[Recall] + Cardinality(accepted \cap (guaranteed \ firstUsed')) <= Limit[Recall]
<1>. DEFINE left == accepted \cap (guaranteed \ firstUsed')
<1>1. left \subseteq Pending /\ Pending \subseteq Items
  BY PendingFacts DEF Pending, Unserved, WebCalls, RecordWebCall, TypeOK
<1>2. Cardinality(left) \in Nat /\ Cardinality(left) <= Cardinality(Pending)
  BY <1>1, ItemsSubset
<1>3. calls[Recall] \in Nat /\ Limit[Recall] \in Nat
  BY LimitType DEF TypeOK, Kinds
<1>4. CASE task \notin protected
  <2>1. calls'[Recall] = calls[Recall]
    BY <1>4, WebCallCounts DEF Role, Kinds
  <2>. QED
    BY <2>1, <1>2, <1>3, PendingFacts DEF FirstCallsReserved
<1>5. CASE task \in protected /\ task \in Unserved
  <2>1. calls'[Recall] = calls[Recall] + 1
    BY <1>5, WebCallCounts DEF Role
  <2>2. task \in Pending /\ left = Pending \ {task}
    BY <1>5 DEF Pending, Unserved, WebCalls, RecordWebCall, TypeOK
  <2>3. IsFiniteSet(Pending)
    BY <1>1, ItemsSubset
  <2>4. Cardinality(left) = Cardinality(Pending) - 1
    BY <2>2, <2>3, FS_RemoveElement
  <2>. QED
    BY <2>1, <2>4, <1>3, PendingFacts DEF FirstCallsReserved
<1>6. CASE task \in protected /\ task \notin Unserved
  <2>1. calls'[Recall] = calls[Recall] + 1
    BY <1>6, WebCallCounts DEF Role
  <2>2. LeavesFirstCalls(task) /\ calls[Recall] < Limit[Recall]
    BY <1>6 DEF WebCalls, WebCallAllowed, ProtectedCallAllowed, HasRoom, Below
  <2>3. CASE Unserved = {}
    <3>1. left = {}
      BY <2>3, <1>1, PendingFacts
    <3>. QED
      BY <3>1, <2>1, <2>2, <1>3, FS_EmptySet
  <2>4. CASE calls[Recall] + Cardinality(Unserved) < Limit[Recall]
    BY <2>4, <2>1, <1>2, <1>3, PendingFacts
  <2>. QED
    BY <2>2, <2>3, <2>4, <1>6 DEF LeavesFirstCalls, Below
<1>. QED
  BY <1>4, <1>5, <1>6

\* No item is accepted at the start.
LEMMA ReservationInit == Init => Reservation
<1>. SUFFICES ASSUME Init PROVE Reservation
  OBVIOUS
<1>1. Pending = {} /\ calls[Recall] = 0
  BY DEF Init, Pending, Kinds
<1>. QED
  BY <1>1, LimitType, FS_EmptySet DEF Init, Reservation, FirstCallsReserved, Kinds

\* Steps that change no counter and only take items away.
LEMMA ShrinkingKeepsReservation ==
  ASSUME TypeOK, Reservation,
         UNCHANGED <<guaranteed, firstUsed>>, calls'[Recall] = calls[Recall],
         accepted' \subseteq accepted,
         phase' # "admit" \/ UNCHANGED <<phase, accepted>>,
         phase' \notin {"admit", "execute"} => accepted' = {}
  PROVE  Reservation'
<1>1. Pending' \subseteq Pending
  BY DEF Pending, Unserved
<1>2. Cardinality(Pending') \in Nat /\ Cardinality(Pending') <= Cardinality(Pending)
  BY <1>1, PendingFacts, ItemsSubset
<1>3. calls[Recall] \in Nat /\ (Limit[Recall] = None \/ Limit[Recall] \in Nat)
  BY LimitType DEF TypeOK, Kinds
<1>4. FirstCallsReserved'
  BY <1>2, <1>3, PendingFacts DEF Reservation, FirstCallsReserved
<1>. QED
  BY <1>4 DEF Reservation, Planned

\* Every operation keeps the room that the accepted items were promised.
LEMMA ReservationStep ==
  TypeOK /\ CallsWithinLimits /\ Reservation /\ [Next]_vars => Reservation'
<1>. SUFFICES ASSUME TypeOK, CallsWithinLimits, Reservation, [Next]_vars
              PROVE  Reservation'
  OBVIOUS
<1>. USE DEF budget, portfolio
<1>0. TypeOK'
  BY TypeStep
<1>1. CASE PlannerCall \/ PlannerRetry
  <2>1. calls'[Recall] = calls[Recall]
    BY <1>1 DEF PlannerCall, PlannerRetry, RecordPlannerCall, TypeOK, Kinds, Lookups
  <2>. QED
    BY <1>1, <2>1, ShrinkingKeepsReservation DEF PlannerCall, PlannerRetry, Reservation
<1>2. ASSUME NEW minimum \in 0 .. MaxMinimum, BeginExecution(minimum)
      PROVE  Reservation'
  BY <1>2, ShrinkingKeepsReservation DEF BeginExecution, Reservation
<1>3. ASSUME NEW task \in RegularTasks, NEW searches \in Reported,
             RegularCall(task, searches) \/ RegularRetry(task, searches)
      PROVE  Reservation'
  <2>1. /\ accepted = {} /\ accepted' = {} /\ phase' = "regular"
    BY <1>3 DEF RegularCall, RegularRetry, Reservation
  <2>2. Pending' = {}
    BY <2>1 DEF Pending
  <2>3. Limit[Recall] # None => calls'[Recall] \in Nat /\ calls'[Recall] <= Limit[Recall]
    BY <1>0, LimitsStep DEF CallsWithinLimits, TypeOK, Kinds
  <2>. QED
    BY <2>1, <2>2, <2>3, LimitType, FS_EmptySet DEF Reservation, FirstCallsReserved, Kinds
<1>4. ASSUME NEW kind \in Lookups, Lookup(kind)
      PROVE  Reservation'
  <2>1. calls'[Recall] = calls[Recall]
    BY <1>4 DEF Lookup, TypeOK, Kinds, Lookups
  <2>. QED
    BY <1>4, <2>1, ShrinkingKeepsReservation DEF Lookup, Reservation
<1>5. ASSUME NEW b \in Bases, NEW items \in 0 .. MaxItems, NEW leading \in 0 .. MaxItems,
             BeginPortfolio(b, items, leading)
      PROVE  Reservation'
  <2>1. accepted' = {} /\ UNCHANGED <<calls, guaranteed, firstUsed>>
    BY <1>5 DEF BeginPortfolio, Reservation
  <2>2. Pending' = {} /\ Planned' = 0
    BY <2>1, FS_EmptySet DEF Pending, Planned
  <2>3. Limit[Recall] # None => calls[Recall] \in Nat /\ calls[Recall] <= Limit[Recall]
    BY DEF CallsWithinLimits, TypeOK, Kinds
  <2>. QED
    BY <1>5, <2>1, <2>2, <2>3, FS_EmptySet DEF BeginPortfolio, Reservation, FirstCallsReserved
<1>6. ASSUME NEW key \in ReserveKeys, AdmitItem(key)
      PROVE  Reservation'
  <2>1. UNCHANGED <<calls, firstUsed, phase>> /\ phase = "admit"
    BY <1>6 DEF AdmitItem
  <2>2. Limit[Recall] # None => calls[Recall] + Planned' <= Limit[Recall]
    <3>1. CASE Admissible(key)
      <4>1. accepted' = accepted \cup {<<base, next>>} /\ accepted \subseteq Items
        BY <1>6, <3>1, PendingFacts DEF AdmitItem
      <4>2. IsFiniteSet(accepted)
        BY <4>1, ItemsSubset
      <4>3. Planned' \in Nat /\ Planned' <= Planned + 1
        BY <4>1, <4>2, FS_AddElement, FS_CardinalityType DEF Planned
      <4>4. Limit[Recall] # None => calls[Recall] + Planned + 1 <= Limit[Recall]
        BY <3>1, LimitType
        DEF Admissible, FitsPlan, PreflightPasses, Positive, HasRoom, Below, TypeOK, Kinds
      <4>. QED
        BY <4>3, <4>4, PendingFacts, LimitType DEF TypeOK, Kinds
    <3>2. CASE ~Admissible(key)
      BY <1>6, <3>2 DEF AdmitItem, Reservation, Planned
    <3>. QED
      BY <3>1, <3>2
  <2>3. Cardinality(Pending') \in Nat /\ Planned' \in Nat /\ Cardinality(Pending') <= Planned'
    BY <1>0, ItemsSubset DEF Pending, Planned, TypeOK
  <2>4. calls'[Recall] \in Nat /\ (Limit[Recall] = None \/ Limit[Recall] \in Nat)
    BY <1>0, LimitType DEF TypeOK, Kinds
  <2>. QED
    BY <2>1, <2>2, <2>3, <2>4 DEF Reservation, FirstCallsReserved
<1>7. CASE EndAdmission
  BY <1>7, ShrinkingKeepsReservation DEF EndAdmission
<1>8. ASSUME NEW item \in Items, SkipItem(item) \/ FinishItem(item)
      PROVE  Reservation'
  BY <1>8, ShrinkingKeepsReservation DEF SkipItem, FinishItem, Done, Turn
<1>9. ASSUME NEW item \in Items, NEW searches \in Reported,
             CallItem(item, searches) \/ RetryItem(item, searches)
      PROVE  Reservation'
  <2>1. item \in accepted /\ UNCHANGED <<phase, guaranteed>> /\ phase = "execute"
    BY <1>9 DEF CallItem, RetryItem, Turn
  <2>2. CASE WebCallAllowed(item)
    <3>1. WebCalls(item, searches) /\ accepted' = accepted
      BY <1>9, <2>2 DEF CallItem, RetryItem, TryWebCall, WebCalls
    <3>2. Limit[Recall] # None => calls'[Recall] + Cardinality(Pending') <= Limit[Recall]
      BY <2>1, <3>1, GrantedCallLeavesRoom DEF Pending, Unserved, Reservation
    <3>. QED
      BY <2>1, <3>2 DEF Reservation, FirstCallsReserved
  <2>3. CASE ~WebCallAllowed(item)
    BY <1>9, <2>1, <2>3, ShrinkingKeepsReservation DEF CallItem, RetryItem, TryWebCall, Done
  <2>. QED
    BY <2>2, <2>3
<1>10. CASE EndPortfolio
  BY <1>10, ShrinkingKeepsReservation DEF EndPortfolio
<1>11. CASE UNCHANGED vars
  BY <1>11, ShrinkingKeepsReservation DEF vars, Reservation
<1>. QED
  BY <1>1, <1>2, <1>3, <1>4, <1>5, <1>6, <1>7, <1>8, <1>9, <1>10, <1>11 DEF Next

\* The recall limit always has room for every pending guaranteed first call.
THEOREM FirstCallsStayReserved == Spec => []FirstCallsReserved
<1>1. Reservation => FirstCallsReserved
  BY DEF Reservation
<1>. QED
  BY <1>1, TypeInit, TypeStep, LimitsInit, LimitsStep, ReservationInit, ReservationStep, PTL
  DEF Spec

-----------------------------------------------------------------------------
\* Every operation that marks a first call counts it.
LEMMA FirstCallsMadeStep == TypeOK /\ FirstCallsWereMade /\ [Next]_vars => FirstCallsWereMade'
<1>. SUFFICES ASSUME TypeOK, FirstCallsWereMade, [Next]_vars
              PROVE  FirstCallsWereMade'
  OBVIOUS
<1>. USE DEF FirstCallsWereMade
<1>0. /\ firstUsed \subseteq Items /\ calls[Recall] \in Nat
      /\ IsFiniteSet(firstUsed) /\ Cardinality(firstUsed) \in Nat
  BY ItemsSubset DEF TypeOK, Kinds
<1>1. CASE UNCHANGED <<calls, firstUsed>>
  BY <1>1
<1>2. CASE PlannerCalls
  BY <1>2 DEF PlannerCalls, RecordPlannerCall, TypeOK, Kinds, Lookups
<1>3. ASSUME NEW task \in RegularTasks \cup Items, NEW searches \in Reported,
             WebCalls(task, searches)
      PROVE  FirstCallsWereMade'
  <2>1. CASE task \in protected
    <3>1. calls'[Recall] = calls[Recall] + 1
      BY <1>3, <2>1, WebCallCounts DEF Role
    <3>2. firstUsed' = firstUsed \/ firstUsed' = firstUsed \cup {task}
      BY <1>3 DEF WebCalls, RecordWebCall
    <3>3. Cardinality(firstUsed') <= Cardinality(firstUsed) + 1
      BY <1>0, <3>2, FS_AddElement, SMTT(30)
    <3>. QED
      BY <1>0, <3>1, <3>2, <3>3, FS_AddElement, FS_CardinalityType
  <2>2. CASE task \notin protected
    <3>1. calls'[Recall] = calls[Recall]
      BY <1>3, <2>2, WebCallCounts DEF Role, Kinds
    <3>2. firstUsed' = firstUsed
      BY <1>3, <2>2 DEF WebCalls, RecordWebCall
    <3>. QED
      BY <3>1, <3>2
  <2>. QED
    BY <2>1, <2>2
<1>4. ASSUME NEW kind \in Lookups, LooksUp(kind)
      PROVE  FirstCallsWereMade'
  BY <1>4 DEF LooksUp, Lookups, TypeOK, Kinds
<1>. QED
  BY <1>1, <1>2, <1>3, <1>4, CallsChange

\* No first call is marked used that was not counted as a recall-expansion call.
THEOREM FirstCallsAreCounted == Spec => []FirstCallsWereMade
<1>1. Init => FirstCallsWereMade
  BY FS_EmptySet DEF Init, FirstCallsWereMade, Kinds
<1>. QED
  BY <1>1, TypeInit, TypeStep, FirstCallsMadeStep, PTL DEF Spec

-----------------------------------------------------------------------------
(* The reserve of the lane, before any guaranteed task is admitted.        *)

Reserve ==
  /\ phase = "planning" => calls[Web] = 0
  /\ RegularWorkLeavesReserve

\* Execution begins once, units are reserved then, and nothing is un-guaranteed.
LEMMA ReserveFrame ==
  ASSUME [Next]_vars
  PROVE  /\ guaranteed \subseteq guaranteed'
         /\ phase # "planning" => units' = units /\ phase' # "planning"
<1>. USE DEF budget, portfolio
<1>1. CASE PlannerCall \/ PlannerRetry
  BY <1>1 DEF PlannerCall, PlannerRetry
<1>2. ASSUME NEW minimum \in 0 .. MaxMinimum, BeginExecution(minimum)
      PROVE  guaranteed' = guaranteed /\ phase = "planning"
  BY <1>2 DEF BeginExecution
<1>3. ASSUME NEW task \in RegularTasks, NEW searches \in Reported,
             RegularCall(task, searches) \/ RegularRetry(task, searches)
      PROVE  UNCHANGED <<guaranteed, units, phase>>
  BY <1>3 DEF RegularCall, RegularRetry
<1>4. ASSUME NEW kind \in Lookups, Lookup(kind)
      PROVE  UNCHANGED <<guaranteed, units, phase>>
  BY <1>4 DEF Lookup
<1>5. ASSUME NEW b \in Bases, NEW items \in 0 .. MaxItems, NEW leading \in 0 .. MaxItems,
             BeginPortfolio(b, items, leading)
      PROVE  UNCHANGED <<guaranteed, units>> /\ phase' = "admit"
  BY <1>5 DEF BeginPortfolio
<1>6. ASSUME NEW key \in ReserveKeys, AdmitItem(key)
      PROVE  guaranteed \subseteq guaranteed' /\ UNCHANGED <<units, phase>>
  BY <1>6 DEF AdmitItem
<1>7. ASSUME NEW item \in Items, SkipItem(item) \/ FinishItem(item)
      PROVE  UNCHANGED <<guaranteed, units, phase>>
  BY <1>7 DEF SkipItem, FinishItem
<1>8. ASSUME NEW item \in Items, NEW searches \in Reported,
             CallItem(item, searches) \/ RetryItem(item, searches)
      PROVE  UNCHANGED <<guaranteed, units, phase>>
  BY <1>8 DEF CallItem, RetryItem
<1>9. CASE EndAdmission \/ EndPortfolio \/ UNCHANGED vars
  BY <1>9 DEF EndAdmission, EndPortfolio, vars
<1>. QED
  BY <1>1, <1>2, <1>3, <1>4, <1>5, <1>6, <1>7, <1>8, <1>9 DEF Next

\* Web calls are made in execution only.
LEMMA WebCallPhase ==
  ASSUME [Next]_vars, phase = "planning"
  PROVE  UNCHANGED <<calls, firstUsed>> \/ PlannerCalls
<1>. USE DEF budget
<1>1. CASE PlannerCall \/ PlannerRetry
  BY <1>1 DEF PlannerCall, PlannerRetry, PlannerCalls
<1>2. CASE ~(PlannerCall \/ PlannerRetry)
  BY <1>2
  DEF Next, vars, BeginExecution, RegularCall, RegularRetry, Lookup, BeginPortfolio,
      AdmitItem, EndAdmission, SkipItem, CallItem, RetryItem, FinishItem, EndPortfolio, Turn
<1>. QED
  BY <1>1, <1>2

\* Every operation leaves the lane its reserve.
LEMMA ReserveStep == TypeOK /\ Reserve /\ [Next]_vars => Reserve'
<1>. SUFFICES ASSUME TypeOK, Reserve, [Next]_vars
              PROVE  Reserve'
  OBVIOUS
<1>0. TypeOK'
  BY TypeStep
<1>1. CASE phase = "planning"
  <2>1. calls'[Web] = calls[Web]
    BY <1>1, WebCallPhase DEF PlannerCalls, RecordPlannerCall, TypeOK, Kinds, Lookups
  <2>. QED
    BY <1>1, <2>1 DEF Reserve, RegularWorkLeavesReserve
<1>2. CASE phase # "planning"
  <2>1. guaranteed \subseteq guaranteed' /\ units' = units /\ phase' # "planning"
    BY <1>2, ReserveFrame
  <2>2. SUFFICES ASSUME Limit[Total] # None, guaranteed' = {}, calls'[Web] > 0
                 PROVE  calls'[Total] + ReserveLeft' <= Limit[Total]
    BY <2>1 DEF Reserve, RegularWorkLeavesReserve
  <2>3. guaranteed = {} /\ Unserved = {}
    BY <2>1, <2>2 DEF Unserved
  <2>4. \A k \in {Total, Web, Recall} : calls[k] \in Nat /\ calls'[k] \in Nat
    BY <1>0 DEF TypeOK, Kinds
  <2>5. Limit[Total] \in Nat /\ units \in Nat
    BY <2>2, LimitType DEF TypeOK, Kinds
  <2>6. ASSUME \A k \in {Total, Web, Recall} : calls'[k] = calls[k]
        PROVE  calls'[Total] + ReserveLeft' <= Limit[Total]
    BY <2>1, <2>2, <2>3, <2>6 DEF Reserve, RegularWorkLeavesReserve, ReserveLeft
  <2>7. ASSUME NEW task \in RegularTasks \cup Items, NEW searches \in Reported,
               WebCalls(task, searches)
        PROVE  calls'[Total] + ReserveLeft' <= Limit[Total]
    <3>1. calls'[Total] = calls[Total] + 1 /\ calls[Total] < Limit[Total]
      BY <2>2, <2>7, WebCallCounts DEF HasRoom, Below
    <3>2. CASE task \in protected
      <4>1. calls'[Recall] = calls[Recall] + 1 /\ calls'[Web] = calls[Web]
        BY <2>7, <3>2, WebCallCounts DEF Role, Kinds
      <4>2. calls[Total] + ReserveLeft <= Limit[Total]
        BY <2>2, <2>3, <4>1 DEF Reserve, RegularWorkLeavesReserve
      <4>. QED
        BY <2>1, <2>4, <2>5, <3>1, <4>1, <4>2 DEF ReserveLeft
    <3>3. CASE task \notin protected
      <4>1. calls'[Recall] = calls[Recall]
        BY <2>7, <3>3, WebCallCounts DEF Role, Kinds
      <4>2. ReserveLeft = ReservedRemaining
        BY <2>3, <2>4, <2>5 DEF ReserveLeft, ReservedRemaining
      <4>3. ReserveLeft = 0 \/ calls[Total] + ReserveLeft < Limit[Total]
        BY <2>2, <2>7, <3>3, <4>2 DEF WebCalls, WebCallAllowed, RegularCallAllowed, Below
      <4>. QED
        BY <2>1, <2>4, <2>5, <3>1, <4>1, <4>3 DEF ReserveLeft
    <3>. QED
      BY <3>2, <3>3
  <2>8. ASSUME NEW kind \in Lookups, LooksUp(kind)
        PROVE  \A k \in {Total, Web, Recall} : calls'[k] = calls[k]
    BY <2>8 DEF LooksUp, Lookups, TypeOK, Kinds
  <2>. QED
    BY <1>2, <2>6, <2>7, <2>8, CallsChange DEF PlannerCalls
<1>. QED
  BY <1>1, <1>2

\* Regular work never eats into the capacity the lane has reserved.
THEOREM ReserveIsLeft == Spec => []RegularWorkLeavesReserve
<1>1. Init => Reserve
  BY DEF Init, Reserve, RegularWorkLeavesReserve, Kinds
<1>2. Reserve => RegularWorkLeavesReserve
  BY DEF Reserve
<1>. QED
  BY <1>1, <1>2, TypeInit, TypeStep, ReserveStep, PTL DEF Spec
=============================================================================
