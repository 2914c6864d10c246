--------------------- MODULE SignalMonitoringSeriesProofs ---------------------
(***************************************************************************)
(* The history of a series is sound for any number of runs, series,        *)
(* sources and pieces of evidence, any windows and any crashes.            *)
(***************************************************************************)
EXTENDS SignalMonitoringSeries, WellFoundedInduction, TLAPS

Mark == {Unmarked} \cup 0..MaxDay
FoundType == [fresh : SUBSET Items, evidence : SUBSET Items, keys : SUBSET Items]
RowType == [status : RunStatus, series : Series, override : BOOLEAN, asOf : 0..MaxDay,
            start : [Lanes -> Days], marks : [Lanes -> Mark], known : SUBSET Items,
            todo : SUBSET Sources, searched : SUBSET Sources, full : SUBSET Sources,
            found : FoundType, after : SUBSET Runs]
OutputType == [fresh : SUBSET Items, evidence : SUBSET Items, keys : SUBSET Items,
               marks : [Lanes -> Mark]]
ItemType == [day : 0..MaxDay, indexed : 0..MaxDay, dated : BOOLEAN]

\* the completed runs of its own series a run was queued after
Own(r) == {q \in run[r].after : run[q].series = run[r].series}

\* the frozen history of a run
HistorySound(r) ==
  /\ run[r].after \subseteq {q \in Runs : run[q].status = "completed"}
  /\ run[r].asOf <= today
  /\ \A q \in run[r].after : run[q].asOf <= run[r].asOf
  /\ run[r].known = UNION {output[q].keys : q \in Own(r)}
  /\ \A l \in Lanes :
       /\ run[r].marks[l] # Unmarked =>
            \E q \in Own(r) : SearchedLane(q, l) /\ run[r].marks[l] = run[q].asOf
       /\ \A q \in Own(r) : SearchedLane(q, l) => run[q].asOf <= run[r].marks[l]
       /\ run[r].start[l] = WindowStart(run[r].asOf, run[r].override, run[r].marks[l])

\* dated evidence a full answer had to cite
Owed(r, i) ==
  /\ SourceOf[i] \in run[r].full /\ item[i].dated
  /\ item[i].indexed <= run[r].asOf /\ InWindow(r, i)

\* what was found against what was known and what was there to be found
FoundSound(r, found) ==
  /\ found.fresh \cap run[r].known = {}
  /\ \A i \in Items : Owed(r, i) => i \in found.evidence

OutputSound(r) ==
  /\ r \notin run[r].after
  /\ output[r].marks = AdvancedMarks(r)
  /\ FoundSound(r, output[r])

RowSound(r) ==
  /\ run[r].status # "absent" => HistorySound(r)
  /\ run[r].status = "running" => FoundSound(r, run[r].found)
  /\ run[r].status = "completed" => OutputSound(r)

\* among the runs of a series that were queued late enough one was the first
Late(series, day) == {q \in CompletedOf(series) : run[q].asOf >= day}
FirstOfLate ==
  \A series \in Series, day \in Nat :
    Late(series, day) # {} => \E q \in Late(series, day) : run[q].after \cap Late(series, day) = {}

\* nothing is found before it is published
IndexedAfterItsDay == \A i \in Items : item[i].day <= item[i].indexed

IInv == TypeOK /\ IndexedAfterItsDay /\ (\A r \in Runs : RowSound(r)) /\ FirstOfLate

-----------------------------------------------------------------------------
\* Sets of marks have a greatest element

Below == {p \in Nat \X Nat : p[1] < p[2]}

LEMMA BelowIsWellFounded == IsWellFoundedOn(Below, Nat)
BY NatLessThanWellFounded, Zenon DEF OpToRel, Below

LEMMA LeastNatural ==
  ASSUME NEW S, S \subseteq Nat, S # {}
  PROVE  \E n \in S : \A m \in S : n <= m
<1>1. \E n \in S : \A m \in S : ~ (<<m, n>> \in Below)
  BY BelowIsWellFounded, WFMin, Zenon
<1>2. \A m, n \in S : ~ (<<m, n>> \in Below) => n <= m
  BY SMT DEF Below
<1> QED BY <1>1, <1>2

LEMMA MaximumOfMarks ==
  ASSUME NEW S, S \subseteq Mark, S # {}
  PROVE  Maximum(S) \in S /\ \A y \in S : y <= Maximum(S)
<1> DEFINE D == {MaxDay - x : x \in S}
<1>0. \A x \in S : x \in Int /\ MaxDay - x \in Nat
  BY DaysAssumption DEF Mark, Unmarked
<1>1. D \subseteq Nat /\ D # {}
  BY <1>0
<1>2. PICK n \in D : \A m \in D : n <= m
  BY <1>1, LeastNatural
<1>3. PICK x \in S : n = MaxDay - x
  BY <1>2
<1>4. \A y \in S : y <= x
  BY <1>2, <1>3, DaysAssumption DEF Mark, Unmarked
<1> QED
  BY <1>4 DEF Maximum

-----------------------------------------------------------------------------
\* Types

LEMMA TypeOKRows ==
  TypeOK <=> /\ today \in 0..MaxDay
             /\ item \in [Items -> ItemType]
             /\ run \in [Runs -> RowType]
             /\ output \in [Runs -> OutputType]
             /\ crashes \in 0..MaxCrashes
BY DEF TypeOK, RowType, FoundType, Mark, ItemType, OutputType

LEMMA TypeOKNextRows ==
  ASSUME today' \in 0..MaxDay, item' \in [Items -> ItemType],
         run' \in [Runs -> RowType], crashes' \in 0..MaxCrashes,
         output' \in [Runs -> OutputType]
  PROVE  TypeOK'
BY DEF TypeOK, RowType, FoundType, Mark, ItemType, OutputType

LEMMA UpdatedRow ==
  ASSUME NEW row \in RowType, NEW status \in RunStatus, NEW todo \in SUBSET Sources,
         NEW searched \in SUBSET Sources, NEW full \in SUBSET Sources, NEW found \in FoundType
  PROVE  /\ [row EXCEPT !.status = status, !.todo = todo, !.searched = searched, !.full = full,
                        !.found = found] \in RowType
         /\ [row EXCEPT !.status = status, !.found = found] \in RowType
BY DEF RowType

LEMMA AnsweredRow ==
  ASSUME NEW row \in RowType, NEW todo \in SUBSET Sources, NEW searched \in SUBSET Sources,
         NEW full \in SUBSET Sources, NEW found \in FoundType
  PROVE  [row EXCEPT !.todo = todo, !.searched = searched, !.full = full, !.found = found]
           \in RowType
BY DEF RowType

LEMMA UnansweredRow ==
  ASSUME NEW row \in RowType, NEW todo \in SUBSET Sources, NEW searched \in SUBSET Sources
  PROVE  /\ [row EXCEPT !.todo = todo, !.searched = searched] \in RowType
         /\ [row EXCEPT !.todo = todo] \in RowType
BY DEF RowType

LEMMA NothingFoundTyped == NothingFound \in FoundType
BY DEF NothingFound, FoundType

LEMMA NoRunTyped == NoRun \in RowType /\ NoOutput \in OutputType
<1>1. (CHOOSE s \in Series : TRUE) \in Series
  BY SeriesAssumption
<1> QED
  BY <1>1, DaysAssumption DEF NoRun, NoOutput, NothingFound, RowType, FoundType, OutputType, Mark, Unmarked, RunStatus, Days

LEMMA WatermarkTyped ==
  ASSUME TypeOK, NEW series \in Series, NEW l \in Lanes
  PROVE  LET S == {Unmarked} \cup {output[r].marks[l] : r \in OutputsForSeries(series)}
         IN  /\ PreviousWatermark(series, l) \in S /\ S \subseteq Mark
             /\ \A y \in S : y <= PreviousWatermark(series, l)
<1> DEFINE S == {Unmarked} \cup {output[r].marks[l] : r \in OutputsForSeries(series)}
<1>1. S \subseteq Mark /\ S # {}
  BY TypeOKRows DEF OutputsForSeries, Mark, OutputType
<1> HIDE DEF S
<1>2. Maximum(S) \in S /\ \A y \in S : y <= Maximum(S)
  BY <1>1, MaximumOfMarks
<1> QED
  BY <1>1, <1>2 DEF S, PreviousWatermark

LEMMA InitTyped == Init => TypeOK
<1> SUFFICES ASSUME Init PROVE TypeOK
  OBVIOUS
<1>1. today \in 0..MaxDay /\ crashes \in 0..MaxCrashes
  BY DaysAssumption DEF Init
<1>2. item \in [Items -> ItemType]
  BY Zenon DEF Init, ItemType
<1>3. run \in [Runs -> RowType]
  BY NoRunTyped DEF Init
<1>4. output \in [Runs -> OutputType]
  BY NoRunTyped DEF Init
<1> QED
  BY <1>1, <1>2, <1>3, <1>4, TypeOKRows

LEMMA WindowTyped ==
  ASSUME NEW asOf \in 0..MaxDay, NEW override \in BOOLEAN, NEW mark \in Mark
  PROVE  WindowStart(asOf, override, mark) \in Days
BY DaysAssumption DEF WindowStart, Days, Mark, Unmarked

\* the row of a run just queued
NewMarks(series) == [l \in Lanes |-> PreviousWatermark(series, l)]
NewStart(series, override) ==
  [l \in Lanes |-> WindowStart(today, override, NewMarks(series)[l])]
NewRow(series, override) ==
  [status |-> "queued", series |-> series, override |-> override, asOf |-> today,
   start |-> NewStart(series, override), marks |-> NewMarks(series),
   known |-> PreviousSourceKeys(series), todo |-> {}, searched |-> {}, full |-> {},
   found |-> NothingFound, after |-> {q \in Runs : run[q].status = "completed"}]

LEMMA QueuedRow ==
  ASSUME NEW r, NEW series, NEW override, QueueRun(r, series, override)
  PROVE  /\ run[r].status = "absent"
         /\ run' = [run EXCEPT ![r] = NewRow(series, override)]
         /\ UNCHANGED <<today, item, output, crashes>>
BY Zenon DEF QueueRun, NewMarks, NewStart, NewRow

LEMMA NewRowTyped ==
  ASSUME TypeOK, NEW series \in Series, NEW override \in BOOLEAN
  PROVE  NewRow(series, override) \in RowType
<1>1. NewMarks(series) \in [Lanes -> Mark]
  BY WatermarkTyped DEF NewMarks
<1>2. NewStart(series, override) \in [Lanes -> Days]
  BY <1>1, WindowTyped, TypeOKRows DEF NewStart
<1>3. PreviousSourceKeys(series) \in SUBSET Items
  BY TypeOKRows DEF PreviousSourceKeys, OutputsForSeries, OutputType
<1>4. today \in 0..MaxDay
  BY TypeOKRows
<1> QED
  BY <1>1, <1>2, <1>3, <1>4, NothingFoundTyped DEF NewRow, RowType, FoundType, RunStatus

\* the row of a run whose answer has just been evaluated
EvaluatedFound(r, cited) ==
  [fresh |-> run[r].found.fresh \cup (IF IsDuplicate(r, cited) THEN {} ELSE Confirmed(r, cited)),
   evidence |-> run[r].found.evidence \cup Confirmed(r, cited),
   keys |-> run[r].found.keys \cup Recorded(r, cited)]
FullAfter(r, s, cited) ==
  IF Due(r, s) \subseteq cited THEN run[r].full \cup {s} ELSE run[r].full
EvaluatedRow(r, s, cited) ==
  [run[r] EXCEPT !.todo = run[r].todo \ {s},
                 !.searched = run[r].searched \cup {s},
                 !.full = FullAfter(r, s, cited),
                 !.found = EvaluatedFound(r, cited)]

LEMMA EvaluatedAnswer ==
  ASSUME NEW r, NEW s, NEW cited, EvaluateAnswer(r, s, cited)
  PROVE  /\ run[r].status = "running" /\ s \in run[r].todo
         /\ run' = [run EXCEPT ![r] = EvaluatedRow(r, s, cited)]
         /\ UNCHANGED <<today, item, output, crashes>>
BY Zenon DEF EvaluateAnswer, NextSource, EvaluatedRow, EvaluatedFound, FullAfter

LEMMA EvaluatedRowTyped ==
  ASSUME NEW r, run[r] \in RowType, NEW s \in Sources, NEW cited \in SUBSET Indexed(s)
  PROVE  EvaluatedRow(r, s, cited) \in RowType
<1>1. cited \in SUBSET Items
  BY DEF Indexed
<1>2. Confirmed(r, cited) \in SUBSET Items /\ Recorded(r, cited) \in SUBSET Items
  BY <1>1 DEF Confirmed, Recorded
<1>3. run[r].found \in FoundType
  BY DEF RowType, FoundType
<1>4. EvaluatedFound(r, cited) \in FoundType
  BY <1>2, <1>3 DEF EvaluatedFound, FoundType
<1> DEFINE todo == run[r].todo \ {s}
           searched == run[r].searched \cup {s}
           full == FullAfter(r, s, cited)
<1>5. todo \in SUBSET Sources /\ searched \in SUBSET Sources /\ full \in SUBSET Sources
  BY DEF RowType, FullAfter
<1>6. EvaluatedRow(r, s, cited) = [run[r] EXCEPT !.todo = todo, !.searched = searched,
                                     !.full = full, !.found = EvaluatedFound(r, cited)]
  BY Zenon DEF EvaluatedRow
<1>7. [run[r] EXCEPT !.todo = todo, !.searched = searched, !.full = full,
                     !.found = EvaluatedFound(r, cited)] \in RowType
  <2> HIDE DEF todo, searched, full
  <2> QED
    BY <1>4, <1>5, AnsweredRow, Zenon
<1> QED
  BY <1>6, <1>7, Zenon

\* Every step keeps the types.
LEMMA StepTyped == TypeOK /\ [Next]_vars => TypeOK'
<1> SUFFICES ASSUME TypeOK, [Next]_vars PROVE TypeOK'
  OBVIOUS
<1>0. /\ today \in 0..MaxDay
      /\ item \in [Items -> ItemType]
      /\ run \in [Runs -> RowType]
      /\ output \in [Runs -> OutputType]
      /\ crashes \in 0..MaxCrashes
  BY TypeOKRows
<1>00. \A r \in Runs : run[r] \in RowType
  BY <1>0
<1>1. CASE NextDay
  <2>1. today' \in 0..MaxDay
    BY <1>0, <1>1, DaysAssumption DEF NextDay
  <2> QED
    BY <1>0, <1>1, <2>1, TypeOKNextRows DEF NextDay
<1>2. ASSUME NEW r \in Runs, NEW series \in Series, NEW override \in BOOLEAN,
             QueueRun(r, series, override)
      PROVE  TypeOK'
  <2>1. run' = [run EXCEPT ![r] = NewRow(series, override)]
    BY <1>2, QueuedRow
  <2>2. run' \in [Runs -> RowType]
    BY <1>0, <2>1, NewRowTyped
  <2> QED
    BY <1>0, <1>2, <2>2, QueuedRow, TypeOKNextRows
<1>3. ASSUME NEW r \in Runs, StartRun(r)
      PROVE  TypeOK'
  <2> DEFINE row == [run[r] EXCEPT !.status = "running", !.todo = Sources, !.searched = {},
                                   !.full = {}, !.found = NothingFound]
  <2>1. row \in RowType
    BY <1>00, UpdatedRow, NothingFoundTyped DEF RunStatus
  <2>2. run' = [run EXCEPT ![r] = row]
    BY <1>3 DEF StartRun
  <2>3. run' \in [Runs -> RowType]
    BY <1>0, <2>1, <2>2
  <2> QED
    BY <1>0, <1>3, <2>3, TypeOKNextRows DEF StartRun
<1>4. ASSUME NEW r \in Runs, NEW status \in {"failed", "lost"},
             run' = [run EXCEPT ![r].status = status, ![r].todo = {}, ![r].searched = {},
                                ![r].full = {}, ![r].found = NothingFound],
             crashes' = crashes \/ (crashes < MaxCrashes /\ crashes' = crashes + 1),
             UNCHANGED <<today, item, output>>
      PROVE  TypeOK'
  <2> DEFINE row == [run[r] EXCEPT !.status = status, !.todo = {}, !.searched = {},
                                   !.full = {}, !.found = NothingFound]
  <2>1. row \in RowType
    BY <1>00, UpdatedRow, NothingFoundTyped DEF RunStatus
  <2>2. run' = [run EXCEPT ![r] = row]
    BY <1>4
  <2>3. run' \in [Runs -> RowType]
    BY <1>0, <2>1, <2>2
  <2>4. crashes' \in 0..MaxCrashes
    BY <1>0, <1>4, DaysAssumption
  <2> QED
    BY <1>0, <1>4, <2>3, <2>4, TypeOKNextRows
<1>5. ASSUME NEW r \in Runs, CompleteRun(r)
      PROVE  TypeOK'
  <2> DEFINE row == [run[r] EXCEPT !.status = "completed", !.found = NothingFound]
  <2>1. row \in RowType
    BY <1>00, UpdatedRow, NothingFoundTyped DEF RunStatus
  <2>2. run' = [run EXCEPT ![r] = row]
    BY <1>5 DEF CompleteRun
  <2>3. run' \in [Runs -> RowType]
    BY <1>0, <2>1, <2>2
  <2>4. run[r].found \in FoundType /\ AdvancedMarks(r) \in [Lanes -> Mark]
    BY <1>00 DEF FoundType, AdvancedMarks, RowType, Mark
  <2>5. output' \in [Runs -> OutputType]
    BY <1>0, <1>5, <2>4 DEF CompleteRun, FoundType, OutputType
  <2> QED
    BY <1>0, <1>5, <2>3, <2>5, TypeOKNextRows DEF CompleteRun
<1>6. ASSUME NEW r \in Runs, NEW s \in Sources, NEW cited \in SUBSET Indexed(s),
             EvaluateAnswer(r, s, cited)
      PROVE  TypeOK'
  <2>1. run' = [run EXCEPT ![r] = EvaluatedRow(r, s, cited)]
    BY <1>6, EvaluatedAnswer
  <2>2. run' \in [Runs -> RowType]
    BY <1>0, <1>00, <2>1, EvaluatedRowTyped
  <2> QED
    BY <1>0, <1>6, <2>2, TypeOKNextRows DEF EvaluateAnswer
<1>11. ASSUME NEW r \in Runs, NEW s \in Sources, DropAnswer(r, s)
      PROVE  TypeOK'
  <2> DEFINE row == [run[r] EXCEPT !.todo = run[r].todo \ {s},
                                   !.searched = run[r].searched \cup {s}]
  <2>1. row \in RowType
    <3>1. run[r].todo \ {s} \in SUBSET Sources /\ run[r].searched \cup {s} \in SUBSET Sources
      BY <1>00 DEF RowType
    <3> QED
      BY <1>00, <3>1, UnansweredRow
  <2>2. run' = [run EXCEPT ![r] = row]
    BY <1>11 DEF DropAnswer
  <2>3. run' \in [Runs -> RowType]
    BY <1>0, <2>1, <2>2
  <2> QED
    BY <1>0, <1>11, <2>3, TypeOKNextRows DEF DropAnswer
<1>7. ASSUME NEW r \in Runs, NEW s \in Sources, SearchFails(r, s)
      PROVE  TypeOK'
  <2> DEFINE row == [run[r] EXCEPT !.todo = run[r].todo \ {s}]
  <2>1. row \in RowType
    <3>1. run[r].todo \ {s} \in SUBSET Sources
      BY <1>00 DEF RowType
    <3> QED
      BY <1>00, <3>1, UnansweredRow
  <2>2. run' = [run EXCEPT ![r] = row]
    BY <1>7 DEF SearchFails
  <2>3. run' \in [Runs -> RowType]
    BY <1>0, <2>1, <2>2
  <2> QED
    BY <1>0, <1>7, <2>3, TypeOKNextRows DEF SearchFails
<1>8. CASE UNCHANGED vars
  BY <1>0, <1>8, TypeOKNextRows DEF vars
<1>9. ASSUME NEW r \in Runs, FailRun(r)
      PROVE  TypeOK'
  <2>1. /\ run' = [run EXCEPT ![r].status = "failed", ![r].todo = {}, ![r].searched = {},
                              ![r].full = {}, ![r].found = NothingFound]
        /\ crashes' = crashes /\ UNCHANGED <<today, item, output>>
    BY <1>9 DEF FailRun
  <2> QED
    BY <2>1, <1>4
<1>10. ASSUME NEW r \in Runs, CrashRun(r)
       PROVE  TypeOK'
  BY <1>4, <1>10 DEF CrashRun
<1> QED
  BY <1>1, <1>2, <1>3, <1>5, <1>6, <1>7, <1>8, <1>9, <1>10, <1>11 DEF Next

-----------------------------------------------------------------------------
\* What a step leaves as it was

Kept ==
  /\ item' = item /\ today' >= today
  /\ \A r \in Runs : run[r].status # "absent" =>
       /\ run'[r].status # "absent" /\ run'[r].series = run[r].series
       /\ run'[r].override = run[r].override /\ run'[r].asOf = run[r].asOf
       /\ run'[r].start = run[r].start /\ run'[r].marks = run[r].marks
       /\ run'[r].known = run[r].known /\ run'[r].after = run[r].after
  /\ \A r \in Runs : run[r].status = "completed" => run'[r] = run[r] /\ output'[r] = output[r]

Same(r) == run'[r] = run[r] /\ output'[r] = output[r]

SameSnapshot(r) ==
  /\ run'[r].series = run[r].series /\ run'[r].override = run[r].override
  /\ run'[r].asOf = run[r].asOf /\ run'[r].start = run[r].start
  /\ run'[r].marks = run[r].marks /\ run'[r].known = run[r].known
  /\ run'[r].after = run[r].after

\* A step of a run in execution that keeps its snapshot.
LEMMA OneRunKept ==
  ASSUME NEW r \in Runs, run[r].status = "running", run'[r].status # "absent", SameSnapshot(r),
         \A q \in Runs \ {r} : run'[q] = run[q],
         UNCHANGED <<today, item, output>>, today \in Int
  PROVE  Kept
BY DEF Kept, SameSnapshot

LEMMA EvaluatedRun ==
  ASSUME NEW r \in Runs, NEW s, NEW cited, DOMAIN run = Runs, run[r] \in RowType,
         EvaluateAnswer(r, s, cited)
  PROVE  /\ run[r].status = "running" /\ run'[r].status = "running"
         /\ SameSnapshot(r)
         /\ run'[r].searched = run[r].searched \cup {s}
         /\ run'[r].found = EvaluatedFound(r, cited)
         /\ run'[r].full = FullAfter(r, s, cited)
         /\ \A q \in Runs \ {r} : run'[q] = run[q]
         /\ UNCHANGED <<today, item, output>>
<1> DEFINE row == EvaluatedRow(r, s, cited)
<1>1. /\ row.status = run[r].status /\ row.series = run[r].series
      /\ row.override = run[r].override /\ row.asOf = run[r].asOf
      /\ row.start = run[r].start /\ row.marks = run[r].marks
      /\ row.known = run[r].known /\ row.after = run[r].after
      /\ row.searched = run[r].searched \cup {s}
      /\ row.found = EvaluatedFound(r, cited)
      /\ row.full = FullAfter(r, s, cited)
  BY DEF EvaluatedRow, RowType
<1>2. /\ run[r].status = "running" /\ run'[r] = row
      /\ \A q \in Runs \ {r} : run'[q] = run[q]
      /\ UNCHANGED <<today, item, output>>
  BY EvaluatedAnswer
<1> HIDE DEF row
<1> QED
  BY <1>1, <1>2 DEF SameSnapshot

\* Snapshots are frozen and outputs are final.
LEMMA StepKeeps == TypeOK /\ [Next]_vars => Kept
<1> SUFFICES ASSUME TypeOK, [Next]_vars PROVE Kept
  OBVIOUS
<1>0. /\ today \in Int /\ DOMAIN run = Runs /\ DOMAIN output = Runs
      /\ \A r \in Runs : run[r] \in RowType
  BY TypeOKRows
<1> USE DEF Kept
<1>1. CASE NextDay
  BY <1>0, <1>1 DEF NextDay
<1>2. ASSUME NEW r \in Runs, NEW series \in Series, NEW override \in BOOLEAN,
             QueueRun(r, series, override)
      PROVE  Kept
  BY <1>0, <1>2, QueuedRow
<1>3. ASSUME NEW r \in Runs, StartRun(r)
      PROVE  Kept
  BY <1>0, <1>3 DEF StartRun, RowType
<1>4. ASSUME NEW r \in Runs, CompleteRun(r)
      PROVE  Kept
  BY <1>0, <1>4 DEF CompleteRun, RowType
<1>5. ASSUME NEW r \in Runs, FailRun(r) \/ CrashRun(r)
      PROVE  Kept
  <2>1. CASE FailRun(r)
    BY <1>0, <2>1, OneRunKept DEF FailRun, SameSnapshot, RowType
  <2>2. CASE CrashRun(r)
    BY <1>0, <2>2, OneRunKept DEF CrashRun, SameSnapshot, RowType
  <2> QED
    BY <1>5, <2>1, <2>2
<1>6. ASSUME NEW r \in Runs, NEW s \in Sources, DropAnswer(r, s) \/ SearchFails(r, s)
      PROVE  Kept
  <2>1. CASE DropAnswer(r, s)
    BY <1>0, <2>1, OneRunKept DEF DropAnswer, SameSnapshot, RowType
  <2>2. CASE SearchFails(r, s)
    BY <1>0, <2>2, OneRunKept DEF SearchFails, SameSnapshot, RowType
  <2> QED
    BY <1>6, <2>1, <2>2
<1>8. ASSUME NEW r \in Runs, NEW s \in Sources, NEW cited, EvaluateAnswer(r, s, cited)
      PROVE  Kept
  BY <1>0, <1>8, EvaluatedRun, OneRunKept
<1>7. CASE UNCHANGED vars
  BY <1>0, <1>7 DEF vars
<1> QED
  BY <1>1, <1>2, <1>3, <1>4, <1>5, <1>6, <1>7, <1>8 DEF Next

\* The history of a run stays what it was.
LEMMA HistoryKept ==
  ASSUME TypeOK, TypeOK', Kept, NEW r \in Runs, run[r].status # "absent", HistorySound(r)
  PROVE  HistorySound(r)'
<1>0. run[r] \in RowType /\ today \in Int /\ today' \in Int /\ DOMAIN run = Runs
  BY TypeOKRows DEF TypeOK
<1>1. /\ run'[r].series = run[r].series /\ run'[r].asOf = run[r].asOf
      /\ run'[r].override = run[r].override /\ run'[r].start = run[r].start
      /\ run'[r].marks = run[r].marks /\ run'[r].known = run[r].known
      /\ run'[r].after = run[r].after
  BY DEF Kept
<1>2. \A q \in run[r].after : q \in Runs /\ run'[q] = run[q] /\ output'[q] = output[q]
  BY <1>0 DEF HistorySound, Kept
<1>3. Own(r)' = Own(r)
  BY <1>1, <1>2 DEF Own
<1>4. \A q \in Own(r), l \in Lanes :
        (SearchedLane(q, l)' <=> SearchedLane(q, l)) /\ run'[q] = run[q]
  BY <1>2 DEF SearchedLane, Own
<1>5. run'[r].after \subseteq {q \in Runs : run'[q].status = "completed"}
  BY <1>1, <1>2 DEF HistorySound
<1>6. run'[r].asOf <= today'
  BY <1>0, <1>1 DEF HistorySound, Kept, RowType
<1>7. \A q \in run'[r].after : run'[q].asOf <= run'[r].asOf
  BY <1>1, <1>2 DEF HistorySound
<1>8. run'[r].known = UNION {output'[q].keys : q \in Own(r)'}
  <2>1. \A q \in Own(r) : output'[q] = output[q]
    BY <1>2 DEF Own
  <2> QED
    BY <1>1, <1>3, <2>1 DEF HistorySound
<1>9. ASSUME NEW l \in Lanes
      PROVE  /\ run'[r].marks[l] # Unmarked =>
                  \E q \in Own(r)' : SearchedLane(q, l)' /\ run'[r].marks[l] = run'[q].asOf
             /\ \A q \in Own(r)' : SearchedLane(q, l)' => run'[q].asOf <= run'[r].marks[l]
             /\ run'[r].start[l] = WindowStart(run'[r].asOf, run'[r].override, run'[r].marks[l])
  BY <1>1, <1>3, <1>4 DEF HistorySound
<1> QED
  BY <1>5, <1>6, <1>7, <1>8, <1>9 DEF HistorySound

LEMMA OwedKept ==
  ASSUME Kept, NEW r \in Runs, run'[r] = run[r], NEW i \in Items
  PROVE  Owed(r, i)' <=> Owed(r, i)
BY DEF Kept, Owed, InWindow

\* A run the step is not about stays sound.
LEMMA OthersSound ==
  ASSUME TypeOK, TypeOK', Kept, NEW r \in Runs, RowSound(r), Same(r)
  PROVE  RowSound(r)'
<1>1. run'[r].status # "absent" => HistorySound(r)'
  BY HistoryKept DEF Same, RowSound
<1>2. run'[r].status = "running" => FoundSound(r, run[r].found)'
  BY OwedKept DEF Same, RowSound, FoundSound
<1>3. AdvancedMarks(r)' = AdvancedMarks(r)
  BY DEF AdvancedMarks, Same
<1>4. run'[r].status = "completed" => OutputSound(r)'
  BY <1>3, OwedKept DEF Same, RowSound, OutputSound, FoundSound
<1> QED
  BY <1>1, <1>2, <1>4 DEF RowSound

-----------------------------------------------------------------------------
\* What a step makes of the run it is about

\* Every mark of the series comes from a completed run that searched the lane.
LEMMA MarkHasASearch ==
  ASSUME TypeOK, \A r \in Runs : RowSound(r), NEW series \in Series, NEW l \in Lanes
  PROVE  /\ PreviousWatermark(series, l) # Unmarked =>
              \E q \in OutputsForSeries(series) :
                SearchedLane(q, l) /\ PreviousWatermark(series, l) = run[q].asOf
         /\ \A q \in OutputsForSeries(series) :
              SearchedLane(q, l) => run[q].asOf <= PreviousWatermark(series, l)
<1> DEFINE O == OutputsForSeries(series)
           S == {Unmarked} \cup {output[q].marks[l] : q \in O}
<1>1. PreviousWatermark(series, l) \in S /\ \A y \in S : y <= PreviousWatermark(series, l)
  BY WatermarkTyped
<1>2. \A q \in O : q \in Runs /\ run[q].status = "completed" /\ run[q].series = series
  BY DEF OutputsForSeries
<1>3. ASSUME NEW q \in O
      PROVE  /\ HistorySound(q)
             /\ output[q].marks[l] = IF SearchedLane(q, l) THEN run[q].asOf
                                                           ELSE run[q].marks[l]
  <2>1. HistorySound(q) /\ output[q].marks = AdvancedMarks(q)
    BY <1>2 DEF RowSound, OutputSound
  <2>2. AdvancedMarks(q)[l] = IF SearchedLane(q, l) THEN run[q].asOf ELSE run[q].marks[l]
    BY DEF AdvancedMarks, SearchedLane
  <2> QED
    BY <2>1, <2>2
<1>4. ASSUME PreviousWatermark(series, l) # Unmarked
      PROVE  \E q \in O : SearchedLane(q, l) /\ PreviousWatermark(series, l) = run[q].asOf
  <2>1. PICK q \in O : PreviousWatermark(series, l) = output[q].marks[l]
    BY <1>1, <1>4
  <2>2. CASE SearchedLane(q, l)
    BY <1>3, <2>1, <2>2
  <2>3. CASE ~ SearchedLane(q, l)
    <3>1. PICK p \in Own(q) : SearchedLane(p, l) /\ run[q].marks[l] = run[p].asOf
      BY <1>3, <1>4, <2>1, <2>3 DEF HistorySound
    <3>2. p \in O
      BY <1>2, <1>3 DEF HistorySound, Own, OutputsForSeries
    <3> QED
      BY <1>3, <2>1, <2>3, <3>1, <3>2
  <2> QED
    BY <2>2, <2>3
<1>5. \A q \in O : SearchedLane(q, l) => run[q].asOf <= PreviousWatermark(series, l)
  BY <1>1, <1>3
<1> QED
  BY <1>4, <1>5

LEMMA QueuedSound ==
  ASSUME TypeOK, \A r \in Runs : RowSound(r),
         NEW r \in Runs, NEW series \in Series, NEW override \in BOOLEAN,
         QueueRun(r, series, override)
  PROVE  RowSound(r)'
<1>0. DOMAIN run = Runs /\ today \in Int
  BY TypeOKRows
<1>1. /\ run[r].status = "absent" /\ today' = today /\ output' = output
      /\ run'[r] = NewRow(series, override)
      /\ \A q \in Runs : q # r => run'[q] = run[q]
  BY <1>0, QueuedRow
<1>2. /\ run'[r].status = "queued" /\ run'[r].series = series /\ run'[r].override = override
      /\ run'[r].asOf = today /\ run'[r].start = NewStart(series, override)
      /\ run'[r].marks = NewMarks(series) /\ run'[r].known = PreviousSourceKeys(series)
      /\ run'[r].after = {q \in Runs : run[q].status = "completed"}
  BY <1>1 DEF NewRow
<1>3. \A q \in run'[r].after : q \in Runs /\ run[q].status = "completed" /\ run'[q] = run[q]
  BY <1>1, <1>2
<1>4. Own(r)' = OutputsForSeries(series)
  <2>1. Own(r)' = {q \in run'[r].after : run'[q].series = run'[r].series}
    BY DEF Own
  <2>2. \A q : q \in Own(r)' <=> q \in OutputsForSeries(series)
    BY <1>2, <1>3, <2>1 DEF OutputsForSeries
  <2> QED
    BY <2>2
<1>5. \A q \in Own(r)', l \in Lanes :
        (SearchedLane(q, l)' <=> SearchedLane(q, l)) /\ run'[q] = run[q]
  BY <1>3 DEF Own, SearchedLane
<1>6. \A q \in run'[r].after : run'[q].asOf <= run'[r].asOf
  BY <1>2, <1>3 DEF RowSound, HistorySound
<1>7. ASSUME NEW l \in Lanes
      PROVE  /\ run'[r].marks[l] # Unmarked =>
                  \E q \in Own(r)' : SearchedLane(q, l)' /\ run'[r].marks[l] = run'[q].asOf
             /\ \A q \in Own(r)' : SearchedLane(q, l)' => run'[q].asOf <= run'[r].marks[l]
             /\ run'[r].start[l] = WindowStart(run'[r].asOf, run'[r].override, run'[r].marks[l])
  <2>1. run'[r].marks[l] = PreviousWatermark(series, l)
    BY <1>2 DEF NewMarks
  <2>2. run'[r].start[l] = WindowStart(run'[r].asOf, run'[r].override, run'[r].marks[l])
    BY <1>2 DEF NewStart
  <2> QED
    BY <1>4, <1>5, <2>1, <2>2, MarkHasASearch
<1>8. run'[r].known = UNION {output'[q].keys : q \in Own(r)'}
  BY <1>1, <1>2, <1>4 DEF PreviousSourceKeys
<1>9. HistorySound(r)'
  BY <1>0, <1>1, <1>2, <1>3, <1>6, <1>7, <1>8 DEF HistorySound
<1> QED
  BY <1>2, <1>9 DEF RowSound

\* An execution that starts, or starts again, has searched nothing.
LEMMA StartedSound ==
  ASSUME TypeOK, TypeOK', Kept, NEW r \in Runs, RowSound(r), StartRun(r)
  PROVE  RowSound(r)'
<1>1. /\ run[r].status # "absent" /\ run'[r].status = "running" /\ run'[r].full = {}
      /\ run'[r].found = NothingFound
  BY TypeOKRows DEF StartRun
<1> QED
  BY <1>1, HistoryKept DEF RowSound, FoundSound, Owed, NothingFound

LEMMA EndedSound ==
  ASSUME TypeOK, TypeOK', Kept, NEW r \in Runs, RowSound(r), FailRun(r) \/ CrashRun(r)
  PROVE  RowSound(r)'
<1>0. DOMAIN run = Runs /\ run[r] \in RowType
  BY TypeOKRows
<1>1. run[r].status = "running" /\ run'[r].status \in {"failed", "lost"}
  BY <1>0 DEF FailRun, CrashRun, RowType
<1> QED
  BY <1>1, HistoryKept DEF RowSound

\* Nothing is added for a search that failed or an answer that is dropped.
LEMMA DroppedSound ==
  ASSUME TypeOK, TypeOK', Kept, NEW r \in Runs, RowSound(r), NEW s \in Sources,
         DropAnswer(r, s) \/ SearchFails(r, s)
  PROVE  RowSound(r)'
<1>0. DOMAIN run = Runs /\ run[r] \in RowType
  BY TypeOKRows
<1>1. /\ run[r].status = "running" /\ run'[r].status = "running"
      /\ run'[r].asOf = run[r].asOf /\ run'[r].start = run[r].start /\ item' = item
      /\ run'[r].full = run[r].full /\ run'[r].found = run[r].found
      /\ run'[r].known = run[r].known
  BY <1>0 DEF DropAnswer, SearchFails, RowType
<1>2. \A i \in Items : Owed(r, i)' <=> Owed(r, i)
  BY <1>1 DEF Owed, InWindow
<1>3. FoundSound(r, run[r].found)'
  BY <1>1, <1>2 DEF RowSound, FoundSound
<1> QED
  BY <1>1, <1>3, HistoryKept DEF RowSound

\* A whole answer is kept as evidence, and reported as new if nothing of it was
\* known.
LEMMA EvaluatedSound ==
  ASSUME TypeOK, TypeOK', Kept, NEW r \in Runs, RowSound(r), NEW s \in Sources,
         NEW cited \in SUBSET Indexed(s), EvaluateAnswer(r, s, cited)
  PROVE  RowSound(r)'
<1>0. /\ DOMAIN run = Runs /\ run[r] \in RowType /\ today \in Int
      /\ item \in [Items -> ItemType]
  BY TypeOKRows
<1>1. /\ run[r].status = "running" /\ run'[r].status = "running"
      /\ run'[r].asOf = run[r].asOf /\ run'[r].start = run[r].start /\ item' = item
      /\ run'[r].found = EvaluatedFound(r, cited) /\ run'[r].known = run[r].known
      /\ run'[r].full = FullAfter(r, s, cited)
  BY <1>0, EvaluatedRun DEF SameSnapshot
<1>2. HistorySound(r) /\ FoundSound(r, run[r].found)
  BY <1>1 DEF RowSound
<1>3. /\ run'[r].found.evidence = run[r].found.evidence \cup Confirmed(r, cited)
      /\ run'[r].found.fresh = run[r].found.fresh
                                \cup (IF IsDuplicate(r, cited) THEN {} ELSE Confirmed(r, cited))
  BY <1>1 DEF EvaluatedFound
<1>4. run'[r].found.fresh \cap run'[r].known = {}
  <2>1. Confirmed(r, cited) \subseteq cited
    BY DEF Confirmed
  <2>2. ~ IsDuplicate(r, cited) => Confirmed(r, cited) \cap run[r].known = {}
    BY <2>1 DEF IsDuplicate
  <2> QED
    BY <1>1, <1>2, <1>3, <2>2 DEF FoundSound
<1>5. ASSUME NEW i \in Items, Owed(r, i)'
      PROVE  i \in run'[r].found.evidence
  <2>1. /\ SourceOf[i] \in run'[r].full /\ item[i].dated
        /\ item[i].indexed <= run[r].asOf /\ InWindow(r, i)
    BY <1>1, <1>5 DEF Owed, InWindow
  <2>2. item[i].indexed <= today
    <3>1. item[i].indexed \in Int /\ run[r].asOf \in Int
      BY <1>0, DaysAssumption DEF RowType, ItemType
    <3> QED
      BY <1>0, <1>2, <2>1, <3>1 DEF HistorySound
  <2>3. CASE SourceOf[i] \in run[r].full
    BY <1>2, <1>3, <2>1, <2>3 DEF Owed, FoundSound
  <2>4. CASE SourceOf[i] \notin run[r].full
    <3>1. SourceOf[i] = s /\ Due(r, s) \subseteq cited
      BY <1>1, <2>1, <2>4 DEF FullAfter
    <3>2. i \in cited
      BY <2>1, <2>2, <3>1 DEF Due, Indexed
    <3> QED
      BY <1>3, <2>1, <3>2 DEF Confirmed
  <2> QED
    BY <2>3, <2>4
<1>6. FoundSound(r, run[r].found)'
  BY <1>4, <1>5 DEF FoundSound
<1> QED
  BY <1>1, <1>6, HistoryKept DEF RowSound

\* The output of a run is what its searches and its snapshot make of it.
LEMMA CompletedSound ==
  ASSUME TypeOK, TypeOK', Kept, NEW r \in Runs, RowSound(r), CompleteRun(r)
  PROVE  RowSound(r)'
<1>0. DOMAIN run = Runs /\ DOMAIN output = Runs /\ run[r] \in RowType
  BY TypeOKRows
<1>1. /\ run[r].status = "running" /\ run'[r].status = "completed"
      /\ run'[r].asOf = run[r].asOf /\ run'[r].start = run[r].start
      /\ run'[r].marks = run[r].marks /\ run'[r].known = run[r].known
      /\ run'[r].searched = run[r].searched /\ run'[r].after = run[r].after
      /\ run'[r].full = run[r].full
      /\ output'[r] = [fresh |-> run[r].found.fresh, evidence |-> run[r].found.evidence,
                       keys |-> run[r].found.keys, marks |-> AdvancedMarks(r)]
      /\ item' = item
  BY <1>0 DEF CompleteRun, RowType
<1>2. HistorySound(r) /\ FoundSound(r, run[r].found)
  BY <1>1 DEF RowSound
<1>3. r \notin run'[r].after
  BY <1>1, <1>2 DEF HistorySound
<1>4. output'[r].marks = AdvancedMarks(r)'
  BY <1>1 DEF AdvancedMarks
<1>5. \A i \in Items : Owed(r, i)' <=> Owed(r, i)
  BY <1>1 DEF Owed, InWindow
<1>6. FoundSound(r, output[r])'
  BY <1>1, <1>2, <1>5 DEF FoundSound
<1> QED
  BY <1>1, <1>3, <1>4, <1>6, HistoryKept DEF RowSound, OutputSound

LEMMA StepSound ==
  ASSUME TypeOK, TypeOK', Kept, [Next]_vars, \A r \in Runs : RowSound(r)
  PROVE  \A r \in Runs : RowSound(r)'
<1>0. DOMAIN run = Runs /\ DOMAIN output = Runs
  BY TypeOKRows
<1> SUFFICES ASSUME NEW r \in Runs PROVE RowSound(r)'
  OBVIOUS
<1>1. CASE Same(r)
  BY <1>1, OthersSound
<1>2. CASE NextDay
  BY <1>2, OthersSound DEF NextDay, Same
<1>3. ASSUME NEW q \in Runs, NEW series \in Series, NEW override \in BOOLEAN,
             QueueRun(q, series, override)
      PROVE  RowSound(r)'
  <2>1. r # q => Same(r)
    BY <1>0, <1>3, QueuedRow DEF Same
  <2> QED
    BY <1>1, <1>3, <2>1, QueuedSound
<1>4. ASSUME NEW q \in Runs, StartRun(q)
      PROVE  RowSound(r)'
  <2>1. r # q => Same(r)
    BY <1>0, <1>4 DEF StartRun, Same
  <2> QED
    BY <1>1, <1>4, <2>1, StartedSound
<1>5. ASSUME NEW q \in Runs, CompleteRun(q)
      PROVE  RowSound(r)'
  <2>1. r # q => Same(r)
    BY <1>0, <1>5 DEF CompleteRun, Same
  <2> QED
    BY <1>1, <1>5, <2>1, CompletedSound
<1>6. ASSUME NEW q \in Runs, FailRun(q) \/ CrashRun(q)
      PROVE  RowSound(r)'
  <2>1. r # q => Same(r)
    BY <1>0, <1>6 DEF FailRun, CrashRun, Same
  <2> QED
    BY <1>1, <1>6, <2>1, EndedSound
<1>7. ASSUME NEW q \in Runs, NEW s \in Sources, DropAnswer(q, s) \/ SearchFails(q, s)
      PROVE  RowSound(r)'
  <2>1. r # q => Same(r)
    BY <1>0, <1>7 DEF DropAnswer, SearchFails, Same
  <2> QED
    BY <1>1, <1>7, <2>1, DroppedSound
<1>9. ASSUME NEW q \in Runs, NEW s \in Sources, NEW cited \in SUBSET Indexed(s),
             EvaluateAnswer(q, s, cited)
      PROVE  RowSound(r)'
  <2>1. r # q => Same(r)
    BY <1>0, <1>9, EvaluatedAnswer DEF Same
  <2> QED
    BY <1>1, <1>9, <2>1, EvaluatedSound
<1>8. CASE UNCHANGED vars
  BY <1>1, <1>8 DEF vars, Same
<1> QED
  BY <1>2, <1>3, <1>4, <1>5, <1>6, <1>7, <1>8, <1>9 DEF Next

-----------------------------------------------------------------------------
\* The first of the late runs

\* A run that completes now was in no snapshot, so the first stays the first.
LEMMA FirstOfLateKept ==
  ASSUME TypeOK, TypeOK', Kept, [Next]_vars, \A r \in Runs : RowSound(r), FirstOfLate
  PROVE  FirstOfLate'
<1> SUFFICES ASSUME NEW series \in Series, NEW day \in Nat, Late(series, day)' # {}
             PROVE  \E q \in Late(series, day)' : run'[q].after \cap Late(series, day)' = {}
  BY DEF FirstOfLate
<1>0. DOMAIN run = Runs /\ \A r \in Runs : run[r] \in RowType
  BY TypeOKRows
<1>1. Late(series, day) \subseteq Late(series, day)'
  BY DEF Late, CompletedOf, Kept
<1>2. ASSUME Late(series, day)' = Late(series, day)
      PROVE  \E q \in Late(series, day)' : run'[q].after \cap Late(series, day)' = {}
  BY <1>2 DEF FirstOfLate, Late, CompletedOf, Kept
<1>3. ASSUME \A r \in Runs : run'[r].status = "completed" => run[r].status = "completed"
      PROVE  \E q \in Late(series, day)' : run'[q].after \cap Late(series, day)' = {}
  <2>1. Late(series, day)' \subseteq Late(series, day)
    BY <1>3 DEF Late, CompletedOf, Kept
  <2> QED
    BY <1>1, <1>2, <2>1
<1>4. ASSUME NEW r \in Runs, CompleteRun(r)
      PROVE  \E q \in Late(series, day)' : run'[q].after \cap Late(series, day)' = {}
  <2>1. /\ run[r].status = "running" /\ run'[r].after = run[r].after
        /\ \A q \in Runs : q # r => run'[q] = run[q]
    BY <1>0, <1>4 DEF CompleteRun, RowType
  <2>2. \A q \in Runs : run[q].status \in {"running", "completed"} => r \notin run[q].after
    BY <2>1 DEF RowSound, HistorySound
  <2>3. Late(series, day)' \subseteq Late(series, day) \cup {r}
    BY <2>1 DEF Late, CompletedOf
  <2>4. CASE Late(series, day) # {}
    <3>1. PICK q \in Late(series, day) : run[q].after \cap Late(series, day) = {}
      BY <2>4 DEF FirstOfLate
    <3>2. q \in Runs /\ run[q].status = "completed" /\ run'[q] = run[q]
      BY <3>1 DEF Late, CompletedOf, Kept
    <3> QED
      BY <1>1, <2>2, <2>3, <3>1, <3>2
  <2>5. CASE Late(series, day) = {}
    BY <2>1, <2>2, <2>3, <2>5
  <2> QED
    BY <2>4, <2>5
<1>5. ASSUME NextDay \/ UNCHANGED vars
      PROVE  \A q \in Runs : run'[q].status = "completed" => run[q].status = "completed"
  BY <1>5 DEF NextDay, vars
<1>6. ASSUME NEW r \in Runs, NEW series0 \in Series, NEW override \in BOOLEAN,
             QueueRun(r, series0, override)
      PROVE  \A q \in Runs : run'[q].status = "completed" => run[q].status = "completed"
  BY <1>0, <1>6, QueuedRow DEF NewRow
<1>7. ASSUME NEW r \in Runs, StartRun(r) \/ FailRun(r) \/ CrashRun(r)
      PROVE  \A q \in Runs : run'[q].status = "completed" => run[q].status = "completed"
  BY <1>0, <1>7 DEF StartRun, FailRun, CrashRun, RowType
<1>8. ASSUME NEW r \in Runs, NEW s \in Sources,
             DropAnswer(r, s) \/ SearchFails(r, s)
             \/ (\E cited \in SUBSET Indexed(s) : EvaluateAnswer(r, s, cited))
      PROVE  \A q \in Runs : run'[q].status = "completed" => run[q].status = "completed"
  <2>1. run'[r].status = run[r].status
    <3>1. CASE DropAnswer(r, s)
      BY <1>0, <3>1 DEF DropAnswer, RowType
    <3>2. CASE SearchFails(r, s)
      BY <1>0, <3>2 DEF SearchFails, RowType
    <3>3. ASSUME NEW cited \in SUBSET Indexed(s), EvaluateAnswer(r, s, cited)
          PROVE  run'[r].status = run[r].status
      BY <1>0, <3>3, EvaluatedRun
    <3> QED
      BY <1>8, <3>1, <3>2, <3>3
  <2>2. \A q \in Runs : q # r => run'[q] = run[q]
    BY <1>0, <1>8, EvaluatedAnswer DEF DropAnswer, SearchFails
  <2> QED
    BY <2>1, <2>2
<1>9. \/ \A q \in Runs : run'[q].status = "completed" => run[q].status = "completed"
      \/ \E r \in Runs : CompleteRun(r)
  BY <1>5, <1>6, <1>7, <1>8 DEF Next
<1> QED
  BY <1>3, <1>4, <1>9

-----------------------------------------------------------------------------
\* The inductive invariant

LEMMA InitIInv == Init => IInv
<1> SUFFICES ASSUME Init PROVE IInv
  OBVIOUS
<1>1. \A r \in Runs : run[r].status = "absent"
  BY DEF Init, NoRun
<1>2. \A r \in Runs : RowSound(r)
  BY <1>1 DEF RowSound
<1>3. \A series \in Series, day \in Nat : Late(series, day) = {}
  BY <1>1 DEF Late, CompletedOf
<1>4. TypeOK
  BY InitTyped
<1>5. IndexedAfterItsDay
  <2> SUFFICES ASSUME NEW i \in Items PROVE item[i].day <= item[i].indexed
    BY DEF IndexedAfterItsDay
  <2>1. item[i].indexed - item[i].day \in 0..MaxDelay
    BY DEF Init
  <2>2. item[i].indexed \in Int /\ item[i].day \in Int
    BY <1>4, DaysAssumption DEF TypeOK
  <2> QED
    BY <2>1, <2>2, DaysAssumption
<1> QED
  BY <1>2, <1>3, <1>4, <1>5 DEF IInv, FirstOfLate

LEMMA StepIInv == IInv /\ [Next]_vars => IInv'
<1> SUFFICES ASSUME IInv, [Next]_vars PROVE IInv'
  OBVIOUS
<1>1. TypeOK /\ IndexedAfterItsDay /\ (\A r \in Runs : RowSound(r)) /\ FirstOfLate
  BY DEF IInv
<1>2. TypeOK' /\ Kept
  BY <1>1, StepTyped, StepKeeps
<1>3. \A r \in Runs : RowSound(r)'
  BY <1>1, <1>2, StepSound
<1>4. FirstOfLate'
  BY <1>1, <1>2, FirstOfLateKept
<1>5. IndexedAfterItsDay'
  BY <1>1, <1>2 DEF IndexedAfterItsDay, Kept
<1>6. (\A r \in Runs : RowSound(r))'
  BY <1>3
<1> QED
  BY <1>2, <1>4, <1>5, <1>6, Zenon DEF IInv

THEOREM InvariantHolds == Spec => []IInv
BY InitIInv, StepIInv, PTL DEF Spec

\* The rows, snapshots and outputs keep their types.
THEOREM TypeCorrect == Spec => []TypeOK
<1>1. IInv => TypeOK
  BY DEF IInv
<1> QED
  BY <1>1, InvariantHolds, PTL

-----------------------------------------------------------------------------
\* What follows from it

\* The frozen history of a run comes from completed runs of its own series.
THEOREM HistoryIsIsolated == Spec => []SeriesIsIsolated
<1>1. ASSUME IInv PROVE SeriesIsIsolated
  <2> SUFFICES ASSUME NEW r \in Runs, run[r].status # "absent"
               PROVE  /\ run[r].known \subseteq UNION {output[q].keys : q \in Own(r)}
                      /\ \A l \in Lanes : run[r].marks[l] # Unmarked =>
                           \E q \in Own(r) : SearchedLane(q, l) /\ run[r].marks[l] = run[q].asOf
    BY DEF SeriesIsIsolated, Own
  <2>1. HistorySound(r)
    BY <1>1 DEF IInv, RowSound
  <2> QED
    BY <2>1 DEF HistorySound
<1> QED
  BY <1>1, InvariantHolds, PTL

\* What a run has on record is not reported as new by a run queued after it.
THEOREM RecordedIsNotRepublished == Spec => []NotRepublished
<1>1. ASSUME IInv PROVE NotRepublished
  <2> SUFFICES ASSUME NEW r \in Runs, NEW q \in Runs, run[q].status = "completed",
                      run[r].series = run[q].series, r \in run[q].after
               PROVE  output[r].keys \cap output[q].fresh = {}
    BY DEF NotRepublished
  <2>1. HistorySound(q) /\ FoundSound(q, output[q])
    BY <1>1 DEF IInv, RowSound, OutputSound
  <2>2. output[r].keys \subseteq run[q].known
    BY <2>1 DEF HistorySound, Own
  <2> QED
    BY <2>1, <2>2 DEF FoundSound
<1> QED
  BY <1>1, InvariantHolds, PTL

\* Incremental windows leave no day out between them and a window searched
\* before.
THEOREM NoDayIsLeftOut == Spec => []WindowsJoin
<1>1. ASSUME IInv PROVE WindowsJoin
  <2> SUFFICES ASSUME NEW r \in Runs, NEW l \in Lanes,
                      run[r].status # "absent", ~ run[r].override, run[r].marks[l] # Unmarked
               PROVE  \E q \in run[r].after :
                        /\ run[q].series = run[r].series
                        /\ SearchedLane(q, l)
                        /\ run[r].start[l] <= run[q].asOf
                        /\ run[r].start[l] >= run[q].asOf - Overlap
    BY DEF WindowsJoin
  <2>1. HistorySound(r) /\ TypeOK
    BY <1>1 DEF IInv, RowSound
  <2>2. PICK q \in Own(r) : SearchedLane(q, l) /\ run[r].marks[l] = run[q].asOf
    BY <2>1 DEF HistorySound
  <2>3. run[r].start[l] = run[q].asOf - Overlap
    BY <2>1, <2>2 DEF HistorySound, WindowStart
  <2>4. run[q].asOf \in Int /\ Overlap \in Nat
    <3>1. q \in Runs
      BY <2>1, <2>2 DEF HistorySound, Own
    <3> QED
      BY <2>1, <3>1, TypeOKRows, DaysAssumption DEF RowType
  <2> QED
    BY <2>2, <2>3, <2>4 DEF Own
<1> QED
  BY <1>1, InvariantHolds, PTL

\* Evidence that is indexed late but within the overlap is found.
THEOREM LateEvidenceIsKept == Spec => []LateEvidenceIsFound
<1>1. ASSUME IInv PROVE LateEvidenceIsFound
  <2> SUFFICES ASSUME NEW series \in Series, NEW i \in Items, InOrder(series),
                      Late(series, item[i].indexed) # {},
                      item[i].dated, item[i].indexed - item[i].day <= Overlap,
                      \A q \in Late(series, item[i].indexed) :
                        ~ run[q].override /\ SourceOf[i] \in run[q].full,
                      NEW q1 \in CompletedOf(series),
                      SearchedLane(q1, LaneOf[SourceOf[i]]),
                      run[q1].start[LaneOf[SourceOf[i]]] <= item[i].day
               PROVE  \E q \in Late(series, item[i].indexed) : i \in output[q].evidence
    BY Zenon DEF LateEvidenceIsFound, Late
  <2> DEFINE s == SourceOf[i]
             l == LaneOf[s]
             day == item[i].day
             indexed == item[i].indexed
  <2>1. /\ TypeOK /\ FirstOfLate
        /\ \A r \in CompletedOf(series) :
             /\ r \in Runs /\ run[r].status = "completed" /\ run[r].series = series
             /\ run[r] \in RowType /\ HistorySound(r) /\ OutputSound(r)
    BY <1>1, TypeOKRows DEF IInv, RowSound, CompletedOf
  <2>2. s \in Sources /\ l \in Lanes /\ Overlap \in Nat
    BY SourceAssumption, DaysAssumption DEF Lanes
  <2>3. day \in Nat /\ indexed \in Nat /\ day <= indexed
    BY <1>1, <2>1, DaysAssumption DEF IInv, IndexedAfterItsDay, TypeOK
  <2>4. ASSUME NEW q \in Late(series, indexed), run[q].start[l] <= day
        PROVE  \E p \in Late(series, indexed) : i \in output[p].evidence
    <3>0. q \in CompletedOf(series) /\ run[q].asOf >= indexed
      BY DEF Late
    <3>1. day \in run[q].start[l]..run[q].asOf
      BY <2>1, <2>2, <2>3, <2>4, <3>0, DaysAssumption DEF RowType, Days
    <3>2. Owed(q, i)
      BY <2>1, <2>3, <3>0, <3>1, DaysAssumption DEF Owed, InWindow, RowType
    <3> QED
      BY <2>1, <3>0, <3>2 DEF OutputSound, FoundSound
  <2>5. CASE run[q1].asOf >= indexed
    BY <2>4, <2>5 DEF Late
  <2>6. CASE run[q1].asOf < indexed
    <3>2. PICK q2 \in Late(series, indexed) : run[q2].after \cap Late(series, indexed) = {}
      BY <2>1, <2>3 DEF FirstOfLate
    <3>3. q2 \in CompletedOf(series) /\ run[q2].asOf >= indexed
      BY <3>2 DEF Late
    <3>4. \A r \in CompletedOf(series) : run[r].asOf \in Nat
      BY <2>1, DaysAssumption DEF RowType
    <3>5. q1 \in run[q2].after
      BY <2>1, <2>3, <2>6, <3>3, <3>4 DEF InOrder, HistorySound
    <3>6. q1 \in Own(q2)
      BY <2>1, <3>3, <3>5 DEF Own
    <3>7. run[q2].marks[l] # Unmarked
      BY <2>1, <2>2, <3>3, <3>4, <3>6, DaysAssumption DEF HistorySound, RowType, Mark, Unmarked
    <3>8. PICK q3 \in Own(q2) : run[q2].marks[l] = run[q3].asOf
      BY <2>1, <2>2, <3>3, <3>7 DEF HistorySound
    <3>9. q3 \in CompletedOf(series) /\ run[q3].asOf < indexed
      BY <2>1, <2>3, <3>2, <3>3, <3>4, <3>8 DEF HistorySound, Own, CompletedOf, Late
    <3>10. run[q2].start[l] = run[q3].asOf - Overlap
      BY <2>1, <2>2, <3>2, <3>3, <3>7, <3>8 DEF HistorySound, WindowStart
    <3>11. run[q2].start[l] <= day
      BY <2>2, <2>3, <3>4, <3>9, <3>10
    <3> QED
      BY <2>4, <3>11
  <2> QED
    BY <2>1, <2>3, <2>5, <2>6, DaysAssumption DEF RowType
<1> QED
  BY <1>1, InvariantHolds, PTL
=============================================================================
