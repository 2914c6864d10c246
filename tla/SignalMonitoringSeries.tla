----------------------- MODULE SignalMonitoringSeries -----------------------
(***************************************************************************)
(* Repeated signal-monitoring runs over one candidate/criterion pair.      *)
(* Queueing a run freezes its input: the search window of each lane, taken *)
(* from the watermarks of the series so far, and the evidence already      *)
(* known.  A worker executes the run later, source by source, and persists *)
(* the output; a worker that dies leaves no output, and the redelivered    *)
(* run starts again from the same snapshot.  Several runs may be queued or *)
(* running at once.                                                        *)
(*                                                                         *)
(* Time is counted in days, the precision the window check works with.     *)
(* The search engines are external: an answer cites any part of what the   *)
(* source has indexed by then, dated inside the window or not.  The code   *)
(* judges an answer as a whole, and it may be unable to use it at all.     *)
(***************************************************************************)
EXTENDS Integers, FiniteSets

CONSTANTS
  Runs,        \* run ids
  Series,      \* monitoring series ids
  Sources,     \* the sources the plan searches for the pair, one task each, in
               \*  the order of the plan: numbers
  LaneOf,      \* the lane of a source: [Sources -> lanes]
  Items,       \* pieces of evidence that get published
  SourceOf,    \* where an item is found: [Items -> Sources]
  Initial,     \* initial lookback of criterion or Radar policy, in days
  Override,    \* lookback a request may ask for explicitly, in days
  Overlap,     \* incremental overlap, in days
  MaxDay,      \* bound: last day of the history
  MaxDelay,    \* bound: days from publication to being indexed
  MaxCrashes   \* bound: executions lost with their worker

ASSUME SeriesAssumption == Series # {}
ASSUME PlanAssumption == Sources \subseteq Nat
ASSUME LaneAssumption == LaneOf \in [Sources -> {LaneOf[s] : s \in Sources}]
ASSUME SourceAssumption == SourceOf \in [Items -> Sources]
ASSUME DaysAssumption == {Initial, Override, Overlap, MaxDay, MaxDelay, MaxCrashes} \subseteq Nat

Lanes == {LaneOf[s] : s \in Sources}

VARIABLES
  today,   \* the day
  item,    \* [Items -> [day, indexed, dated]]: date of an item, day it is found
           \*  from, whether its date can be established
  run,     \* [Runs -> run row, its input snapshot and its progress.  Two fields
           \*  are kept for the properties: `after`, the runs completed when it
           \*  was queued, and `full`, the sources whose answer was evaluated
           \*  and left out nothing that was due]
  output,  \* persisted outputs, for completed runs: [Runs -> [fresh, evidence,
           \*  keys, marks]], see NothingFound
  crashes

vars == <<today, item, run, output, crashes>>

-----------------------------------------------------------------------------
Unmarked == -1   \* no watermark
\* fresh: evidence reported as new; evidence: all the observations are based
\* on, duplicates included; keys: the sources on record
NothingFound == [fresh |-> {}, evidence |-> {}, keys |-> {}]
NoOutput == [fresh |-> {}, evidence |-> {}, keys |-> {}, marks |-> [l \in Lanes |-> Unmarked]]
NoRun == [status |-> "absent", series |-> CHOOSE s \in Series : TRUE, override |-> FALSE,
          asOf |-> 0, start |-> [l \in Lanes |-> 0], marks |-> [l \in Lanes |-> Unmarked],
          known |-> {}, todo |-> {}, searched |-> {}, full |-> {}, found |-> NothingFound,
          after |-> {}]

Maximum(S) == CHOOSE x \in S : \A y \in S : y <= x

\* Mutated form: the history of the whole Radar, whatever the series.
OutputsForAnySeries(series) == {r \in Runs : run[r].status = "completed"}
\* outputs_for_series: outputs exist for completed runs only
OutputsForSeries(series) == {r \in Runs : run[r].status = "completed" /\ run[r].series = series}

\* previous_source_keys: the sources of the observed and of the review-needed
\* observations of the series, duplicates included
PreviousSourceKeys(series) == UNION {output[r].keys : r \in OutputsForSeries(series)}

\* previous_watermarks: the furthest mark of the lane in any output
PreviousWatermark(series, l) == Maximum({Unmarked} \cup {output[r].marks[l] : r \in OutputsForSeries(series)})

\* Mutated form: the window begins after the overlap instead of before it.
LateWindowStart(asOf, override, mark) ==
  IF ~ override /\ mark # Unmarked THEN mark + Overlap
  ELSE IF override THEN asOf - Override ELSE asOf - Initial
\* SignalMonitoringWindowPolicy.resolve: override, watermark, policy
WindowStart(asOf, override, mark) ==
  IF ~ override /\ mark # Unmarked THEN mark - Overlap
  ELSE IF override THEN asOf - Override ELSE asOf - Initial

-----------------------------------------------------------------------------
Init ==
  /\ today = 0
  /\ item \in {f \in [Items -> [day : 0..MaxDay, indexed : 0..MaxDay, dated : BOOLEAN]] :
                 \A i \in Items : f[i].indexed - f[i].day \in 0..MaxDelay}
  /\ run = [r \in Runs |-> NoRun]
  /\ output = [r \in Runs |-> NoOutput]
  /\ crashes = 0

NextDay ==
  /\ today < MaxDay
  /\ today' = today + 1
  /\ UNCHANGED <<item, run, output, crashes>>

\* QueuedSignalMonitoringRunService.create: the input is assembled and frozen
QueueRun(r, series, override) ==
  /\ run[r].status = "absent"
  /\ LET marks == [l \in Lanes |-> PreviousWatermark(series, l)]
     IN  run' = [run EXCEPT ![r] =
           [status |-> "queued", series |-> series, override |-> override, asOf |-> today,
            start |-> [l \in Lanes |-> WindowStart(today, override, marks[l])], marks |-> marks,
            known |-> PreviousSourceKeys(series), todo |-> {}, searched |-> {}, full |-> {},
            found |-> NothingFound, after |-> {q \in Runs : run[q].status = "completed"}]]
  /\ UNCHANGED <<today, item, output, crashes>>

\* a worker takes the message; a run found "running" was left by a dead worker
StartRun(r) ==
  /\ run[r].status \in {"queued", "lost"}
  /\ run' = [run EXCEPT ![r].status = "running", ![r].todo = Sources, ![r].searched = {},
                        ![r].full = {}, ![r].found = NothingFound]
  /\ UNCHANGED <<today, item, output, crashes>>

InWindow(r, i) ==
  item[i].day \in run[r].start[LaneOf[SourceOf[i]]]..run[r].asOf

NextSource(r, s) == s \in run[r].todo /\ \A q \in run[r].todo : s <= q

Indexed(s) == {i \in Items : SourceOf[i] = s /\ item[i].indexed <= today}

\* what an answer of the source that leaves nothing out cites
Due(r, s) == {i \in Indexed(s) : item[i].dated /\ InWindow(r, i)}

Confirmed(r, cited) == {i \in cited : item[i].dated /\ InWindow(r, i)}

\* Mutated form: an answer with one new source is new.
WhollyKnown(r, cited) == cited \subseteq run[r].known
\* one known source makes the whole answer a duplicate
IsDuplicate(r, cited) == cited \cap run[r].known # {}

\* An answer with confirmed evidence is observed and one without but with an
\* undated source needs a review: both keep every source they cite.  One whose
\* sources are all out of the window keeps none.
Recorded(r, cited) ==
  IF Confirmed(r, cited) # {} \/ (\E i \in cited : ~ item[i].dated) THEN cited ELSE {}

\* one task: the answer, which cites some of what the source has, is evaluated
EvaluateAnswer(r, s, cited) ==
  /\ run[r].status = "running" /\ NextSource(r, s)
  /\ run' = [run EXCEPT
       ![r].todo = @ \ {s},
       ![r].searched = @ \cup {s},
       ![r].full = IF Due(r, s) \subseteq cited THEN @ \cup {s} ELSE @,
       ![r].found =
         [fresh |-> @.fresh \cup (IF IsDuplicate(r, cited) THEN {} ELSE Confirmed(r, cited)),
          evidence |-> @.evidence \cup Confirmed(r, cited),
          keys |-> @.keys \cup Recorded(r, cited)]]
  /\ UNCHANGED <<today, item, output, crashes>>

\* The search was done and has its receipt, but nothing of its answer is kept:
\* unreadable after the retries, over the verification budget, unlinked or
\* rejected evidence, or the literal repeat of an earlier answer.
DropAnswer(r, s) ==
  /\ run[r].status = "running" /\ NextSource(r, s)
  /\ run' = [run EXCEPT ![r].todo = @ \ {s}, ![r].searched = @ \cup {s}]
  /\ UNCHANGED <<today, item, output, crashes>>

\* provider error, no budget, or a provider that leaves the receipt of an
\* unreadable answer to the executor
SearchFails(r, s) ==
  /\ run[r].status = "running" /\ NextSource(r, s)
  /\ run' = [run EXCEPT ![r].todo = @ \ {s}]
  /\ UNCHANGED <<today, item, output, crashes>>

\* Mutated form: a mark names the day after the window it closes.
NextDayMarks(r) == [l \in Lanes |->
  IF \E s \in run[r].searched : LaneOf[s] = l THEN run[r].asOf + 1 ELSE run[r].marks[l]]
\* _advanced_watermarks: the marks of the snapshot, moved where a task of the
\* lane has a receipt of a search that was done
AdvancedMarks(r) == [l \in Lanes |->
  IF \E s \in run[r].searched : LaneOf[s] = l THEN run[r].asOf ELSE run[r].marks[l]]

CompleteRun(r) ==
  /\ run[r].status = "running" /\ run[r].todo = {}
  /\ output' = [output EXCEPT ![r] =
       [fresh |-> run[r].found.fresh, evidence |-> run[r].found.evidence,
        keys |-> run[r].found.keys, marks |-> AdvancedMarks(r)]]
  /\ run' = [run EXCEPT ![r].status = "completed", ![r].found = NothingFound]
  /\ UNCHANGED <<today, item, crashes>>

\* the executor or the projection raised: the run fails without an output
FailRun(r) ==
  /\ run[r].status = "running"
  /\ run' = [run EXCEPT ![r].status = "failed", ![r].todo = {}, ![r].searched = {},
                        ![r].full = {}, ![r].found = NothingFound]
  /\ UNCHANGED <<today, item, output, crashes>>

\* the worker dies; the broker delivers the message again
CrashRun(r) ==
  /\ run[r].status = "running" /\ crashes < MaxCrashes
  /\ run' = [run EXCEPT ![r].status = "lost", ![r].todo = {}, ![r].searched = {},
                        ![r].full = {}, ![r].found = NothingFound]
  /\ crashes' = crashes + 1
  /\ UNCHANGED <<today, item, output>>

Next ==
  \/ NextDay
  \/ \E r \in Runs, series \in Series, override \in BOOLEAN : QueueRun(r, series, override)
  \/ \E r \in Runs : StartRun(r) \/ CompleteRun(r) \/ FailRun(r) \/ CrashRun(r)
  \/ \E r \in Runs, s \in Sources : DropAnswer(r, s) \/ SearchFails(r, s)
  \/ \E r \in Runs, s \in Sources : \E cited \in SUBSET Indexed(s) : EvaluateAnswer(r, s, cited)

Spec == Init /\ [][Next]_vars

-----------------------------------------------------------------------------
(* Properties *)

Days == (0 - Initial - Override - Overlap)..MaxDay
RunStatus == {"absent", "queued", "running", "lost", "completed", "failed"}

\* The values of the rows, snapshots and outputs.
TypeOK ==
  /\ today \in 0..MaxDay
  /\ item \in [Items -> [day : 0..MaxDay, indexed : 0..MaxDay, dated : BOOLEAN]]
  /\ run \in [Runs -> [status : RunStatus, series : Series, override : BOOLEAN,
                       asOf : 0..MaxDay, start : [Lanes -> Days],
                       marks : [Lanes -> {Unmarked} \cup 0..MaxDay], known : SUBSET Items,
                       todo : SUBSET Sources, searched : SUBSET Sources, full : SUBSET Sources,
                       found : [fresh : SUBSET Items, evidence : SUBSET Items, keys : SUBSET Items],
                       after : SUBSET Runs]]
  /\ output \in [Runs -> [fresh : SUBSET Items, evidence : SUBSET Items, keys : SUBSET Items,
                          marks : [Lanes -> {Unmarked} \cup 0..MaxDay]]]
  /\ crashes \in 0..MaxCrashes

CompletedOf(series) == {r \in Runs : run[r].status = "completed" /\ run[r].series = series}
SearchedLane(r, l) == \E s \in run[r].searched : LaneOf[s] = l

\* SM-REP-02: the frozen history of a run comes from runs of its own series
\* that had completed when it was queued, never from another series.
SeriesIsIsolated ==
  \A r \in Runs : run[r].status # "absent" =>
    LET own == {q \in run[r].after : run[q].series = run[r].series}
    IN  /\ run[r].known \subseteq UNION {output[q].keys : q \in own}
        /\ \A l \in Lanes : run[r].marks[l] # Unmarked =>
             \E q \in own : SearchedLane(q, l) /\ run[r].marks[l] = run[q].asOf

\* SM-DED-01, SM-DED-03: a run queued after another run of its series had
\* completed does not report as new what that run has on record, as evidence
\* or for review, whatever is cited together with it and even if the run
\* crashed and was executed a second time.
NotRepublished ==
  \A r, q \in Runs :
    /\ run[r].status = "completed" /\ run[q].status = "completed"
    /\ run[r].series = run[q].series /\ r \in run[q].after
    => output[r].keys \cap output[q].fresh = {}

\* SM-WIN-02: an incremental window begins inside a window of the same lane
\* that a completed run of the series has searched, so no day between the two
\* is left out, whatever failed, crashed or completed out of order.
WindowsJoin ==
  \A r \in Runs, l \in Lanes :
    run[r].status # "absent" /\ ~ run[r].override /\ run[r].marks[l] # Unmarked =>
      \E q \in run[r].after :
        /\ run[q].series = run[r].series
        /\ SearchedLane(q, l)
        /\ run[r].start[l] <= run[q].asOf
        /\ run[r].start[l] >= run[q].asOf - Overlap

InOrder(series) == \A r, q \in CompletedOf(series) : r = q \/ r \in run[q].after \/ q \in run[r].after

\* The overlap does its work: dated evidence that is indexed at most Overlap
\* days after its date is evidence of a run queued after it was indexed,
\* although the mark of the lane was moved past its date by earlier runs: runs
\* that searched too early, whose search of its source failed or whose answer
\* was dropped.  One of those, or the run itself, has a window that begins on
\* its date or before.  (For a series whose runs follow one another, when the
\* runs queued late enough ask for no explicit lookback and their answers of
\* that source are evaluated and leave nothing out.)
LateEvidenceIsFound ==
  \A series \in Series, i \in Items :
    LET s == SourceOf[i]
        late == {q \in CompletedOf(series) : run[q].asOf >= item[i].indexed}
    IN  /\ InOrder(series) /\ late # {}
        /\ item[i].dated /\ item[i].indexed - item[i].day <= Overlap
        /\ \A q \in late : ~ run[q].override /\ s \in run[q].full
        /\ \E q \in CompletedOf(series) :
             SearchedLane(q, LaneOf[s]) /\ run[q].start[LaneOf[s]] <= item[i].day
        => \E q \in late : i \in output[q].evidence
=============================================================================
