-------------------------- MODULE RadarRunLifecycle --------------------------
(***************************************************************************)
(* The life of a Radar run: API requests create run rows and send them to  *)
(* the Celery broker, workers load, start, execute and publish them.  All  *)
(* share one SQLite database, whose single write transaction is `writer`:  *)
(* a process that has flushed a statement holds it until it commits or     *)
(* rolls back, every other write waits (or runs into the busy timeout),    *)
(* and reads see what is committed.                                        *)
(*                                                                         *)
(* Two pipelines share the table.  A candidate-discovery worker commits    *)
(* before it calls the providers; a signal-monitoring worker keeps the     *)
(* write transaction of its "started" event open across the calls.         *)
(***************************************************************************)
EXTENDS Naturals, FiniteSets

CONSTANTS
  Runs,             \* run ids the uuid generator may hand out
  Keys,             \* idempotency keys clients send
  Clients,          \* concurrent API requests
  Workers,          \* Celery worker processes
  None,             \* no run, no key, no process
  MaxRequests,      \* bound: API requests ever made
  MaxCrashes,       \* bound: worker processes lost (or killed by an exception)
  MaxSendFailures,  \* bound: broker refuses a message after the commit
  MaxRedeliveries,  \* bound: broker delivers a waiting message twice
  MaxTimeouts       \* bound: writes that give up waiting for the database lock

ASSUME BoundsAssumption ==
  {MaxRequests, MaxCrashes, MaxSendFailures, MaxRedeliveries, MaxTimeouts} \subseteq Nat

ASSUME NoneAssumption == None \notin Runs \cup Keys \cup Clients \cup Workers

ASSUME ProcessesAssumption == Clients \cap Workers = {}

VARIABLES
  run,       \* radar_runs rows: [Runs -> Row]
  output,    \* runs with a committed output row
  journal,   \* radar_run_events rows: [Runs -> SUBSET Event]
  writer,    \* the process that holds the SQLite write transaction, or None
  queue,     \* messages waiting in the broker: [Runs -> Nat]
  sends,     \* messages the API ever sent: [Runs -> Nat]
  accepted,  \* runs a 202 reply has named
  client,    \* [Clients -> what the request handler holds]
  worker,    \* [Workers -> what the task holds]
  used       \* how much of each bound is spent

vars == <<run, output, journal, writer, queue, sends, accepted, client, worker, used>>

-----------------------------------------------------------------------------
Pipelines == {"candidate_discovery", "signal_monitoring"}
TerminalStatus == {"completed", "failed"}
ActiveStatus == {"queued", "running"}
RunStatus == {"absent"} \cup ActiveStatus \cup TerminalStatus
EventType == {"run_queued", "run_started", "artifact", "run_completed", "run_failed"}
Faults == {"request", "crash", "send", "redeliver", "timeout"}

NoRow == [status |-> "absent", pipeline |-> "candidate_discovery",
          source |-> None, key |-> None]
IdleClient == [pc |-> "idle", row |-> NoRow, run |-> None]
IdleWorker == [pc |-> "idle", run |-> None, seq |-> 0]

Bound == [request |-> MaxRequests, crash |-> MaxCrashes, send |-> MaxSendFailures,
          redeliver |-> MaxRedeliveries, timeout |-> MaxTimeouts]

Spend(fault) ==
  /\ used[fault] < Bound[fault]
  /\ used' = [used EXCEPT ![fault] = @ + 1]

Exists(r) == run[r].status # "absent"

\* Mutated form: the owner's second write waits for its own transaction.
CanWriteOncePerTransaction(p) == writer = None

\* SQLite: one write transaction at a time, and its owner may write on.
CanWrite(p) == writer \in {None, p}

Seqs(events) == {e.seq : e \in events}

\* SELECT max(sequence) + 1: rows are numbered from 1.
NextSequence(events) ==
  IF events = {} THEN 1 ELSE 1 + CHOOSE n \in Seqs(events) : \A m \in Seqs(events) : m <= n

\* Mutated form: no unique constraint on (run_id, sequence).
InsertableAlways(events, seq) == TRUE

\* A second row with the run's sequence number breaks the unique constraint.
Insertable(events, seq) == seq \notin Seqs(events)
Append(events, type) == events \cup {[seq |-> NextSequence(events), type |-> type]}

Init ==
  /\ run = [r \in Runs |-> NoRow]
  /\ output = {}
  /\ journal = [r \in Runs |-> {}]
  /\ writer = None
  /\ queue = [r \in Runs |-> 0]
  /\ sends = [r \in Runs |-> 0]
  /\ accepted = {}
  /\ client = [c \in Clients |-> IdleClient]
  /\ worker = [w \in Workers |-> IdleWorker]
  /\ used = [f \in Faults |-> 0]

-----------------------------------------------------------------------------
(* The API: POST /radars/{id}/runs and POST /radars/{id}/signal-monitoring-runs. *)

\* find_by_idempotency_key; requests without a key never find a run.
KeyOwners(key) == {r \in Runs : Exists(r) /\ key # None /\ run[r].key = key}

\* The candidate service returns any run that owns the key; the signal service
\* refuses a key another pipeline owns (422).
Reusable(row, r) == row.pipeline = "signal_monitoring" => run[r].pipeline = row.pipeline

\* Mutated form: no unique constraint on the idempotency key.
KeyIsFreeAlways(key) == TRUE

\* The unique constraint on radar_runs.idempotency_key.
KeyIsFree(key) == KeyOwners(key) = {}

\* Mutated form: the source's status is not looked at.
SourceReadyByOutput(row) ==
  IF row.pipeline = "signal_monitoring" THEN row.source \in output ELSE row.source = None

\* A signal run needs a completed candidate run with an output (422 otherwise).
SourceReady(row) ==
  IF row.pipeline = "signal_monitoring"
  THEN /\ row.source \in output
       /\ run[row.source].pipeline = "candidate_discovery"
       /\ run[row.source].status = "completed"
  ELSE row.source = None

\* A request finds its idempotency key taken: the handler answers 202 with the
\* existing run and sends nothing, or 422.
ClientFindsExisting(c, row) ==
  /\ client[c].pc = "idle"
  /\ Spend("request")
  /\ \E r \in KeyOwners(row.key) :
       accepted' = IF Reusable(row, r) THEN accepted \cup {r} ELSE accepted
  /\ UNCHANGED <<run, output, journal, writer, queue, sends, client, worker>>

\* A request finds no run for its key and prepares a row under a new uuid.
ClientPrepares(c, row) ==
  /\ client[c].pc = "idle"
  /\ Spend("request")
  /\ KeyOwners(row.key) = {}
  /\ SourceReady(row)
  /\ \E r \in Runs :
       /\ ~Exists(r)
       /\ \A d \in Clients : client[d].run # r
       /\ client' = [client EXCEPT ![c] = [pc |-> "insert", row |-> row, run |-> r]]
  /\ UNCHANGED <<run, output, journal, writer, queue, sends, accepted, worker>>

\* Mutated form: the message is sent before the commit.
ClientInsertSendsFirst(c) ==
  /\ client[c].pc = "insert"
  /\ CanWrite(c)
  /\ KeyIsFree(client[c].row.key)
  /\ writer' = c
  /\ queue' = [queue EXCEPT ![client[c].run] = @ + 1]
  /\ client' = [client EXCEPT ![c].pc = "commit"]
  /\ UNCHANGED <<run, output, journal, sends, accepted, worker, used>>

\* The flush takes the write lock; a key taken meanwhile breaks the unique
\* constraint and the request ends in a 500.
ClientInsert(c) ==
  /\ client[c].pc = "insert"
  /\ CanWrite(c)
  /\ IF KeyIsFree(client[c].row.key)
     THEN /\ writer' = c
          /\ client' = [client EXCEPT ![c].pc = "commit"]
     ELSE /\ client' = [client EXCEPT ![c] = IdleClient]
          /\ UNCHANGED writer
  /\ UNCHANGED <<run, output, journal, queue, sends, accepted, worker, used>>

\* commit_before_enqueue: the row and its queued event become visible.
ClientCommit(c) ==
  /\ client[c].pc = "commit"
  /\ LET r == client[c].run IN
       /\ run' = [run EXCEPT ![r] = client[c].row]
       /\ journal' = [journal EXCEPT ![r] = Append(@, "run_queued")]
  /\ writer' = None
  /\ client' = [client EXCEPT ![c].pc = "enqueue"]
  /\ UNCHANGED <<output, queue, sends, accepted, worker, used>>

ClientEnqueue(c) ==
  /\ client[c].pc = "enqueue"
  /\ LET r == client[c].run IN
       /\ queue' = [queue EXCEPT ![r] = @ + 1]
       /\ sends' = [sends EXCEPT ![r] = @ + 1]
       /\ accepted' = accepted \cup {r}
  /\ client' = [client EXCEPT ![c] = IdleClient]
  /\ UNCHANGED <<run, output, journal, writer, worker, used>>

\* The broker is unreachable: 500, and the committed row stays queued.
ClientSendFails(c) ==
  /\ client[c].pc = "enqueue"
  /\ Spend("send")
  /\ client' = [client EXCEPT ![c] = IdleClient]
  /\ UNCHANGED <<run, output, journal, writer, queue, sends, accepted, worker>>

\* Another process kept the database locked beyond busy_timeout: 500.
ClientTimesOut(c) ==
  /\ client[c].pc = "insert"
  /\ ~CanWrite(c)
  /\ Spend("timeout")
  /\ client' = [client EXCEPT ![c] = IdleClient]
  /\ UNCHANGED <<run, output, journal, writer, queue, sends, accepted, worker>>

-----------------------------------------------------------------------------
(* The worker: execute_radar_run_once and execute_signal_monitoring_run_once. *)

Holding(w) == worker[w].run
HoldsTransaction(w) == writer = w
PipelineOf(w) == run[Holding(w)].pipeline
Goto(w, pc) == worker' = [worker EXCEPT ![w].pc = pc]

\* Celery acknowledges on receipt: the message is gone from here on.
WorkerReceive(w) ==
  /\ worker[w].pc = "idle"
  /\ \E r \in Runs :
       /\ queue[r] > 0
       /\ queue' = [queue EXCEPT ![r] = @ - 1]
       /\ worker' = [worker EXCEPT ![w] = [pc |-> "load", run |-> r, seq |-> 0]]
  /\ UNCHANGED <<run, output, journal, writer, sends, accepted, client, used>>

\* Mutated form: the terminal status of a redelivered run is not looked at.
ExecutableIfExists(r) == Exists(r)

Executable(r) == run[r].status \in ActiveStatus

\* A missing or a terminal run ends the task; a candidate run without an active
\* definition goes on to be failed.
WorkerLoad(w) ==
  /\ worker[w].pc = "load"
  /\ IF Executable(Holding(w))
     THEN \/ Goto(w, "start")
          \/ PipelineOf(w) = "candidate_discovery" /\ Goto(w, "reject")
     ELSE worker' = [worker EXCEPT ![w] = IdleWorker]
  /\ UNCHANGED <<run, output, journal, writer, queue, sends, accepted, client, used>>

\* Mutated form: no run_failed event.
WorkerRejectSilently(w) ==
  /\ worker[w].pc = "reject"
  /\ CanWrite(w)
  /\ run' = [run EXCEPT ![Holding(w)].status = "failed"]
  /\ worker' = [worker EXCEPT ![w] = IdleWorker]
  /\ UNCHANGED <<output, journal, writer, queue, sends, accepted, client, used>>

\* _fail_run before the run was started.
WorkerReject(w) ==
  /\ worker[w].pc = "reject"
  /\ CanWrite(w)
  /\ run' = [run EXCEPT ![Holding(w)].status = "failed"]
  /\ journal' = [journal EXCEPT ![Holding(w)] = Append(@, "run_failed")]
  /\ worker' = [worker EXCEPT ![w] = IdleWorker]
  /\ UNCHANGED <<output, writer, queue, sends, accepted, client, used>>

\* update_status(RUNNING), whatever the row says by now, and commit_after_start.
WorkerStart(w) ==
  /\ worker[w].pc = "start"
  /\ CanWrite(w)
  /\ run' = [run EXCEPT ![Holding(w)].status = "running"]
  /\ Goto(w, "sequence")
  /\ UNCHANGED <<output, journal, writer, queue, sends, accepted, client, used>>

\* next_sequence is read outside any transaction.
WorkerReadSequence(w) ==
  /\ worker[w].pc = "sequence"
  /\ worker' = [worker EXCEPT ![w].pc = "announce",
                              ![w].seq = NextSequence(journal[Holding(w)])]
  /\ UNCHANGED <<run, output, journal, writer, queue, sends, accepted, client, used>>

Started(w) == {[seq |-> worker[w].seq, type |-> "run_started"]}

\* The started event.  A sequence number taken meanwhile raises outside the try
\* block and ends the task.  The candidate worker commits the event; the signal
\* worker goes on to the providers inside the transaction the event opened.
WorkerAnnounce(w) ==
  /\ worker[w].pc = "announce"
  /\ CanWrite(w)
  /\ IF ~Insertable(journal[Holding(w)], worker[w].seq)
     THEN /\ worker' = [worker EXCEPT ![w] = IdleWorker]
          /\ UNCHANGED <<journal, writer>>
     ELSE /\ Goto(w, "provide")
          /\ IF PipelineOf(w) = "signal_monitoring"
             THEN writer' = w /\ UNCHANGED journal
             ELSE /\ journal' = [journal EXCEPT ![Holding(w)] = @ \cup Started(w)]
                  /\ UNCHANGED writer
  /\ UNCHANGED <<run, output, queue, sends, accepted, client, used>>

\* The journal as the worker's own transaction sees it.
OwnJournal(w) ==
  IF HoldsTransaction(w) THEN journal[Holding(w)] \cup Started(w) ELSE journal[Holding(w)]

\* The end of the task commits everything the transaction wrote.
Finish(w, status, events) ==
  /\ CanWrite(w)
  /\ run' = [run EXCEPT ![Holding(w)].status = status]
  /\ journal' = [journal EXCEPT ![Holding(w)] = events]
  /\ writer' = None
  /\ worker' = [worker EXCEPT ![w] = IdleWorker]
  /\ UNCHANGED <<queue, sends, accepted, client, used>>

\* Mutated form: the status is committed without the output.
WorkerCompleteBeforeUpsert(w) ==
  /\ worker[w].pc = "provide"
  /\ Finish(w, "completed", Append(OwnJournal(w), "run_completed"))
  /\ UNCHANGED output

\* Providers answered: output, artifact events, COMPLETED and the completed event.
WorkerComplete(w) ==
  /\ worker[w].pc = "provide"
  /\ output' = output \cup {Holding(w)}
  /\ LET published == IF PipelineOf(w) = "candidate_discovery"
                      THEN Append(OwnJournal(w), "artifact") ELSE OwnJournal(w)
     IN  Finish(w, "completed", Append(published, "run_completed"))

\* The execution raised, or its artifact was refused before the upsert.
WorkerFail(w) ==
  /\ worker[w].pc = "provide"
  /\ Finish(w, "failed", Append(OwnJournal(w), "run_failed"))
  /\ UNCHANGED output

\* The journal refused an artifact event after the candidate output was upserted:
\* the failure is committed in the same transaction as that output.
WorkerFailAfterUpsert(w) ==
  /\ worker[w].pc = "provide"
  /\ PipelineOf(w) = "candidate_discovery"
  /\ output' = output \cup {Holding(w)}
  /\ Finish(w, "failed", Append(OwnJournal(w), "run_failed"))

\* A lost process, an exception outside the try block or a locked database: the
\* transaction rolls back, and the acknowledged message is not delivered again.
WorkerDies(w, fault) ==
  /\ Spend(fault)
  /\ worker' = [worker EXCEPT ![w] = IdleWorker]
  /\ writer' = IF HoldsTransaction(w) THEN None ELSE writer
  /\ UNCHANGED <<run, output, journal, queue, sends, accepted, client>>

WorkerCrash(w) == worker[w].pc # "idle" /\ WorkerDies(w, "crash")

WorkerTimesOut(w) ==
  /\ worker[w].pc \in {"reject", "start", "announce", "provide"}
  /\ ~CanWrite(w)
  /\ WorkerDies(w, "timeout")

\* The broker hands out a waiting message a second time.
Redeliver(r) ==
  /\ queue[r] > 0
  /\ Spend("redeliver")
  /\ queue' = [queue EXCEPT ![r] = @ + 1]
  /\ UNCHANGED <<run, output, journal, writer, sends, accepted, client, worker>>

-----------------------------------------------------------------------------
Requests == [status : {"queued"}, pipeline : Pipelines,
             source : Runs \cup {None}, key : Keys \cup {None}]

ClientWork(c) == ClientInsert(c) \/ ClientCommit(c) \/ ClientEnqueue(c)

WorkerWork(w) ==
  \/ WorkerReceive(w) \/ WorkerLoad(w) \/ WorkerReject(w) \/ WorkerStart(w)
  \/ WorkerReadSequence(w) \/ WorkerAnnounce(w)
  \/ WorkerComplete(w) \/ WorkerFail(w) \/ WorkerFailAfterUpsert(w)

Next ==
  \/ \E c \in Clients :
       \/ \E row \in Requests : ClientFindsExisting(c, row) \/ ClientPrepares(c, row)
       \/ ClientWork(c) \/ ClientSendFails(c) \/ ClientTimesOut(c)
  \/ \E w \in Workers : WorkerWork(w) \/ WorkerCrash(w) \/ WorkerTimesOut(w)
  \/ \E r \in Runs : Redeliver(r)

Spec == Init /\ [][Next]_vars

\* Handlers and tasks that have begun go on; nobody has to send a request, and
\* no fault has to happen.
Fairness ==
  /\ \A c \in Clients : WF_vars(ClientWork(c))
  /\ \A w \in Workers : WF_vars(WorkerWork(w))

FairSpec == Spec /\ Fairness

-----------------------------------------------------------------------------
Event == [seq : Nat \ {0}, type : EventType]
Row == [status : RunStatus, pipeline : Pipelines, source : Runs \cup {None},
        key : Keys \cup {None}]

ClientState == [pc : {"idle", "insert", "commit", "enqueue"}, row : Row, run : Runs \cup {None}]
WorkerState == [pc : {"idle", "load", "reject", "start", "sequence", "announce", "provide"},
                run : Runs \cup {None}, seq : Nat]

\* Every variable holds a value of its kind.
TypeOK ==
  /\ run \in [Runs -> Row]
  /\ output \subseteq Runs
  /\ journal \in [Runs -> SUBSET Event]
  /\ writer \in Clients \cup Workers \cup {None}
  /\ queue \in [Runs -> Nat]
  /\ sends \in [Runs -> Nat]
  /\ accepted \subseteq Runs
  /\ client \in [Clients -> ClientState]
  /\ worker \in [Workers -> WorkerState]
  /\ used \in [Faults -> Nat]

\* Concurrent requests with one idempotency key leave one run, and one message:
\* the find, the insert and the unique constraint (api/radar_routes.py:185-207).
KeyNamesOneRun ==
  /\ \A r, s \in Runs :
       Exists(r) /\ Exists(s) /\ run[r].key = run[s].key /\ run[r].key # None => r = s
  /\ \A r \in Runs : sends[r] <= 1

\* A worker never receives a run it cannot load, and a 202 never names a run a
\* poll would not find: commit_before_enqueue comes before the send and the
\* reply (api/radar_routes.py:204-207).
EnqueuedRunIsCommitted ==
  /\ \A r \in Runs :
       queue[r] > 0 \/ (\E w \in Workers : Holding(w) = r) => Exists(r) /\ journal[r] # {}
  /\ \A r \in accepted : Exists(r)

\* However two tasks of one run interleave, the run's journal numbers its events
\* 1, 2, 3, ... without gap or repetition (run_journal.py:40-59).
JournalIsDense ==
  \A r \in Runs : Seqs(journal[r]) = 1 .. Cardinality(journal[r])

\* The last event of a run's journal tells its status: status and event are
\* committed together (persisted_live_radar.py:181-203, runtime.py:224-257).
JournalTellsStatus ==
  \A r \in Runs : \A e \in journal[r] :
    e.seq = Cardinality(journal[r]) =>
      /\ run[r].status = "completed" <=> e.type = "run_completed"
      /\ run[r].status = "failed" <=> e.type = "run_failed"
      /\ run[r].status = "queued" => e.type = "run_queued"

\* A run a poller sees as completed has an output to fetch, also when a crash and
\* a second task of the same run came before or come after.
CompletedHasOutput == \A r \in Runs : run[r].status = "completed" => r \in output

\* A signal run's source is a candidate run that is and stays completed: the
\* check at request time is not undone before the run is executed.
SignalSourceIsCompleted ==
  \A r \in Runs :
    Exists(r) /\ run[r].pipeline = "signal_monitoring" =>
      /\ run[run[r].source].pipeline = "candidate_discovery"
      /\ run[run[r].source].status = "completed"

\* With nothing lost, a queued run ends: the claim behind polling until terminal.
EveryQueuedRunEnds ==
  \A r \in Runs : run[r].status = "queued" ~> run[r].status \in TerminalStatus

\* What the API shows of the runs is what RadarRunContract allows.
Contract == INSTANCE RadarRunContract
              WITH status <- [r \in Runs |-> run[r].status], published <- output

ContractHolds == Contract!Spec

=============================================================================
