----------------------- MODULE RadarRunLifecycleProofs -----------------------
(***************************************************************************)
(* Proofs, for any number of runs, requests and workers and any bound on   *)
(* the faults, of the safety properties of RadarRunLifecycle that do not   *)
(* depend on how many workers there are; then, under the name OneWorker,   *)
(* of what it promises when one worker process serves the queue, as        *)
(* docker-compose.yml deploys it: tasks of one run may follow one another, *)
(* but never overlap.                                                      *)
(***************************************************************************)
EXTENDS RadarRunLifecycle, FiniteSetTheorems, TLAPS

-----------------------------------------------------------------------------
(* Journals.                                                               *)

Numbered(events) ==
  /\ events \subseteq Event
  /\ IsFiniteSet(events)
  /\ Seqs(events) = 1 .. Cardinality(events)

\* An empty journal is numbered.
LEMMA EmptyNumbered == Numbered({}) /\ Cardinality({}) = 0
<1>1. Cardinality({}) = 0 /\ IsFiniteSet({})
  BY FS_EmptySet
<1>. QED
  BY <1>1 DEF Numbered, Seqs

\* The greatest sequence number of a numbered journal is its length.
LEMMA NextOfNumbered ==
  ASSUME NEW events, Numbered(events)
  PROVE  NextSequence(events) = Cardinality(events) + 1 /\ Cardinality(events) \in Nat
<1>. DEFINE n == Cardinality(events)
<1>1. n \in Nat
  BY FS_CardinalityType DEF Numbered
<1>2. CASE events = {}
  BY <1>2, FS_EmptySet DEF NextSequence
<1>3. CASE events # {}
  <2>1. Seqs(events) = 1 .. n
    BY DEF Numbered
  <2>2. n # 0
    BY <1>3, FS_EmptySet DEF Numbered
  <2>3. n \in Seqs(events) /\ \A m \in Seqs(events) : m <= n
    BY <1>1, <2>1, <2>2
  <2>. DEFINE top == CHOOSE k \in Seqs(events) : \A m \in Seqs(events) : m <= k
  <2>4. top \in Seqs(events) /\ \A m \in Seqs(events) : m <= top
    BY <2>3
  <2>. HIDE DEF top
  <2>5. n <= top /\ top \in 1 .. n
    BY <2>1, <2>3, <2>4
  <2>6. top = n
    BY <1>1, <2>5
  <2>7. NextSequence(events) = 1 + top
    BY <1>3, Zenon DEF NextSequence, top
  <2>. QED
    BY <1>1, <2>6, <2>7
<1>. QED
  BY <1>1, <1>2, <1>3

\* An event numbered one past the last keeps a journal numbered.
LEMMA AddNext ==
  ASSUME NEW events, Numbered(events), NEW type \in EventType, NEW seq,
         seq = Cardinality(events) + 1
  PROVE  LET longer == events \cup {[seq |-> seq, type |-> type]} IN
         /\ Numbered(longer)
         /\ Cardinality(longer) = Cardinality(events) + 1
         /\ longer # {}
<1>. DEFINE n == Cardinality(events)
            e == [seq |-> seq, type |-> type]
            longer == events \cup {e}
<1>1. n \in Nat /\ Seqs(events) = 1 .. n /\ IsFiniteSet(events) /\ events \subseteq Event
  BY FS_CardinalityType DEF Numbered
<1>2. e \notin events
  <2>1. SUFFICES ASSUME e \in events PROVE FALSE
    OBVIOUS
  <2>2. e.seq \in Seqs(events)
    BY <2>1 DEF Seqs
  <2>. QED
    BY <1>1, <2>2
<1>3. IsFiniteSet(longer) /\ Cardinality(longer) = n + 1
  BY <1>1, <1>2, FS_AddElement
<1>4. Seqs(longer) = Seqs(events) \cup {e.seq} /\ e.seq = n + 1
  BY Zenon DEF Seqs
<1>5. Seqs(longer) = 1 .. (n + 1)
  <2>1. \A k \in Nat : (1 .. k) \cup {k + 1} = 1 .. (k + 1)
    OBVIOUS
  <2>. QED
    BY <1>1, <1>4, <2>1, Zenon
<1>6. e \in Event
  BY <1>1 DEF Event
<1>. QED
  BY <1>1, <1>3, <1>5, <1>6 DEF Numbered

\* Appending reads the next number and uses it.
LEMMA AppendNumbered ==
  ASSUME NEW events, Numbered(events), NEW type \in EventType
  PROVE  /\ Numbered(Append(events, type))
         /\ Cardinality(Append(events, type)) = Cardinality(events) + 1
         /\ Append(events, type) # {}
BY NextOfNumbered, AddNext DEF Append

\* The unique constraint lets in, of the numbers read earlier, only the next one.
LEMMA InsertableIsNext ==
  ASSUME NEW events, Numbered(events), NEW seq \in Nat \ {0},
         seq <= Cardinality(events) + 1, Insertable(events, seq)
  PROVE  seq = Cardinality(events) + 1
<1>1. Cardinality(events) \in Nat /\ Seqs(events) = 1 .. Cardinality(events)
  BY FS_CardinalityType DEF Numbered
<1>. QED
  BY <1>1 DEF Insertable

-----------------------------------------------------------------------------
(* The strengthening: what a request or a task holds, and what is true of  *)
(* the run it holds.                                                       *)

Present(r) == Exists(r) /\ journal[r] # {}

JournalsNumbered == \A r \in Runs : Numbered(journal[r])

\* Only the client that commits a run makes it exist, and it holds the lock.
ClientHolds(c) ==
  /\ client[c].pc = "idle" => client[c].run = None
  /\ client[c].pc # "idle" => client[c].run \in Runs /\ client[c].row.status = "queued"
  /\ client[c].pc \in {"insert", "commit"} => ~Exists(client[c].run)
  /\ client[c].pc = "commit" => writer = c
  /\ client[c].pc = "enqueue" => Present(client[c].run)
  /\ \A d \in Clients : client[d].run = client[c].run /\ client[d].run # None => d = c

\* A worker in a transaction has the next sequence number of its run's journal.
WorkerHolds(w) ==
  /\ worker[w].pc = "idle" => worker[w].run = None
  /\ worker[w].pc # "idle" => worker[w].run \in Runs /\ Present(worker[w].run)
  /\ worker[w].pc = "announce" =>
       worker[w].seq \in 1 .. (Cardinality(journal[worker[w].run]) + 1)
  /\ writer = w =>
       /\ worker[w].pc = "provide"
       /\ worker[w].seq = Cardinality(journal[worker[w].run]) + 1

MessagesOfPresentRuns == \A r \in Runs : queue[r] > 0 => Present(r)

Consistent ==
  /\ TypeOK
  /\ JournalsNumbered
  /\ \A c \in Clients : ClientHolds(c)
  /\ \A w \in Workers : WorkerHolds(w)
  /\ MessagesOfPresentRuns

\* Nobody holds anything at the start.
LEMMA ConsistentInit == Init => Consistent
<1>. SUFFICES ASSUME Init PROVE Consistent
  OBVIOUS
<1>. USE NoneAssumption DEF Init, IdleClient, IdleWorker, NoRow
<1>1. TypeOK
  BY DEF TypeOK, ClientState, WorkerState, Row, RunStatus, Pipelines, Faults
<1>2. JournalsNumbered
  BY EmptyNumbered DEF JournalsNumbered
<1>3. \A c \in Clients : ClientHolds(c)
  BY DEF ClientHolds
<1>4. \A w \in Workers : WorkerHolds(w)
  BY DEF WorkerHolds
<1>5. MessagesOfPresentRuns
  BY DEF MessagesOfPresentRuns
<1>. QED
  BY <1>1, <1>2, <1>3, <1>4, <1>5 DEF Consistent

-----------------------------------------------------------------------------
(* Effects of a step on the tables.                                        *)

\* Journals stay numbered and never shrink; whoever writes one ends up without
\* a transaction.
JournalsGrow ==
  /\ journal' \in [Runs -> SUBSET Event]
  /\ \A r \in Runs : /\ Numbered(journal'[r])
                     /\ Cardinality(journal'[r]) \in Nat
                     /\ Cardinality(journal[r]) \in Nat
                     /\ Cardinality(journal'[r]) >= Cardinality(journal[r])
                     /\ journal[r] # {} => journal'[r] # {}
  /\ journal' = journal \/ writer' = None

\* Writing nothing is one way to grow.
LEMMA JournalsSame ==
  ASSUME Consistent, UNCHANGED journal
  PROVE  JournalsGrow
<1>1. \A r \in Runs : Numbered(journal[r]) /\ Cardinality(journal[r]) \in Nat
  BY NextOfNumbered DEF Consistent, JournalsNumbered
<1>. QED
  BY <1>1 DEF Consistent, TypeOK, JournalsGrow

\* Replacing one journal by a longer numbered one is the other.
LEMMA JournalReplaced ==
  ASSUME Consistent, NEW r \in Runs, NEW events, Numbered(events), events # {},
         Cardinality(events) >= Cardinality(journal[r]),
         journal' = [journal EXCEPT ![r] = events], writer' = None
  PROVE  JournalsGrow
<1>1. \A s \in Runs : Numbered(journal[s]) /\ Cardinality(journal[s]) \in Nat
  BY NextOfNumbered DEF Consistent, JournalsNumbered
<1>2. Cardinality(events) \in Nat /\ events \subseteq Event
  BY NextOfNumbered DEF Numbered
<1>. QED
  BY <1>1, <1>2 DEF Consistent, TypeOK, JournalsGrow

\* A task in a transaction sees its own started event after the committed ones.
LEMMA OwnJournalNumbered ==
  ASSUME Consistent, NEW w \in Workers, Holding(w) \in Runs
  PROVE  /\ Numbered(OwnJournal(w))
         /\ Cardinality(OwnJournal(w)) >= Cardinality(journal[Holding(w)])
         /\ Cardinality(OwnJournal(w)) \in Nat
         /\ Cardinality(journal[Holding(w)]) \in Nat
<1>1. Numbered(journal[Holding(w)]) /\ Cardinality(journal[Holding(w)]) \in Nat
  BY NextOfNumbered DEF Consistent, JournalsNumbered
<1>2. CASE writer = w
  <2>1. worker[w].seq = Cardinality(journal[Holding(w)]) + 1
    BY <1>2 DEF Consistent, WorkerHolds, Holding
  <2>2. "run_started" \in EventType
    BY DEF EventType
  <2>3. OwnJournal(w) = journal[Holding(w)] \cup {[seq |-> worker[w].seq, type |-> "run_started"]}
    BY <1>2 DEF OwnJournal, HoldsTransaction, Started
  <2>. QED
    BY <1>1, <2>1, <2>2, <2>3, AddNext
<1>3. CASE writer # w
  BY <1>1, <1>3 DEF OwnJournal, HoldsTransaction
<1>. QED
  BY <1>2, <1>3

\* What a task publishes is numbered and longer.
LEMMA FinishGrows ==
  ASSUME Consistent, NEW w \in Workers, worker[w].pc = "provide",
         NEW status, NEW events, Numbered(events), events # {},
         Cardinality(events) >= Cardinality(journal[Holding(w)]),
         Finish(w, status, events)
  PROVE  JournalsGrow
<1>1. Holding(w) \in Runs
  BY DEF Consistent, WorkerHolds, Holding
<1>. QED
  BY <1>1, JournalReplaced DEF Finish

\* Every step lets every journal grow.
LEMMA JournalsStep ==
  ASSUME Consistent, [Next]_vars
  PROVE  JournalsGrow
<1>1. ASSUME NEW c \in Clients, NEW row \in Requests, ClientFindsExisting(c, row)
     PROVE  JournalsGrow
  BY <1>1, JournalsSame DEF ClientFindsExisting, Spend
<1>2. ASSUME NEW c \in Clients, NEW row \in Requests, ClientPrepares(c, row)
     PROVE  JournalsGrow
  BY <1>2, JournalsSame DEF ClientPrepares, Spend
<1>3. ASSUME NEW c \in Clients, ClientInsert(c)
     PROVE  JournalsGrow
  BY <1>3, JournalsSame DEF ClientInsert, CanWrite, KeyIsFree
<1>4. ASSUME NEW c \in Clients, ClientCommit(c)
     PROVE  JournalsGrow
  <2>. DEFINE r == client[c].run
  <2>1. r \in Runs /\ Numbered(journal[r])
    BY <1>4 DEF ClientCommit, ClientHolds, Consistent, JournalsNumbered
  <2>2. "run_queued" \in EventType
    BY DEF EventType
  <2>3. /\ Numbered(Append(journal[r], "run_queued")) /\ Append(journal[r], "run_queued") # {}
        /\ Cardinality(Append(journal[r], "run_queued")) >= Cardinality(journal[r])
    BY <2>1, <2>2, AppendNumbered, NextOfNumbered
  <2>4. journal' = [journal EXCEPT ![r] = Append(journal[r], "run_queued")] /\ writer' = None
    BY <1>4 DEF ClientCommit
  <2>. QED
    BY <2>1, <2>3, <2>4, JournalReplaced
<1>5. ASSUME NEW c \in Clients, ClientEnqueue(c)
     PROVE  JournalsGrow
  BY <1>5, JournalsSame DEF ClientEnqueue
<1>6. ASSUME NEW c \in Clients, ClientSendFails(c)
     PROVE  JournalsGrow
  BY <1>6, JournalsSame DEF ClientSendFails, Spend
<1>7. ASSUME NEW c \in Clients, ClientTimesOut(c)
     PROVE  JournalsGrow
  BY <1>7, JournalsSame DEF ClientTimesOut, Spend
<1>8. ASSUME NEW w \in Workers, WorkerReceive(w)
     PROVE  JournalsGrow
  BY <1>8, JournalsSame DEF WorkerReceive
<1>9. ASSUME NEW w \in Workers, WorkerLoad(w)
     PROVE  JournalsGrow
  BY <1>9, JournalsSame DEF WorkerLoad, Goto, Executable
<1>10. ASSUME NEW w \in Workers, WorkerReject(w)
      PROVE  JournalsGrow
  <2>. DEFINE r == Holding(w)
  <2>1. r \in Runs /\ Numbered(journal[r]) /\ writer # w
    BY <1>10 DEF WorkerReject, WorkerHolds, Holding, Consistent, JournalsNumbered
  <2>2. "run_failed" \in EventType
    BY DEF EventType
  <2>3. /\ Numbered(Append(journal[r], "run_failed")) /\ Append(journal[r], "run_failed") # {}
        /\ Cardinality(Append(journal[r], "run_failed")) >= Cardinality(journal[r])
    BY <2>1, <2>2, AppendNumbered, NextOfNumbered
  <2>4. journal' = [journal EXCEPT ![r] = Append(journal[r], "run_failed")] /\ writer' = None
    BY <1>10, <2>1 DEF WorkerReject, CanWrite
  <2>. QED
    BY <2>1, <2>3, <2>4, JournalReplaced
<1>11. ASSUME NEW w \in Workers, WorkerStart(w)
      PROVE  JournalsGrow
  BY <1>11, JournalsSame DEF WorkerStart, CanWrite, Goto
<1>12. ASSUME NEW w \in Workers, WorkerReadSequence(w)
      PROVE  JournalsGrow
  BY <1>12, JournalsSame DEF WorkerReadSequence
<1>13. ASSUME NEW w \in Workers, WorkerAnnounce(w)
      PROVE  JournalsGrow
  <2>. DEFINE r == Holding(w)
              seq == worker[w].seq
  <2>1. r \in Runs /\ Numbered(journal[r]) /\ writer = None
    BY <1>13 DEF WorkerAnnounce, WorkerHolds, Holding, Consistent, JournalsNumbered, CanWrite
  <2>2. CASE UNCHANGED journal
    BY <2>2, JournalsSame
  <2>3. CASE ~UNCHANGED journal
    <3>1. /\ Insertable(journal[r], seq)
          /\ PipelineOf(w) # "signal_monitoring"
      BY <1>13, <2>3 DEF WorkerAnnounce
    <3>2. /\ journal' = [journal EXCEPT ![r] = journal[r] \cup Started(w)]
          /\ writer' = None
      BY <1>13, <2>1, <3>1 DEF WorkerAnnounce
    <3>3. seq \in 1 .. (Cardinality(journal[r]) + 1)
      BY <1>13 DEF WorkerAnnounce, WorkerHolds, Holding, Consistent
    <3>4. seq = Cardinality(journal[r]) + 1
      BY <2>1, <3>1, <3>3, InsertableIsNext, NextOfNumbered
    <3>5. "run_started" \in EventType
      BY DEF EventType
    <3>6. /\ Numbered(journal[r] \cup Started(w)) /\ journal[r] \cup Started(w) # {}
          /\ Cardinality(journal[r] \cup Started(w)) = Cardinality(journal[r]) + 1
      BY <2>1, <3>4, <3>5, AddNext DEF Started
    <3>7. Cardinality(journal[r] \cup Started(w)) >= Cardinality(journal[r])
      BY <2>1, <3>6, NextOfNumbered
    <3>. QED
      BY <2>1, <3>2, <3>6, <3>7, JournalReplaced
  <2>. QED
    BY <2>2, <2>3
<1>14. ASSUME NEW w \in Workers, WorkerComplete(w)
      PROVE  JournalsGrow
  <2>. DEFINE own == OwnJournal(w)
              published == IF PipelineOf(w) = "candidate_discovery"
                           THEN Append(own, "artifact") ELSE own
  <2>1. worker[w].pc = "provide" /\ Holding(w) \in Runs
    BY <1>14 DEF WorkerComplete, WorkerHolds, Holding, Consistent
  <2>2. "artifact" \in EventType /\ "run_completed" \in EventType
    BY DEF EventType
  <2>3. /\ Numbered(published) /\ Cardinality(published) \in Nat
        /\ Cardinality(published) >= Cardinality(journal[Holding(w)])
        /\ Cardinality(journal[Holding(w)]) \in Nat
    BY <2>1, <2>2, OwnJournalNumbered, AppendNumbered
  <2>. HIDE DEF published
  <2>4. /\ Numbered(Append(published, "run_completed")) /\ Append(published, "run_completed") # {}
        /\ Cardinality(Append(published, "run_completed")) >= Cardinality(journal[Holding(w)])
    BY <2>2, <2>3, AppendNumbered
  <2>5. Finish(w, "completed", Append(published, "run_completed"))
    BY <1>14 DEF WorkerComplete, published
  <2>. QED
    BY <2>1, <2>4, <2>5, FinishGrows
<1>15. ASSUME NEW w \in Workers, WorkerFail(w)
      PROVE  JournalsGrow
  <2>1. worker[w].pc = "provide" /\ Holding(w) \in Runs
    BY <1>15 DEF WorkerFail, WorkerHolds, Holding, Consistent
  <2>2. "run_failed" \in EventType
    BY DEF EventType
  <2>. QED
    BY <1>15, <2>1, <2>2, OwnJournalNumbered, AppendNumbered, FinishGrows DEF WorkerFail
<1>16. ASSUME NEW w \in Workers, WorkerFailAfterUpsert(w)
      PROVE  JournalsGrow
  <2>1. worker[w].pc = "provide" /\ Holding(w) \in Runs
    BY <1>16 DEF WorkerFailAfterUpsert, WorkerHolds, Holding, Consistent
  <2>2. "run_failed" \in EventType
    BY DEF EventType
  <2>. QED
    BY <1>16, <2>1, <2>2, OwnJournalNumbered, AppendNumbered, FinishGrows
       DEF WorkerFailAfterUpsert
<1>17. ASSUME NEW w \in Workers, WorkerCrash(w)
      PROVE  JournalsGrow
  BY <1>17, JournalsSame DEF WorkerCrash, WorkerDies, Spend, HoldsTransaction
<1>18. ASSUME NEW w \in Workers, WorkerTimesOut(w)
      PROVE  JournalsGrow
  BY <1>18, JournalsSame DEF WorkerTimesOut, WorkerDies, Spend, HoldsTransaction
<1>19. ASSUME NEW r \in Runs, Redeliver(r)
      PROVE  JournalsGrow
  BY <1>19, JournalsSame DEF Redeliver, Spend
<1>20. CASE UNCHANGED vars
  BY <1>20, JournalsSame DEF vars
<1>. QED
  BY <1>1, <1>2, <1>3, <1>4, <1>5, <1>6, <1>7, <1>8, <1>9, <1>10, <1>11, <1>12, <1>13,
     <1>14, <1>15, <1>16, <1>17, <1>18, <1>19, <1>20 DEF Next, ClientWork, WorkerWork

-----------------------------------------------------------------------------
\* A run that exists stays, with its pipeline, its source and its key; the only run
\* that appears is the one a committing client holds.
RowsStay ==
  /\ run' \in [Runs -> Row]
  /\ \A r \in Runs :
       /\ Exists(r) => /\ Exists(r)'
                       /\ run'[r].pipeline = run[r].pipeline
                       /\ run'[r].source = run[r].source
                       /\ run'[r].key = run[r].key
       /\ ~Exists(r) /\ Exists(r)' =>
            \E c \in Clients : /\ client[c].pc = "commit" /\ client[c].run = r
                               /\ client' = [client EXCEPT ![c].pc = "enqueue"]
                               /\ run' = [run EXCEPT ![r] = client[c].row]

\* Most steps write no row.
LEMMA RowsSame ==
  ASSUME Consistent, UNCHANGED run
  PROVE  RowsStay
BY DEF Consistent, TypeOK, RowsStay, Exists

\* A task changes the status of the run it holds, and that run exists.
LEMMA StatusWritten ==
  ASSUME Consistent, NEW w \in Workers, worker[w].pc # "idle",
         NEW status \in RunStatus \ {"absent"},
         run' = [run EXCEPT ![Holding(w)].status = status]
  PROVE  RowsStay
<1>1. Holding(w) \in Runs /\ Exists(Holding(w))
  BY DEF Consistent, WorkerHolds, Holding, Present
<1>2. run \in [Runs -> Row]
  BY DEF Consistent, TypeOK
<1>. QED
  BY <1>1, <1>2 DEF RowsStay, Exists, Row

\* Every step keeps the rows that are there.
LEMMA RowsStep ==
  ASSUME Consistent, [Next]_vars
  PROVE  RowsStay
<1>1. ASSUME NEW c \in Clients, NEW row \in Requests, ClientFindsExisting(c, row)
     PROVE  RowsStay
  BY <1>1, RowsSame DEF ClientFindsExisting, Spend
<1>2. ASSUME NEW c \in Clients, NEW row \in Requests, ClientPrepares(c, row)
     PROVE  RowsStay
  BY <1>2, RowsSame DEF ClientPrepares, Spend
<1>3. ASSUME NEW c \in Clients, ClientInsert(c)
     PROVE  RowsStay
  BY <1>3, RowsSame DEF ClientInsert, CanWrite, KeyIsFree
<1>4. ASSUME NEW c \in Clients, ClientCommit(c)
     PROVE  RowsStay
  <2>1. /\ client[c].run \in Runs /\ ~Exists(client[c].run)
        /\ client[c].row \in Row /\ run \in [Runs -> Row]
    BY <1>4 DEF ClientCommit, ClientHolds, Consistent, TypeOK, ClientState
  <2>2. /\ client[c].pc = "commit"
        /\ run' = [run EXCEPT ![client[c].run] = client[c].row]
        /\ client' = [client EXCEPT ![c].pc = "enqueue"]
    BY <1>4 DEF ClientCommit
  <2>. QED
    BY <2>1, <2>2 DEF RowsStay, Exists
<1>5. ASSUME NEW c \in Clients, ClientEnqueue(c)
     PROVE  RowsStay
  BY <1>5, RowsSame DEF ClientEnqueue
<1>6. ASSUME NEW c \in Clients, ClientSendFails(c)
     PROVE  RowsStay
  BY <1>6, RowsSame DEF ClientSendFails, Spend
<1>7. ASSUME NEW c \in Clients, ClientTimesOut(c)
     PROVE  RowsStay
  BY <1>7, RowsSame DEF ClientTimesOut, Spend
<1>8. ASSUME NEW w \in Workers, WorkerReceive(w)
     PROVE  RowsStay
  BY <1>8, RowsSame DEF WorkerReceive
<1>9. ASSUME NEW w \in Workers, WorkerLoad(w)
     PROVE  RowsStay
  BY <1>9, RowsSame DEF WorkerLoad, Goto, Executable
<1>10. ASSUME NEW w \in Workers, WorkerReject(w)
      PROVE  RowsStay
  BY <1>10, StatusWritten DEF WorkerReject, RunStatus, ActiveStatus, TerminalStatus
<1>11. ASSUME NEW w \in Workers, WorkerStart(w)
      PROVE  RowsStay
  BY <1>11, StatusWritten DEF WorkerStart, RunStatus, ActiveStatus, TerminalStatus
<1>12. ASSUME NEW w \in Workers, WorkerReadSequence(w)
      PROVE  RowsStay
  BY <1>12, RowsSame DEF WorkerReadSequence
<1>13. ASSUME NEW w \in Workers, WorkerAnnounce(w)
      PROVE  RowsStay
  BY <1>13, RowsSame DEF WorkerAnnounce, CanWrite, Goto
<1>14. ASSUME NEW w \in Workers, WorkerComplete(w)
      PROVE  RowsStay
  BY <1>14, StatusWritten DEF WorkerComplete, Finish, RunStatus, ActiveStatus, TerminalStatus
<1>15. ASSUME NEW w \in Workers, WorkerFail(w)
      PROVE  RowsStay
  BY <1>15, StatusWritten DEF WorkerFail, Finish, RunStatus, ActiveStatus, TerminalStatus
<1>16. ASSUME NEW w \in Workers, WorkerFailAfterUpsert(w)
      PROVE  RowsStay
  BY <1>16, StatusWritten
     DEF WorkerFailAfterUpsert, Finish, RunStatus, ActiveStatus, TerminalStatus
<1>17. ASSUME NEW w \in Workers, WorkerCrash(w)
      PROVE  RowsStay
  BY <1>17, RowsSame DEF WorkerCrash, WorkerDies, Spend, HoldsTransaction
<1>18. ASSUME NEW w \in Workers, WorkerTimesOut(w)
      PROVE  RowsStay
  BY <1>18, RowsSame DEF WorkerTimesOut, WorkerDies, Spend, HoldsTransaction
<1>19. ASSUME NEW r \in Runs, Redeliver(r)
      PROVE  RowsStay
  BY <1>19, RowsSame DEF Redeliver, Spend
<1>20. CASE UNCHANGED vars
  BY <1>20, RowsSame DEF vars
<1>. QED
  BY <1>1, <1>2, <1>3, <1>4, <1>5, <1>6, <1>7, <1>8, <1>9, <1>10, <1>11, <1>12, <1>13,
     <1>14, <1>15, <1>16, <1>17, <1>18, <1>19, <1>20 DEF Next, ClientWork, WorkerWork

-----------------------------------------------------------------------------
(* The strengthening is inductive.                                         *)

\* What a step leaves true for everyone.
LEMMA StepFacts ==
  ASSUME Consistent, [Next]_vars
  PROVE  /\ \A r \in Runs : Present(r) => Present(r)'
         /\ \A r \in Runs :
              /\ Cardinality(journal'[r]) \in Nat /\ Cardinality(journal[r]) \in Nat
              /\ Cardinality(journal'[r]) >= Cardinality(journal[r])
         /\ journal' = journal \/ writer' = None
BY JournalsStep, RowsStep DEF JournalsGrow, RowsStay, Present

\* A fault that is counted is one of the bounded ones.
LEMMA Spending ==
  ASSUME TypeOK, NEW fault \in Faults, Spend(fault)
  PROVE  used' \in [Faults -> Nat]
BY DEF TypeOK, Spend

\* The idle states, and the steps that change one field, are well typed.
LEMMA SequenceTyped ==
  ASSUME worker \in [Workers -> WorkerState], NEW w \in Workers, NEW n \in Nat
  PROVE  [worker EXCEPT ![w].pc = "announce", ![w].seq = n] \in [Workers -> WorkerState]
<1> DEFINE turned == [worker EXCEPT ![w].pc = "announce"]
<1>1. turned \in [Workers -> WorkerState]
  BY DEF WorkerState
<1>2. [turned EXCEPT ![w].seq = n] \in [Workers -> WorkerState]
  <2> HIDE DEF turned
  <2> QED
    BY <1>1 DEF WorkerState
<1> QED
  BY <1>2

LEMMA StatesTyped ==
  ASSUME TypeOK
  PROVE  /\ IdleClient \in ClientState /\ IdleWorker \in WorkerState
         /\ \A c \in Clients, pc \in {"insert", "commit", "enqueue"} :
              [client EXCEPT ![c].pc = pc] \in [Clients -> ClientState]
         /\ \A w \in Workers, pc \in {"reject", "start", "sequence", "announce", "provide"} :
              [worker EXCEPT ![w].pc = pc] \in [Workers -> WorkerState]
<1>1. NoRow \in Row
  BY DEF NoRow, Row, RunStatus, Pipelines
<1>2. IdleClient \in ClientState /\ IdleWorker \in WorkerState
  BY <1>1 DEF IdleClient, IdleWorker, ClientState, WorkerState
<1>3. ASSUME NEW c \in Clients, NEW pc \in {"insert", "commit", "enqueue"}
      PROVE  [client EXCEPT ![c].pc = pc] \in [Clients -> ClientState]
  BY DEF TypeOK, ClientState
<1>4. ASSUME NEW w \in Workers,
             NEW pc \in {"reject", "start", "sequence", "announce", "provide"}
      PROVE  [worker EXCEPT ![w].pc = pc] \in [Workers -> WorkerState]
  BY DEF TypeOK, WorkerState
<1>. QED
  BY <1>2, <1>3, <1>4

\* Types.
LEMMA TypeStep ==
  ASSUME Consistent, [Next]_vars
  PROVE  TypeOK'
<1>1. /\ run' \in [Runs -> Row] /\ journal' \in [Runs -> SUBSET Event]
      /\ TypeOK /\ {"request", "send", "timeout", "crash", "redeliver"} \subseteq Faults
  BY JournalsStep, RowsStep DEF JournalsGrow, RowsStay, Consistent, Faults
<1>2. ASSUME NEW c \in Clients, NEW row \in Requests, ClientFindsExisting(c, row)
     PROVE  TypeOK'
  BY <1>2, <1>1, Spending DEF ClientFindsExisting, KeyOwners, TypeOK
<1>3. ASSUME NEW c \in Clients, NEW row \in Requests, ClientPrepares(c, row)
     PROVE  TypeOK'
  <2>1. row \in Row
    BY DEF Requests, Row, RunStatus, ActiveStatus
  <2>2. client' \in [Clients -> ClientState]
    BY <1>3, <1>1, <2>1 DEF ClientPrepares, TypeOK, ClientState
  <2>. QED
    BY <1>3, <1>1, <2>2, Spending DEF ClientPrepares, TypeOK
<1>4. ASSUME NEW c \in Clients, ClientInsert(c)
     PROVE  TypeOK'
  BY <1>4, <1>1, StatesTyped DEF ClientInsert, CanWrite, TypeOK
<1>5. ASSUME NEW c \in Clients, ClientCommit(c)
     PROVE  TypeOK'
  BY <1>5, <1>1, StatesTyped DEF ClientCommit, TypeOK
<1>6. ASSUME NEW c \in Clients, ClientEnqueue(c)
     PROVE  TypeOK'
  <2>1. client[c].run \in Runs
    BY <1>6 DEF ClientEnqueue, Consistent, ClientHolds
  <2>2. queue' \in [Runs -> Nat] /\ sends' \in [Runs -> Nat] /\ accepted' \subseteq Runs
    BY <1>6, <1>1, <2>1 DEF ClientEnqueue, TypeOK
  <2>3. client' \in [Clients -> ClientState]
    BY <1>6, <1>1, StatesTyped DEF ClientEnqueue, TypeOK
  <2>. QED
    BY <1>6, <1>1, <2>2, <2>3 DEF ClientEnqueue, TypeOK
<1>7. ASSUME NEW c \in Clients, ClientSendFails(c)
     PROVE  TypeOK'
  BY <1>7, <1>1, StatesTyped, Spending DEF ClientSendFails, TypeOK
<1>8. ASSUME NEW c \in Clients, ClientTimesOut(c)
     PROVE  TypeOK'
  BY <1>8, <1>1, StatesTyped, Spending DEF ClientTimesOut, TypeOK
<1>9. ASSUME NEW w \in Workers, WorkerReceive(w)
     PROVE  TypeOK'
  <2>1. queue' \in [Runs -> Nat]
    BY <1>9, <1>1 DEF WorkerReceive, TypeOK
  <2>2. worker' \in [Workers -> WorkerState]
    BY <1>9, <1>1 DEF WorkerReceive, TypeOK, WorkerState
  <2>. QED
    BY <1>9, <1>1, <2>1, <2>2 DEF WorkerReceive, TypeOK
<1>10. ASSUME NEW w \in Workers, WorkerLoad(w)
     PROVE  TypeOK'
  BY <1>10, <1>1, StatesTyped, ZenonT(60) DEF WorkerLoad, Goto, Executable, TypeOK
<1>11. ASSUME NEW w \in Workers, WorkerReject(w)
      PROVE  TypeOK'
  BY <1>11, <1>1, StatesTyped DEF WorkerReject, CanWrite, TypeOK
<1>12. ASSUME NEW w \in Workers, WorkerStart(w)
      PROVE  TypeOK'
  BY <1>12, <1>1, StatesTyped DEF WorkerStart, Goto, TypeOK
<1>13. ASSUME NEW w \in Workers, WorkerReadSequence(w)
      PROVE  TypeOK'
  <2>1. Holding(w) \in Runs
    BY <1>13 DEF WorkerReadSequence, WorkerHolds, Holding, Consistent
  <2>2. NextSequence(journal[Holding(w)]) \in Nat
    BY <2>1, NextOfNumbered DEF JournalsNumbered, Consistent
  <2>3. worker' \in [Workers -> WorkerState]
    BY <1>13, <1>1, <2>2, SequenceTyped DEF WorkerReadSequence, TypeOK
  <2>. QED
    BY <1>13, <1>1, <2>3 DEF WorkerReadSequence, TypeOK
<1>14. ASSUME NEW w \in Workers, WorkerAnnounce(w)
      PROVE  TypeOK'
  BY <1>14, <1>1, StatesTyped DEF WorkerAnnounce, CanWrite, Goto, TypeOK
<1>15. ASSUME NEW w \in Workers, WorkerComplete(w)
      PROVE  TypeOK'
  <2>1. Holding(w) \in Runs
    BY <1>15 DEF WorkerComplete, Consistent, WorkerHolds, Holding
  <2>. QED
    BY <1>15, <1>1, <2>1, StatesTyped DEF WorkerComplete, Finish, TypeOK
<1>16. ASSUME NEW w \in Workers, WorkerFail(w)
      PROVE  TypeOK'
  <2>1. Holding(w) \in Runs
    BY <1>16 DEF WorkerFail, Consistent, WorkerHolds, Holding
  <2>. QED
    BY <1>16, <1>1, <2>1, StatesTyped DEF WorkerFail, Finish, TypeOK
<1>17. ASSUME NEW w \in Workers, WorkerFailAfterUpsert(w)
      PROVE  TypeOK'
  <2>1. Holding(w) \in Runs
    BY <1>17 DEF WorkerFailAfterUpsert, Consistent, WorkerHolds, Holding
  <2>. QED
    BY <1>17, <1>1, <2>1, StatesTyped DEF WorkerFailAfterUpsert, Finish, TypeOK
<1>18. ASSUME NEW w \in Workers, WorkerCrash(w)
      PROVE  TypeOK'
  BY <1>18, <1>1, StatesTyped, Spending DEF WorkerCrash, WorkerDies, TypeOK
<1>19. ASSUME NEW w \in Workers, WorkerTimesOut(w)
      PROVE  TypeOK'
  BY <1>19, <1>1, StatesTyped, Spending DEF WorkerTimesOut, WorkerDies, TypeOK
<1>20. ASSUME NEW r \in Runs, Redeliver(r)
      PROVE  TypeOK'
  <2>1. queue' \in [Runs -> Nat]
    BY <1>20, <1>1 DEF Redeliver, TypeOK
  <2>. QED
    BY <1>20, <1>1, <2>1, Spending DEF Redeliver, TypeOK
<1>21. CASE UNCHANGED vars
  BY <1>21, <1>1, StatesTyped DEF vars, TypeOK
<1>. QED
  BY <1>2, <1>3, <1>4, <1>5, <1>6, <1>7, <1>8, <1>9, <1>10, <1>11, <1>12, <1>13, <1>14,
     <1>15, <1>16, <1>17, <1>18, <1>19, <1>20, <1>21 DEF Next, ClientWork, WorkerWork

\* A step that moves no client leaves what the clients hold true.
LEMMA ClientsUndisturbed ==
  ASSUME Consistent, [Next]_vars, UNCHANGED client,
         \A d \in Clients : writer = d => writer' = d
  PROVE  \A d \in Clients : ClientHolds(d)'
<1>1. \A r \in Runs : ~Exists(r) => ~Exists(r)'
  <2>1. SUFFICES ASSUME NEW r \in Runs, ~Exists(r), Exists(r)' PROVE FALSE
    OBVIOUS
  <2>2. PICK c \in Clients :
          client[c].pc = "commit" /\ client' = [client EXCEPT ![c].pc = "enqueue"]
    BY <2>1, RowsStep DEF RowsStay
  <2>. QED
    BY <2>2 DEF Consistent, TypeOK, ClientState
<1>2. \A r \in Runs : Present(r) => Present(r)'
  BY StepFacts
<1>. QED
  BY <1>1, <1>2 DEF Consistent, ClientHolds

\* A client that has let go of its run holds nothing.
LEMMA ClientLetsGo ==
  ASSUME Consistent, NEW c \in Clients, client' = [client EXCEPT ![c] = IdleClient],
         UNCHANGED <<run, journal>>, \A d \in Clients : writer = d => writer' = d
  PROVE  \A d \in Clients : ClientHolds(d)'
<1>1. \A d \in Clients : client'[d] = IF d = c THEN IdleClient ELSE client[d]
  BY DEF Consistent, TypeOK
<1>2. \A d \in Clients : client'[d].run = IF d = c THEN None ELSE client[d].run
  BY <1>1 DEF IdleClient
<1>. QED
  BY <1>1, <1>2 DEF Consistent, ClientHolds, IdleClient, Exists, Present

\* What the requests hold.
LEMMA ClientsStep ==
  ASSUME Consistent, [Next]_vars
  PROVE  \A d \in Clients : ClientHolds(d)'
<1>. USE NoneAssumption, ProcessesAssumption
<1>1. ASSUME NEW c \in Clients, NEW row \in Requests, ClientFindsExisting(c, row)
     PROVE  \A d \in Clients : ClientHolds(d)'
  BY <1>1, ClientsUndisturbed DEF ClientFindsExisting, Spend
<1>2. ASSUME NEW c \in Clients, NEW row \in Requests, ClientPrepares(c, row)
     PROVE  \A d \in Clients : ClientHolds(d)'
  <2>1. PICK r \in Runs :
          /\ ~Exists(r) /\ \A d \in Clients : client[d].run # r
          /\ client' = [client EXCEPT ![c] = [pc |-> "insert", row |-> row, run |-> r]]
    BY <1>2 DEF ClientPrepares
  <2>2. \A d \in Clients :
          client'[d] = IF d = c THEN [pc |-> "insert", row |-> row, run |-> r] ELSE client[d]
    BY <2>1 DEF Consistent, TypeOK
  <2>3. row.status = "queued"
    BY DEF Requests
  <2>4. UNCHANGED <<run, journal, writer>>
    BY <1>2 DEF ClientPrepares
  <2>5. ClientHolds(c)'
    BY <2>1, <2>2, <2>3, <2>4 DEF ClientHolds, Exists
  <2>6. ASSUME NEW d \in Clients, d # c PROVE ClientHolds(d)'
    BY <2>1, <2>2, <2>4, <2>6 DEF Consistent, ClientHolds, Exists, Present
  <2>. QED
    BY <2>5, <2>6
<1>3. ASSUME NEW c \in Clients, ClientInsert(c)
     PROVE  \A d \in Clients : ClientHolds(d)'
  <2>1. CASE KeyIsFree(client[c].row.key)
    <3>1. /\ client[c].pc = "insert" /\ writer \in {None, c} /\ writer' = c
          /\ client' = [client EXCEPT ![c].pc = "commit"]
          /\ UNCHANGED <<run, journal>>
      BY <1>3, <2>1 DEF ClientInsert, CanWrite
    <3>2. \A d \in Clients : /\ client'[d].run = client[d].run
                             /\ client'[d].row = client[d].row
                             /\ client'[d].pc = IF d = c THEN "commit" ELSE client[d].pc
      BY <3>1 DEF Consistent, TypeOK, ClientState
    <3>. QED
      BY <3>1, <3>2 DEF Consistent, ClientHolds, Exists, Present
  <2>2. CASE ~KeyIsFree(client[c].row.key)
    BY <1>3, <2>2, ClientLetsGo DEF ClientInsert
  <2>. QED
    BY <2>1, <2>2
<1>4. ASSUME NEW c \in Clients, ClientCommit(c)
     PROVE  \A d \in Clients : ClientHolds(d)'
  <2>1. /\ client[c].pc = "commit" /\ writer = c /\ client[c].run \in Runs
        /\ client' = [client EXCEPT ![c].pc = "enqueue"]
        /\ client[c].row \in Row /\ client[c].row.status = "queued"
    BY <1>4 DEF ClientCommit, Consistent, ClientHolds, TypeOK, ClientState
  <2>2. \A d \in Clients : /\ client'[d].run = client[d].run
                           /\ client'[d].row = client[d].row
                           /\ client'[d].pc = IF d = c THEN "enqueue" ELSE client[d].pc
    BY <2>1 DEF Consistent, TypeOK, ClientState
  <2>3. Present(client[c].run)'
    <3>1. run'[client[c].run] = client[c].row
      BY <1>4, <2>1 DEF ClientCommit, Consistent, TypeOK
    <3>2. journal'[client[c].run] = Append(journal[client[c].run], "run_queued")
      BY <1>4, <2>1 DEF ClientCommit, Consistent, TypeOK
    <3>3. Append(journal[client[c].run], "run_queued") # {}
      BY DEF Append
    <3>. QED
      BY <2>1, <2>2, <3>1, <3>2, <3>3 DEF Present, Exists
  <2>4. ASSUME NEW d \in Clients, d # c, client[d].pc # "idle", ~Exists(client[d].run)
        PROVE  ~Exists(client[d].run)'
    <3>1. client[d].run # client[c].run /\ client[d].run \in Runs
      BY <2>1, <2>4 DEF Consistent, ClientHolds
    <3>. QED
      BY <1>4, <2>1, <2>2, <2>4, <3>1 DEF ClientCommit, Exists, Consistent, TypeOK
  <2>5. \A r \in Runs : Present(r) => Present(r)'
    BY StepFacts
  <2>6. ClientHolds(c)'
    BY <2>1, <2>2, <2>3 DEF Consistent, ClientHolds
  <2>7. ASSUME NEW d \in Clients, d # c PROVE ClientHolds(d)'
    BY <2>1, <2>2, <2>4, <2>5, <2>7 DEF Consistent, ClientHolds
  <2>. QED
    BY <2>6, <2>7
<1>5. ASSUME NEW c \in Clients, ClientEnqueue(c)
     PROVE  \A d \in Clients : ClientHolds(d)'
  BY <1>5, ClientLetsGo DEF ClientEnqueue
<1>6. ASSUME NEW c \in Clients, ClientSendFails(c)
     PROVE  \A d \in Clients : ClientHolds(d)'
  BY <1>6, ClientLetsGo DEF ClientSendFails
<1>7. ASSUME NEW c \in Clients, ClientTimesOut(c)
     PROVE  \A d \in Clients : ClientHolds(d)'
  BY <1>7, ClientLetsGo DEF ClientTimesOut
<1>8. ASSUME NEW w \in Workers, WorkerReceive(w)
     PROVE  \A d \in Clients : ClientHolds(d)'
  BY <1>8, ClientsUndisturbed DEF WorkerReceive
<1>9. ASSUME NEW w \in Workers, WorkerLoad(w)
     PROVE  \A d \in Clients : ClientHolds(d)'
  BY <1>9, ClientsUndisturbed DEF WorkerLoad, Goto, Executable
<1>10. ASSUME NEW w \in Workers, WorkerReject(w)
      PROVE  \A d \in Clients : ClientHolds(d)'
  BY <1>10, ClientsUndisturbed DEF WorkerReject, CanWrite
<1>11. ASSUME NEW w \in Workers, WorkerStart(w)
      PROVE  \A d \in Clients : ClientHolds(d)'
  BY <1>11, ClientsUndisturbed DEF WorkerStart, CanWrite, Goto
<1>12. ASSUME NEW w \in Workers, WorkerReadSequence(w)
      PROVE  \A d \in Clients : ClientHolds(d)'
  BY <1>12, ClientsUndisturbed DEF WorkerReadSequence
<1>13. ASSUME NEW w \in Workers, WorkerAnnounce(w)
      PROVE  \A d \in Clients : ClientHolds(d)'
  BY <1>13, ClientsUndisturbed DEF WorkerAnnounce, CanWrite
<1>14. ASSUME NEW w \in Workers, WorkerComplete(w)
      PROVE  \A d \in Clients : ClientHolds(d)'
  BY <1>14, ClientsUndisturbed DEF WorkerComplete, Finish, CanWrite
<1>15. ASSUME NEW w \in Workers, WorkerFail(w)
      PROVE  \A d \in Clients : ClientHolds(d)'
  BY <1>15, ClientsUndisturbed DEF WorkerFail, Finish, CanWrite
<1>16. ASSUME NEW w \in Workers, WorkerFailAfterUpsert(w)
      PROVE  \A d \in Clients : ClientHolds(d)'
  BY <1>16, ClientsUndisturbed DEF WorkerFailAfterUpsert, Finish, CanWrite
<1>17. ASSUME NEW w \in Workers, WorkerCrash(w)
      PROVE  \A d \in Clients : ClientHolds(d)'
  BY <1>17, ClientsUndisturbed DEF WorkerCrash, WorkerDies, HoldsTransaction
<1>18. ASSUME NEW w \in Workers, WorkerTimesOut(w)
      PROVE  \A d \in Clients : ClientHolds(d)'
  BY <1>18, ClientsUndisturbed DEF WorkerTimesOut, WorkerDies, HoldsTransaction
<1>19. ASSUME NEW r \in Runs, Redeliver(r)
      PROVE  \A d \in Clients : ClientHolds(d)'
  BY <1>19, ClientsUndisturbed DEF Redeliver, Spend
<1>20. CASE UNCHANGED vars
  BY <1>20, ClientsUndisturbed DEF vars
<1>. QED
  BY <1>1, <1>2, <1>3, <1>4, <1>5, <1>6, <1>7, <1>8, <1>9, <1>10, <1>11, <1>12, <1>13,
     <1>14, <1>15, <1>16, <1>17, <1>18, <1>19, <1>20 DEF Next, ClientWork, WorkerWork

\* A worker that does not move and gains no lock holds what it held.
LEMMA WorkerUndisturbed ==
  ASSUME Consistent, [Next]_vars, NEW v \in Workers,
         worker'[v] = worker[v], writer' = v => writer = v
  PROVE  WorkerHolds(v)'
<1>1. CASE worker[v].run \in Runs
  <2>1. /\ Present(worker[v].run) => Present(worker[v].run)'
        /\ Cardinality(journal'[worker[v].run]) \in Nat
        /\ Cardinality(journal[worker[v].run]) \in Nat
        /\ Cardinality(journal'[worker[v].run]) >= Cardinality(journal[worker[v].run])
        /\ journal' = journal \/ writer' = None
    BY <1>1, StepFacts
  <2>. QED
    BY <1>1, <2>1, NoneAssumption DEF Consistent, WorkerHolds
<1>2. CASE worker[v].run \notin Runs
  BY <1>2 DEF Consistent, WorkerHolds
<1>. QED
  BY <1>1, <1>2

\* Steps in which no worker moves.
LEMMA WorkersUndisturbed ==
  ASSUME Consistent, [Next]_vars, UNCHANGED worker,
         \A v \in Workers : writer' = v => writer = v
  PROVE  \A v \in Workers : WorkerHolds(v)'
BY WorkerUndisturbed

\* Steps in which one worker moves.
LEMMA WorkerMoves ==
  ASSUME Consistent, [Next]_vars, NEW w \in Workers, NEW s,
         worker' = [worker EXCEPT ![w] = s],
         \A v \in Workers : v # w /\ writer' = v => writer = v,
         worker'[w] = s => WorkerHolds(w)'
  PROVE  \A v \in Workers : WorkerHolds(v)'
<1>1. \A v \in Workers : v # w => worker'[v] = worker[v]
  BY DEF Consistent, TypeOK
<1>2. worker'[w] = s
  BY DEF Consistent, TypeOK
<1>. QED
  BY <1>1, <1>2, WorkerUndisturbed

\* Steps in which one worker moves on and goes on holding its run.
LEMMA WorkerGoes ==
  ASSUME Consistent, [Next]_vars, NEW w \in Workers, worker[w].pc # "idle",
         NEW pc \in {"start", "reject", "sequence", "provide"}, Goto(w, pc),
         writer' \in {writer, None}, writer # w
  PROVE  \A v \in Workers : WorkerHolds(v)'
<1>1. \A v \in Workers : /\ worker'[v].run = worker[v].run
                         /\ worker'[v].pc = IF v = w THEN pc ELSE worker[v].pc
                         /\ v # w => worker'[v] = worker[v]
  BY DEF Goto, Consistent, TypeOK, WorkerState
<1>2. worker[w].run \in Runs /\ Present(worker[w].run)
  BY DEF Consistent, WorkerHolds
<1>3. Present(worker[w].run)'
  <2>1. \A r \in Runs : Present(r) => Present(r)'
    BY StepFacts
  <2>2. worker'[w].run = worker[w].run
    BY <1>1
  <2>. QED
    BY <1>2, <2>1, <2>2 DEF Present, Exists
<1>4. WorkerHolds(w)'
  BY <1>1, <1>2, <1>3, NoneAssumption DEF WorkerHolds
<1>. QED
  BY <1>1, <1>4, WorkerUndisturbed, NoneAssumption

\* Steps in which one worker is done with its run.
LEMMA WorkerLetsGo ==
  ASSUME Consistent, [Next]_vars, NEW w \in Workers,
         worker' = [worker EXCEPT ![w] = IdleWorker], writer' \in {writer, None}, writer' # w
  PROVE  \A v \in Workers : WorkerHolds(v)'
<1>1. worker'[w] = IdleWorker => WorkerHolds(w)'
  BY DEF WorkerHolds, IdleWorker
<1>. QED
  BY <1>1, WorkerMoves, NoneAssumption

\* What the tasks hold.
LEMMA WorkersStep ==
  ASSUME Consistent, [Next]_vars
  PROVE  \A v \in Workers : WorkerHolds(v)'
<1>. USE NoneAssumption, ProcessesAssumption
<1>1. ASSUME NEW c \in Clients, NEW row \in Requests, ClientFindsExisting(c, row)
     PROVE  \A v \in Workers : WorkerHolds(v)'
  BY <1>1, WorkersUndisturbed DEF ClientFindsExisting, Spend
<1>2. ASSUME NEW c \in Clients, NEW row \in Requests, ClientPrepares(c, row)
     PROVE  \A v \in Workers : WorkerHolds(v)'
  BY <1>2, WorkersUndisturbed DEF ClientPrepares, Spend
<1>3. ASSUME NEW c \in Clients, ClientInsert(c)
     PROVE  \A v \in Workers : WorkerHolds(v)'
  BY <1>3, WorkersUndisturbed DEF ClientInsert, CanWrite
<1>4. ASSUME NEW c \in Clients, ClientCommit(c)
     PROVE  \A v \in Workers : WorkerHolds(v)'
  BY <1>4, WorkersUndisturbed DEF ClientCommit
<1>5. ASSUME NEW c \in Clients, ClientEnqueue(c)
     PROVE  \A v \in Workers : WorkerHolds(v)'
  BY <1>5, WorkersUndisturbed DEF ClientEnqueue
<1>6. ASSUME NEW c \in Clients, ClientSendFails(c)
     PROVE  \A v \in Workers : WorkerHolds(v)'
  BY <1>6, WorkersUndisturbed DEF ClientSendFails, Spend
<1>7. ASSUME NEW c \in Clients, ClientTimesOut(c)
     PROVE  \A v \in Workers : WorkerHolds(v)'
  BY <1>7, WorkersUndisturbed DEF ClientTimesOut, Spend
<1>8. ASSUME NEW w \in Workers, WorkerReceive(w)
     PROVE  \A v \in Workers : WorkerHolds(v)'
  <2>1. PICK r \in Runs :
          /\ queue[r] > 0
          /\ worker' = [worker EXCEPT ![w] = [pc |-> "load", run |-> r, seq |-> 0]]
    BY <1>8 DEF WorkerReceive
  <2>2. Present(r) /\ writer # w
    BY <1>8, <2>1 DEF WorkerReceive, Consistent, WorkerHolds, MessagesOfPresentRuns
  <2>3. UNCHANGED <<run, journal, writer>>
    BY <1>8 DEF WorkerReceive
  <2>4. ASSUME worker'[w] = [pc |-> "load", run |-> r, seq |-> 0]
        PROVE  WorkerHolds(w)'
    BY <2>2, <2>3, <2>4 DEF WorkerHolds, Present, Exists
  <2>. QED
    BY <2>1, <2>3, <2>4, WorkerMoves
<1>9. ASSUME NEW w \in Workers, WorkerLoad(w)
     PROVE  \A v \in Workers : WorkerHolds(v)'
  <2>1. worker[w].pc = "load" /\ writer # w /\ UNCHANGED writer
    BY <1>9 DEF WorkerLoad, Consistent, WorkerHolds
  <2>2. CASE Executable(Holding(w))
    <3>1. Goto(w, "start") \/ Goto(w, "reject")
      BY <1>9, <2>2 DEF WorkerLoad
    <3>. QED
      BY <2>1, <3>1, WorkerGoes
  <2>3. CASE ~Executable(Holding(w))
    BY <1>9, <2>1, <2>3, WorkerLetsGo DEF WorkerLoad
  <2>. QED
    BY <2>2, <2>3
<1>10. ASSUME NEW w \in Workers, WorkerReject(w)
      PROVE  \A v \in Workers : WorkerHolds(v)'
  BY <1>10, WorkerLetsGo DEF WorkerReject, CanWrite, Consistent, WorkerHolds
<1>11. ASSUME NEW w \in Workers, WorkerStart(w)
      PROVE  \A v \in Workers : WorkerHolds(v)'
  BY <1>11, WorkerGoes DEF WorkerStart, Consistent, WorkerHolds
<1>12. ASSUME NEW w \in Workers, WorkerReadSequence(w)
      PROVE  \A v \in Workers : WorkerHolds(v)'
  <2>1. worker[w].pc = "sequence" /\ writer # w /\ UNCHANGED <<run, journal, writer>>
    BY <1>12 DEF WorkerReadSequence, Consistent, WorkerHolds
  <2>2. /\ worker'[w].pc = "announce" /\ worker'[w].run = Holding(w)
        /\ worker'[w].seq = NextSequence(journal[Holding(w)])
        /\ \A v \in Workers : v # w => worker'[v] = worker[v]
    BY <1>12 DEF WorkerReadSequence, Holding, Consistent, TypeOK, WorkerState
  <2>3. Holding(w) \in Runs /\ Present(Holding(w)) /\ Numbered(journal[Holding(w)])
    BY <2>1 DEF Consistent, WorkerHolds, Holding, JournalsNumbered
  <2>4. NextSequence(journal[Holding(w)]) \in 1 .. (Cardinality(journal[Holding(w)]) + 1)
    BY <2>3, NextOfNumbered
  <2>5. WorkerHolds(w)'
    BY <2>1, <2>2, <2>3, <2>4 DEF WorkerHolds, Present, Exists
  <2>. QED
    BY <2>1, <2>2, <2>5, WorkerUndisturbed
<1>13. ASSUME NEW w \in Workers, WorkerAnnounce(w)
      PROVE  \A v \in Workers : WorkerHolds(v)'
  <2>1. worker[w].pc = "announce" /\ writer = None
    BY <1>13 DEF WorkerAnnounce, CanWrite, Consistent, WorkerHolds
  <2>2. Holding(w) \in Runs /\ Present(Holding(w)) /\ Numbered(journal[Holding(w)])
    BY <2>1 DEF Consistent, WorkerHolds, Holding, JournalsNumbered
  <2>3. CASE ~Insertable(journal[Holding(w)], worker[w].seq)
    BY <1>13, <2>1, <2>3, WorkerLetsGo DEF WorkerAnnounce
  <2>4. CASE Insertable(journal[Holding(w)], worker[w].seq)
    <3>1. CASE PipelineOf(w) # "signal_monitoring"
      BY <1>13, <2>1, <2>4, <3>1, WorkerGoes DEF WorkerAnnounce
    <3>2. CASE PipelineOf(w) = "signal_monitoring"
      <4>1. /\ Goto(w, "provide") /\ writer' = w
            /\ UNCHANGED <<run, journal>>
        BY <1>13, <2>4, <3>2 DEF WorkerAnnounce
      <4>2. /\ worker'[w].pc = "provide" /\ worker'[w].run = Holding(w)
            /\ worker'[w].seq = worker[w].seq
            /\ \A v \in Workers : v # w => worker'[v] = worker[v]
        BY <4>1 DEF Goto, Holding, Consistent, TypeOK, WorkerState
      <4>3. worker[w].seq \in 1 .. (Cardinality(journal[Holding(w)]) + 1)
        BY <2>1 DEF Consistent, WorkerHolds, Holding
      <4>4. worker[w].seq = Cardinality(journal[Holding(w)]) + 1
        BY <2>2, <2>4, <4>3, InsertableIsNext, NextOfNumbered
      <4>5. WorkerHolds(w)'
        BY <2>2, <4>1, <4>2, <4>4 DEF WorkerHolds, Present, Exists
      <4>. QED
        BY <4>1, <4>2, <4>5, WorkerUndisturbed
    <3>. QED
      BY <3>1, <3>2
  <2>. QED
    BY <2>3, <2>4
<1>14. ASSUME NEW w \in Workers, WorkerComplete(w)
      PROVE  \A v \in Workers : WorkerHolds(v)'
  BY <1>14, WorkerLetsGo DEF WorkerComplete, Finish, Consistent, WorkerHolds
<1>15. ASSUME NEW w \in Workers, WorkerFail(w)
      PROVE  \A v \in Workers : WorkerHolds(v)'
  BY <1>15, WorkerLetsGo DEF WorkerFail, Finish, Consistent, WorkerHolds
<1>16. ASSUME NEW w \in Workers, WorkerFailAfterUpsert(w)
      PROVE  \A v \in Workers : WorkerHolds(v)'
  BY <1>16, WorkerLetsGo DEF WorkerFailAfterUpsert, Finish, Consistent, WorkerHolds
<1>17. ASSUME NEW w \in Workers, WorkerCrash(w)
      PROVE  \A v \in Workers : WorkerHolds(v)'
  BY <1>17, WorkerLetsGo DEF WorkerCrash, WorkerDies, HoldsTransaction, Consistent, WorkerHolds
<1>18. ASSUME NEW w \in Workers, WorkerTimesOut(w)
      PROVE  \A v \in Workers : WorkerHolds(v)'
  BY <1>18, WorkerLetsGo
     DEF WorkerTimesOut, WorkerDies, HoldsTransaction, Consistent, WorkerHolds
<1>19. ASSUME NEW r \in Runs, Redeliver(r)
      PROVE  \A v \in Workers : WorkerHolds(v)'
  BY <1>19, WorkersUndisturbed DEF Redeliver, Spend
<1>20. CASE UNCHANGED vars
  BY <1>20, WorkersUndisturbed DEF vars
<1>. QED
  BY <1>1, <1>2, <1>3, <1>4, <1>5, <1>6, <1>7, <1>8, <1>9, <1>10, <1>11, <1>12, <1>13,
     <1>14, <1>15, <1>16, <1>17, <1>18, <1>19, <1>20 DEF Next, ClientWork, WorkerWork

\* Messages are sent for runs that are there, and those stay.
LEMMA MessagesStep ==
  ASSUME Consistent, [Next]_vars
  PROVE  MessagesOfPresentRuns'
<1>1. \A r \in Runs : Present(r) => Present(r)'
  BY StepFacts
<1>2. \A r \in Runs : queue'[r] > 0 => queue[r] > 0 \/ Present(r)
  <2>1. ASSUME NEW c \in Clients, NEW row \in Requests, ClientFindsExisting(c, row)
       PROVE  \A r \in Runs : queue'[r] > 0 => queue[r] > 0 \/ Present(r)
    BY <2>1 DEF ClientFindsExisting, Spend
  <2>2. ASSUME NEW c \in Clients, NEW row \in Requests, ClientPrepares(c, row)
       PROVE  \A r \in Runs : queue'[r] > 0 => queue[r] > 0 \/ Present(r)
    BY <2>2 DEF ClientPrepares, Spend
  <2>3. ASSUME NEW c \in Clients, ClientInsert(c)
       PROVE  \A r \in Runs : queue'[r] > 0 => queue[r] > 0 \/ Present(r)
    BY <2>3 DEF ClientInsert, CanWrite, KeyIsFree
  <2>4. ASSUME NEW c \in Clients, ClientCommit(c)
       PROVE  \A r \in Runs : queue'[r] > 0 => queue[r] > 0 \/ Present(r)
    BY <2>4 DEF ClientCommit
  <2>5. ASSUME NEW c \in Clients, ClientEnqueue(c)
       PROVE  \A r \in Runs : queue'[r] > 0 => queue[r] > 0 \/ Present(r)
    BY <2>5 DEF ClientEnqueue, Consistent, ClientHolds, TypeOK
  <2>6. ASSUME NEW c \in Clients, ClientSendFails(c)
       PROVE  \A r \in Runs : queue'[r] > 0 => queue[r] > 0 \/ Present(r)
    BY <2>6 DEF ClientSendFails, Spend
  <2>7. ASSUME NEW c \in Clients, ClientTimesOut(c)
       PROVE  \A r \in Runs : queue'[r] > 0 => queue[r] > 0 \/ Present(r)
    BY <2>7 DEF ClientTimesOut, Spend
  <2>8. ASSUME NEW w \in Workers, WorkerReceive(w)
       PROVE  \A r \in Runs : queue'[r] > 0 => queue[r] > 0 \/ Present(r)
    BY <2>8 DEF WorkerReceive, Consistent, TypeOK
  <2>9. ASSUME NEW w \in Workers, WorkerLoad(w)
       PROVE  \A r \in Runs : queue'[r] > 0 => queue[r] > 0 \/ Present(r)
    BY <2>9 DEF WorkerLoad, Goto, Executable
  <2>10. ASSUME NEW w \in Workers, WorkerReject(w)
        PROVE  \A r \in Runs : queue'[r] > 0 => queue[r] > 0 \/ Present(r)
    BY <2>10 DEF WorkerReject, CanWrite
  <2>11. ASSUME NEW w \in Workers, WorkerStart(w)
        PROVE  \A r \in Runs : queue'[r] > 0 => queue[r] > 0 \/ Present(r)
    BY <2>11 DEF WorkerStart, CanWrite, Goto
  <2>12. ASSUME NEW w \in Workers, WorkerReadSequence(w)
        PROVE  \A r \in Runs : queue'[r] > 0 => queue[r] > 0 \/ Present(r)
    BY <2>12 DEF WorkerReadSequence
  <2>13. ASSUME NEW w \in Workers, WorkerAnnounce(w)
        PROVE  \A r \in Runs : queue'[r] > 0 => queue[r] > 0 \/ Present(r)
    BY <2>13 DEF WorkerAnnounce, CanWrite, Goto
  <2>14. ASSUME NEW w \in Workers, WorkerComplete(w)
        PROVE  \A r \in Runs : queue'[r] > 0 => queue[r] > 0 \/ Present(r)
    BY <2>14 DEF WorkerComplete, Finish
  <2>15. ASSUME NEW w \in Workers, WorkerFail(w)
        PROVE  \A r \in Runs : queue'[r] > 0 => queue[r] > 0 \/ Present(r)
    BY <2>15 DEF WorkerFail, Finish
  <2>16. ASSUME NEW w \in Workers, WorkerFailAfterUpsert(w)
        PROVE  \A r \in Runs : queue'[r] > 0 => queue[r] > 0 \/ Present(r)
    BY <2>16 DEF WorkerFailAfterUpsert, Finish
  <2>17. ASSUME NEW w \in Workers, WorkerCrash(w)
        PROVE  \A r \in Runs : queue'[r] > 0 => queue[r] > 0 \/ Present(r)
    BY <2>17 DEF WorkerCrash, WorkerDies
  <2>18. ASSUME NEW w \in Workers, WorkerTimesOut(w)
        PROVE  \A r \in Runs : queue'[r] > 0 => queue[r] > 0 \/ Present(r)
    BY <2>18 DEF WorkerTimesOut, WorkerDies
  <2>19. ASSUME NEW r \in Runs, Redeliver(r)
        PROVE  \A s \in Runs : queue'[s] > 0 => queue[s] > 0 \/ Present(s)
    BY <2>19 DEF Redeliver, Consistent, TypeOK
  <2>20. CASE UNCHANGED vars
    BY <2>20 DEF vars
  <2>. QED
    BY <2>1, <2>2, <2>3, <2>4, <2>5, <2>6, <2>7, <2>8, <2>9, <2>10, <2>11, <2>12, <2>13,
       <2>14, <2>15, <2>16, <2>17, <2>18, <2>19, <2>20 DEF Next, ClientWork, WorkerWork
<1>. QED
  BY <1>1, <1>2 DEF Consistent, MessagesOfPresentRuns

\* The strengthening holds always.
THEOREM RunsStayConsistent == Spec => []Consistent
<1>1. Consistent /\ [Next]_vars => Consistent'
  <2>1. ASSUME Consistent, [Next]_vars PROVE JournalsNumbered'
    BY <2>1, JournalsStep DEF JournalsGrow, JournalsNumbered
  <2>. QED
    BY <2>1, TypeStep, ClientsStep, WorkersStep, MessagesStep DEF Consistent
<1>. QED
  BY <1>1, ConsistentInit, PTL DEF Spec

\* Every variable of the lifecycle keeps its type.
THEOREM LifecycleTypeCorrect == Spec => []TypeOK
<1>1. Consistent => TypeOK
  BY DEF Consistent
<1>. QED
  BY <1>1, RunsStayConsistent, PTL

\* A reply names a run that owns the key or was committed by the request itself.
LEMMA AcceptedStep ==
  ASSUME Consistent, [Next]_vars
  PROVE  \A r \in accepted' : r \in accepted \/ Exists(r)
<1>1. ASSUME NEW c \in Clients, NEW row \in Requests, ClientFindsExisting(c, row)
     PROVE  \A r \in accepted' : r \in accepted \/ Exists(r)
  BY <1>1 DEF ClientFindsExisting, Spend, KeyOwners
<1>2. ASSUME NEW c \in Clients, NEW row \in Requests, ClientPrepares(c, row)
     PROVE  \A r \in accepted' : r \in accepted \/ Exists(r)
  BY <1>2 DEF ClientPrepares, Spend
<1>3. ASSUME NEW c \in Clients, ClientInsert(c)
     PROVE  \A r \in accepted' : r \in accepted \/ Exists(r)
  BY <1>3 DEF ClientInsert
<1>4. ASSUME NEW c \in Clients, ClientCommit(c)
     PROVE  \A r \in accepted' : r \in accepted \/ Exists(r)
  BY <1>4 DEF ClientCommit
<1>5. ASSUME NEW c \in Clients, ClientEnqueue(c)
     PROVE  \A r \in accepted' : r \in accepted \/ Exists(r)
  BY <1>5 DEF ClientEnqueue, Consistent, ClientHolds, Present
<1>6. ASSUME NEW c \in Clients, ClientSendFails(c)
     PROVE  \A r \in accepted' : r \in accepted \/ Exists(r)
  BY <1>6 DEF ClientSendFails
<1>7. ASSUME NEW c \in Clients, ClientTimesOut(c)
     PROVE  \A r \in accepted' : r \in accepted \/ Exists(r)
  BY <1>7 DEF ClientTimesOut
<1>8. ASSUME NEW w \in Workers, WorkerWork(w) \/ WorkerCrash(w) \/ WorkerTimesOut(w)
     PROVE  UNCHANGED accepted
  <2>1. CASE WorkerReceive(w)
    BY <2>1 DEF WorkerReceive
  <2>2. CASE WorkerLoad(w) \/ WorkerReject(w) \/ WorkerStart(w)
    BY <2>2 DEF WorkerLoad, WorkerReject, WorkerStart
  <2>3. CASE WorkerReadSequence(w) \/ WorkerAnnounce(w)
    BY <2>3 DEF WorkerReadSequence, WorkerAnnounce
  <2>4. CASE WorkerComplete(w) \/ WorkerFail(w) \/ WorkerFailAfterUpsert(w)
    BY <2>4 DEF WorkerComplete, WorkerFail, WorkerFailAfterUpsert, Finish
  <2>5. CASE WorkerCrash(w) \/ WorkerTimesOut(w)
    BY <2>5 DEF WorkerCrash, WorkerTimesOut, WorkerDies
  <2>. QED
    BY <1>8, <2>1, <2>2, <2>3, <2>4, <2>5 DEF WorkerWork
<1>9. ASSUME NEW r \in Runs, Redeliver(r)
     PROVE  UNCHANGED accepted
  BY <1>9 DEF Redeliver
<1>10. CASE UNCHANGED vars
  BY <1>10 DEF vars
<1>. QED
  BY <1>1, <1>2, <1>3, <1>4, <1>5, <1>6, <1>7, <1>8, <1>9, <1>10 DEF Next, ClientWork

\* A worker never receives, and never holds, a run it cannot load, and a reply
\* names no run a poll would not find.
THEOREM EnqueuedAfterCommit == Spec => []EnqueuedRunIsCommitted
<1>1. Init => \A r \in accepted : Exists(r)
  BY DEF Init
<1>2. Consistent /\ (\A r \in accepted : Exists(r)) /\ [Next]_vars => (\A r \in accepted : Exists(r))'
  <2>. SUFFICES ASSUME Consistent, \A r \in accepted : Exists(r), [Next]_vars
                PROVE  \A r \in accepted' : Exists(r)'
    OBVIOUS
  <2>1. \A r \in accepted' : Exists(r)
    BY AcceptedStep
  <2>2. accepted' \subseteq Runs
    BY TypeStep DEF TypeOK
  <2>. QED
    BY <2>1, <2>2, RowsStep DEF RowsStay
<1>3. Consistent /\ (\A r \in accepted : Exists(r)) => EnqueuedRunIsCommitted
  BY NoneAssumption DEF Consistent, EnqueuedRunIsCommitted, WorkerHolds, MessagesOfPresentRuns,
     Present, Holding
<1>. QED
  BY <1>1, <1>2, <1>3, RunsStayConsistent, PTL DEF Spec

\* The journal of every run is numbered without gap or repetition.
THEOREM JournalsAreDense == Spec => []JournalIsDense
<1>1. Consistent => JournalIsDense
  BY DEF Consistent, JournalIsDense, JournalsNumbered, Numbered
<1>. QED
  BY <1>1, RunsStayConsistent, PTL

-----------------------------------------------------------------------------
(* Outputs.                                                                *)

\* A status becomes completed only together with an output.
LEMMA CompletedStep ==
  ASSUME Consistent, CompletedHasOutput, [Next]_vars
  PROVE  CompletedHasOutput'
<1>. USE DEF CompletedHasOutput
<1>. run \in [Runs -> Row]
  BY DEF Consistent, TypeOK
<1>1. ASSUME NEW c \in Clients, NEW row \in Requests, ClientFindsExisting(c, row)
     PROVE  CompletedHasOutput'
  BY <1>1 DEF ClientFindsExisting, Spend
<1>2. ASSUME NEW c \in Clients, NEW row \in Requests, ClientPrepares(c, row)
     PROVE  CompletedHasOutput'
  BY <1>2 DEF ClientPrepares, Spend
<1>3. ASSUME NEW c \in Clients, ClientInsert(c)
     PROVE  CompletedHasOutput'
  BY <1>3 DEF ClientInsert, CanWrite, KeyIsFree
<1>4. ASSUME NEW c \in Clients, ClientCommit(c)
     PROVE  CompletedHasOutput'
  <2>1. run' = [run EXCEPT ![client[c].run] = client[c].row] /\ UNCHANGED output
    BY <1>4 DEF ClientCommit
  <2>2. client[c].row.status = "queued"
    BY <1>4 DEF ClientCommit, Consistent, ClientHolds
  <2>. QED
    BY <2>1, <2>2
<1>5. ASSUME NEW c \in Clients, ClientEnqueue(c)
     PROVE  CompletedHasOutput'
  BY <1>5 DEF ClientEnqueue
<1>6. ASSUME NEW c \in Clients, ClientSendFails(c)
     PROVE  CompletedHasOutput'
  BY <1>6 DEF ClientSendFails, Spend
<1>7. ASSUME NEW c \in Clients, ClientTimesOut(c)
     PROVE  CompletedHasOutput'
  BY <1>7 DEF ClientTimesOut, Spend
<1>8. ASSUME NEW w \in Workers, WorkerReceive(w)
     PROVE  CompletedHasOutput'
  BY <1>8 DEF WorkerReceive
<1>9. ASSUME NEW w \in Workers, WorkerLoad(w)
     PROVE  CompletedHasOutput'
  BY <1>9 DEF WorkerLoad, Goto, Executable
<1>10. ASSUME NEW w \in Workers, WorkerReject(w)
      PROVE  CompletedHasOutput'
  BY <1>10 DEF WorkerReject, Row
<1>11. ASSUME NEW w \in Workers, WorkerStart(w)
      PROVE  CompletedHasOutput'
  BY <1>11 DEF WorkerStart, Row
<1>12. ASSUME NEW w \in Workers, WorkerReadSequence(w)
      PROVE  CompletedHasOutput'
  BY <1>12 DEF WorkerReadSequence
<1>13. ASSUME NEW w \in Workers, WorkerAnnounce(w)
      PROVE  CompletedHasOutput'
  BY <1>13 DEF WorkerAnnounce, CanWrite, Goto
<1>14. ASSUME NEW w \in Workers, WorkerComplete(w)
      PROVE  CompletedHasOutput'
  BY <1>14 DEF WorkerComplete, Finish, Row
<1>15. ASSUME NEW w \in Workers, WorkerFail(w)
      PROVE  CompletedHasOutput'
  BY <1>15 DEF WorkerFail, Finish, Row
<1>16. ASSUME NEW w \in Workers, WorkerFailAfterUpsert(w)
      PROVE  CompletedHasOutput'
  BY <1>16 DEF WorkerFailAfterUpsert, Finish, Row
<1>17. ASSUME NEW w \in Workers, WorkerCrash(w)
      PROVE  CompletedHasOutput'
  BY <1>17 DEF WorkerCrash, WorkerDies
<1>18. ASSUME NEW w \in Workers, WorkerTimesOut(w)
      PROVE  CompletedHasOutput'
  BY <1>18 DEF WorkerTimesOut, WorkerDies
<1>19. ASSUME NEW r \in Runs, Redeliver(r)
      PROVE  CompletedHasOutput'
  BY <1>19 DEF Redeliver, Spend
<1>20. CASE UNCHANGED vars
  BY <1>20 DEF vars
<1>. QED
  BY <1>1, <1>2, <1>3, <1>4, <1>5, <1>6, <1>7, <1>8, <1>9, <1>10, <1>11, <1>12, <1>13,
     <1>14, <1>15, <1>16, <1>17, <1>18, <1>19, <1>20 DEF Next, ClientWork, WorkerWork

\* A run seen as completed has its output, whatever happened to its tasks.
THEOREM CompletedRunsHaveOutput == Spec => []CompletedHasOutput
<1>1. Init => CompletedHasOutput
  BY DEF Init, CompletedHasOutput, NoRow
<1>. QED
  BY <1>1, CompletedStep, RunsStayConsistent, PTL DEF Spec

-----------------------------------------------------------------------------
(* Idempotency keys.                                                       *)

\* A key stays free from the insert, which takes the lock, to the commit; and what
\* a request still has to send has not been sent.
KeysHeld ==
  /\ \A c \in Clients :
       /\ client[c].pc = "commit" => KeyIsFree(client[c].row.key)
       /\ client[c].pc # "idle" => sends[client[c].run] = 0
  /\ \A r \in Runs : sends[r] > 0 => Exists(r)
  /\ KeyNamesOneRun

\* Steps that write no row, send nothing and move no client into a commit.
LEMMA KeysUndisturbed ==
  ASSUME Consistent, KeysHeld, UNCHANGED <<run, sends>>,
         \A c \in Clients : \/ client'[c] = client[c]
                            \/ client'[c].pc = "idle"
                            \/ client'[c].pc = "insert" /\ ~Exists(client'[c].run)
                               /\ client'[c].run \in Runs
  PROVE  KeysHeld'
<1>1. \A key : KeyIsFree(key)' <=> KeyIsFree(key)
  BY DEF KeyIsFree, KeyOwners, Exists
<1>2. \A r \in Runs : ~Exists(r) => sends[r] = 0
  BY DEF KeysHeld, Consistent, TypeOK
<1>3. ASSUME NEW c \in Clients
      PROVE  /\ client'[c].pc = "commit" => KeyIsFree(client[c].row.key)'
             /\ client'[c].pc # "idle" => sends'[client'[c].run] = 0
  <2>1. CASE client'[c] = client[c]
    BY <2>1, <1>1 DEF KeysHeld
  <2>2. CASE client'[c].pc = "idle"
    BY <2>2
  <2>3. CASE client'[c].pc = "insert" /\ ~Exists(client'[c].run) /\ client'[c].run \in Runs
    BY <2>3, <1>2
  <2>. QED
    BY <2>1, <2>2, <2>3
<1>4. (\A r \in Runs : sends[r] > 0 => Exists(r))' /\ KeyNamesOneRun'
  BY DEF KeysHeld, KeyNamesOneRun, Exists
<1>. QED
  BY <1>3, <1>4 DEF KeysHeld

\* Steps that only write the status of a run that exists.
LEMMA KeysOfStatus ==
  ASSUME Consistent, KeysHeld, NEW w \in Workers, worker[w].pc # "idle",
         NEW status \in RunStatus \ {"absent"},
         run' = [run EXCEPT ![Holding(w)].status = status], UNCHANGED <<client, sends>>
  PROVE  KeysHeld'
<1>1. Holding(w) \in Runs /\ Exists(Holding(w)) /\ run \in [Runs -> Row]
  BY DEF Consistent, WorkerHolds, Holding, Present, TypeOK
<1>2. \A r \in Runs : run'[r].key = run[r].key /\ Exists(r)' = Exists(r)
  BY <1>1 DEF Exists, Row
<1>3. \A key : KeyIsFree(key)' <=> KeyIsFree(key)
  BY <1>2 DEF KeyIsFree, KeyOwners
<1>. QED
  BY <1>2, <1>3 DEF KeysHeld, KeyNamesOneRun

\* No step gives a key to two runs.
LEMMA KeysStep ==
  ASSUME Consistent, KeysHeld, [Next]_vars
  PROVE  KeysHeld'
<1>. client \in [Clients -> ClientState] /\ run \in [Runs -> Row] /\ sends \in [Runs -> Nat]
  BY DEF Consistent, TypeOK
<1>1. ASSUME NEW c \in Clients, NEW row \in Requests, ClientFindsExisting(c, row)
     PROVE  KeysHeld'
  BY <1>1, KeysUndisturbed DEF ClientFindsExisting, Spend
<1>2. ASSUME NEW c \in Clients, NEW row \in Requests, ClientPrepares(c, row)
     PROVE  KeysHeld'
  <2>1. \A d \in Clients : \/ client'[d] = client[d]
                           \/ /\ client'[d].pc = "insert" /\ client'[d].run \in Runs
                              /\ ~Exists(client'[d].run)
    BY <1>2 DEF ClientPrepares
  <2>. QED
    BY <1>2, <2>1, KeysUndisturbed DEF ClientPrepares
<1>3. ASSUME NEW c \in Clients, ClientInsert(c)
     PROVE  KeysHeld'
  <2>1. CASE KeyIsFree(client[c].row.key)
    <3>1. client' = [client EXCEPT ![c].pc = "commit"] /\ UNCHANGED <<run, sends>>
      BY <1>3, <2>1 DEF ClientInsert
    <3>2. client[c].pc # "idle"
      BY <1>3 DEF ClientInsert
    <3>3. \A d \in Clients : /\ client'[d].run = client[d].run
                             /\ client'[d].row = client[d].row
                             /\ client'[d].pc = IF d = c THEN "commit" ELSE client[d].pc
      BY <3>1 DEF ClientState
    <3>4. \A key : KeyIsFree(key)' <=> KeyIsFree(key)
      BY <3>1 DEF KeyIsFree, KeyOwners, Exists
    <3>. QED
      BY <2>1, <3>1, <3>2, <3>3, <3>4 DEF KeysHeld, KeyNamesOneRun, Exists
  <2>2. CASE ~KeyIsFree(client[c].row.key)
    BY <1>3, <2>2, KeysUndisturbed DEF ClientInsert, IdleClient
  <2>. QED
    BY <2>1, <2>2
<1>4. ASSUME NEW c \in Clients, ClientCommit(c)
     PROVE  KeysHeld'
  <2>. DEFINE r == client[c].run
              row == client[c].row
  <2>1. /\ r \in Runs /\ ~Exists(r) /\ client[c].pc = "commit" /\ writer = c
        /\ row.status = "queued" /\ KeyIsFree(row.key)
    BY <1>4 DEF ClientCommit, Consistent, ClientHolds, KeysHeld
  <2>2. /\ run' = [run EXCEPT ![r] = row] /\ client' = [client EXCEPT ![c].pc = "enqueue"]
        /\ UNCHANGED sends
    BY <1>4 DEF ClientCommit
  <2>3. \A s \in Runs : run'[s] = IF s = r THEN row ELSE run[s]
    BY <2>1, <2>2
  <2>4. \A d \in Clients : /\ client'[d].run = client[d].run
                           /\ client'[d].pc = IF d = c THEN "enqueue" ELSE client[d].pc
    BY <2>2 DEF ClientState
  <2>5. \A d \in Clients : client'[d].pc # "commit"
    BY <2>1, <2>4 DEF Consistent, ClientHolds
  <2>6. \A s, t \in Runs :
          Exists(s)' /\ Exists(t)' /\ run'[s].key = run'[t].key /\ run'[s].key # None => s = t
    BY <2>1, <2>3 DEF KeysHeld, KeyNamesOneRun, KeyIsFree, KeyOwners, Exists
  <2>7. \A s \in Runs : sends'[s] > 0 => Exists(s)'
    BY <2>1, <2>2, <2>3 DEF KeysHeld, Exists
  <2>8. \A d \in Clients : client'[d].pc # "idle" => sends'[client'[d].run] = 0
    BY <2>1, <2>2, <2>4 DEF KeysHeld
  <2>9. \A s \in Runs : sends'[s] <= 1
    BY <2>2 DEF KeysHeld, KeyNamesOneRun
  <2>. QED
    BY <2>5, <2>6, <2>7, <2>8, <2>9 DEF KeysHeld, KeyNamesOneRun
<1>5. ASSUME NEW c \in Clients, ClientEnqueue(c)
     PROVE  KeysHeld'
  <2>. DEFINE r == client[c].run
  <2>1. r \in Runs /\ Exists(r) /\ client[c].pc = "enqueue" /\ sends[r] = 0
    BY <1>5 DEF ClientEnqueue, Consistent, ClientHolds, Present, KeysHeld
  <2>2. /\ sends' = [sends EXCEPT ![r] = sends[r] + 1]
        /\ client' = [client EXCEPT ![c] = IdleClient] /\ UNCHANGED run
    BY <1>5 DEF ClientEnqueue
  <2>3. \A d \in Clients : client'[d].pc # "idle" =>
          d # c /\ client'[d] = client[d] /\ client[d].run # r /\ client[d].run \in Runs
    <3>1. r # None
      BY <2>1, NoneAssumption
    <3>2. \A d \in Clients : client'[d] = IF d = c THEN IdleClient ELSE client[d]
      BY <2>2
    <3>3. \A d \in Clients : /\ client[d].pc # "idle" => client[d].run \in Runs
                             /\ client[d].run = r => d = c
      BY <3>1 DEF Consistent, ClientHolds
    <3>. QED
      BY <3>2, <3>3 DEF IdleClient
  <2>4. \A s \in Runs : sends'[s] = IF s = r THEN 1 ELSE sends[s]
    BY <2>1, <2>2
  <2>5. \A key : KeyIsFree(key)' <=> KeyIsFree(key)
    BY <2>2 DEF KeyIsFree, KeyOwners, Exists
  <2>6. \A d \in Clients : /\ client'[d].pc = "commit" => KeyIsFree(client[d].row.key)'
                           /\ client'[d].pc # "idle" => sends'[client'[d].run] = 0
    BY <2>3, <2>4, <2>5 DEF KeysHeld
  <2>. QED
    BY <2>1, <2>2, <2>4, <2>6 DEF KeysHeld, KeyNamesOneRun, Exists
<1>6. ASSUME NEW c \in Clients, ClientSendFails(c)
     PROVE  KeysHeld'
  BY <1>6, KeysUndisturbed DEF ClientSendFails, IdleClient
<1>7. ASSUME NEW c \in Clients, ClientTimesOut(c)
     PROVE  KeysHeld'
  BY <1>7, KeysUndisturbed DEF ClientTimesOut, IdleClient
<1>8. ASSUME NEW w \in Workers, WorkerReceive(w)
     PROVE  KeysHeld'
  BY <1>8, KeysUndisturbed DEF WorkerReceive
<1>9. ASSUME NEW w \in Workers, WorkerLoad(w)
     PROVE  KeysHeld'
  BY <1>9, KeysUndisturbed DEF WorkerLoad, Goto, Executable
<1>10. ASSUME NEW w \in Workers, WorkerReject(w)
      PROVE  KeysHeld'
  BY <1>10, KeysOfStatus DEF WorkerReject, RunStatus, ActiveStatus, TerminalStatus
<1>11. ASSUME NEW w \in Workers, WorkerStart(w)
      PROVE  KeysHeld'
  BY <1>11, KeysOfStatus DEF WorkerStart, RunStatus, ActiveStatus, TerminalStatus
<1>12. ASSUME NEW w \in Workers, WorkerReadSequence(w)
      PROVE  KeysHeld'
  BY <1>12, KeysUndisturbed DEF WorkerReadSequence
<1>13. ASSUME NEW w \in Workers, WorkerAnnounce(w)
      PROVE  KeysHeld'
  BY <1>13, KeysUndisturbed DEF WorkerAnnounce, CanWrite, Goto
<1>14. ASSUME NEW w \in Workers, WorkerComplete(w)
      PROVE  KeysHeld'
  BY <1>14, KeysOfStatus DEF WorkerComplete, Finish, RunStatus, TerminalStatus
<1>15. ASSUME NEW w \in Workers, WorkerFail(w)
      PROVE  KeysHeld'
  BY <1>15, KeysOfStatus DEF WorkerFail, Finish, RunStatus, TerminalStatus
<1>16. ASSUME NEW w \in Workers, WorkerFailAfterUpsert(w)
      PROVE  KeysHeld'
  BY <1>16, KeysOfStatus DEF WorkerFailAfterUpsert, Finish, RunStatus, TerminalStatus
<1>17. ASSUME NEW w \in Workers, WorkerCrash(w)
      PROVE  KeysHeld'
  BY <1>17, KeysUndisturbed DEF WorkerCrash, WorkerDies
<1>18. ASSUME NEW w \in Workers, WorkerTimesOut(w)
      PROVE  KeysHeld'
  BY <1>18, KeysUndisturbed DEF WorkerTimesOut, WorkerDies
<1>19. ASSUME NEW r \in Runs, Redeliver(r)
      PROVE  KeysHeld'
  BY <1>19, KeysUndisturbed DEF Redeliver, Spend
<1>20. CASE UNCHANGED vars
  BY <1>20, KeysUndisturbed DEF vars
<1>. QED
  BY <1>1, <1>2, <1>3, <1>4, <1>5, <1>6, <1>7, <1>8, <1>9, <1>10, <1>11, <1>12, <1>13,
     <1>14, <1>15, <1>16, <1>17, <1>18, <1>19, <1>20 DEF Next, ClientWork, WorkerWork

\* Concurrent requests with one key leave one run and one message.
THEOREM OneRunPerKey == Spec => []KeyNamesOneRun
<1>1. Init => KeysHeld
  BY DEF Init, KeysHeld, KeyNamesOneRun, KeyIsFree, KeyOwners, Exists, NoRow, IdleClient
<1>2. KeysHeld => KeyNamesOneRun
  BY DEF KeysHeld
<1>. QED
  BY <1>1, <1>2, KeysStep, RunsStayConsistent, PTL DEF Spec

-----------------------------------------------------------------------------
(* One worker.                                                             *)

\* docker-compose.yml:76, --pool=solo.
OneWorker == \A v, w \in Workers : v = w

-----------------------------------------------------------------------------
(* The strengthening: what the only task knows of its run's status.        *)

HeldStatus ==
  \A w \in Workers :
    /\ worker[w].pc \in {"start", "reject"} => run[Holding(w)].status \in ActiveStatus
    /\ worker[w].pc \in {"sequence", "announce", "provide"} =>
         run[Holding(w)].status = "running"

\* A commit makes a run that no task holds.
LEMMA CommitTakesNoHeldRun ==
  ASSUME Consistent, NEW c \in Clients, ClientCommit(c)
  PROVE  /\ client[c].run \in Runs /\ run[client[c].run].status = "absent"
         /\ client[c].row.status = "queued"
         /\ \A r \in Runs : run'[r] = IF r = client[c].run THEN client[c].row ELSE run[r]
         /\ \A w \in Workers : worker[w].pc # "idle" =>
              Holding(w) \in Runs /\ Holding(w) # client[c].run
<1>1. /\ client[c].pc = "commit" /\ run \in [Runs -> Row]
      /\ run' = [run EXCEPT ![client[c].run] = client[c].row]
  BY DEF ClientCommit, Consistent, TypeOK
<1>2. client[c].run \in Runs /\ ~Exists(client[c].run) /\ client[c].row.status = "queued"
  BY <1>1 DEF Consistent, ClientHolds
<1>. QED
  BY <1>1, <1>2 DEF Consistent, WorkerHolds, Present, Exists, Holding

\* Steps that write no row and let the tasks be, or end them.
LEMMA HeldUndisturbed ==
  ASSUME HeldStatus, UNCHANGED run,
         \A w \in Workers : worker'[w] = worker[w] \/ worker'[w].pc \in {"idle", "load"}
  PROVE  HeldStatus'
BY DEF HeldStatus, Holding

\* The only task ends.
LEMMA HeldByNobody ==
  ASSUME OneWorker, Consistent, NEW w \in Workers, worker' = [worker EXCEPT ![w] = IdleWorker]
  PROVE  HeldStatus'
<1>1. \A v \in Workers : worker'[v].pc = "idle"
  BY DEF OneWorker, Consistent, TypeOK, IdleWorker
<1>. QED
  BY <1>1 DEF HeldStatus

\* Between two steps of the only task nobody changes its run's status.
LEMMA HeldStep ==
  ASSUME OneWorker, Consistent, HeldStatus, [Next]_vars
  PROVE  HeldStatus'
<1>. worker \in [Workers -> WorkerState] /\ run \in [Runs -> Row]
  BY DEF Consistent, TypeOK
<1>1. ASSUME NEW c \in Clients, NEW row \in Requests, ClientFindsExisting(c, row)
     PROVE  HeldStatus'
  BY <1>1, HeldUndisturbed DEF ClientFindsExisting, Spend
<1>2. ASSUME NEW c \in Clients, NEW row \in Requests, ClientPrepares(c, row)
     PROVE  HeldStatus'
  BY <1>2, HeldUndisturbed DEF ClientPrepares, Spend
<1>3. ASSUME NEW c \in Clients, ClientInsert(c)
     PROVE  HeldStatus'
  BY <1>3, HeldUndisturbed DEF ClientInsert, CanWrite, KeyIsFree
<1>4. ASSUME NEW c \in Clients, ClientCommit(c)
     PROVE  HeldStatus'
  <2>1. UNCHANGED worker
    BY <1>4 DEF ClientCommit
  <2>. QED
    BY <1>4, <2>1, CommitTakesNoHeldRun DEF HeldStatus, Holding
<1>5. ASSUME NEW c \in Clients, ClientEnqueue(c)
     PROVE  HeldStatus'
  BY <1>5, HeldUndisturbed DEF ClientEnqueue
<1>6. ASSUME NEW c \in Clients, ClientSendFails(c)
     PROVE  HeldStatus'
  BY <1>6, HeldUndisturbed DEF ClientSendFails, Spend
<1>7. ASSUME NEW c \in Clients, ClientTimesOut(c)
     PROVE  HeldStatus'
  BY <1>7, HeldUndisturbed DEF ClientTimesOut, Spend
<1>8. ASSUME NEW w \in Workers, WorkerReceive(w)
     PROVE  HeldStatus'
  <2>1. \A v \in Workers : worker'[v].pc = "load" \/ worker'[v] = worker[v]
    BY <1>8 DEF WorkerReceive
  <2>. QED
    BY <1>8, <2>1, HeldUndisturbed DEF WorkerReceive
<1>9. ASSUME NEW w \in Workers, WorkerLoad(w)
     PROVE  HeldStatus'
  <2>1. CASE Executable(Holding(w))
    <3>1. worker'[w].pc \in {"start", "reject"} /\ worker'[w].run = worker[w].run /\ UNCHANGED run
      BY <1>9, <2>1 DEF WorkerLoad, Goto, WorkerState
    <3>. QED
      BY <2>1, <3>1 DEF OneWorker, HeldStatus, Holding, Executable
  <2>2. CASE ~Executable(Holding(w))
    BY <1>9, <2>2, HeldByNobody DEF WorkerLoad
  <2>. QED
    BY <2>1, <2>2
<1>10. ASSUME NEW w \in Workers, WorkerReject(w)
      PROVE  HeldStatus'
  BY <1>10, HeldByNobody DEF WorkerReject
<1>11. ASSUME NEW w \in Workers, WorkerStart(w)
      PROVE  HeldStatus'
  <2>1. worker'[w].pc = "sequence" /\ worker'[w].run = worker[w].run
    BY <1>11 DEF WorkerStart, Goto, WorkerState
  <2>2. run'[Holding(w)].status = "running"
    BY <1>11 DEF WorkerStart, Consistent, WorkerHolds, Holding, Row
  <2>. QED
    BY <2>1, <2>2 DEF OneWorker, HeldStatus, Holding
<1>12. ASSUME NEW w \in Workers, WorkerReadSequence(w)
      PROVE  HeldStatus'
  <2>1. /\ worker[w].pc = "sequence" /\ worker'[w].pc = "announce"
        /\ worker'[w].run = worker[w].run /\ UNCHANGED run
    BY <1>12 DEF WorkerReadSequence, WorkerState
  <2>. QED
    BY <2>1 DEF OneWorker, HeldStatus, Holding
<1>13. ASSUME NEW w \in Workers, WorkerAnnounce(w)
      PROVE  HeldStatus'
  <2>1. /\ worker[w].pc = "announce" /\ UNCHANGED run
        /\ \/ worker' = [worker EXCEPT ![w] = IdleWorker]
           \/ worker' = [worker EXCEPT ![w].pc = "provide"]
    BY <1>13 DEF WorkerAnnounce, Goto
  <2>2. CASE worker' = [worker EXCEPT ![w].pc = "provide"]
    <3>1. worker'[w].pc = "provide" /\ worker'[w].run = worker[w].run
      BY <2>2 DEF WorkerState
    <3>. QED
      BY <2>1, <3>1 DEF OneWorker, HeldStatus, Holding
  <2>. QED
    BY <2>1, <2>2, HeldByNobody
<1>14. ASSUME NEW w \in Workers, WorkerComplete(w)
      PROVE  HeldStatus'
  BY <1>14, HeldByNobody DEF WorkerComplete, Finish
<1>15. ASSUME NEW w \in Workers, WorkerFail(w)
      PROVE  HeldStatus'
  BY <1>15, HeldByNobody DEF WorkerFail, Finish
<1>16. ASSUME NEW w \in Workers, WorkerFailAfterUpsert(w)
      PROVE  HeldStatus'
  BY <1>16, HeldByNobody DEF WorkerFailAfterUpsert, Finish
<1>17. ASSUME NEW w \in Workers, WorkerCrash(w)
      PROVE  HeldStatus'
  BY <1>17, HeldByNobody DEF WorkerCrash, WorkerDies
<1>18. ASSUME NEW w \in Workers, WorkerTimesOut(w)
      PROVE  HeldStatus'
  BY <1>18, HeldByNobody DEF WorkerTimesOut, WorkerDies
<1>19. ASSUME NEW r \in Runs, Redeliver(r)
      PROVE  HeldStatus'
  BY <1>19, HeldUndisturbed DEF Redeliver, Spend
<1>20. CASE UNCHANGED vars
  BY <1>20, HeldUndisturbed DEF vars
<1>. QED
  BY <1>1, <1>2, <1>3, <1>4, <1>5, <1>6, <1>7, <1>8, <1>9, <1>10, <1>11, <1>12, <1>13,
     <1>14, <1>15, <1>16, <1>17, <1>18, <1>19, <1>20 DEF Next, ClientWork, WorkerWork

\* One task at a time finds its run as it left it.
THEOREM TasksOwnTheirRun == OneWorker => (Spec => []HeldStatus)
<1>. SUFFICES ASSUME OneWorker PROVE Spec => []HeldStatus
  OBVIOUS
<1>1. Init => HeldStatus
  BY DEF Init, HeldStatus, IdleWorker
<1>2. Consistent /\ HeldStatus /\ [Next]_vars => HeldStatus'
  BY HeldStep
<1>. QED
  BY <1>1, <1>2, RunsStayConsistent, PTL DEF Spec

-----------------------------------------------------------------------------
(* What a poller sees.                                                     *)

\* The steps that commit rows, outputs or events.
Writes ==
  \/ \E c \in Clients : ClientCommit(c)
  \/ \E w \in Workers : \/ WorkerReject(w) \/ WorkerStart(w) \/ WorkerAnnounce(w)
                        \/ WorkerComplete(w) \/ WorkerFail(w) \/ WorkerFailAfterUpsert(w)

\* No other step does.
LEMMA OnlyWritesWrite ==
  ASSUME [Next]_vars, ~Writes
  PROVE  UNCHANGED <<run, output, journal>>
<1>1. ASSUME NEW c \in Clients, NEW row \in Requests, ClientFindsExisting(c, row)
     PROVE  UNCHANGED <<run, output, journal>>
  BY <1>1 DEF ClientFindsExisting, Spend
<1>2. ASSUME NEW c \in Clients, NEW row \in Requests, ClientPrepares(c, row)
     PROVE  UNCHANGED <<run, output, journal>>
  BY <1>2 DEF ClientPrepares, Spend
<1>3. ASSUME NEW c \in Clients, ClientInsert(c)
     PROVE  UNCHANGED <<run, output, journal>>
  BY <1>3 DEF ClientInsert, CanWrite, KeyIsFree
<1>4. ASSUME NEW c \in Clients, ClientCommit(c)
     PROVE  UNCHANGED <<run, output, journal>>
  BY <1>4 DEF Writes
<1>5. ASSUME NEW c \in Clients, ClientEnqueue(c)
     PROVE  UNCHANGED <<run, output, journal>>
  BY <1>5 DEF ClientEnqueue
<1>6. ASSUME NEW c \in Clients, ClientSendFails(c)
     PROVE  UNCHANGED <<run, output, journal>>
  BY <1>6 DEF ClientSendFails, Spend
<1>7. ASSUME NEW c \in Clients, ClientTimesOut(c)
     PROVE  UNCHANGED <<run, output, journal>>
  BY <1>7 DEF ClientTimesOut, Spend
<1>8. ASSUME NEW w \in Workers, WorkerReceive(w)
     PROVE  UNCHANGED <<run, output, journal>>
  BY <1>8 DEF WorkerReceive
<1>9. ASSUME NEW w \in Workers, WorkerLoad(w)
     PROVE  UNCHANGED <<run, output, journal>>
  BY <1>9 DEF WorkerLoad, Goto, Executable
<1>10. ASSUME NEW w \in Workers, WorkerReject(w)
      PROVE  UNCHANGED <<run, output, journal>>
  BY <1>10 DEF Writes
<1>11. ASSUME NEW w \in Workers, WorkerStart(w)
      PROVE  UNCHANGED <<run, output, journal>>
  BY <1>11 DEF Writes
<1>12. ASSUME NEW w \in Workers, WorkerReadSequence(w)
      PROVE  UNCHANGED <<run, output, journal>>
  BY <1>12 DEF WorkerReadSequence
<1>13. ASSUME NEW w \in Workers, WorkerAnnounce(w)
      PROVE  UNCHANGED <<run, output, journal>>
  BY <1>13 DEF Writes
<1>14. ASSUME NEW w \in Workers, WorkerComplete(w)
      PROVE  UNCHANGED <<run, output, journal>>
  BY <1>14 DEF Writes
<1>15. ASSUME NEW w \in Workers, WorkerFail(w)
      PROVE  UNCHANGED <<run, output, journal>>
  BY <1>15 DEF Writes
<1>16. ASSUME NEW w \in Workers, WorkerFailAfterUpsert(w)
      PROVE  UNCHANGED <<run, output, journal>>
  BY <1>16 DEF Writes
<1>17. ASSUME NEW w \in Workers, WorkerCrash(w)
      PROVE  UNCHANGED <<run, output, journal>>
  BY <1>17 DEF WorkerCrash, WorkerDies, Spend, HoldsTransaction
<1>18. ASSUME NEW w \in Workers, WorkerTimesOut(w)
      PROVE  UNCHANGED <<run, output, journal>>
  BY <1>18 DEF WorkerTimesOut, WorkerDies, Spend, HoldsTransaction
<1>19. ASSUME NEW r \in Runs, Redeliver(r)
      PROVE  UNCHANGED <<run, output, journal>>
  BY <1>19 DEF Redeliver, Spend
<1>20. CASE UNCHANGED vars
  BY <1>20 DEF vars
<1>. QED
  BY <1>1, <1>2, <1>3, <1>4, <1>5, <1>6, <1>7, <1>8, <1>9, <1>10, <1>11, <1>12, <1>13,
     <1>14, <1>15, <1>16, <1>17, <1>18, <1>19, <1>20 DEF Next, ClientWork, WorkerWork

\* A task that writes the status of its run leaves the other runs alone.
LEMMA StatusOfHeld ==
  ASSUME Consistent, NEW w \in Workers, worker[w].pc # "idle", NEW status,
         run' = [run EXCEPT ![Holding(w)].status = status]
  PROVE  /\ Holding(w) \in Runs
         /\ \A r \in Runs : run'[r].status = IF r = Holding(w) THEN status ELSE run[r].status
         /\ \A r \in Runs : r # Holding(w) => run'[r] = run[r]
         /\ [r \in Runs |-> run'[r].status] =
              [[r \in Runs |-> run[r].status] EXCEPT ![Holding(w)] = status]
<1>1. Holding(w) \in Runs
  BY DEF Consistent, WorkerHolds, Holding
<1>2. run \in [Runs -> Row]
  BY DEF Consistent, TypeOK
<1>3. \A r \in Runs : run'[r].status = IF r = Holding(w) THEN status ELSE run[r].status
  BY <1>1, <1>2 DEF Row
<1>. QED
  BY <1>1, <1>2, <1>3

\* Every step is one the contract allows, or shows nothing.
LEMMA ContractStep ==
  ASSUME Consistent, HeldStatus, [Next]_vars
  PROVE  [Contract!Next]_(Contract!vars)
<1>. DEFINE shown == [r \in Runs |-> run[r].status]
<1>. USE DEF Contract!Next, Contract!vars
<1>1. ASSUME NEW c \in Clients, ClientCommit(c)
      PROVE  Contract!Next
  <2>. DEFINE r == client[c].run
  <2>1. /\ r \in Runs /\ shown[r] = "absent" /\ shown' = [shown EXCEPT ![r] = "queued"]
        /\ UNCHANGED output
    <3>1. \A s \in Runs : run'[s].status = IF s = r THEN "queued" ELSE run[s].status
      BY <1>1, CommitTakesNoHeldRun
    <3>. QED
      BY <1>1, <3>1, CommitTakesNoHeldRun DEF ClientCommit
  <2>. QED
    BY <2>1 DEF Contract!Accept
<1>2. ASSUME NEW w \in Workers, WorkerReject(w)
      PROVE  Contract!Next
  <2>1. /\ Holding(w) \in Runs /\ shown[Holding(w)] \in {"queued", "running"}
        /\ shown' = [shown EXCEPT ![Holding(w)] = "failed"] /\ UNCHANGED output
    BY <1>2, StatusOfHeld DEF WorkerReject, HeldStatus, ActiveStatus
  <2>. QED
    BY <2>1 DEF Contract!Fail
<1>3. ASSUME NEW w \in Workers, WorkerStart(w)
      PROVE  [Contract!Next]_(Contract!vars)
  <2>1. /\ Holding(w) \in Runs /\ shown[Holding(w)] \in {"queued", "running"}
        /\ shown' = [shown EXCEPT ![Holding(w)] = "running"] /\ UNCHANGED output
    BY <1>3, StatusOfHeld DEF WorkerStart, HeldStatus, ActiveStatus
  <2>2. CASE shown[Holding(w)] = "queued"
    BY <2>1, <2>2 DEF Contract!Begin
  <2>3. CASE shown[Holding(w)] = "running"
    BY <2>1, <2>3
  <2>. QED
    BY <2>1, <2>2, <2>3
<1>4. ASSUME NEW w \in Workers, WorkerAnnounce(w)
      PROVE  UNCHANGED Contract!vars
  BY <1>4 DEF WorkerAnnounce
<1>5. ASSUME NEW w \in Workers, WorkerComplete(w)
      PROVE  Contract!Next
  <2>1. /\ Holding(w) \in Runs /\ shown[Holding(w)] = "running"
        /\ shown' = [shown EXCEPT ![Holding(w)] = "completed"]
        /\ output' = output \cup {Holding(w)}
    BY <1>5, StatusOfHeld DEF WorkerComplete, Finish, HeldStatus
  <2>. QED
    BY <2>1 DEF Contract!Complete
<1>6. ASSUME NEW w \in Workers, WorkerFail(w) \/ WorkerFailAfterUpsert(w)
      PROVE  Contract!Next
  <2>1. /\ Holding(w) \in Runs /\ shown[Holding(w)] = "running"
        /\ shown' = [shown EXCEPT ![Holding(w)] = "failed"]
        /\ output' = output \/ output' = output \cup {Holding(w)}
    BY <1>6, StatusOfHeld DEF WorkerFail, WorkerFailAfterUpsert, Finish, HeldStatus
  <2>. QED
    BY <2>1 DEF Contract!Fail
<1>7. CASE ~Writes
  BY <1>7, OnlyWritesWrite
<1>. QED
  BY <1>1, <1>2, <1>3, <1>4, <1>5, <1>6, <1>7 DEF Writes

\* With one worker the lifecycle implements the contract: what a poller sees moves
\* forward only, and a completed run appears together with its output.
THEOREM LifecycleImplementsContract == OneWorker => (Spec => ContractHolds)
<1>. SUFFICES ASSUME OneWorker PROVE Spec => ContractHolds
  OBVIOUS
<1>1. Init => Contract!Init
  BY DEF Init, Contract!Init, NoRow
<1>2. Consistent /\ HeldStatus /\ [Next]_vars => [Contract!Next]_(Contract!vars)
  BY ContractStep
<1>3. Spec => []HeldStatus
  BY TasksOwnTheirRun
<1>. QED
  BY <1>1, <1>2, <1>3, RunsStayConsistent, PTL DEF Spec, ContractHolds, Contract!Spec

-----------------------------------------------------------------------------
(* The journal and the status.                                             *)

Tells(events, status) ==
  \A e \in events :
    e.seq = Cardinality(events) =>
      /\ status = "completed" <=> e.type = "run_completed"
      /\ status = "failed" <=> e.type = "run_failed"
      /\ status = "queued" => e.type = "run_queued"

\* The event that extends a numbered journal is its last.
LEMMA LastEvent ==
  ASSUME NEW events, Numbered(events), NEW type \in EventType, NEW e,
         e \in Append(events, type), e.seq = Cardinality(Append(events, type))
  PROVE  e.type = type
<1>. DEFINE n == Cardinality(events)
<1>1. n \in Nat /\ NextSequence(events) = n + 1 /\ Cardinality(Append(events, type)) = n + 1
  BY NextOfNumbered, AppendNumbered
<1>2. \A d \in events : d.seq \in 1 .. n
  BY DEF Numbered, Seqs
<1>3. e \notin events
  BY <1>1, <1>2
<1>. QED
  BY <1>3 DEF Append

\* An event that belongs to a status tells it.
LEMMA AppendTells ==
  ASSUME NEW events, Numbered(events), NEW type \in EventType, NEW status,
         <<type, status>> \in {<<"run_queued", "queued">>, <<"run_started", "running">>,
                               <<"run_completed", "completed">>, <<"run_failed", "failed">>}
  PROVE  Tells(Append(events, type), status)
BY LastEvent DEF Tells

\* Replacing the journal and the status of the held run together.
LEMMA TellsReplaced ==
  ASSUME Consistent, JournalTellsStatus, NEW r \in Runs, NEW events, NEW status,
         Tells(events, status), journal' = [journal EXCEPT ![r] = events],
         \A s \in Runs : run'[s].status = IF s = r THEN status ELSE run[s].status
  PROVE  JournalTellsStatus'
<1>1. \A s \in Runs : journal'[s] = IF s = r THEN events ELSE journal[s]
  BY DEF Consistent, TypeOK
<1>2. \A s \in Runs : Tells(journal'[s], run'[s].status)
  BY <1>1 DEF JournalTellsStatus, Tells
<1>. QED
  BY <1>2 DEF JournalTellsStatus, Tells

\* What a task publishes last tells how it ended.
LEMMA TellsFinished ==
  ASSUME Consistent, JournalTellsStatus, NEW w \in Workers, worker[w].pc = "provide",
         NEW events, Numbered(events), NEW type \in EventType, NEW status,
         <<type, status>> \in {<<"run_completed", "completed">>, <<"run_failed", "failed">>},
         Finish(w, status, Append(events, type))
  PROVE  JournalTellsStatus'
<1>1. Tells(Append(events, type), status)
  BY AppendTells
<1>2. /\ journal' = [journal EXCEPT ![Holding(w)] = Append(events, type)]
      /\ run' = [run EXCEPT ![Holding(w)].status = status]
  BY DEF Finish
<1>3. /\ Holding(w) \in Runs
      /\ \A s \in Runs : run'[s].status = IF s = Holding(w) THEN status ELSE run[s].status
  BY <1>2, StatusOfHeld
<1>. QED
  BY <1>1, <1>2, <1>3, TellsReplaced

\* Status and last event change together.
LEMMA TellsStep ==
  ASSUME Consistent, HeldStatus, JournalTellsStatus, [Next]_vars
  PROVE  JournalTellsStatus'
<1>. {"run_queued", "run_started", "artifact", "run_completed", "run_failed"} \subseteq EventType
  BY DEF EventType
<1>1. ASSUME NEW c \in Clients, ClientCommit(c)
      PROVE  JournalTellsStatus'
  <2>. DEFINE r == client[c].run
  <2>1. /\ r \in Runs
        /\ \A s \in Runs : run'[s].status = IF s = r THEN "queued" ELSE run[s].status
    BY <1>1, CommitTakesNoHeldRun
  <2>2. Numbered(journal[r]) /\ journal' = [journal EXCEPT ![r] = Append(journal[r], "run_queued")]
    BY <1>1, <2>1 DEF Consistent, JournalsNumbered, ClientCommit
  <2>3. Tells(Append(journal[r], "run_queued"), "queued")
    BY <2>2, AppendTells
  <2>. QED
    BY <2>1, <2>2, <2>3, TellsReplaced
<1>2. ASSUME NEW w \in Workers, WorkerReject(w)
      PROVE  JournalTellsStatus'
  <2>. DEFINE r == Holding(w)
  <2>1. /\ r \in Runs
        /\ \A s \in Runs : run'[s].status = IF s = r THEN "failed" ELSE run[s].status
    BY <1>2, StatusOfHeld DEF WorkerReject
  <2>2. Numbered(journal[r]) /\ journal' = [journal EXCEPT ![r] = Append(journal[r], "run_failed")]
    BY <1>2, <2>1 DEF Consistent, JournalsNumbered, WorkerReject
  <2>3. Tells(Append(journal[r], "run_failed"), "failed")
    BY <2>2, AppendTells
  <2>. QED
    BY <2>1, <2>2, <2>3, TellsReplaced
<1>3. ASSUME NEW w \in Workers, WorkerStart(w)
      PROVE  JournalTellsStatus'
  <2>1. /\ run[Holding(w)].status \in ActiveStatus /\ Holding(w) \in Runs
        /\ \A s \in Runs :
             run'[s].status = IF s = Holding(w) THEN "running" ELSE run[s].status
        /\ UNCHANGED journal
    BY <1>3, StatusOfHeld DEF WorkerStart, HeldStatus
  <2>. QED
    BY <2>1 DEF JournalTellsStatus, ActiveStatus
<1>4. ASSUME NEW w \in Workers, WorkerAnnounce(w)
      PROVE  JournalTellsStatus'
  <2>. DEFINE r == Holding(w)
  <2>1. CASE UNCHANGED journal
    BY <1>4, <2>1 DEF WorkerAnnounce, JournalTellsStatus
  <2>2. CASE ~UNCHANGED journal
    <3>1. /\ worker[w].pc = "announce" /\ UNCHANGED run /\ Insertable(journal[r], worker[w].seq)
          /\ journal' = [journal EXCEPT ![r] = journal[r] \cup Started(w)]
      BY <1>4, <2>2 DEF WorkerAnnounce
    <3>2. /\ r \in Runs /\ Numbered(journal[r]) /\ run[r].status = "running"
          /\ worker[w].seq \in 1 .. (Cardinality(journal[r]) + 1)
      BY <3>1 DEF Consistent, JournalsNumbered, WorkerHolds, HeldStatus, Holding
    <3>3. worker[w].seq = NextSequence(journal[r])
      BY <3>1, <3>2, NextOfNumbered, InsertableIsNext
    <3>4. journal[r] \cup Started(w) = Append(journal[r], "run_started")
      BY <3>3 DEF Started, Append
    <3>5. Tells(Append(journal[r], "run_started"), "running")
      BY <3>2, AppendTells
    <3>. QED
      BY <3>1, <3>2, <3>4, <3>5, TellsReplaced
  <2>. QED
    BY <2>1, <2>2
<1>5. ASSUME NEW w \in Workers, worker[w].pc = "provide"
      PROVE  /\ Numbered(OwnJournal(w))
             /\ Numbered(Append(OwnJournal(w), "artifact"))
  BY <1>5, OwnJournalNumbered, AppendNumbered DEF Consistent, WorkerHolds, Holding
<1>6. ASSUME NEW w \in Workers, WorkerComplete(w)
      PROVE  JournalTellsStatus'
  BY <1>5, <1>6, TellsFinished DEF WorkerComplete
<1>7. ASSUME NEW w \in Workers, WorkerFail(w) \/ WorkerFailAfterUpsert(w)
      PROVE  JournalTellsStatus'
  BY <1>5, <1>7, TellsFinished DEF WorkerFail, WorkerFailAfterUpsert
<1>8. CASE ~Writes
  BY <1>8, OnlyWritesWrite DEF JournalTellsStatus
<1>. QED
  BY <1>1, <1>2, <1>3, <1>4, <1>6, <1>7, <1>8 DEF Writes

\* With one worker, the last event of a journal tells the status of its run.
THEOREM LastEventTellsStatus == OneWorker => (Spec => []JournalTellsStatus)
<1>. SUFFICES ASSUME OneWorker PROVE Spec => []JournalTellsStatus
  OBVIOUS
<1>1. Init => JournalTellsStatus
  BY DEF Init, JournalTellsStatus
<1>2. Spec => []HeldStatus
  BY TasksOwnTheirRun
<1>. QED
  BY <1>1, <1>2, TellsStep, RunsStayConsistent, PTL DEF Spec

-----------------------------------------------------------------------------
(* The source of a signal run.                                             *)

SourceIsCompleted(row) ==
  row.pipeline = "signal_monitoring" =>
    /\ row.source \in Runs
    /\ run[row.source].pipeline = "candidate_discovery"
    /\ run[row.source].status = "completed"

\* The check is made when a request prepares its row and must last until the row is
\* committed, and from then on.
SourcesReady ==
  /\ \A c \in Clients : client[c].pc # "idle" => SourceIsCompleted(client[c].row)
  /\ \A r \in Runs : Exists(r) => SourceIsCompleted(run[r])

\* No step changes a completed run.
LEMMA CompletedRunsStay ==
  ASSUME Consistent, HeldStatus, [Next]_vars, NEW r \in Runs, run[r].status = "completed"
  PROVE  run'[r] = run[r]
<1>1. ASSUME NEW c \in Clients, ClientCommit(c)
      PROVE  run'[r] = run[r]
  BY <1>1, CommitTakesNoHeldRun
<1>2. ASSUME NEW w \in Workers, WorkerReject(w) \/ WorkerStart(w)
      PROVE  run'[r] = run[r]
  BY <1>2, StatusOfHeld DEF WorkerReject, WorkerStart, HeldStatus, ActiveStatus
<1>3. ASSUME NEW w \in Workers, WorkerAnnounce(w)
      PROVE  run'[r] = run[r]
  BY <1>3 DEF WorkerAnnounce
<1>4. ASSUME NEW w \in Workers, WorkerComplete(w) \/ WorkerFail(w) \/ WorkerFailAfterUpsert(w)
      PROVE  run'[r] = run[r]
  BY <1>4, StatusOfHeld
     DEF WorkerComplete, WorkerFail, WorkerFailAfterUpsert, Finish, HeldStatus
<1>5. CASE ~Writes
  BY <1>5, OnlyWritesWrite
<1>. QED
  BY <1>1, <1>2, <1>3, <1>4, <1>5 DEF Writes

\* A request keeps the row it prepared until it lets go of it.
LEMMA RowsOfClients ==
  ASSUME Consistent, [Next]_vars, NEW d \in Clients, client'[d].pc # "idle"
  PROVE  \/ client[d].pc # "idle" /\ client'[d].row = client[d].row
         \/ \E row \in Requests : ClientPrepares(d, row)
<1>. DEFINE Kept == client[d].pc # "idle" /\ client'[d].row = client[d].row
            Prepared == \E row \in Requests : ClientPrepares(d, row)
<1>. client \in [Clients -> ClientState]
  BY DEF Consistent, TypeOK
<1>1. CASE UNCHANGED client
  BY <1>1
<1>2. ASSUME NEW c \in Clients, NEW row \in Requests, ClientPrepares(c, row)
      PROVE  Kept \/ Prepared
  BY <1>2 DEF ClientPrepares
<1>3. ASSUME NEW c \in Clients, client[c].pc # "idle",
             \/ client' = [client EXCEPT ![c] = IdleClient]
             \/ \E pc \in {"commit", "enqueue"} : client' = [client EXCEPT ![c].pc = pc]
      PROVE  Kept
  BY <1>3 DEF IdleClient, ClientState
<1>4. ASSUME NEW c \in Clients, ClientWork(c) \/ ClientSendFails(c) \/ ClientTimesOut(c)
      PROVE  Kept
  BY <1>3, <1>4 DEF ClientWork, ClientInsert, ClientCommit, ClientEnqueue, ClientSendFails,
     ClientTimesOut
<1>5. ASSUME NEW c \in Clients, NEW row \in Requests, ClientFindsExisting(c, row)
      PROVE  UNCHANGED client
  BY <1>5 DEF ClientFindsExisting
<1>6. ASSUME NEW w \in Workers, WorkerWork(w) \/ WorkerCrash(w) \/ WorkerTimesOut(w)
      PROVE  UNCHANGED client
  BY <1>6 DEF WorkerWork, WorkerReceive, WorkerLoad, WorkerReject, WorkerStart,
     WorkerReadSequence, WorkerAnnounce, WorkerComplete, WorkerFail, WorkerFailAfterUpsert,
     Finish, WorkerCrash, WorkerTimesOut, WorkerDies
<1>7. ASSUME NEW r \in Runs, Redeliver(r)
      PROVE  UNCHANGED client
  BY <1>7 DEF Redeliver
<1>. QED
  BY <1>1, <1>2, <1>4, <1>5, <1>6, <1>7 DEF Next, vars

\* What a request prepared, and what a row says, stays ready.
LEMMA SourcesStep ==
  ASSUME Consistent, HeldStatus, SourcesReady, [Next]_vars
  PROVE  SourcesReady'
<1>1. ASSUME NEW row, SourceIsCompleted(row)
      PROVE  row.pipeline = "signal_monitoring" =>
               /\ row.source \in Runs
               /\ run'[row.source].pipeline = "candidate_discovery"
               /\ run'[row.source].status = "completed"
  BY <1>1, CompletedRunsStay DEF SourceIsCompleted
<1>2. ASSUME NEW c \in Clients, client'[c].pc # "idle"
      PROVE  SourceIsCompleted(client'[c].row)
  <2>1. CASE client[c].pc # "idle" /\ client'[c].row = client[c].row
    BY <2>1 DEF SourcesReady
  <2>2. CASE \E row \in Requests : ClientPrepares(c, row)
    BY <2>2 DEF ClientPrepares, SourceReady, SourceIsCompleted, Consistent, TypeOK
  <2>3. \/ client[c].pc # "idle" /\ client'[c].row = client[c].row
        \/ \E row \in Requests : ClientPrepares(c, row)
    BY <1>2, RowsOfClients
  <2>. QED
    BY <2>1, <2>2, <2>3
<1>3. ASSUME NEW r \in Runs, Exists(r)'
      PROVE  SourceIsCompleted(run'[r])
  <2>1. CASE Exists(r)
    <3>1. run'[r].pipeline = run[r].pipeline /\ run'[r].source = run[r].source
      BY <2>1, RowsStep DEF RowsStay
    <3>2. SourceIsCompleted(run[r])
      BY <2>1 DEF SourcesReady
    <3>. QED
      BY <3>1, <3>2 DEF SourceIsCompleted
  <2>2. CASE ~Exists(r)
    <3>1. PICK c \in Clients : /\ client[c].pc = "commit" /\ client[c].run = r
                               /\ run' = [run EXCEPT ![r] = client[c].row]
      BY <1>3, <2>2, RowsStep DEF RowsStay
    <3>2. run'[r] = client[c].row
      BY <3>1 DEF Consistent, TypeOK
    <3>. QED
      BY <3>1, <3>2 DEF SourcesReady
  <2>. QED
    BY <2>1, <2>2
<1>. QED
  BY <1>1, <1>2, <1>3 DEF SourcesReady, SourceIsCompleted

\* With one worker, a completed source checked at request time is completed when
\* the signal run is committed, and stays so.
THEOREM SignalSourcesStayCompleted == OneWorker => (Spec => []SignalSourceIsCompleted)
<1>. SUFFICES ASSUME OneWorker PROVE Spec => []SignalSourceIsCompleted
  OBVIOUS
<1>1. Init => SourcesReady
  BY DEF Init, SourcesReady, IdleClient, NoRow, Exists
<1>2. SourcesReady => SignalSourceIsCompleted
  BY DEF SourcesReady, SignalSourceIsCompleted, SourceIsCompleted
<1>3. Spec => []HeldStatus
  BY TasksOwnTheirRun
<1>. QED
  BY <1>1, <1>2, <1>3, SourcesStep, RunsStayConsistent, PTL DEF Spec
==============================================================================
