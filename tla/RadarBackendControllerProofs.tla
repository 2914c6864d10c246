--------------------- MODULE RadarBackendControllerProofs ---------------------
(***************************************************************************)
(* What the screens show of a radar is sound for any number of radars,     *)
(* runs, actions and calls in flight, in whatever order calls are answered;*)
(* a loaded definition stays; catalog requests do not overlap and runs     *)
(* keep to their bound.                                                    *)
(***************************************************************************)
EXTENDS RadarBackendController, SequenceTheorems, FiniteSetTheorems, TLAPS

Ops == {"catalog", "definition", "save", "output", "resource", "select", "radar", "queue",
        "poll", "review"}
RunCopy == [id : Nat, status : Statuses \cup {"none"}]
CallType == [op : Ops, radar : Radars \cup {"all"}, run : RunCopy, n : Nat,
             at : {"sent", "answered", "conflict", "timer"}, basis : SUBSET Nat]

Typed ==
  /\ runs \in Seq([radar : Radars, status : Statuses])
  /\ calls \subseteq CallType
  /\ catalog \in [generation : Nat, request : Nat, timer : BOOLEAN, attempt : Nat]
  /\ definition \in [Radars -> [request : Nat, loaded : BOOLEAN,
                               state : {"none", "loading", "loaded", "failed"}]]
  /\ selected \in [Radars -> RunCopy] /\ latest \in [Radars -> RunCopy]
  /\ active \in [Radars -> Nat] /\ artifact \in [Radars -> [run : Nat, dossier : BOOLEAN]]
  /\ used \in [actions : Nat, failures : Nat]

Completed(k) == k \in DOMAIN runs /\ runs[k].status = "completed"
Owns(r, k) == k \in DOMAIN runs /\ runs[k].radar = r

\* a run the client has seen: once seen as completed it is completed for good
CopyOf(run, r) == Owns(r, run.id) /\ (run.status = "completed" => Completed(run.id))

\* what a call in flight may be relied on for
CallSound(c) ==
  /\ c.op # "catalog" => c.radar \in Radars
  /\ \A k \in c.basis : Completed(k)
  /\ c.op = "select" => CopyOf(c.run, runs[c.run.id].radar)
  /\ c.op \in {"output", "resource", "poll", "review", "radar"} => CopyOf(c.run, c.radar)
  /\ c.op = "queue" /\ c.at # "sent" => CopyOf(c.run, c.radar)
  /\ c.op = "resource" => c.run.status = "completed"
  /\ c.op = "output" /\ c.at = "answered" => Completed(c.run.id)
  /\ c.at = "conflict" => c.op = "output"

RadarSound(r) ==
  /\ active[r] = selected[r].id
  /\ selected[r].id = 0 \/ CopyOf(selected[r], r)
  /\ latest[r].id = 0 \/ CopyOf(latest[r], r)
  /\ selected[r].id = 0 => selected[r] = NoRun
  /\ latest[r].id = 0 => latest[r] = NoRun
  /\ artifact[r].run = 0 \/ (Owns(r, artifact[r].run) /\ Completed(artifact[r].run))

CallsSound == \A c \in calls : CallSound(c)
RadarsSound == \A r \in Radars : RadarSound(r)
IInv == Typed /\ CallsSound /\ RadarsSound

-----------------------------------------------------------------------------
\* Sending a call: it is well typed.
LEMMA CallTyped ==
  ASSUME NEW op \in Ops, NEW r \in Radars \cup {"all"}, NEW run \in RunCopy, NEW n \in Nat
  PROVE  Call(op, r, run, n) \in CallType
BY DEF Call, CallType

\* The invariant holds when the page is loaded.
LEMMA InitIInv == Init => IInv
<1> SUFFICES ASSUME Init PROVE IInv
  OBVIOUS
<1>1. NoRun \in RunCopy /\ NoArtifact \in [run : Nat, dossier : BOOLEAN]
  BY DEF NoRun, RunCopy, NoArtifact
<1>2. Call("catalog", "all", NoRun, 1) \in CallType
  BY <1>1, CallTyped DEF Ops
<1>3. Typed
  <2>1. runs \in Seq([radar : Radars, status : Statuses]) /\ calls \subseteq CallType
    BY <1>2, ControllerConstants DEF Init
  <2>2. catalog \in [generation : Nat, request : Nat, timer : BOOLEAN, attempt : Nat]
    BY DEF Init
  <2>3. definition \in [Radars -> [request : Nat, loaded : BOOLEAN,
                                 state : {"none", "loading", "loaded", "failed"}]]
    BY DEF Init
  <2>4. selected \in [Radars -> RunCopy] /\ latest \in [Radars -> RunCopy]
    BY <1>1 DEF Init
  <2>5. active \in [Radars -> Nat] /\ artifact \in [Radars -> [run : Nat, dossier : BOOLEAN]]
    BY <1>1 DEF Init
  <2>6. used \in [actions : Nat, failures : Nat]
    BY DEF Init
  <2> QED
    BY <2>1, <2>2, <2>3, <2>4, <2>5, <2>6 DEF Typed
<1>4. CallsSound
  BY DEF Init, CallsSound, CallSound, Call
<1>5. RadarsSound
  BY DEF Init, RadarsSound, RadarSound, NoRun, NoArtifact
<1> QED
  BY <1>3, <1>4, <1>5 DEF IInv

\* Runs keep their radar and stay completed: what was sound before still is.
LEMMA RunsGrow ==
  ASSUME CallsSound, RadarsSound, UNCHANGED selection, UNCHANGED shown,
         \A k \in DOMAIN runs : k \in DOMAIN runs' /\ runs'[k].radar = runs[k].radar,
         \A k \in DOMAIN runs : runs[k].status = "completed" => runs'[k].status = "completed"
  PROVE  RadarsSound' /\ \A c \in calls : CallSound(c)'
<1>1. \A k : Completed(k) => Completed(k)'
  BY DEF Completed
<1>2. \A r, k : Owns(r, k) => Owns(r, k)'
  BY DEF Owns
<1>3. \A run, r : CopyOf(run, r) => CopyOf(run, r)'
  BY <1>1, <1>2 DEF CopyOf
<1>4. RadarsSound'
  BY <1>1, <1>2, <1>3 DEF RadarsSound, RadarSound, selection, shown
<1>5. ASSUME NEW c \in calls PROVE CallSound(c)'
  <2>1. CallSound(c)
    BY DEF CallsSound
  <2>2. c.op = "select" => CopyOf(c.run, runs[c.run.id].radar)'
    BY <2>1, <1>3 DEF CallSound, CopyOf, Owns
  <2> QED
    BY <2>1, <2>2, <1>1, <1>3 DEF CallSound
<1> QED
  BY <1>4, <1>5

\* A step of the client: the runs are the server's, and the new calls are sound.
LEMMA CallsStep ==
  ASSUME IInv, UNCHANGED runs, \A d \in calls' \ calls : d \in CallType /\ CallSound(d)
  PROVE  calls' \subseteq CallType /\ CallsSound'
<1>1. \A d : CallSound(d) => CallSound(d)'
  BY DEF CallSound, CopyOf, Owns, Completed
<1> QED
  BY <1>1 DEF IInv, Typed, CallsSound

\* ... that leaves what is shown alone
LEMMA QuietStep ==
  ASSUME IInv, UNCHANGED runs, UNCHANGED selected, UNCHANGED active, UNCHANGED latest, UNCHANGED artifact
  PROVE  RadarsSound'
BY DEF IInv, RadarsSound, RadarSound, CopyOf, Owns, Completed

\* The parts of Typed that a step of the client may leave alone.
Kinds ==
  /\ selected \in [Radars -> RunCopy] /\ latest \in [Radars -> RunCopy]
  /\ active \in [Radars -> Nat] /\ artifact \in [Radars -> [run : Nat, dossier : BOOLEAN]]
Refs ==
  /\ catalog \in [generation : Nat, request : Nat, timer : BOOLEAN, attempt : Nat]
  /\ definition \in [Radars -> [request : Nat, loaded : BOOLEAN,
                               state : {"none", "loading", "loaded", "failed"}]]
  /\ used \in [actions : Nat, failures : Nat]

LEMMA ClientStep ==
  ASSUME IInv, UNCHANGED runs, Kinds', Refs', RadarsSound',
         \A d \in calls' \ calls : d \in CallType /\ CallSound(d)
  PROVE  IInv'
<1>1. calls' \subseteq CallType /\ CallsSound'
  BY CallsStep
<1> QED
  BY <1>1 DEF IInv, Typed, Kinds, Refs

LEMMA Known ==
  ASSUME IInv, NEW c \in calls
  PROVE  /\ c \in CallType /\ CallSound(c) /\ c.run \in RunCopy /\ c.run.id \in Nat
         /\ Kinds /\ Refs
BY DEF IInv, Typed, CallsSound, CallType, RunCopy, Kinds, Refs

\* The calls that several operations send.
LEMMA OutputCallsSound ==
  ASSUME IInv, NEW r \in Radars, NEW run \in RunCopy, CopyOf(run, r)
  PROVE  /\ \A d \in OutputCalls(r, run) : d \in CallType /\ CallSound(d)
         /\ Call("output", r, run, used.actions) \in CallType
         /\ CallSound(Call("output", r, run, used.actions))
<1>1. used.actions \in Nat
  BY DEF IInv, Typed
<1>2. Call("output", r, run, used.actions) \in CallType
  BY <1>1, CallTyped DEF Ops
<1>3. CallSound(Call("output", r, run, used.actions))
  BY DEF CallSound, Call
<1> QED
  BY <1>2, <1>3 DEF OutputCalls

LEMMA RefreshSound ==
  ASSUME IInv
  PROVE  /\ \A d \in RefreshCalls : d \in CallType /\ CallSound(d)
         /\ CatalogCall \in CallType /\ CallSound(CatalogCall)
         /\ CatalogSent \in [generation : Nat, request : Nat, timer : BOOLEAN, attempt : Nat]
<1>1. catalog \in [generation : Nat, request : Nat, timer : BOOLEAN, attempt : Nat]
  BY DEF IInv, Typed
<1>2. NoRun \in RunCopy
  BY DEF NoRun, RunCopy
<1>3. CatalogCall \in CallType
  BY <1>1, <1>2, CallTyped DEF CatalogCall, Ops
<1>4. CallSound(CatalogCall)
  BY DEF CallSound, CatalogCall, Call
<1>5. CatalogSent \in [generation : Nat, request : Nat, timer : BOOLEAN, attempt : Nat]
  <2> DEFINE T == [generation : Nat, request : Nat, timer : BOOLEAN, attempt : Nat]
  <2>1. \A g \in Nat, t \in T : [t EXCEPT !.generation = g, !.request = g, !.timer = FALSE] \in T
    OBVIOUS
  <2>2. catalog.generation + 1 \in Nat
    BY <1>1
  <2> QED
    BY <1>1, <2>1, <2>2 DEF CatalogSent
<1> QED
  BY <1>3, <1>4, <1>5 DEF RefreshCalls

-----------------------------------------------------------------------------
LEMMA RunTyped ==
  ASSUME IInv, NEW k \in DOMAIN runs
  PROVE  k \in 1 .. Len(runs) /\ runs[k] \in [radar : Radars, status : Statuses]
         /\ runs[k].status \in Statuses
<1>1. runs \in Seq([radar : Radars, status : Statuses])
  BY DEF IInv, Typed
<1>2. k \in 1 .. Len(runs)
  BY <1>1, LenProperties
<1>3. runs[k] \in [radar : Radars, status : Statuses]
  BY <1>1, <1>2, ElementOfSeq
<1> QED
  BY <1>2, <1>3

\* The server's steps.
LEMMA RunProgressKeeps ==
  ASSUME IInv, NEW k, NEW status \in Statuses, RunProgress(k, status)
  PROVE  IInv'
<1>1. k \in DOMAIN runs /\ runs \in Seq([radar : Radars, status : Statuses])
  BY DEF RunProgress, IInv, Typed
<1>2. runs' = [runs EXCEPT ![k].status = status] /\ runs[k].status # "completed"
  BY DEF RunProgress, terminalStatuses
<1>3. runs' \in Seq([radar : Radars, status : Statuses]) /\ DOMAIN runs' = DOMAIN runs
  <2> DEFINE run == [runs[k] EXCEPT !.status = status]
  <2>1. k \in 1 .. Len(runs) /\ runs[k] \in [radar : Radars, status : Statuses]
    BY <1>1, RunTyped
  <2>2. run \in [radar : Radars, status : Statuses]
    BY <2>1
  <2>3. runs' = [runs EXCEPT ![k] = run]
    BY <1>2
  <2> HIDE DEF run
  <2> QED
    BY <1>1, <2>1, <2>2, <2>3, ExceptSeq
<1>4. \A j \in DOMAIN runs : runs'[j].radar = runs[j].radar /\ (j # k => runs'[j] = runs[j])
  BY <1>1, <1>2
<1>5. RadarsSound' /\ \A c \in calls : CallSound(c)'
  BY <1>1, <1>2, <1>3, <1>4, RunsGrow DEF IInv, RunProgress
<1> QED
  BY <1>3, <1>5 DEF IInv, Typed, CallsSound, RunProgress, definitions, connection, selection, shown

LEMMA LatestCompletedIsCompleted ==
  ASSUME IInv, NEW r PROVE \A k \in LatestCompleted(r) : k \in Nat /\ Completed(k)
BY SMTT(30) DEF LatestCompleted, Completed, IInv, Typed

LEMMA ServeKeeps ==
  ASSUME IInv, NEW c \in calls, Serve(c)
  PROVE  IInv'
<1> DEFINE Answer(k, run) ==
             [c EXCEPT !.at = IF c.op = "output" /\ runs[k].status # "completed" THEN "conflict"
                              ELSE "answered",
                       !.run = run,
                       !.basis = IF c.op = "catalog" THEN UNION {LatestCompleted(r) : r \in Radars}
                                 ELSE {}]
           Own == c.op \in {"select", "poll", "review"}
<1>1. c \in CallType /\ CallSound(c) /\ c.run \in RunCopy /\ c.run.id \in Nat /\ c.at = "sent"
  BY Known DEF Serve
<1>2. runs \in Seq([radar : Radars, status : Statuses]) /\ Len(runs) \in Nat
  BY DEF IInv, Typed
<1>3. PICK a : /\ calls' = (calls \ {c}) \cup {a}
               /\ c.op = "queue" => a = Answer(Len(runs) + 1, Copy(Len(runs) + 1, "queued"))
               /\ Own => a = Answer(c.run.id, Copy(c.run.id, runs[c.run.id].status))
               /\ c.op # "queue" /\ ~ Own => a = Answer(c.run.id, c.run)
  BY DEF Serve, Instead
<1>4. runs' = IF c.op = "queue" THEN Append(runs, [radar |-> c.radar, status |-> "queued"]) ELSE runs
  BY DEF Serve
<1>5. c.op # "catalog" => c.radar \in Radars
  BY <1>1 DEF CallSound
<1>6. /\ runs' \in Seq([radar : Radars, status : Statuses])
      /\ \A j \in DOMAIN runs : j \in DOMAIN runs' /\ runs'[j] = runs[j]
      /\ c.op = "queue" => Len(runs) + 1 \in DOMAIN runs' /\ runs'[Len(runs) + 1].radar = c.radar
  <2>1. CASE c.op = "queue"
    <3> DEFINE new == [radar |-> c.radar, status |-> "queued"]
    <3>1. new \in [radar : Radars, status : Statuses] /\ new.radar = c.radar
      BY <1>5, <2>1 DEF Statuses
    <3>2. runs' = Append(runs, new)
      BY <1>4, <2>1
    <3> HIDE DEF new
    <3>3. runs' \in Seq([radar : Radars, status : Statuses]) /\ Len(runs') = Len(runs) + 1
      BY <1>2, <3>1, <3>2, AppendProperties
    <3>4. runs'[Len(runs) + 1] = new /\ \A j \in 1 .. Len(runs) : runs'[j] = runs[j]
      BY <1>2, <3>1, <3>2, AppendProperties
    <3> QED
      BY <1>2, <3>1, <3>3, <3>4
  <2>2. CASE c.op # "queue"
    BY <1>2, <1>4, <2>2
  <2> QED
    BY <2>1, <2>2
<1>7. RadarsSound' /\ \A d \in calls : CallSound(d)'
  BY <1>6, RunsGrow DEF IInv, Serve
<1>8. \A j : Completed(j) => Completed(j)'
  BY <1>6 DEF Completed
<1>9. \A r : \A j \in LatestCompleted(r) : j \in Nat /\ Completed(j)
  BY LatestCompletedIsCompleted
<1>10. /\ a.op = c.op /\ a.radar = c.radar
       /\ \A j \in a.basis : j \in Nat /\ Completed(j)
  <2> DEFINE basis == IF c.op = "catalog" THEN UNION {LatestCompleted(r) : r \in Radars} ELSE {}
  <2>1. a.op = c.op /\ a.radar = c.radar /\ a.basis = basis
    BY <1>1, <1>3 DEF CallType
  <2>2. \A j \in basis : j \in Nat /\ Completed(j)
    BY <1>9
  <2> QED
    BY <2>1, <2>2
<1>11. /\ c.op = "queue" => a.run = Copy(Len(runs) + 1, "queued")
       /\ Own => a.run = Copy(c.run.id, runs[c.run.id].status)
       /\ c.op # "queue" /\ ~ Own => a.run = c.run
       /\ c.op = "output" /\ a.at = "answered" => runs[c.run.id].status = "completed"
       /\ a.at = "conflict" => c.op = "output"
  BY <1>1, <1>3 DEF CallType
<1>12. Own => c.run.id \in DOMAIN runs /\ runs' = runs
  BY <1>1, <1>4 DEF CallSound, CopyOf, Owns
<1>13. a.run \in RunCopy
  <2>1. CASE c.op = "queue"
    BY <2>1, <1>2, <1>11 DEF RunCopy, Copy, Statuses
  <2>2. CASE Own
    <3>1. runs[c.run.id].status \in Statuses
      BY <2>2, <1>12, RunTyped
    <3> QED
      BY <2>2, <3>1, <1>1, <1>11 DEF RunCopy, Copy
  <2>3. CASE c.op # "queue" /\ ~ Own
    BY <2>3, <1>1, <1>11
  <2> QED
    BY <2>1, <2>2, <2>3
<1>14. a \in CallType
  <2>1. a \in [op : {c.op}, radar : {c.radar}, run : {a.run}, n : {c.n},
               at : {"conflict", "answered"}, basis : {a.basis}]
    BY <1>1, <1>3 DEF CallType
  <2> QED
    BY <1>1, <1>10, <1>13, <2>1 DEF CallType
<1>15. CallSound(a)'
  <2>1. \A j \in a.basis : Completed(j)'
    BY <1>8, <1>10
  <2>2. CASE c.op = "queue"
    <3>1. CopyOf(a.run, a.radar)'
      BY <2>2, <1>6, <1>10, <1>11 DEF CopyOf, Owns, Copy
    <3> QED
      BY <2>1, <2>2, <3>1, <1>5, <1>10, <1>11 DEF CallSound
  <2>3. CASE c.op = "select"
    <3>1. CopyOf(a.run, runs[a.run.id].radar)'
      BY <2>3, <1>11, <1>12 DEF CopyOf, Owns, Copy, Completed
    <3> QED
      BY <2>1, <2>3, <3>1, <1>5, <1>10, <1>11 DEF CallSound
  <2>4. CASE c.op \in {"poll", "review"}
    <3>1. Owns(c.radar, c.run.id)
      BY <2>4, <1>1 DEF CallSound, CopyOf
    <3>2. CopyOf(a.run, a.radar)'
      BY <2>4, <3>1, <1>10, <1>11, <1>12 DEF CopyOf, Owns, Copy, Completed
    <3> QED
      BY <2>1, <2>4, <3>2, <1>5, <1>10, <1>11 DEF CallSound
  <2>5. CASE c.op \notin {"queue", "select", "poll", "review"}
    <3>1. a.run = c.run /\ runs' = runs
      BY <2>5, <1>4, <1>11
    <3>2. c.op \in {"output", "resource", "radar"} => CopyOf(a.run, a.radar)'
      BY <3>1, <1>1, <1>10 DEF CallSound, CopyOf, Owns, Completed
    <3>3. c.op = "output" /\ a.at = "answered" => Completed(a.run.id)'
      BY <3>1, <1>1, <1>11 DEF CallSound, CopyOf, Owns, Completed
    <3>4. c.op = "resource" => a.run.status = "completed"
      BY <3>1, <1>1 DEF CallSound
    <3> QED
      BY <2>1, <2>5, <3>2, <3>3, <3>4, <1>5, <1>10, <1>11 DEF CallSound
  <2> QED
    BY <2>2, <2>3, <2>4, <2>5
<1>16. CallsSound'
  BY <1>3, <1>7, <1>15 DEF CallsSound
<1>17. Typed'
  BY <1>3, <1>6, <1>14 DEF IInv, Typed, Serve, definitions, connection, selection, shown
<1> QED
  BY <1>7, <1>16, <1>17 DEF IInv

-----------------------------------------------------------------------------
\* The catalog request.

CatalogType == [generation : Nat, request : Nat, timer : BOOLEAN, attempt : Nat]

LEMMA CatalogUpdates ==
  ASSUME NEW t \in CatalogType, NEW g \in Nat, NEW n \in Nat, NEW b \in BOOLEAN
  PROVE  /\ [t EXCEPT !.generation = g, !.request = g, !.timer = b] \in CatalogType
         /\ [t EXCEPT !.attempt = n, !.request = g] \in CatalogType
         /\ [t EXCEPT !.attempt = n, !.timer = b] \in CatalogType
         /\ [t EXCEPT !.attempt = n, !.timer = b, !.request = g] \in CatalogType
BY DEF CatalogType

LEMMA CatalogAnsweredKeeps ==
  ASSUME IInv, NEW c \in calls, CatalogAnswered(c)
  PROVE  IInv'
<1>1. c \in CallType /\ CallSound(c) /\ Kinds /\ Refs
  BY Known
<1>2. calls' \subseteq calls /\ UNCHANGED runs /\ UNCHANGED artifact /\ UNCHANGED used
  BY DEF CatalogAnswered, Instead, definitions, connection, selection, shown
<1>3. CASE c.n # catalog.generation
  <2>1. UNCHANGED <<selected, active, latest, catalog, definition>>
    BY <1>3 DEF CatalogAnswered, definitions, connection, selection
  <2>2. RadarsSound' /\ Kinds' /\ Refs'
    BY <1>1, <1>2, <2>1, QuietStep DEF Kinds, Refs
  <2> QED
    BY <1>2, <2>2, ClientStep
<1>4. CASE c.n = catalog.generation
  <2> DEFINE Of(r) == {k \in c.basis : runs[k].radar = r}
             Run(r) == Copy(CHOOSE k \in Of(r) : TRUE, "completed")
             Default(r) == Of(r) # {} /\ ~ explicit[r]
  <2>1. /\ latest' = [r \in Radars |-> IF Of(r) # {} THEN Run(r) ELSE latest[r]]
        /\ selected' = [r \in Radars |-> IF Default(r) THEN Run(r) ELSE selected[r]]
        /\ active' = [r \in Radars |-> IF Default(r) THEN Run(r).id ELSE active[r]]
        /\ UNCHANGED definition
        /\ catalog' = [catalog EXCEPT !.attempt = 0, !.request = RequestAfter(c.n)]
    BY <1>4 DEF CatalogAnswered, ApplySummaries
  <2>2. ASSUME NEW r \in Radars, Of(r) # {}
        PROVE  Run(r) \in RunCopy /\ CopyOf(Run(r), r) /\ Run(r).id # 0
    <3>1. PICK k : k = (CHOOSE j \in Of(r) : TRUE) /\ k \in Of(r)
      BY <2>2
    <3>2. Completed(k) /\ k \in Nat /\ Owns(r, k)
      BY <3>1, <1>1 DEF CallSound, CallType, Owns, Completed
    <3>3. k # 0
      BY <3>2, RunTyped DEF Completed
    <3> QED
      BY <3>1, <3>2, <3>3 DEF RunCopy, Copy, CopyOf, Statuses
  <2> HIDE DEF Of, Run
  <2>3. Kinds'
    BY <1>1, <1>2, <2>1, <2>2 DEF Kinds, RunCopy
  <2>4. Refs'
    <3>1. RequestAfter(c.n) \in Nat
      BY <1>1 DEF RequestAfter, Refs
    <3> QED
      BY <1>1, <1>2, <2>1, <3>1, CatalogUpdates DEF Refs, CatalogType
  <2>5. RadarsSound'
    <3> SUFFICES ASSUME NEW r \in Radars PROVE RadarSound(r)'
      BY DEF RadarsSound
    <3>1. RadarSound(r)
      BY DEF IInv, RadarsSound
    <3>2. \A run : CopyOf(run, r) => CopyOf(run, r)'
      BY <1>2 DEF CopyOf, Owns, Completed
    <3>3. active'[r] = selected'[r].id
      BY <2>1, <3>1 DEF RadarSound
    <3>4. selected'[r] = selected[r] \/ (CopyOf(selected[r], r)' /\ selected'[r].id # 0)
      <4>1. CASE Default(r)
        <5>1. selected'[r] = Run(r)
          BY <2>1, <4>1
        <5> QED
          BY <1>2, <2>2, <4>1, <5>1 DEF CopyOf, Owns, Completed
      <4>2. CASE ~ Default(r)
        BY <2>1, <4>2
      <4> QED
        BY <4>1, <4>2
    <3>5. latest'[r] = latest[r] \/ (CopyOf(latest[r], r)' /\ latest'[r].id # 0)
      BY <1>2, <2>1, <2>2 DEF CopyOf, Owns, Completed
    <3> QED
      BY <1>2, <3>1, <3>2, <3>3, <3>4, <3>5 DEF RadarSound, Owns, Completed
  <2> QED
    BY <1>2, <2>3, <2>4, <2>5, ClientStep
<1> QED
  BY <1>3, <1>4

LEMMA CatalogFailsKeeps ==
  ASSUME IInv, NEW c \in calls, NEW retryable \in BOOLEAN, CatalogFails(c, retryable)
  PROVE  IInv'
<1>1. Kinds /\ Refs
  BY Known
<1>2. calls' \subseteq calls /\ UNCHANGED <<runs, definition, selected, active, latest, artifact>>
  BY DEF CatalogFails, Fails, Instead, definitions, selection, shown
<1>3. RadarsSound' /\ Kinds'
  BY <1>1, <1>2, QuietStep DEF Kinds
<1>4. RequestAfter(c.n) \in Nat
  BY <1>1 DEF RequestAfter, Refs
<1>5. catalog' \in [generation : Nat, request : Nat, timer : BOOLEAN, attempt : Nat]
  <2>1. CASE c.n # catalog.generation
    BY <2>1, <1>1 DEF CatalogFails, connection, Refs
  <2>2. CASE c.n = catalog.generation
    <3>1. catalog \in CatalogType /\ 1 \in Nat
      BY <1>1 DEF Refs, CatalogType
    <3>2. [catalog EXCEPT !.attempt = 1, !.timer = retryable, !.request = RequestAfter(c.n)]
            \in CatalogType
      BY <1>4, <3>1, CatalogUpdates
    <3>3. catalog' = [catalog EXCEPT !.attempt = 1, !.timer = retryable, !.request = RequestAfter(c.n)]
      BY <2>2 DEF CatalogFails
    <3> QED
      BY <3>2, <3>3 DEF CatalogType
  <2> QED
    BY <2>1, <2>2
<1>6. used' \in [actions : Nat, failures : Nat]
  BY <1>1 DEF CatalogFails, Fails, Refs
<1>7. Refs'
  BY <1>1, <1>2, <1>5, <1>6 DEF Refs
<1> QED
  BY <1>2, <1>3, <1>7, ClientStep

LEMMA RetryTimerKeeps ==
  ASSUME IInv, RetryTimer
  PROVE  IInv'
<1>1. Kinds /\ Refs
  BY DEF IInv, Typed, Kinds, Refs
<1>2. /\ calls' \subseteq calls \cup RefreshCalls
      /\ UNCHANGED <<runs, definition, used, selected, active, latest, artifact>>
      /\ catalog' \in {catalog, CatalogSent}
  BY DEF RetryTimer, RefreshCatalog, definitions, selection, shown
<1>3. RadarsSound' /\ Kinds' /\ Refs'
  BY <1>1, <1>2, QuietStep, RefreshSound DEF Kinds, Refs
<1> QED
  BY <1>2, <1>3, ClientStep, RefreshSound

-----------------------------------------------------------------------------
\* What the user does: a call is sent, nothing shown changes.

LEMMA ActsCount ==
  ASSUME IInv, Acts PROVE used' \in [actions : Nat, failures : Nat] /\ used.actions \in Nat
<1>1. used \in [actions : Nat, failures : Nat]
  BY DEF IInv, Typed
<1>2. used.actions \in Nat /\ used' = [used EXCEPT !.actions = used.actions + 1]
  BY <1>1 DEF Acts
<1> QED
  BY <1>1, <1>2

LEMMA CatalogActsKeep ==
  ASSUME IInv, Refresh \/ Reconnect \/ Remount
  PROVE  IInv'
<1> DEFINE T == [generation : Nat, request : Nat, timer : BOOLEAN, attempt : Nat]
<1>1. Kinds /\ Refs /\ used' \in [actions : Nat, failures : Nat]
  BY ActsCount DEF IInv, Typed, Kinds, Refs, Refresh, Reconnect, Remount
<1>2. UNCHANGED <<runs, definition, selected, active, latest, artifact>>
  BY DEF Refresh, Reconnect, Remount, definitions, selection, shown
<1>3. RadarsSound' /\ Kinds'
  BY <1>1, <1>2, QuietStep DEF Kinds
<1>4. CASE Refresh
  <2>1. calls' \subseteq calls \cup RefreshCalls /\ catalog' \in {catalog, CatalogSent}
    BY <1>4 DEF Refresh, RefreshCatalog
  <2>2. Refs'
    BY <1>1, <1>2, <2>1, RefreshSound DEF Refs
  <2> QED
    BY <1>2, <1>3, <2>1, <2>2, ClientStep, RefreshSound
<1>5. CASE Reconnect
  <2>1. PICK t \in {catalog, CatalogSent} : catalog' = [t EXCEPT !.attempt = 0, !.timer = FALSE]
    BY <1>5 DEF Reconnect
  <2>2. t \in T
    BY <1>1, <2>1, RefreshSound DEF Refs
  <2>3. Refs'
    BY <1>1, <1>2, <2>1, <2>2, CatalogUpdates DEF Refs, CatalogType
  <2> QED
    BY <1>2, <1>3, <1>5, <2>3, ClientStep, RefreshSound DEF Reconnect
<1>6. CASE Remount
  <2> DEFINE next == catalog.generation + 2
             call == [CatalogCall EXCEPT !.n = next]
  <2>1. /\ next \in Nat /\ calls' \subseteq calls \cup {call}
        /\ catalog' = [catalog EXCEPT !.generation = next, !.request = next, !.timer = FALSE]
    BY <1>1, <1>6 DEF Remount, Refs
  <2> HIDE DEF next
  <2>2. call \in CallType /\ CallSound(call)
    BY <2>1, RefreshSound DEF CallType, CallSound, CatalogCall, Call
  <2>3. Refs'
    BY <1>1, <1>2, <2>1, CatalogUpdates DEF Refs, CatalogType
  <2> QED
    BY <1>2, <1>3, <2>1, <2>2, <2>3, ClientStep
<1> QED
  BY <1>4, <1>5, <1>6

\* A call sent for the run that is shown, or for none, is sound.
LEMMA SentCallsSound ==
  ASSUME IInv, NEW r \in Radars, NEW n \in Nat
  PROVE  /\ \A op \in {"definition", "save", "queue"} :
              Call(op, r, NoRun, n) \in CallType /\ CallSound(Call(op, r, NoRun, n))
         /\ \A k \in DOMAIN runs : LET call == Call("select", r, Copy(k, "none"), n)
                                   IN call \in CallType /\ CallSound(call)
         /\ active[r] # 0 => LET call == Call("review", r, Copy(active[r], "none"), n)
                             IN call \in CallType /\ CallSound(call)
<1>1. NoRun \in RunCopy
  BY DEF NoRun, RunCopy
<1>2. ASSUME NEW op \in {"definition", "save", "queue"}
      PROVE  Call(op, r, NoRun, n) \in CallType /\ CallSound(Call(op, r, NoRun, n))
  <2>1. op \in Ops
    BY <1>2 DEF Ops
  <2>2. Call(op, r, NoRun, n) \in CallType
    BY <1>1, <2>1, CallTyped
  <2>3. CallSound(Call(op, r, NoRun, n))
    BY DEF CallSound, Call
  <2> QED
    BY <2>2, <2>3
<1>3. ASSUME NEW k \in DOMAIN runs
      PROVE  /\ Call("select", r, Copy(k, "none"), n) \in CallType
             /\ CallSound(Call("select", r, Copy(k, "none"), n))
  <2>1. Copy(k, "none") \in RunCopy
    BY RunTyped DEF RunCopy, Copy
  <2>2. Call("select", r, Copy(k, "none"), n) \in CallType
    BY <2>1, CallTyped DEF Ops
  <2>3. CallSound(Call("select", r, Copy(k, "none"), n))
    BY DEF CallSound, Call, Copy, CopyOf, Owns
  <2> QED
    BY <2>2, <2>3
<1>4. ASSUME active[r] # 0
      PROVE  /\ Call("review", r, Copy(active[r], "none"), n) \in CallType
             /\ CallSound(Call("review", r, Copy(active[r], "none"), n))
  <2>1. Owns(r, active[r]) /\ active[r] \in Nat
    BY <1>4 DEF IInv, RadarsSound, RadarSound, CopyOf, Typed
  <2>2. Copy(active[r], "none") \in RunCopy
    BY <2>1 DEF RunCopy, Copy
  <2>3. Call("review", r, Copy(active[r], "none"), n) \in CallType
    BY <2>2, CallTyped DEF Ops
  <2>4. CallSound(Call("review", r, Copy(active[r], "none"), n))
    BY <2>1 DEF CallSound, Call, Copy, CopyOf
  <2> QED
    BY <2>3, <2>4
<1> QED
  BY <1>2, <1>3, <1>4

LEMMA ShownRunSound ==
  ASSUME IInv, NEW r \in Radars, SelectedOrLatest(r).status = "completed"
  PROVE  SelectedOrLatest(r) \in RunCopy /\ CopyOf(SelectedOrLatest(r), r)
<1>1. selected[r] \in RunCopy /\ latest[r] \in RunCopy /\ RadarSound(r)
  BY DEF IInv, Typed, RadarsSound
<1>2. SelectedOrLatest(r) # NoRun
  BY DEF NoRun
<1> QED
  BY <1>1, <1>2 DEF SelectedOrLatest, RadarSound

LEMMA ActsKeep ==
  ASSUME IInv, NEW r \in Radars,
         \/ LoadRadarDefinition(r) \/ SaveRadarDefinition(r) \/ LoadRadarRunArtifact(r)
         \/ LoadRadarRunResource(r) \/ RunRadar(r) \/ SaveReview(r)
         \/ \E k \in DOMAIN runs : SelectRadarRun(r, k)
  PROVE  IInv'
<1>1. Kinds /\ Refs /\ used' \in [actions : Nat, failures : Nat] /\ used.actions \in Nat
  BY ActsCount DEF IInv, Typed, Kinds, Refs, LoadRadarDefinition, SaveRadarDefinition,
     LoadRadarRunArtifact, LoadRadarRunResource, RunRadar, SaveReview, SelectRadarRun
<1>2. UNCHANGED <<runs, catalog, selected, active, latest, artifact>>
  BY DEF LoadRadarDefinition, SaveRadarDefinition, LoadRadarRunArtifact, LoadRadarRunResource,
     RunRadar, SaveReview, SelectRadarRun, connection, selection, shown
<1>3. RadarsSound' /\ Kinds'
  BY <1>1, <1>2, QuietStep DEF Kinds
<1>4. CASE LoadRadarDefinition(r)
  <2>1. definition[r].request + 1 \in Nat
    BY <1>1 DEF Refs
  <2>2. Refs'
    BY <1>1, <1>2, <1>4, <2>1, ZenonT(60) DEF Refs, LoadRadarDefinition
  <2> QED
    BY <1>2, <1>3, <1>4, <2>1, <2>2, ClientStep, SentCallsSound DEF LoadRadarDefinition
<1>5. CASE ~ LoadRadarDefinition(r)
  <2>1. UNCHANGED definition
    BY <1>5 DEF SaveRadarDefinition, LoadRadarRunArtifact, LoadRadarRunResource, RunRadar, SaveReview,
       SelectRadarRun, definitions
  <2>2. Refs'
    BY <1>1, <1>2, <2>1 DEF Refs
  <2>3. CASE SaveRadarDefinition(r)
    BY <1>1, <1>2, <1>3, <2>2, <2>3, ClientStep, SentCallsSound DEF SaveRadarDefinition
  <2>4. CASE RunRadar(r)
    BY <1>1, <1>2, <1>3, <2>2, <2>4, ClientStep, SentCallsSound DEF RunRadar
  <2>5. CASE SaveReview(r)
    BY <1>1, <1>2, <1>3, <2>2, <2>5, ClientStep, SentCallsSound DEF SaveReview
  <2>6. CASE \E k \in DOMAIN runs : SelectRadarRun(r, k)
    BY <1>1, <1>2, <1>3, <2>2, <2>6, ClientStep, SentCallsSound DEF SelectRadarRun
  <2>7. CASE LoadRadarRunArtifact(r)
    <3>1. SelectedOrLatest(r) \in RunCopy /\ CopyOf(SelectedOrLatest(r), r)
      BY <2>7, ShownRunSound DEF LoadRadarRunArtifact
    <3>2. \A d \in OutputCalls(r, SelectedOrLatest(r)) : d \in CallType /\ CallSound(d)
      BY <3>1, OutputCallsSound
    <3> QED
      BY <1>2, <1>3, <2>2, <2>7, <3>2, ClientStep DEF LoadRadarRunArtifact
  <2>8. CASE LoadRadarRunResource(r)
    <3> DEFINE call == Call("resource", r, SelectedOrLatest(r), 0)
    <3>1. SelectedOrLatest(r) \in RunCopy /\ CopyOf(SelectedOrLatest(r), r)
      BY <2>8, ShownRunSound DEF LoadRadarRunResource
    <3>2. call \in CallType
      BY <3>1, CallTyped DEF Ops
    <3>3. CallSound(call)
      BY <2>8, <3>1 DEF CallSound, Call, LoadRadarRunResource
    <3> QED
      BY <1>2, <1>3, <2>2, <2>8, <3>2, <3>3, ClientStep DEF LoadRadarRunResource
  <2> QED
    BY <1>5, <2>3, <2>4, <2>5, <2>6, <2>7, <2>8
<1> QED
  BY <1>4, <1>5

-----------------------------------------------------------------------------
\* Answers.

\* A run that belongs to the radar becomes the selected one.
LEMMA SelectRunSound ==
  ASSUME IInv, UNCHANGED runs, NEW r \in Radars, NEW run \in RunCopy, CopyOf(run, r), SelectRun(r, run),
         latest' \in [Radars -> RunCopy], artifact' \in [Radars -> [run : Nat, dossier : BOOLEAN]],
         \A q \in Radars : latest'[q] = latest[q] \/ (q = r /\ latest'[q] = run),
         \A q \in Radars : \/ artifact'[q] = artifact[q] \/ artifact'[q].run = 0
                           \/ q = r /\ artifact'[q].run = run.id /\ Completed(run.id)
  PROVE  Kinds' /\ RadarsSound'
<1>1. /\ selected \in [Radars -> RunCopy] /\ active \in [Radars -> Nat] /\ run.id \in Nat
      /\ run.id \in DOMAIN runs
  BY DEF IInv, Typed, RunCopy, CopyOf, Owns
<1>2. run.id # 0
  BY <1>1, RunTyped
<1>3. selected' = [selected EXCEPT ![r] = run] /\ active' = [active EXCEPT ![r] = run.id]
  BY DEF SelectRun, ActiveAfter
<1>4. Kinds'
  BY <1>1, <1>3 DEF Kinds
<1>5. ASSUME NEW q \in Radars PROVE RadarSound(q)'
  <2>1. RadarSound(q)
    BY DEF IInv, RadarsSound
  <2>2. active'[q] = selected'[q].id /\ (selected'[q] = selected[q] \/ (q = r /\ selected'[q] = run))
    BY <1>1, <1>3, <2>1 DEF RadarSound
  <2>3. \A copy : CopyOf(copy, q) => CopyOf(copy, q)'
    BY DEF CopyOf, Owns, Completed
  <2>4. selected'[q].id = 0 \/ CopyOf(selected[q], q)'
    BY <2>1, <2>2, <2>3 DEF RadarSound, CopyOf, Owns, Completed
  <2>5. latest'[q].id = 0 \/ CopyOf(latest[q], q)'
    BY <2>1, <2>3 DEF RadarSound, CopyOf, Owns, Completed
  <2>6. /\ selected'[q].id = 0 => selected'[q] = NoRun
        /\ latest'[q].id = 0 => latest'[q] = NoRun
    BY <1>2, <2>1, <2>2 DEF RadarSound
  <2>7. artifact'[q].run = 0 \/ (Owns(q, artifact[q].run) /\ Completed(artifact[q].run))'
    BY <2>1 DEF RadarSound, CopyOf, Owns, Completed
  <2> QED
    BY <2>2, <2>4, <2>5, <2>6, <2>7 DEF RadarSound
<1> QED
  BY <1>4, <1>5 DEF RadarsSound

LEMMA CallUpdates ==
  ASSUME NEW c \in CallType, NEW op \in Ops, NEW n \in Nat
  PROVE  /\ [c EXCEPT !.op = op, !.at = "sent"] \in CallType
         /\ [c EXCEPT !.at = "timer", !.n = n] \in CallType
BY DEF CallType

LEMMA DefinitionAnswersKeep ==
  ASSUME IInv, NEW c \in calls, DefinitionAnswered(c) \/ SaveAnswered(c)
  PROVE  IInv'
<1>1. c \in CallType /\ CallSound(c) /\ Kinds /\ Refs
  BY Known
<1>2. /\ UNCHANGED <<runs, catalog, used, selected, active, latest, artifact>> /\ calls' \subseteq calls
  BY DEF DefinitionAnswered, SaveAnswered, Instead, connection, selection, shown
<1>3. definition' \in {definition, [definition EXCEPT ![c.radar].loaded = TRUE, ![c.radar].state = "loaded"]}
  BY DEF DefinitionAnswered, SaveAnswered, definitions
<1>4. [definition EXCEPT ![c.radar].loaded = TRUE, ![c.radar].state = "loaded"]
        \in [Radars -> [request : Nat, loaded : BOOLEAN, state : {"none", "loading", "loaded", "failed"}]]
  BY <1>1, ZenonT(60) DEF Refs
<1>5. Refs'
  BY <1>1, <1>2, <1>3, <1>4 DEF Refs
<1>6. RadarsSound' /\ Kinds'
  BY <1>1, <1>2, QuietStep DEF Kinds
<1> QED
  BY <1>2, <1>5, <1>6, ClientStep

LEMMA OutputAnswersKeep ==
  ASSUME IInv, NEW c \in calls, OutputAnswered(c) \/ OutputConflicts(c)
  PROVE  IInv'
<1>1. c \in CallType /\ CallSound(c) /\ c.run \in RunCopy /\ c.run.id \in Nat /\ Kinds /\ Refs
  BY Known
<1>2. UNCHANGED <<runs, definition, used>>
  BY DEF OutputAnswered, OutputConflicts, definitions
<1>3. CASE OutputAnswered(c)
  <2>1. c.radar \in Radars /\ CopyOf(c.run, c.radar) /\ Completed(c.run.id)
    BY <1>1, <1>3 DEF OutputAnswered, Answered, CallSound
  <2>2. /\ SelectRun(c.radar, c.run)
        /\ artifact' = [artifact EXCEPT ![c.radar] = [run |-> c.run.id, dossier |-> FALSE]]
        /\ \/ latest' = [latest EXCEPT ![c.radar] = c.run]
           \/ latest' = [latest EXCEPT ![c.radar] = latest[c.radar]]
        /\ catalog' \in {catalog, CatalogSent} /\ calls' \subseteq calls \cup RefreshCalls
    BY <1>3 DEF OutputAnswered, RefreshCatalog, Instead
  <2>3. /\ latest' \in [Radars -> RunCopy]
        /\ \A q \in Radars : latest'[q] = latest[q] \/ (q = c.radar /\ latest'[q] = c.run)
    BY <1>1, <2>1, <2>2 DEF Kinds
  <2>4. /\ artifact' \in [Radars -> [run : Nat, dossier : BOOLEAN]]
        /\ \A q \in Radars : \/ artifact'[q] = artifact[q]
                             \/ q = c.radar /\ artifact'[q].run = c.run.id
    BY <1>1, <2>1, <2>2 DEF Kinds
  <2>5. Kinds' /\ RadarsSound'
    BY <1>1, <1>2, <2>1, <2>2, <2>3, <2>4, SelectRunSound
  <2>6. Refs'
    BY <1>1, <1>2, <2>2, RefreshSound DEF Refs
  <2> QED
    BY <1>2, <2>2, <2>5, <2>6, ClientStep, RefreshSound
<1>4. CASE OutputConflicts(c)
  <2>1. c.radar \in Radars /\ CopyOf(c.run, c.radar)
    BY <1>1, <1>4 DEF OutputConflicts, CallSound
  <2>2. /\ SelectRun(c.radar, c.run) /\ artifact' = [artifact EXCEPT ![c.radar] = NoArtifact]
        /\ UNCHANGED <<latest, catalog>> /\ calls' \subseteq calls
    BY <1>4 DEF OutputConflicts, Instead, connection
  <2>3. /\ artifact' \in [Radars -> [run : Nat, dossier : BOOLEAN]]
        /\ \A q \in Radars : artifact'[q] = artifact[q] \/ artifact'[q].run = 0
    BY <1>1, <2>1, <2>2 DEF Kinds, NoArtifact
  <2>4. Kinds' /\ RadarsSound'
    BY <1>1, <1>2, <2>1, <2>2, <2>3, SelectRunSound DEF Kinds
  <2>5. Refs'
    BY <1>1, <1>2, <2>2 DEF Refs
  <2> QED
    BY <1>2, <2>2, <2>4, <2>5, ClientStep
<1> QED
  BY <1>3, <1>4

LEMMA ResourceAnswerKeeps ==
  ASSUME IInv, NEW c \in calls, ResourceAnswered(c)
  PROVE  IInv'
<1>1. c \in CallType /\ CallSound(c) /\ c.run \in RunCopy /\ c.run.id \in Nat /\ Kinds /\ Refs
  BY Known
<1>2. UNCHANGED <<runs, catalog, definition, used, selected, active, latest>> /\ calls' \subseteq calls
  BY DEF ResourceAnswered, Instead, connection, definitions, selection
<1>3. c.radar \in Radars /\ Owns(c.radar, c.run.id) /\ Completed(c.run.id)
  BY <1>1 DEF ResourceAnswered, Answered, CallSound, CopyOf
<1>4. artifact' = [artifact EXCEPT ![c.radar] = [run |-> c.run.id, dossier |-> TRUE]]
  BY DEF ResourceAnswered
<1>5. Kinds' /\ Refs'
  BY <1>1, <1>2, <1>3, <1>4 DEF Kinds, Refs
<1>6. ASSUME NEW q \in Radars PROVE RadarSound(q)'
  <2>1. RadarSound(q)
    BY DEF IInv, RadarsSound
  <2>2. artifact'[q] = artifact[q] \/ (q = c.radar /\ artifact'[q].run = c.run.id)
    BY <1>1, <1>3, <1>4 DEF Kinds
  <2>3. artifact'[q].run = 0 \/ (Owns(q, artifact[q].run) /\ Completed(artifact[q].run))'
    BY <1>2, <1>3, <2>1, <2>2 DEF RadarSound, Owns, Completed
  <2> QED
    BY <1>2, <2>1, <2>3 DEF RadarSound, CopyOf, Owns, Completed
<1> QED
  BY <1>2, <1>5, <1>6, ClientStep DEF RadarsSound

LEMMA SelectionAnswersKeep ==
  ASSUME IInv, NEW c \in calls,
         SelectionRefused(c) \/ SelectionNeedsRadar(c) \/ SelectionAnswered(c)
  PROVE  IInv'
<1>1. c \in CallType /\ CallSound(c) /\ c.run \in RunCopy /\ c.run.id \in Nat /\ Kinds /\ Refs
  BY Known
<1>2. UNCHANGED <<runs, catalog, definition, latest, used>>
  BY DEF SelectionRefused, SelectionNeedsRadar, SelectionAnswered, connection, definitions, selection
<1>3. Refs'
  BY <1>1, <1>2 DEF Refs
<1>4. CASE SelectionRefused(c)
  <2>1. UNCHANGED <<selected, active, latest, artifact>> /\ calls' \subseteq calls
    BY <1>4 DEF SelectionRefused, Instead, selection, shown
  <2> QED
    BY <1>1, <1>2, <1>3, <2>1, QuietStep, ClientStep DEF Kinds
<1>5. CASE SelectionNeedsRadar(c)
  <2> DEFINE call == [c EXCEPT !.op = "radar", !.at = "sent"]
  <2>1. /\ UNCHANGED <<selected, active, latest, artifact>> /\ calls' \subseteq calls \cup {call}
        /\ c.op = "select" /\ runs[c.run.id].radar = c.radar
    BY <1>5 DEF SelectionNeedsRadar, Instead, selection, shown, Answered, Selectable
  <2>2. call \in CallType
    BY <1>1, CallUpdates DEF Ops
  <2>3. /\ call.op = "radar" /\ call.at = "sent" /\ call.run = c.run /\ call.radar = c.radar
        /\ call.basis = c.basis
    BY <1>1 DEF CallType
  <2> HIDE DEF call
  <2>4. CallSound(call)
    BY <1>1, <2>1, <2>3 DEF CallSound
  <2> QED
    BY <1>1, <1>2, <1>3, <2>1, <2>2, <2>4, QuietStep, ClientStep DEF Kinds
<1>6. CASE SelectionAnswered(c)
  <2> DEFINE call == Call("output", c.radar, c.run, used.actions)
  <2>1. c.radar \in Radars /\ CopyOf(c.run, c.radar)
    <3>1. c.op = "radar" \/ (c.op = "select" /\ runs[c.run.id].radar = c.radar)
      BY <1>6 DEF SelectionAnswered, Answered, Selectable
    <3> QED
      BY <1>1, <3>1 DEF CallSound
  <2>2. /\ SelectRun(c.radar, c.run)
        /\ artifact' = artifact \/ artifact' = [artifact EXCEPT ![c.radar] = NoArtifact]
        /\ calls' \subseteq calls \cup {call}
    BY <1>6 DEF SelectionAnswered, Instead
  <2>3. call \in CallType /\ CallSound(call)
    BY <1>1, <2>1, OutputCallsSound
  <2>4. /\ artifact' \in [Radars -> [run : Nat, dossier : BOOLEAN]]
        /\ \A q \in Radars : artifact'[q] = artifact[q] \/ artifact'[q].run = 0
    <3>1. CASE artifact' = artifact
      BY <1>1, <3>1 DEF Kinds
    <3>2. CASE artifact' = [artifact EXCEPT ![c.radar] = NoArtifact]
      BY <1>1, <2>1, <3>2 DEF Kinds, NoArtifact
    <3> QED
      BY <2>2, <3>1, <3>2
  <2>5. Kinds' /\ RadarsSound'
    BY <1>1, <1>2, <2>1, <2>2, <2>4, SelectRunSound DEF Kinds
  <2> QED
    BY <1>2, <1>3, <2>2, <2>3, <2>5, ClientStep
<1> QED
  BY <1>4, <1>5, <1>6

LEMMA RunAnswersKeep ==
  ASSUME IInv, NEW c \in calls,
         QueueAnswered(c) \/ PollAnswered(c) \/ PollTimer(c) \/ ReviewAnswered(c)
  PROVE  IInv'
<1>1. c \in CallType /\ CallSound(c) /\ c.run \in RunCopy /\ c.run.id \in Nat /\ Kinds /\ Refs
  BY Known
<1>2. UNCHANGED <<runs, catalog, definition, artifact, used>>
  BY DEF QueueAnswered, PollAnswered, PollTimer, ReviewAnswered, connection, definitions, shown
<1>3. Refs'
  BY <1>1, <1>2 DEF Refs
<1>4. CASE QueueAnswered(c)
  <2> DEFINE call == Call("poll", c.radar, c.run, 0)
  <2>1. c.radar \in Radars /\ CopyOf(c.run, c.radar)
    BY <1>1, <1>4 DEF QueueAnswered, Answered, CallSound
  <2>2. /\ SelectRun(c.radar, c.run) /\ latest' = [latest EXCEPT ![c.radar] = c.run]
        /\ calls' \subseteq calls \cup {call}
    BY <1>4 DEF QueueAnswered, Instead
  <2>3. call \in CallType
    BY <1>1, <2>1, CallTyped DEF Ops
  <2>4. CallSound(call)
    BY <2>1 DEF CallSound, Call
  <2>5. /\ latest' \in [Radars -> RunCopy]
        /\ \A q \in Radars : latest'[q] = latest[q] \/ (q = c.radar /\ latest'[q] = c.run)
    BY <1>1, <2>1, <2>2 DEF Kinds
  <2>6. Kinds' /\ RadarsSound'
    BY <1>1, <1>2, <2>1, <2>2, <2>5, SelectRunSound DEF Kinds
  <2> QED
    BY <1>2, <1>3, <2>2, <2>3, <2>4, <2>6, ClientStep
<1>5. CASE PollAnswered(c) \/ PollTimer(c) \/ ReviewAnswered(c)
  <2>1. UNCHANGED <<selected, active, latest>>
    BY <1>5 DEF PollAnswered, PollTimer, ReviewAnswered, selection
  <2>2. Kinds' /\ RadarsSound'
    BY <1>1, <1>2, <2>1, QuietStep DEF Kinds
  <2>3. c.op \in {"poll", "review"} => c.radar \in Radars /\ CopyOf(c.run, c.radar)
    BY <1>1 DEF CallSound
  <2>4. c.op \in {"poll", "review"} => \A d \in OutputCalls(c.radar, c.run) : d \in CallType /\ CallSound(d)
    BY <1>1, <2>3, OutputCallsSound
  <2>5. CASE ReviewAnswered(c)
    BY <1>2, <1>3, <2>2, <2>4, <2>5, ClientStep DEF ReviewAnswered, Answered, Instead
  <2>6. CASE PollTimer(c)
    <3> DEFINE call == [c EXCEPT !.at = "sent"]
    <3>1. calls' \subseteq calls \cup {call} /\ c.at = "timer"
      BY <2>6 DEF PollTimer, Instead
    <3>2. /\ call \in CallType /\ call.op = c.op /\ call.at = "sent" /\ call.run = c.run
          /\ call.radar = c.radar /\ call.basis = c.basis
      BY <1>1 DEF CallType
    <3> HIDE DEF call
    <3>3. CallSound(call)
      BY <1>1, <3>1, <3>2 DEF CallSound
    <3> QED
      BY <1>2, <1>3, <2>2, <3>1, <3>2, <3>3, ClientStep
  <2>7. CASE PollAnswered(c)
    <3> DEFINE call == [c EXCEPT !.at = "timer", !.n = PollsSoFar(c)]
    <3>1. calls' \subseteq calls \cup OutputCalls(c.radar, c.run) \cup {call} /\ c.op = "poll"
      BY <2>7 DEF PollAnswered, Instead, Answered
    <3>2. /\ call \in CallType /\ call.op = c.op /\ call.at = "timer" /\ call.run = c.run
          /\ call.radar = c.radar /\ call.basis = c.basis
      <4>1. PollsSoFar(c) \in Nat /\ c.op \in Ops
        BY <1>1 DEF CallType, PollsSoFar
      <4>2. call \in CallType
        BY <1>1, <4>1, CallUpdates
      <4>3. /\ call.op = c.op /\ call.at = "timer" /\ call.run = c.run
            /\ call.radar = c.radar /\ call.basis = c.basis
        BY <1>1 DEF CallType
      <4> QED
        BY <4>2, <4>3
    <3> HIDE DEF call
    <3>3. CallSound(call)
      BY <1>1, <3>1, <3>2 DEF CallSound
    <3> QED
      BY <1>2, <1>3, <2>2, <2>4, <3>1, <3>2, <3>3, ClientStep
  <2> QED
    BY <1>5, <2>5, <2>6, <2>7
<1> QED
  BY <1>4, <1>5

LEMMA CallFailsKeeps ==
  ASSUME IInv, NEW c \in calls, CallFails(c)
  PROVE  IInv'
<1>1. c \in CallType /\ CallSound(c) /\ Kinds /\ Refs
  BY Known
<1>2. UNCHANGED <<runs, catalog, selected, active, latest, artifact>> /\ calls' \subseteq calls
  BY DEF CallFails, Fails, Instead, selection, shown
<1>3. Kinds' /\ RadarsSound'
  BY <1>1, <1>2, QuietStep DEF Kinds
<1>4. definition' \in {definition, [definition EXCEPT ![c.radar].state = "failed"]}
  BY DEF CallFails
<1>5. used' = [used EXCEPT !.failures = used.failures + 1]
  BY DEF CallFails, Fails
<1>6. Refs'
  BY <1>1, <1>2, <1>4, <1>5 DEF Refs
<1> QED
  BY <1>2, <1>3, <1>6, ClientStep

-----------------------------------------------------------------------------
LEMMA StepKeepsIInv == IInv /\ [Next]_vars => IInv'
<1> SUFFICES ASSUME IInv, [Next]_vars PROVE IInv'
  OBVIOUS
<1>1. CASE UserActs
  <2>1. \A r \in Opened : r \in Radars
    BY ControllerConstants
  <2> QED
    BY <1>1, <2>1, CatalogActsKeep, ActsKeep DEF UserActs
<1>2. CASE ServerActs
  BY <1>2, ServeKeeps, RunProgressKeeps DEF ServerActs
<1>3. CASE \E c \in calls : Handles(c)
  BY <1>3, CatalogAnsweredKeeps, DefinitionAnswersKeep, OutputAnswersKeep, ResourceAnswerKeeps,
     SelectionAnswersKeep, RunAnswersKeep DEF Handles
<1>4. CASE NetworkFails
  BY <1>4, CallFailsKeeps, CatalogFailsKeeps DEF NetworkFails
<1>5. CASE RetryTimer
  BY <1>5, RetryTimerKeeps
<1>6. CASE UNCHANGED vars
  <2>1. UNCHANGED <<runs, calls, catalog, definition, used, selected, active, latest, artifact>>
    BY <1>6 DEF vars, connection, definitions, selection, shown
  <2>2. Kinds' /\ Refs'
    BY <2>1 DEF IInv, Typed, Kinds, Refs
  <2> QED
    BY <2>1, <2>2, QuietStep, ClientStep
<1> QED
  BY <1>1, <1>2, <1>3, <1>4, <1>5, <1>6 DEF Next

\* For any number of radars, runs, actions and calls in flight, in whatever order the calls
\* are answered or lost: the selected run is the one reviews are saved for, it is the radar's,
\* and what is shown is the output of a completed run of the radar.
THEOREM SelectionsAreSound == Spec => []SelectionIsSound
<1>1. Init => IInv
  BY InitIInv
<1>2. IInv /\ [Next]_vars => IInv'
  BY StepKeepsIInv
<1>3. IInv => SelectionIsSound
  BY DEF IInv, RadarsSound, RadarSound, SelectionIsSound, CopyOf, Owns, Completed
<1> QED
  BY <1>1, <1>2, <1>3, PTL DEF Spec

-----------------------------------------------------------------------------
\* A loaded definition is known, and shown as soon as anything of the radar is.
ItemsTyped == apiCatalog \in [Radars -> Knowledge] /\ details \in [Radars -> Knowledge]
DefinitionSound(r) ==
  /\ definition[r].loaded => details[r] = "full" /\ apiCatalog[r] \in {"unknown", "full"}
  /\ definition[r].state = "loaded" => definition[r].loaded
DInv == ItemsTyped /\ \A r \in Radars : DefinitionSound(r)

LEMMA DefinitionStep ==
  ASSUME IInv, DInv, [Next]_vars
  PROVE  DInv'
<1>1. Refs
  BY DEF IInv, Typed, Refs
<1>2. CASE UNCHANGED definitions
  BY <1>2 DEF DInv, ItemsTyped, DefinitionSound, definitions
<1>3. ASSUME NEW c \in calls, CatalogAnswered(c), ~ UNCHANGED definitions
      PROVE  DInv'
  <2>1. /\ apiCatalog' = [r \in Radars |-> SummaryDefinition(r)] /\ details' = apiCatalog'
        /\ UNCHANGED definition
    BY <1>3 DEF CatalogAnswered, ApplySummaries
  <2>2. \A r \in Radars : /\ SummaryDefinition(r) \in Knowledge
                          /\ definition[r].loaded => SummaryDefinition(r) = "full"
    BY DEF DInv, ItemsTyped, DefinitionSound, SummaryDefinition, Knowledge
  <2>3. ItemsTyped'
    BY <2>1, <2>2 DEF ItemsTyped
  <2>4. \A r \in Radars : DefinitionSound(r)'
    BY <2>1, <2>2 DEF DInv, DefinitionSound
  <2> QED
    BY <2>3, <2>4 DEF DInv
<1>4. ASSUME NEW r \in Radars, LoadRadarDefinition(r)
      PROVE  DInv'
  <2>1. /\ definition' = [definition EXCEPT ![r].request = definition[r].request + 1,
                                            ![r].state = "loading"]
        /\ ~ definition[r].loaded /\ UNCHANGED <<apiCatalog, details>>
    BY <1>4 DEF LoadRadarDefinition
  <2>2. \A q \in Radars : /\ definition'[q].loaded = definition[q].loaded
                          /\ definition'[q].state = "loaded" => definition[q].state = "loaded"
    BY <1>1, <2>1 DEF Refs
  <2> QED
    BY <2>1, <2>2 DEF DInv, ItemsTyped, DefinitionSound
<1>5. ASSUME NEW c \in calls, DefinitionAnswered(c) \/ SaveAnswered(c), ~ UNCHANGED definitions
      PROVE  DInv'
  <2>1. c.radar \in Radars
    BY <1>5, Known DEF DefinitionAnswered, SaveAnswered, Answered, CallSound
  <2>2. ShowDefinition(c.radar)
    BY <1>5 DEF DefinitionAnswered, SaveAnswered
  <2>3. /\ details' = [details EXCEPT ![c.radar] = "full"]
        /\ apiCatalog' = [apiCatalog EXCEPT ![c.radar] =
                            IF apiCatalog[c.radar] = "unknown" THEN apiCatalog[c.radar] ELSE "full"]
    BY <2>2 DEF ShowDefinition
  <2>4. ItemsTyped'
    BY <2>1, <2>3 DEF DInv, ItemsTyped, Knowledge
  <2>5. definition' \in {definition, [definition EXCEPT ![c.radar].loaded = TRUE,
                                                        ![c.radar].state = "loaded"]}
    BY <1>5 DEF DefinitionAnswered, SaveAnswered
  <2>6. ASSUME NEW q \in Radars PROVE DefinitionSound(q)'
    <3>1. DefinitionSound(q)
      BY DEF DInv
    <3>2. CASE q = c.radar
      <4>1. details'[q] = "full" /\ apiCatalog'[q] \in {"unknown", "full"}
        BY <2>1, <2>3, <3>2 DEF DInv, ItemsTyped
      <4>2. definition'[q].state = "loaded" => definition'[q].loaded
        BY <1>1, <2>1, <2>5, <3>1, <3>2 DEF Refs, DefinitionSound
      <4> QED
        BY <4>1, <4>2 DEF DefinitionSound
    <3>3. CASE q # c.radar
      <4>1. /\ details'[q] = details[q] /\ apiCatalog'[q] = apiCatalog[q]
            /\ definition'[q] = definition[q]
        BY <1>1, <2>1, <2>3, <2>5, <3>3 DEF DInv, ItemsTyped, Refs
      <4> QED
        BY <3>1, <4>1 DEF DefinitionSound
    <3> QED
      BY <3>2, <3>3
  <2> QED
    BY <2>4, <2>6 DEF DInv
<1>6. ASSUME NEW c \in calls, SelectionAnswered(c)
      PROVE  DInv'
  <2>1. /\ details' \in {details, [details EXCEPT ![c.radar] = "full"]}
        /\ UNCHANGED <<apiCatalog, definition>>
    BY <1>6 DEF SelectionAnswered
  <2>2. details' \in [Radars -> Knowledge]
    BY <2>1 DEF DInv, ItemsTyped, Knowledge
  <2>3. \A r \in Radars : details'[r] = details[r] \/ details'[r] = "full"
    BY <2>1 DEF DInv, ItemsTyped
  <2> QED
    BY <2>1, <2>2, <2>3 DEF DInv, ItemsTyped, DefinitionSound
<1>7. ASSUME NEW c \in calls, CallFails(c)
      PROVE  DInv'
  <2>1. /\ definition' \in {definition, [definition EXCEPT ![c.radar].state = "failed"]}
        /\ UNCHANGED <<apiCatalog, details>>
    BY <1>7 DEF CallFails
  <2>2. \A q \in Radars : /\ definition'[q].loaded = definition[q].loaded
                          /\ definition'[q].state = "loaded" => definition[q].state = "loaded"
    BY <1>1, <2>1 DEF Refs
  <2> QED
    BY <2>1, <2>2 DEF DInv, ItemsTyped, DefinitionSound
<1>8. \/ UNCHANGED definitions
      \/ \E r \in Radars : LoadRadarDefinition(r)
      \/ \E c \in calls : \/ CatalogAnswered(c) \/ DefinitionAnswered(c) \/ SaveAnswered(c)
                          \/ SelectionAnswered(c) \/ CallFails(c)
  <2>1. CASE UNCHANGED vars
    BY <2>1 DEF vars
  <2>2. CASE UserActs
    <3>1. CASE Refresh \/ Reconnect \/ Remount
      BY <3>1 DEF Refresh, Reconnect, Remount
    <3>2. CASE ~ (Refresh \/ Reconnect \/ Remount)
      <4>1. PICK r \in Radars :
              \/ LoadRadarDefinition(r) \/ SaveRadarDefinition(r) \/ LoadRadarRunArtifact(r)
              \/ LoadRadarRunResource(r) \/ RunRadar(r) \/ SaveReview(r)
              \/ \E k \in DOMAIN runs : SelectRadarRun(r, k)
        BY <2>2, <3>2, ControllerConstants DEF UserActs
      <4> QED
        BY <4>1 DEF SaveRadarDefinition, LoadRadarRunArtifact, LoadRadarRunResource, RunRadar,
           SaveReview, SelectRadarRun
    <3> QED
      BY <3>1, <3>2
  <2>3. CASE ServerActs
    BY <2>3 DEF ServerActs, Serve, RunProgress
  <2>4. CASE \E c \in calls : Handles(c)
    BY <2>4 DEF Handles, OutputAnswered, OutputConflicts, ResourceAnswered, SelectionRefused,
       SelectionNeedsRadar, QueueAnswered, PollAnswered, ReviewAnswered, PollTimer
  <2>5. CASE NetworkFails
    BY <2>5 DEF NetworkFails, CatalogFails
  <2>6. CASE RetryTimer
    BY <2>6 DEF RetryTimer
  <2> QED
    BY <2>1, <2>2, <2>3, <2>4, <2>5, <2>6 DEF Next
<1> QED
  BY <1>2, <1>3, <1>4, <1>5, <1>6, <1>7, <1>8

\* In whatever order catalog, definition, save and selection answers arrive, a definition
\* that is reported as loaded is not replaced by a summary (applyCatalogSummaries).
THEOREM LoadedDefinitionsStay == Spec => []LoadedDefinitionStays
<1>1. Init => IInv /\ DInv
  <2>1. Init => DInv
    BY DEF Init, DInv, ItemsTyped, DefinitionSound, Knowledge
  <2> QED
    BY <2>1, InitIInv
<1>2. IInv /\ DInv /\ [Next]_vars => IInv' /\ DInv'
  BY StepKeepsIInv, DefinitionStep
<1>3. DInv => LoadedDefinitionStays
  BY DEF DInv, DefinitionSound, LoadedDefinitionStays
<1> QED
  BY <1>1, <1>2, <1>3, PTL DEF Spec

-----------------------------------------------------------------------------
(* Types: what is bounded, and the catalog request that is current.        *)

Current == {c \in calls : c.op = "catalog" /\ c.n = catalog.generation}
CatalogSound ==
  /\ catalog.generation > 0 /\ catalog.request \in {0, catalog.generation}
  /\ catalog.attempt \in {0, 1}
  /\ \A c \in calls : c.op = "catalog" => c.n <= catalog.generation
  /\ \A c, d \in Current : c = d
  /\ Current = {} <=> catalog.request = 0

\* a queue call that has not been served will make a run
Unserved == {c \in calls : c.op = "queue" /\ c.at = "sent"}
RunsBounded == IsFiniteSet(calls) /\ Len(runs) + Cardinality(Unserved) <= MaxRuns

\* a copy of a run has a status once the server has told it
Told(c) ==
  \/ c.op \in {"output", "resource", "poll", "radar"}
  \/ c.op \in {"select", "queue", "review"} /\ c.at # "sent"
CallSeen(c) == (Told(c) => c.run.status \in Statuses) /\ (c.at = "timer" => c.op = "poll")
Seen(run) == run = NoRun \/ run.status \in Statuses
StatusesSeen ==
  /\ \A c \in calls : CallSeen(c)
  /\ \A r \in Radars : Seen(selected[r]) /\ Seen(latest[r])

Flags ==
  /\ catalogState \in {"loading", "loaded", "retrying", "failed"}
  /\ mode \in {"loading", "api", "fallback"} /\ busy \in BOOLEAN
  /\ explicit \in [Radars -> BOOLEAN]
  /\ resources \subseteq DOMAIN runs

\* The client's steps about calls other than the catalog's.
LEMMA CatalogCallsKept ==
  ASSUME CatalogSound, catalog'.generation = catalog.generation, catalog'.request = catalog.request,
         catalog'.attempt \in {0, 1},
         \A c \in calls \cup calls' : c.op = "catalog" => (c \in calls <=> c \in calls')
  PROVE  CatalogSound'
<1>1. Current' = Current
  BY DEF Current
<1> QED
  BY <1>1 DEF CatalogSound

\* A catalog request is sent with a number of its own.
LEMMA CatalogCallSent ==
  ASSUME IInv, CatalogSound, NEW x, x.op = "catalog", x.n \in Nat, x.n > catalog.generation, x \in calls',
         catalog'.generation = x.n, catalog'.request = x.n, catalog'.attempt \in {0, 1},
         \A c \in calls' : c.op = "catalog" => c = x \/ c \in calls
  PROVE  CatalogSound'
<1>1. catalog.generation \in Nat /\ \A c \in calls : c.n \in Nat
  BY DEF IInv, Typed, CallType
<1>2. \A c \in calls : c.op = "catalog" => c.n < x.n
  BY <1>1 DEF CatalogSound
<1>3. Current' = {x}
  BY <1>2 DEF Current
<1>4. x.n > 0
  BY <1>1 DEF CatalogSound
<1>5. \A c \in calls' : c.op = "catalog" => c.n <= x.n
  BY <1>1, <1>2
<1> QED
  BY <1>3, <1>4, <1>5 DEF CatalogSound

\* The current request ends, with an answer or without.
LEMMA CatalogCallEnded ==
  ASSUME CatalogSound, NEW c \in Current, calls' = calls \ {c},
         catalog'.generation = catalog.generation, catalog'.request = 0, catalog'.attempt \in {0, 1}
  PROVE  CatalogSound'
<1>1. Current' = {}
  BY DEF CatalogSound, Current
<1> QED
  BY <1>1 DEF CatalogSound

\* An abandoned request ends.
LEMMA AbandonedCallEnded ==
  ASSUME CatalogSound, NEW c \in calls, c.n # catalog.generation, calls' = calls \ {c}, UNCHANGED catalog
  PROVE  CatalogSound'
<1>1. Current' = Current
  BY DEF Current
<1> QED
  BY <1>1 DEF CatalogSound

LEMMA CatalogCallServed ==
  ASSUME CatalogSound, NEW c \in calls, NEW a, a.op = c.op, a.n = c.n,
         calls' = (calls \ {c}) \cup {a}, UNCHANGED catalog
  PROVE  CatalogSound'
<1>1. CASE c \in Current
  <2>1. Current' = {a}
    BY <1>1 DEF CatalogSound, Current
  <2> QED
    BY <1>1, <2>1 DEF CatalogSound
<1>2. CASE c \notin Current
  <2>1. Current' = Current
    BY <1>2 DEF Current
  <2> QED
    BY <2>1 DEF CatalogSound
<1> QED
  BY <1>1, <1>2

\* refreshRadarCatalog shares the request in flight, or sends one.
LEMMA CatalogRefreshed ==
  ASSUME IInv, CatalogSound,
         catalog'.generation = IF MayRequest THEN CatalogSent.generation ELSE catalog.generation,
         catalog'.request = IF MayRequest THEN CatalogSent.request ELSE catalog.request,
         catalog'.attempt \in {0, 1},
         \A d \in calls \cup calls' \cup RefreshCalls :
           d.op = "catalog" => (d \in calls' <=> d \in calls \cup RefreshCalls)
  PROVE  CatalogSound'
<1>1. catalog.generation \in Nat
  BY DEF IInv, Typed
<1>2. CASE MayRequest
  <2>1. /\ CatalogSent.generation = catalog.generation + 1
        /\ CatalogSent.request = catalog.generation + 1
    BY DEF CatalogSent, IInv, Typed
  <2>2. CatalogCall.op = "catalog" /\ CatalogCall.n = catalog.generation + 1
    BY DEF CatalogCall, Call
  <2>3. RefreshCalls = {CatalogCall}
    BY <1>2 DEF RefreshCalls
  <2> QED
    BY <1>1, <1>2, <2>1, <2>2, <2>3, CatalogCallSent
<1>3. CASE ~ MayRequest
  BY <1>3, CatalogCallsKept DEF RefreshCalls
<1> QED
  BY <1>2, <1>3

\* The kinds of calls that the client sends.
LEMMA SentOps ==
  /\ \A op, r, run, n : Call(op, r, run, n).op = op /\ Call(op, r, run, n).at = "sent"
                        /\ Call(op, r, run, n).run = run
  /\ \A d \in RefreshCalls : d.op = "catalog"
  /\ \A r, run : \A d \in OutputCalls(r, run) : d.op = "output" /\ d.run = run
BY DEF Call, RefreshCalls, CatalogCall, OutputCalls

LEMMA CatalogStep ==
  ASSUME IInv, CatalogSound, [Next]_vars
  PROVE  CatalogSound'
<1>1. catalog \in CatalogType /\ calls \subseteq CallType
  BY DEF IInv, Typed, CatalogType
<1>2. ASSUME NEW c \in calls, CatalogAnswered(c) \/ \E retryable \in BOOLEAN : CatalogFails(c, retryable)
      PROVE  CatalogSound'
  <2>1. calls' = calls \ {c} /\ c.op = "catalog"
    BY <1>2 DEF CatalogAnswered, CatalogFails, Fails, Instead, Answered
  <2>2. CASE c.n = catalog.generation
    <3>1. c \in Current /\ catalog.request = c.n
      BY <2>1, <2>2 DEF Current, CatalogSound
    <3>2. PICK n \in {0, 1}, b \in BOOLEAN :
            catalog' = [catalog EXCEPT !.attempt = n, !.timer = b, !.request = RequestAfter(c.n)]
      <4>1. CASE CatalogAnswered(c)
        <5>1. catalog' = [catalog EXCEPT !.attempt = 0, !.request = RequestAfter(c.n)]
          BY <2>2, <4>1 DEF CatalogAnswered
        <5>2. catalog' = [catalog EXCEPT !.attempt = 0, !.timer = catalog.timer, !.request = RequestAfter(c.n)]
          BY <1>1, <5>1 DEF CatalogType
        <5> QED
          BY <1>1, <5>2 DEF CatalogType
      <4>2. CASE \E retryable \in BOOLEAN : CatalogFails(c, retryable)
        BY <2>2, <4>2 DEF CatalogFails
      <4> QED
        BY <1>2, <4>1, <4>2
    <3>3. catalog'.generation = catalog.generation /\ catalog'.request = 0 /\ catalog'.attempt \in {0, 1}
      BY <1>1, <3>1, <3>2 DEF CatalogType, RequestAfter
    <3> QED
      BY <2>1, <3>1, <3>3, CatalogCallEnded
  <2>3. CASE c.n # catalog.generation
    <3>1. UNCHANGED catalog
      BY <1>2, <2>3 DEF CatalogAnswered, CatalogFails, connection
    <3> QED
      BY <2>1, <2>3, <3>1, AbandonedCallEnded
  <2> QED
    BY <2>2, <2>3
<1>3. CatalogSent \in CatalogType /\ CatalogSent.attempt = catalog.attempt /\ catalog.attempt \in {0, 1}
  BY <1>1, RefreshSound DEF CatalogSent, CatalogType, CatalogSound
<1>4. CASE Refresh \/ RetryTimer
  <2>1. catalog' = (IF MayRequest THEN CatalogSent ELSE catalog) /\ calls' = calls \cup RefreshCalls
    BY <1>4 DEF Refresh, RetryTimer, RefreshCatalog
  <2> QED
    BY <1>3, <2>1, CatalogRefreshed
<1>5. CASE Reconnect
  <2>1. PICK t : t = (IF MayRequest THEN CatalogSent ELSE catalog)
                 /\ catalog' = [t EXCEPT !.attempt = 0, !.timer = FALSE]
    BY <1>5 DEF Reconnect
  <2>2. t \in CatalogType
    BY <1>1, <1>3, <2>1
  <2>3. catalog'.generation = t.generation /\ catalog'.request = t.request /\ catalog'.attempt = 0
    BY <2>1, <2>2 DEF CatalogType
  <2>4. calls' = calls \cup RefreshCalls
    BY <1>5 DEF Reconnect
  <2> QED
    BY <2>1, <2>3, <2>4, CatalogRefreshed
<1>6. CASE Remount
  <2> DEFINE next == catalog.generation + 2
             call == [CatalogCall EXCEPT !.n = next]
  <2>1. /\ calls' = calls \cup {call}
        /\ catalog' = [catalog EXCEPT !.generation = next, !.request = next, !.timer = FALSE]
    BY <1>6 DEF Remount
  <2>2. next \in Nat /\ next > catalog.generation
    BY <1>1 DEF CatalogType
  <2>3. call.op = "catalog" /\ call.n = next
    BY DEF CatalogCall, Call
  <2>4. catalog'.generation = next /\ catalog'.request = next /\ catalog'.attempt = catalog.attempt
    BY <1>1, <2>1 DEF CatalogType
  <2> HIDE DEF call, next
  <2> QED
    BY <1>3, <2>1, <2>2, <2>3, <2>4, CatalogCallSent
<1>7. ASSUME NEW c \in calls, OutputAnswered(c) PROVE CatalogSound'
  <2>1. c.op = "output"
    BY <1>7 DEF OutputAnswered, Answered
  <2>2. \/ /\ catalog' = (IF MayRequest THEN CatalogSent ELSE catalog)
           /\ calls' = (calls \ {c}) \cup RefreshCalls
        \/ calls' = (calls \ {c}) /\ UNCHANGED catalog
    BY <1>7 DEF OutputAnswered, RefreshCatalog, Instead
  <2>3. CASE calls' = (calls \ {c}) /\ UNCHANGED catalog
    BY <1>3, <2>1, <2>3, CatalogCallsKept
  <2>4. CASE /\ catalog' = (IF MayRequest THEN CatalogSent ELSE catalog)
             /\ calls' = (calls \ {c}) \cup RefreshCalls
    <3>1. \A d \in calls \cup calls' \cup RefreshCalls :
            d.op = "catalog" => (d \in calls' <=> d \in calls \cup RefreshCalls)
      BY <2>1, <2>4
    <3> QED
      BY <1>3, <2>4, <3>1, CatalogRefreshed
  <2> QED
    BY <2>2, <2>3, <2>4
<1>8. ASSUME NEW c \in calls, Serve(c) PROVE CatalogSound'
  <2>1. PICK at, run, basis :
          calls' = (calls \ {c}) \cup {[c EXCEPT !.at = at, !.run = run, !.basis = basis]}
    BY <1>8, Zenon DEF Serve, Instead
  <2> DEFINE a == [c EXCEPT !.at = at, !.run = run, !.basis = basis]
  <2>2. a.op = c.op /\ a.n = c.n
    BY <1>1 DEF CallType
  <2>3. UNCHANGED catalog
    BY <1>8 DEF Serve, connection
  <2> HIDE DEF a
  <2> QED
    BY <2>1, <2>2, <2>3, CatalogCallServed DEF a
<1>9. ASSUME UNCHANGED catalog,
             \A c \in calls \cup calls' : c.op = "catalog" => (c \in calls <=> c \in calls')
      PROVE  CatalogSound'
  BY <1>3, <1>9, CatalogCallsKept
<1>10. ASSUME NEW r \in Opened,
              \/ LoadRadarDefinition(r) \/ SaveRadarDefinition(r) \/ LoadRadarRunArtifact(r)
              \/ LoadRadarRunResource(r) \/ RunRadar(r) \/ SaveReview(r)
              \/ \E k \in DOMAIN runs : SelectRadarRun(r, k)
       PROVE  CatalogSound'
  <2>1. UNCHANGED catalog
    BY <1>10 DEF LoadRadarDefinition, SaveRadarDefinition, LoadRadarRunArtifact, LoadRadarRunResource,
       RunRadar, SaveReview, SelectRadarRun, connection
  <2>2. calls \subseteq calls' /\ \A d \in calls' \ calls : d.op # "catalog"
    <3>1. CASE LoadRadarDefinition(r) \/ SaveRadarDefinition(r) \/ RunRadar(r) \/ SaveReview(r)
      BY <3>1, SentOps DEF LoadRadarDefinition, SaveRadarDefinition, RunRadar, SaveReview
    <3>2. CASE LoadRadarRunArtifact(r)
      BY <3>2, SentOps DEF LoadRadarRunArtifact
    <3>3. CASE LoadRadarRunResource(r)
      BY <3>3, SentOps DEF LoadRadarRunResource
    <3>4. CASE \E k \in DOMAIN runs : SelectRadarRun(r, k)
      BY <3>4, SentOps DEF SelectRadarRun
    <3> QED
      BY <1>10, <3>1, <3>2, <3>3, <3>4
  <2> QED
    BY <1>9, <2>1, <2>2
<1>11. ASSUME NEW c \in calls, PollTimer(c) PROVE CatalogSound'
  <2> DEFINE a == [c EXCEPT !.at = "sent"]
  <2>1. calls' = (calls \ {c}) \cup {a} /\ UNCHANGED catalog
    BY <1>11 DEF PollTimer, Instead, connection
  <2>2. a.op = c.op /\ a.n = c.n
    BY <1>1 DEF CallType
  <2> HIDE DEF a
  <2> QED
    BY <2>1, <2>2, CatalogCallServed
<1>12. ASSUME NEW c \in calls, OutputConflicts(c) PROVE CatalogSound'
  <2>1. c.op = "output" /\ calls' = calls \ {c} /\ UNCHANGED catalog
    BY <1>12, Known DEF OutputConflicts, Instead, CallSound, connection
  <2> QED
    BY <1>9, <2>1
<1>13. ASSUME NEW c \in calls, DefinitionAnswered(c) \/ SaveAnswered(c) \/ ResourceAnswered(c)
                               \/ SelectionRefused(c)
       PROVE  CatalogSound'
  <2>1. c.op # "catalog" /\ calls' = calls \ {c} /\ UNCHANGED catalog
    BY <1>13 DEF DefinitionAnswered, SaveAnswered, ResourceAnswered, SelectionRefused, Answered,
       Instead, connection
  <2> QED
    BY <1>9, <2>1
<1>14. ASSUME NEW c \in calls, SelectionNeedsRadar(c) \/ SelectionAnswered(c) \/ QueueAnswered(c)
                               \/ PollAnswered(c) \/ ReviewAnswered(c)
       PROVE  CatalogSound'
  <2>1. c.op # "catalog" /\ UNCHANGED catalog
    BY <1>14 DEF SelectionNeedsRadar, SelectionAnswered, QueueAnswered, PollAnswered, ReviewAnswered,
       Answered, connection
  <2>2. calls \ {c} \subseteq calls' /\ \A d \in calls' \ calls : d.op # "catalog"
    <3>1. CASE SelectionNeedsRadar(c)
      <4> DEFINE a == [c EXCEPT !.op = "radar", !.at = "sent"]
      <4>1. a.op = "radar"
        BY <1>1 DEF CallType
      <4>2. calls' = (calls \ {c}) \cup {a}
        BY <3>1 DEF SelectionNeedsRadar, Instead
      <4> HIDE DEF a
      <4> QED
        BY <4>1, <4>2
    <3>2. CASE PollAnswered(c)
      <4> DEFINE a == [c EXCEPT !.at = "timer", !.n = PollsSoFar(c)]
      <4>1. a.op = c.op
        BY <1>1 DEF CallType
      <4>2. calls \ {c} \subseteq calls' /\ calls' \subseteq calls \cup OutputCalls(c.radar, c.run) \cup {a}
        BY <3>2 DEF PollAnswered, Instead
      <4> HIDE DEF a
      <4> QED
        BY <2>1, <4>1, <4>2, SentOps
    <3>3. CASE ReviewAnswered(c)
      BY <3>3, SentOps DEF ReviewAnswered, Instead
    <3>4. CASE SelectionAnswered(c) \/ QueueAnswered(c)
      BY <3>4, SentOps DEF SelectionAnswered, QueueAnswered, Instead
    <3> QED
      BY <1>14, <3>1, <3>2, <3>3, <3>4
  <2> QED
    BY <1>9, <2>1, <2>2
<1>15. ASSUME NEW c \in calls, CallFails(c) PROVE CatalogSound'
  <2>1. c.op # "catalog" /\ calls' = calls \ {c} /\ UNCHANGED catalog
    BY <1>15 DEF CallFails, Fails, Instead
  <2> QED
    BY <1>9, <2>1
<1>16. CASE (\E k \in DOMAIN runs, s \in Statuses : RunProgress(k, s)) \/ UNCHANGED vars
  <2>1. UNCHANGED <<catalog, calls>>
    BY <1>16 DEF RunProgress, connection, vars
  <2> QED
    BY <1>9, <2>1
<1> QED
  BY <1>2, <1>4, <1>5, <1>6, <1>7, <1>8, <1>10, <1>11, <1>12, <1>13, <1>14, <1>15, <1>16
     DEF Next, UserActs, ServerActs, Handles, NetworkFails

\* Every step of the client leaves at most one call that was not there; only RunRadar
\* asks for a run.
LEMMA NewCall ==
  ASSUME IInv, StatusesSeen, [Next]_vars, \A c \in calls : ~ Serve(c)
  PROVE  \E x : /\ calls' \subseteq calls \cup {x} /\ CallSeen(x)
                /\ x.op = "queue" /\ x.at = "sent" => \E r : RunRadar(r) /\ calls' = calls \cup {x}
<1> DEFINE Goal == \E x : /\ calls' \subseteq calls \cup {x} /\ CallSeen(x)
                          /\ x.op = "queue" /\ x.at = "sent" => \E r : RunRadar(r) /\ calls' = calls \cup {x}
<1> SUFFICES Goal
  OBVIOUS
<1>1. ASSUME NEW x, calls' \subseteq calls \cup {x}, x.op # "queue", CallSeen(x) PROVE Goal
  BY <1>1
<1> HIDE DEF Goal
<1>2. CatalogCall.op = "catalog" /\ CatalogCall.at = "sent" /\ CallSeen(CatalogCall)
  BY DEF CatalogCall, Call, CallSeen, Told
<1>3. ASSUME calls' \subseteq calls \cup RefreshCalls PROVE Goal
  <2>1. calls' \subseteq calls \cup {CatalogCall}
    BY <1>3 DEF RefreshCalls
  <2> QED
    BY <1>1, <1>2, <2>1
<1>4. ASSUME NEW r, NEW run, run.status \in Statuses, calls' \subseteq calls \cup OutputCalls(r, run) PROVE Goal
  <2> DEFINE x == Call("output", r, run, used.actions)
  <2>1. x.op = "output" /\ x.at = "sent" /\ x.run = run
    BY DEF Call
  <2>2. calls' \subseteq calls \cup {x}
    BY <1>4 DEF OutputCalls
  <2> HIDE DEF x
  <2> QED
    BY <1>1, <1>4, <2>1, <2>2 DEF CallSeen
<1>5. CASE Refresh \/ Reconnect \/ RetryTimer
  BY <1>3, <1>5 DEF Refresh, Reconnect, RetryTimer
<1>6. CASE Remount
  <2> DEFINE x == [CatalogCall EXCEPT !.n = catalog.generation + 2]
  <2>1. calls' \subseteq calls \cup {x}
    BY <1>6 DEF Remount
  <2>2. x.op = "catalog" /\ x.at = "sent"
    BY DEF CatalogCall, Call
  <2> HIDE DEF x
  <2> QED
    BY <1>1, <2>1, <2>2 DEF CallSeen, Told
<1>7. ASSUME NEW r \in Opened, LoadRadarDefinition(r) \/ SaveRadarDefinition(r) \/ SaveReview(r)
                               \/ \E k \in DOMAIN runs : SelectRadarRun(r, k)
      PROVE  Goal
  <2>1. PICK op, run, n : calls' = calls \cup {Call(op, r, run, n)} /\ op \in {"definition", "save", "review", "select"}
    BY <1>7 DEF LoadRadarDefinition, SaveRadarDefinition, SaveReview, SelectRadarRun
  <2> DEFINE x == Call(op, r, run, n)
  <2>2. x.op = op /\ x.at = "sent"
    BY DEF Call
  <2> HIDE DEF x
  <2>3. CallSeen(x)
    BY <2>1, <2>2 DEF CallSeen, Told
  <2> QED
    BY <1>1, <2>1, <2>2, <2>3 DEF x
<1>8. ASSUME NEW r \in Opened, RunRadar(r) PROVE Goal
  <2> DEFINE x == Call("queue", r, NoRun, used.actions)
  <2>1. x.op = "queue" /\ x.at = "sent"
    BY DEF Call
  <2>2. calls' = calls \cup {x}
    BY <1>8 DEF RunRadar
  <2> HIDE DEF x
  <2>3. CallSeen(x)
    BY <2>1 DEF CallSeen, Told
  <2> QED
    BY <1>8, <2>2, <2>3 DEF Goal
<1>9. ASSUME NEW r \in Opened, LoadRadarRunArtifact(r) \/ LoadRadarRunResource(r) PROVE Goal
  <2>1. SelectedOrLatest(r).status \in Statuses
    BY <1>9 DEF LoadRadarRunArtifact, LoadRadarRunResource, Statuses
  <2>2. CASE LoadRadarRunArtifact(r)
    BY <1>4, <2>1, <2>2 DEF LoadRadarRunArtifact
  <2>3. CASE LoadRadarRunResource(r)
    <3> DEFINE x == Call("resource", r, SelectedOrLatest(r), 0)
    <3>1. x.op = "resource" /\ x.at = "sent" /\ x.run = SelectedOrLatest(r)
      BY DEF Call
    <3>2. calls' = calls \cup {x}
      BY <2>3 DEF LoadRadarRunResource
    <3> HIDE DEF x
    <3>3. CallSeen(x)
      BY <2>1, <3>1 DEF CallSeen
    <3> QED
      BY <1>1, <3>1, <3>2, <3>3
  <2> QED
    BY <1>9, <2>2, <2>3
<1>10. ASSUME calls' \subseteq calls PROVE Goal
  BY <1>1, <1>2, <1>10
<1>11. ASSUME NEW c \in calls, Handles(c) PROVE Goal
  <2>1. c \in CallType /\ CallSeen(c)
    BY Known DEF StatusesSeen
  <2>2. CASE OutputAnswered(c)
    BY <1>3, <1>10, <2>2 DEF OutputAnswered, Instead
  <2>3. CASE SelectionNeedsRadar(c)
    <3> DEFINE x == [c EXCEPT !.op = "radar", !.at = "sent"]
    <3>1. x.op = "radar" /\ x.at = "sent" /\ x.run = c.run
      BY <2>1 DEF CallType
    <3>2. calls' \subseteq calls \cup {x} /\ c.op = "select" /\ c.at = "answered"
      BY <2>3 DEF SelectionNeedsRadar, Instead, Answered
    <3> HIDE DEF x
    <3>3. CallSeen(x)
      BY <2>1, <3>1, <3>2 DEF CallSeen, Told
    <3> QED
      BY <1>1, <3>1, <3>2, <3>3
  <2>4. CASE SelectionAnswered(c)
    <3> DEFINE x == Call("output", c.radar, c.run, used.actions)
    <3>1. x.op = "output" /\ x.at = "sent" /\ x.run = c.run
      BY DEF Call
    <3>2. calls' \subseteq calls \cup {x} /\ (c.op = "radar" \/ (c.op = "select" /\ c.at = "answered"))
      BY <2>4 DEF SelectionAnswered, Instead, Answered
    <3> HIDE DEF x
    <3>3. CallSeen(x)
      BY <2>1, <3>1, <3>2 DEF CallSeen, Told
    <3> QED
      BY <1>1, <3>1, <3>2, <3>3
  <2>5. CASE QueueAnswered(c)
    <3> DEFINE x == Call("poll", c.radar, c.run, 0)
    <3>1. x.op = "poll" /\ x.at = "sent" /\ x.run = c.run
      BY DEF Call
    <3>2. calls' \subseteq calls \cup {x} /\ c.op = "queue" /\ c.at = "answered"
      BY <2>5 DEF QueueAnswered, Instead, Answered
    <3> HIDE DEF x
    <3>3. CallSeen(x)
      BY <2>1, <3>1, <3>2 DEF CallSeen, Told
    <3> QED
      BY <1>1, <3>1, <3>2, <3>3
  <2>6. CASE PollAnswered(c)
    <3> DEFINE x == [c EXCEPT !.at = "timer", !.n = PollsSoFar(c)]
    <3>1. x.op = c.op /\ x.at = "timer" /\ x.run = c.run
      BY <2>1 DEF CallType
    <3>2. /\ c.op = "poll" /\ c.at = "answered"
          /\ calls' \subseteq calls \cup {x} \/ calls' \subseteq calls \cup OutputCalls(c.radar, c.run)
      BY <2>6 DEF PollAnswered, Instead, Answered
    <3> HIDE DEF x
    <3>3. c.run.status \in Statuses /\ CallSeen(x)
      BY <2>1, <3>1, <3>2 DEF CallSeen, Told
    <3> QED
      BY <1>1, <1>4, <3>1, <3>2, <3>3
  <2>7. CASE ReviewAnswered(c)
    <3>1. c.run.status \in Statuses
      BY <2>1, <2>7 DEF CallSeen, Told, ReviewAnswered, Answered
    <3> QED
      BY <1>4, <2>7, <3>1 DEF ReviewAnswered, Instead
  <2>8. CASE PollTimer(c)
    <3> DEFINE x == [c EXCEPT !.at = "sent"]
    <3>1. x.op = c.op /\ x.at = "sent" /\ x.run = c.run
      BY <2>1 DEF CallType
    <3>2. calls' \subseteq calls \cup {x} /\ c.op = "poll"
      BY <2>1, <2>8 DEF PollTimer, Instead, CallSeen
    <3> HIDE DEF x
    <3>3. CallSeen(x)
      BY <2>1, <3>1, <3>2 DEF CallSeen, Told
    <3> QED
      BY <1>1, <3>1, <3>2, <3>3
  <2>9. CASE CatalogAnswered(c) \/ DefinitionAnswered(c) \/ SaveAnswered(c) \/ OutputConflicts(c)
             \/ ResourceAnswered(c) \/ SelectionRefused(c)
    <3>1. calls' \subseteq calls
      BY <2>9 DEF CatalogAnswered, DefinitionAnswered, SaveAnswered, OutputConflicts, ResourceAnswered,
         SelectionRefused, Instead
    <3> QED
      BY <1>10, <3>1
  <2> QED
    BY <1>11, <2>2, <2>3, <2>4, <2>5, <2>6, <2>7, <2>8, <2>9 DEF Handles
<1>12. CASE NetworkFails \/ UNCHANGED vars \/ \E k \in DOMAIN runs, s \in Statuses : RunProgress(k, s)
  <2>1. calls' \subseteq calls
    BY <1>12 DEF NetworkFails, CallFails, CatalogFails, Fails, Instead, RunProgress, vars
  <2> QED
    BY <1>10, <2>1
<1>13. CASE UserActs
  BY <1>5, <1>6, <1>7, <1>8, <1>9, <1>13 DEF UserActs
<1>14. CASE ServerActs
  BY <1>12, <1>14 DEF ServerActs
<1> QED
  BY <1>5, <1>11, <1>12, <1>13, <1>14 DEF Next

\* Runs are the server's.
LEMMA OnlyServerMakesRuns ==
  ASSUME [Next]_vars, ~ ServerActs PROVE UNCHANGED runs
<1>1. CASE UserActs
  BY <1>1, Zenon DEF UserActs, Refresh, Reconnect, Remount, LoadRadarDefinition, SaveRadarDefinition,
     LoadRadarRunArtifact, LoadRadarRunResource, RunRadar, SaveReview, SelectRadarRun
<1>2. CASE \E c \in calls : Handles(c)
  <2>1. PICK c \in calls : Handles(c)
    BY <1>2
  <2>2. CASE OutputAnswered(c) \/ CatalogAnswered(c)
    BY <2>2 DEF OutputAnswered, CatalogAnswered
  <2>3. CASE ~ (OutputAnswered(c) \/ CatalogAnswered(c))
    BY <2>1, <2>3, Zenon DEF Handles, DefinitionAnswered, SaveAnswered, OutputConflicts,
       ResourceAnswered, SelectionRefused, SelectionNeedsRadar, SelectionAnswered, QueueAnswered,
       PollAnswered, ReviewAnswered, PollTimer
  <2> QED
    BY <2>2, <2>3
<1>3. CASE NetworkFails \/ RetryTimer \/ UNCHANGED vars
  BY <1>3 DEF NetworkFails, CallFails, CatalogFails, RetryTimer, vars
<1> QED
  BY <1>1, <1>2, <1>3 DEF Next

\* Fewer calls, or one more that asks for no run, keep the bound.
LEMMA BoundsKept ==
  ASSUME IInv, RunsBounded, NEW x, calls' \subseteq calls \cup {x}, Len(runs') = Len(runs),
         Unserved' \subseteq Unserved
  PROVE  RunsBounded'
<1>1. IsFiniteSet(calls')
  <2>1. IsFiniteSet(calls \cup {x})
    BY FS_AddElement DEF RunsBounded
  <2> QED
    BY <2>1, FS_Subset
<1>2. IsFiniteSet(Unserved)
  BY FS_Subset DEF RunsBounded, Unserved
<1>3. /\ Cardinality(Unserved') <= Cardinality(Unserved)
      /\ Cardinality(Unserved') \in Nat /\ Cardinality(Unserved) \in Nat
  BY <1>2, FS_Subset, FS_CardinalityType
<1>4. Len(runs) \in Nat /\ MaxRuns \in Nat
  BY ControllerConstants DEF IInv, Typed
<1> QED
  BY <1>1, <1>3, <1>4 DEF RunsBounded

LEMMA BoundsStep ==
  ASSUME IInv, StatusesSeen, RunsBounded, [Next]_vars
  PROVE  RunsBounded'
<1>1. /\ runs \in Seq([radar : Radars, status : Statuses])
      /\ runs' \in Seq([radar : Radars, status : Statuses])
      /\ Len(runs) \in Nat /\ Len(runs') \in Nat /\ MaxRuns \in Nat
  <2>1. IInv'
    BY StepKeepsIInv
  <2>2. Typed /\ Typed'
    BY <2>1 DEF IInv
  <2>3. runs \in Seq([radar : Radars, status : Statuses])
    BY <2>2, Zenon DEF Typed
  <2>4. runs' \in Seq([radar : Radars, status : Statuses])
    BY <2>2, Zenon DEF Typed
  <2> QED
    BY <2>3, <2>4, ControllerConstants, LenProperties
<1>2. IsFiniteSet(Unserved) /\ Cardinality(Unserved) \in Nat
  BY FS_Subset, FS_CardinalityType DEF RunsBounded, Unserved
<1>3. ASSUME NEW c \in calls, Serve(c) PROVE RunsBounded'
  <2>0. PICK at \in {"answered", "conflict"} : \E run, basis :
          calls' = (calls \ {c}) \cup {[c EXCEPT !.at = at, !.run = run, !.basis = basis]}
    BY <1>3 DEF Serve, Instead
  <2>1. PICK run, basis :
          calls' = (calls \ {c}) \cup {[c EXCEPT !.at = at, !.run = run, !.basis = basis]}
    BY <2>0
  <2> DEFINE a == [c EXCEPT !.at = at, !.run = run, !.basis = basis]
  <2>2. a.op = c.op /\ a.at = at
    BY Known DEF CallType
  <2>3. calls' = (calls \ {c}) \cup {a}
    BY <2>1
  <2> HIDE DEF a
  <2>4. Unserved' = Unserved \ {c}
    BY <2>2, <2>3 DEF Unserved
  <2>5. CASE c.op = "queue"
    <3>1. c \in Unserved
      BY <1>3, <2>5 DEF Unserved, Serve
    <3>2. IsFiniteSet(calls')
      BY <2>3, FS_AddElement, FS_Subset DEF RunsBounded
    <3>3. Cardinality(Unserved') = Cardinality(Unserved) - 1
      BY <1>2, <2>4, <3>1, FS_RemoveElement
    <3>4. Len(runs') = Len(runs) + 1
      BY <1>1, <1>3, <2>5 DEF Serve
    <3> QED
      BY <1>1, <1>2, <3>2, <3>3, <3>4 DEF RunsBounded
  <2>6. CASE c.op # "queue"
    <3>1. runs' = runs
      BY <1>3, <2>6 DEF Serve
    <3> QED
      BY <2>3, <2>4, <3>1, BoundsKept
  <2> QED
    BY <2>5, <2>6
<1>4. ASSUME \A c \in calls : ~ Serve(c) PROVE RunsBounded'
  <2>1. PICK x : /\ calls' \subseteq calls \cup {x}
                 /\ x.op = "queue" /\ x.at = "sent" => \E r : RunRadar(r) /\ calls' = calls \cup {x}
    BY <1>4, NewCall
  <2>2. Len(runs') = Len(runs)
    <3>1. CASE ServerActs
      <4>1. PICK k \in DOMAIN runs, s \in Statuses : RunProgress(k, s)
        BY <1>4, <3>1 DEF ServerActs
      <4>2. DOMAIN runs' = DOMAIN runs
        BY <4>1 DEF RunProgress
      <4>3. 1 .. Len(runs') = 1 .. Len(runs)
        BY <1>1, <4>2, LenProperties
      <4> QED
        BY <1>1, <4>3
    <3>2. CASE ~ ServerActs
      BY <3>2, OnlyServerMakesRuns
    <3> QED
      BY <3>1, <3>2
  <2>3. CASE x.op = "queue" /\ x.at = "sent"
    <3>1. PICK r : RunRadar(r) /\ calls' = calls \cup {x}
      BY <2>1, <2>3
    <3> DEFINE Q == {c \in calls : c.op = "queue"}
    <3>2. Len(runs) + Cardinality(Q) < MaxRuns
      BY <3>1 DEF RunRadar
    <3>3. IsFiniteSet(Q) /\ Cardinality(Q) \in Nat /\ Unserved \subseteq Q
      BY FS_Subset, FS_CardinalityType DEF RunsBounded, Unserved
    <3>4. Unserved' \subseteq Unserved \cup {x}
      BY <3>1 DEF Unserved
    <3> HIDE DEF Q
    <3>5. Cardinality(Unserved) <= Cardinality(Q)
      BY <3>3, FS_Subset
    <3>6. /\ IsFiniteSet(Unserved \cup {x}) /\ Cardinality(Unserved \cup {x}) \in Nat
          /\ Cardinality(Unserved \cup {x}) <= Cardinality(Unserved) + 1
      BY <1>2, FS_AddElement, FS_CardinalityType
    <3>7. Cardinality(Unserved') <= Cardinality(Unserved \cup {x}) /\ Cardinality(Unserved') \in Nat
      BY <3>4, <3>6, FS_Subset, FS_CardinalityType
    <3>8. IsFiniteSet(calls')
      BY <3>1, FS_AddElement DEF RunsBounded
    <3> QED
      BY <1>1, <1>2, <2>2, <3>2, <3>3, <3>5, <3>6, <3>7, <3>8 DEF RunsBounded
  <2>4. CASE ~ (x.op = "queue" /\ x.at = "sent")
    <3>1. Unserved' \subseteq Unserved
      BY <2>1, <2>4 DEF Unserved
    <3> QED
      BY <2>1, <2>2, <3>1, BoundsKept
  <2> QED
    BY <2>3, <2>4
<1> QED
  BY <1>3, <1>4

\* What becomes the selected or the latest run has been told by the server.
LEMMA SelectedSeen ==
  ASSUME IInv, StatusesSeen, [Next]_vars, NEW r \in Radars
  PROVE  Seen(selected[r])' /\ Seen(latest[r])'
<1>1. Kinds /\ Seen(selected[r]) /\ Seen(latest[r])
  BY DEF IInv, Typed, Kinds, StatusesSeen
<1>2. CASE UNCHANGED <<selected, latest>>
  BY <1>1, <1>2 DEF Seen
<1>3. ASSUME NEW c \in calls, CatalogAnswered(c), ~ UNCHANGED <<selected, latest>>
      PROVE  Seen(selected[r])' /\ Seen(latest[r])'
  <2> DEFINE Run == Copy(CHOOSE k \in {j \in c.basis : runs[j].radar = r} : TRUE, "completed")
  <2>1. selected'[r] \in {selected[r], Run} /\ latest'[r] \in {latest[r], Run}
    BY <1>3 DEF CatalogAnswered, ApplySummaries, selection
  <2>2. Run.status \in Statuses
    BY DEF Copy, Statuses
  <2> HIDE DEF Run
  <2> QED
    BY <1>1, <2>1, <2>2 DEF Seen
<1>4. ASSUME NEW c \in calls, c.run.status \in Statuses, c.radar \in Radars, SelectRun(c.radar, c.run),
             latest' \in {latest, [latest EXCEPT ![c.radar] = latest[c.radar]], [latest EXCEPT ![c.radar] = c.run]}
      PROVE  Seen(selected[r])' /\ Seen(latest[r])'
  <2>1. selected'[r] \in {selected[r], c.run} /\ latest'[r] \in {latest[r], c.run}
    BY <1>1, <1>4 DEF SelectRun, Kinds
  <2> QED
    BY <1>1, <1>4, <2>1 DEF Seen
<1>5. ASSUME NEW c \in calls, OutputAnswered(c) \/ OutputConflicts(c) \/ SelectionAnswered(c) \/ QueueAnswered(c)
      PROVE  Seen(selected[r])' /\ Seen(latest[r])'
  <2>1. CallSound(c) /\ CallSeen(c)
    BY Known DEF StatusesSeen
  <2>2. Told(c) /\ c.op # "catalog"
    BY <1>5, <2>1 DEF OutputAnswered, OutputConflicts, SelectionAnswered, QueueAnswered, Answered, Told, CallSound
  <2>3. c.run.status \in Statuses /\ c.radar \in Radars
    BY <2>1, <2>2 DEF CallSeen, CallSound
  <2>4. /\ SelectRun(c.radar, c.run)
        /\ latest' \in {latest, [latest EXCEPT ![c.radar] = latest[c.radar]], [latest EXCEPT ![c.radar] = c.run]}
    BY <1>5 DEF OutputAnswered, OutputConflicts, SelectionAnswered, QueueAnswered
  <2> QED
    BY <1>4, <2>3, <2>4
<1>6. CASE UserActs
  BY <1>2, <1>6, Zenon DEF UserActs, Refresh, Reconnect, Remount, LoadRadarDefinition, SaveRadarDefinition,
     LoadRadarRunArtifact, LoadRadarRunResource, RunRadar, SaveReview, SelectRadarRun, selection
<1>7. CASE \E c \in calls : Handles(c)
  <2>1. PICK c \in calls : Handles(c)
    BY <1>7
  <2>2. CASE \/ DefinitionAnswered(c) \/ SaveAnswered(c) \/ ResourceAnswered(c) \/ SelectionRefused(c)
             \/ SelectionNeedsRadar(c) \/ PollAnswered(c) \/ ReviewAnswered(c) \/ PollTimer(c)
    BY <1>2, <2>2 DEF DefinitionAnswered, SaveAnswered, ResourceAnswered, SelectionRefused,
       SelectionNeedsRadar, PollAnswered, ReviewAnswered, PollTimer, selection
  <2>3. CASE CatalogAnswered(c)
    BY <1>2, <1>3, <2>3
  <2> QED
    BY <1>5, <2>1, <2>2, <2>3 DEF Handles
<1>8. CASE ServerActs \/ NetworkFails \/ RetryTimer \/ UNCHANGED vars
  BY <1>2, <1>8 DEF ServerActs, Serve, RunProgress, NetworkFails, CallFails, CatalogFails, RetryTimer,
     vars, selection
<1> QED
  BY <1>6, <1>7, <1>8 DEF Next

LEMMA StatusesStep ==
  ASSUME IInv, StatusesSeen, [Next]_vars
  PROVE  StatusesSeen'
<1>1. ASSUME NEW c \in calls, Serve(c) PROVE \A d \in calls' : CallSeen(d)
  <2>1. c \in CallType /\ CallSound(c) /\ CallSeen(c) /\ c.at = "sent"
    BY <1>1, Known DEF StatusesSeen, Serve
  <2>0. PICK at \in {"answered", "conflict"} : \E run, basis :
          /\ calls' = (calls \ {c}) \cup {[c EXCEPT !.at = at, !.run = run, !.basis = basis]}
          /\ c.op = "queue" => run = Copy(Len(runs) + 1, "queued")
          /\ c.op \in {"select", "poll", "review"} => run = Copy(c.run.id, runs[c.run.id].status)
          /\ c.op \notin {"queue", "select", "poll", "review"} => run = c.run
    BY <1>1 DEF Serve, Instead
  <2>2. PICK run, basis :
          /\ calls' = (calls \ {c}) \cup {[c EXCEPT !.at = at, !.run = run, !.basis = basis]}
          /\ c.op = "queue" => run = Copy(Len(runs) + 1, "queued")
          /\ c.op \in {"select", "poll", "review"} => run = Copy(c.run.id, runs[c.run.id].status)
          /\ c.op \notin {"queue", "select", "poll", "review"} => run = c.run
    BY <2>0
  <2> DEFINE a == [c EXCEPT !.at = at, !.run = run, !.basis = basis]
  <2>3. a.op = c.op /\ a.at = at /\ a.run = run
    BY <2>1 DEF CallType
  <2>4. calls' = (calls \ {c}) \cup {a}
    BY <2>2
  <2> HIDE DEF a
  <2>5. CallSeen(a)
    <3>1. CASE c.op = "queue"
      BY <2>2, <2>3, <3>1 DEF CallSeen, Copy, Statuses
    <3>2. CASE c.op \in {"select", "poll", "review"}
      <4>1. c.run.id \in DOMAIN runs
        BY <2>1, <3>2 DEF CallSound, CopyOf, Owns
      <4>2. runs[c.run.id].status \in Statuses
        BY <4>1, RunTyped
      <4> QED
        BY <2>2, <2>3, <3>2, <4>2 DEF CallSeen, Copy
    <3>3. CASE c.op \notin {"queue", "select", "poll", "review"}
      BY <2>1, <2>2, <2>3, <3>3 DEF CallSeen, Told
    <3> QED
      BY <3>1, <3>2, <3>3
  <2> QED
    BY <2>4, <2>5 DEF StatusesSeen
<1>2. ASSUME \A c \in calls : ~ Serve(c) PROVE \A d \in calls' : CallSeen(d)
  BY <1>2, NewCall DEF StatusesSeen
<1>3. \A d : CallSeen(d)' <=> CallSeen(d)
  BY DEF CallSeen, Told
<1> QED
  BY <1>1, <1>2, <1>3, SelectedSeen DEF StatusesSeen

LEMMA RunsStay ==
  ASSUME IInv, [Next]_vars PROVE DOMAIN runs \subseteq DOMAIN runs'
<1>1. ASSUME NEW c \in calls, Serve(c) PROVE DOMAIN runs \subseteq DOMAIN runs'
  <2>1. \/ runs' = runs
        \/ \E x : runs' = Append(runs, x)
    BY <1>1 DEF Serve
  <2> QED
    BY <2>1, SMTT(30) DEF IInv, Typed
<1>2. ASSUME NEW k \in DOMAIN runs, NEW s \in Statuses, RunProgress(k, s)
      PROVE  DOMAIN runs \subseteq DOMAIN runs'
  BY <1>2 DEF RunProgress
<1> QED
  BY <1>1, <1>2, OnlyServerMakesRuns DEF ServerActs

\* What a step does to the flags of the page.
LEMMA FlagsChange ==
  ASSUME IInv, Flags, [Next]_vars
  PROVE  /\ catalogState' \in {catalogState, "loading", "loaded", "retrying", "failed"}
         /\ mode' \in {mode, "api", "fallback"} /\ busy' \in BOOLEAN
         /\ explicit' = explicit \/ \E r \in Radars : explicit' = [explicit EXCEPT ![r] = TRUE]
         /\ \A k \in resources' \ resources : k \in DOMAIN runs
<1> DEFINE Goal == /\ catalogState' \in {catalogState, "loading", "loaded", "retrying", "failed"}
                   /\ mode' \in {mode, "api", "fallback"} /\ busy' \in BOOLEAN
                   /\ explicit' = explicit \/ \E r \in Radars : explicit' = [explicit EXCEPT ![r] = TRUE]
                   /\ \A k \in resources' \ resources : k \in DOMAIN runs
<1> SUFFICES Goal
  OBVIOUS
<1>1. busy \in BOOLEAN
  BY DEF Flags
<1>2. ASSUME UNCHANGED <<mode, busy, explicit, resources>>, RefreshCatalog \/ UNCHANGED catalogState
      PROVE  Goal
  BY <1>1, <1>2 DEF RefreshCatalog
<1>3. CASE Refresh \/ RetryTimer
  BY <1>2, <1>3 DEF Refresh, RetryTimer, selection, shown
<1>4. CASE Reconnect \/ Remount
  BY <1>1, <1>4 DEF Reconnect, Remount, selection, shown
<1>5. ASSUME NEW r \in Radars,
             \/ LoadRadarDefinition(r) \/ SaveRadarDefinition(r) \/ LoadRadarRunArtifact(r)
             \/ LoadRadarRunResource(r) \/ SaveReview(r) \/ \E k \in DOMAIN runs : SelectRadarRun(r, k)
      PROVE  Goal
  <2>1. UNCHANGED <<mode, busy, explicit, resources, catalogState>>
    BY <1>5 DEF LoadRadarDefinition, SaveRadarDefinition, LoadRadarRunArtifact, LoadRadarRunResource,
       SaveReview, SelectRadarRun, connection, selection, shown
  <2> QED
    BY <1>2, <2>1
<1>6. ASSUME NEW r \in Radars, RunRadar(r) PROVE Goal
  BY <1>6 DEF RunRadar, shown
<1>7. ASSUME NEW c \in calls, Handles(c) PROVE Goal
  <2>1. CallSound(c)
    BY Known
  <2>2. CASE CatalogAnswered(c)
    BY <1>1, <2>2 DEF CatalogAnswered, connection, selection, shown
  <2>3. CASE DefinitionAnswered(c) \/ SaveAnswered(c) \/ SelectionNeedsRadar(c) \/ ReviewAnswered(c) \/ PollTimer(c)
    <3>1. UNCHANGED <<mode, busy, explicit, resources, catalogState>>
      BY <2>3 DEF DefinitionAnswered, SaveAnswered, SelectionNeedsRadar, ReviewAnswered, PollTimer,
         connection, selection, shown
    <3> QED
      BY <1>2, <3>1
  <2>4. CASE OutputAnswered(c)
    BY <2>4 DEF OutputAnswered, RefreshCatalog
  <2>5. CASE OutputConflicts(c) \/ SelectionRefused(c) \/ QueueAnswered(c) \/ PollAnswered(c)
    <3>1. UNCHANGED <<explicit, resources, catalogState>> /\ mode' \in {mode, "api"}
      BY <2>5 DEF OutputConflicts, SelectionRefused, QueueAnswered, PollAnswered, connection, selection, shown
    <3>2. busy' \in BOOLEAN
      BY <2>5 DEF OutputConflicts, SelectionRefused, QueueAnswered, PollAnswered
    <3> QED
      BY <3>1, <3>2
  <2>6. CASE ResourceAnswered(c)
    <3>1. UNCHANGED <<mode, busy, explicit, catalogState>> /\ resources' = resources \cup {c.run.id}
      BY <2>6 DEF ResourceAnswered, connection, selection
    <3>2. c.run.id \in DOMAIN runs
      BY <2>1, <2>6 DEF ResourceAnswered, Answered, CallSound, CopyOf, Owns
    <3> QED
      BY <1>1, <3>1, <3>2
  <2>7. CASE SelectionAnswered(c)
    <3>1. c.radar \in Radars
      BY <2>1, <2>7 DEF SelectionAnswered, Answered, CallSound
    <3>2. /\ UNCHANGED <<resources, catalogState>> /\ mode' = "api"
          /\ explicit' = [explicit EXCEPT ![c.radar] = TRUE]
      BY <2>7 DEF SelectionAnswered
    <3>3. busy' \in BOOLEAN
      BY <2>7 DEF SelectionAnswered
    <3> QED
      BY <3>1, <3>2, <3>3
  <2> QED
    BY <1>7, <2>2, <2>3, <2>4, <2>5, <2>6, <2>7 DEF Handles
<1>8. ASSUME NEW c \in calls, CallFails(c) PROVE Goal
  <2>1. UNCHANGED <<explicit, resources, catalogState>> /\ mode' \in {mode, "fallback"}
    BY <1>8 DEF CallFails, selection, shown
  <2>2. busy' \in BOOLEAN
    BY <1>8 DEF CallFails
  <2> QED
    BY <2>1, <2>2
<1>9. ASSUME NEW c \in calls, NEW retryable \in BOOLEAN, CatalogFails(c, retryable) PROVE Goal
  BY <1>1, <1>9 DEF CatalogFails, connection, selection, shown
<1>10. CASE ServerActs \/ UNCHANGED vars
  <2>1. UNCHANGED <<mode, busy, explicit, resources, catalogState>>
    BY <1>10 DEF ServerActs, Serve, RunProgress, vars, connection, selection, shown
  <2> QED
    BY <1>2, <2>1
<1> HIDE DEF Goal
<1>11. CASE UserActs
  <2>1. \A r \in Opened : r \in Radars
    BY ControllerConstants
  <2> QED
    BY <1>3, <1>4, <1>5, <1>6, <1>11, <2>1 DEF UserActs
<1> QED
  BY <1>3, <1>7, <1>8, <1>9, <1>10, <1>11 DEF Next, NetworkFails

LEMMA FlagsStep ==
  ASSUME IInv, Flags, [Next]_vars PROVE Flags'
<1>1. /\ catalogState' \in {"loading", "loaded", "retrying", "failed"}
      /\ mode' \in {"loading", "api", "fallback"} /\ busy' \in BOOLEAN
  BY FlagsChange DEF Flags
<1>2. explicit' \in [Radars -> BOOLEAN]
  BY FlagsChange DEF Flags
<1>3. resources' \subseteq DOMAIN runs'
  BY FlagsChange, RunsStay DEF Flags
<1> QED
  BY <1>1, <1>2, <1>3 DEF Flags

-----------------------------------------------------------------------------
\* What the page knows has its kind and its bounds; catalog requests never overlap,
\* except with ones that were abandoned.
TInv == IInv /\ DInv /\ CatalogSound /\ StatusesSeen /\ RunsBounded /\ Flags

LEMMA InitTInv == Init => TInv
<1> SUFFICES ASSUME Init PROVE TInv
  OBVIOUS
<1> DEFINE first == Call("catalog", "all", NoRun, 1)
<1>1. first.op = "catalog" /\ first.n = 1 /\ first.at = "sent" /\ calls = {first}
  BY DEF Call, Init
<1> HIDE DEF first
<1>2. CatalogSound
  <2>1. Current = {first}
    BY <1>1 DEF Init, Current
  <2>2. catalog.generation = 1 /\ catalog.request = 1 /\ catalog.attempt = 0
    BY DEF Init
  <2> QED
    BY <1>1, <2>1, <2>2 DEF CatalogSound
<1>3. StatusesSeen
  BY <1>1 DEF Init, StatusesSeen, CallSeen, Told, Seen
<1>4. RunsBounded
  <2>1. Unserved = {} /\ IsFiniteSet(calls)
    BY <1>1, FS_Singleton DEF Unserved
  <2>2. Len(runs) \in Nat /\ Len(runs) <= MaxRuns
    BY ControllerConstants DEF Init
  <2> QED
    BY <2>1, <2>2, FS_EmptySet DEF RunsBounded
<1>5. Flags
  BY DEF Init, Flags
<1>6. DInv
  BY DEF Init, DInv, ItemsTyped, DefinitionSound, Knowledge
<1> QED
  BY <1>2, <1>3, <1>4, <1>5, <1>6, InitIInv DEF TInv

LEMMA TInvTyped == TInv => TypeOK
<1> SUFFICES ASSUME TInv PROVE TypeOK
  OBVIOUS
<1> DEFINE copies == {NoRun} \cup [id : 1 .. MaxRuns, status : Statuses]
           current == {c \in calls : c.op = "catalog" /\ c.n = catalog.generation}
<1>1. runs \in Seq([radar : Radars, status : Statuses]) /\ Len(runs) <= MaxRuns
  <2>1. IsFiniteSet(Unserved)
    BY FS_Subset DEF TInv, RunsBounded, Unserved
  <2>2. Cardinality(Unserved) \in Nat
    BY <2>1, FS_CardinalityType
  <2> QED
    BY <2>2, ControllerConstants DEF TInv, IInv, Typed, RunsBounded
<1>2. DOMAIN runs \subseteq 1 .. MaxRuns
  BY <1>1, ControllerConstants
<1>3. catalog \in [generation : Nat, request : {0, catalog.generation}, timer : BOOLEAN, attempt : {0, 1}]
  BY DEF TInv, IInv, Typed, CatalogSound
<1>4. Cardinality(current) = IF catalog.request = 0 THEN 0 ELSE 1
  <2>1. CASE catalog.request = 0
    BY <2>1, FS_EmptySet DEF TInv, CatalogSound, Current
  <2>2. CASE catalog.request # 0
    <3>1. PICK c : current = {c}
      BY <2>2 DEF TInv, CatalogSound, Current
    <3> QED
      BY <2>2, <3>1, FS_Singleton
  <2> QED
    BY <2>1, <2>2
<1>5. {selected, latest} \subseteq [Radars -> copies]
  <2>1. ASSUME NEW r \in Radars, NEW run \in RunCopy, Seen(run), run.id = 0 \/ CopyOf(run, r),
               run.id = 0 => run = NoRun
        PROVE  run \in copies
    BY <1>2, <2>1 DEF RunCopy, Seen, CopyOf, Owns
  <2>2. ASSUME NEW r \in Radars PROVE selected[r] \in copies /\ latest[r] \in copies
    BY <2>1 DEF TInv, IInv, Typed, StatusesSeen, RadarsSound, RadarSound
  <2> HIDE DEF copies
  <2> QED
    BY <2>2 DEF TInv, IInv, Typed
<1>6. /\ active \in [Radars -> 0 .. MaxRuns]
      /\ artifact \in [Radars -> [run : 0 .. MaxRuns, dossier : BOOLEAN]]
  <2>1. /\ active \in [Radars -> Nat] /\ artifact \in [Radars -> [run : Nat, dossier : BOOLEAN]]
        /\ \A r \in Radars : RadarSound(r)
    BY DEF TInv, IInv, Typed, RadarsSound
  <2>2. ASSUME NEW r \in Radars
        PROVE  active[r] \in 0 .. MaxRuns /\ artifact[r] \in [run : 0 .. MaxRuns, dossier : BOOLEAN]
    <3>1. \A k : k = 0 \/ k \in DOMAIN runs => k \in 0 .. MaxRuns
      BY <1>2, ControllerConstants
    <3>2. /\ active[r] = 0 \/ active[r] \in DOMAIN runs
          /\ artifact[r].run = 0 \/ artifact[r].run \in DOMAIN runs
      BY <2>1 DEF RadarSound, CopyOf, Owns
    <3>3. active[r] \in 0 .. MaxRuns /\ artifact[r].run \in 0 .. MaxRuns
      BY <3>1, <3>2
    <3>4. artifact[r] \in [run : Nat, dossier : BOOLEAN]
      BY <2>1
    <3> QED
      BY <3>3, <3>4
  <2> QED
    BY <2>1, <2>2
<1>7. resources \subseteq 1 .. MaxRuns /\ explicit \in [Radars -> BOOLEAN]
  BY <1>2 DEF TInv, Flags
<1>8. /\ catalogState \in {"loading", "loaded", "retrying", "failed"}
      /\ mode \in {"loading", "api", "fallback"} /\ busy \in BOOLEAN
  BY DEF TInv, Flags
<1>9. /\ {apiCatalog, details} \subseteq [Radars -> Knowledge]
      /\ definition \in [Radars -> [request : Nat, loaded : BOOLEAN,
                                    state : {"none", "loading", "loaded", "failed"}]]
  BY DEF TInv, IInv, Typed, DInv, ItemsTyped
<1> QED
  BY <1>1, <1>3, <1>4, <1>5, <1>6, <1>7, <1>8, <1>9 DEF TypeOK

\* For any number of radars, runs and calls, the state of the page is typed, runs keep to their
\* bound although several requests for one may be in flight, and of the catalog requests exactly
\* the current one is waited for (catalogRequest in refreshRadarCatalog).
THEOREM PageTypeIsCorrect == Spec => []TypeOK
<1>1. TInv /\ [Next]_vars => TInv'
  BY StepKeepsIInv, DefinitionStep, CatalogStep, StatusesStep, BoundsStep, FlagsStep DEF TInv
<1> QED
  BY <1>1, InitTInv, TInvTyped, PTL DEF Spec
=============================================================================
