------------------------ MODULE RadarBackendController ------------------------
(***************************************************************************)
(* The browser's controller of radars and candidate runs (useRadarBackend):*)
(* one catalog request in flight with retries, definitions loaded lazily,  *)
(* a run that is started, polled, selected, shown and reviewed.  Every API *)
(* call is answered in an order of its own, by what the server knew when it*)
(* served the call; the screens may call any operation at any time.        *)
(*                                                                         *)
(* A run is its number: later runs have later timestamps.  Every radar has *)
(* an active definition.  A state update takes effect where the code       *)
(* requests it.  The history list, the run configurations, the preflight   *)
(* report and the messages are display only and left out.                  *)
(***************************************************************************)
EXTENDS Naturals, Sequences, FiniteSets

CONSTANTS
  Radars,
  Opened,       \* bound: the radars the user opens
  FirstRuns,    \* the runs there are when the page is loaded: Seq([radar, status])
  MaxRuns,      \* bound: runs
  MaxActions,   \* bound: what the user does
  MaxFailures,  \* bound: calls that fail
  MaxCalls,     \* bound: calls in flight when the user does something
  MaxPolls      \* polls of one run within pollingDeadlineMs

Statuses == {"queued", "running", "completed", "failed"}
terminalStatuses == {"completed", "failed"}

ASSUME ControllerConstants ==
  /\ FirstRuns \in Seq([radar : Radars, status : Statuses]) /\ Len(FirstRuns) <= MaxRuns
  /\ Opened \subseteq Radars
  /\ {MaxRuns, MaxActions, MaxFailures, MaxCalls, MaxPolls} \subseteq Nat

VARIABLES
  runs,        \* the server's runs, in the order they were queued: [radar, status]
  calls,       \* API calls in flight or answered, and polls waiting for their timer
  catalog,     \* refs of the catalog request: [generation, request, timer, attempt]
  catalogState,  \* its status on the screen
  mode,        \* runState.mode
  busy,        \* runState.busy
  apiCatalog,  \* what is shown of each radar, "unknown" if there is no catalog
  details,     \* detailsByRadarId, "unknown" if there is no entry
  definition,  \* [request, loaded, state] of each radar's definition
  selected,    \* selectedRunByRadarId, as the client has seen the run
  active,      \* activeRunByRadarId
  latest,      \* latestRunByRadarId
  explicit,    \* explicitRunSelectionByRadarId
  artifact,    \* apiLiveArtifacts: the run it shows and whether it has a dossier
  resources,   \* the runs whose dossier is in state "loaded"
  used         \* bounds: [actions, failures]

selection == <<selected, active, latest, explicit>>
shown == <<artifact, resources>>
definitions == <<apiCatalog, details, definition>>
connection == <<catalog, catalogState, mode>>
vars == <<runs, calls, connection, busy, definitions, selection, shown, used>>

Knowledge == {"unknown", "summary", "full"}
NoRun == [id |-> 0, status |-> "none"]
NoArtifact == [run |-> 0, dossier |-> FALSE]
Copy(id, status) == [id |-> id, status |-> status]

Call(op, r, run, n) ==
  [op |-> op, radar |-> r, run |-> run, n |-> n, at |-> "sent", basis |-> {}]
Answered(op) == {c \in calls : c.op = op /\ c.at = "answered"}
Instead(c, more) == calls' = (calls \ {c}) \cup more

\* latest_run of the radar's summary: its latest completed run
LatestCompleted(r) ==
  LET completed == {k \in DOMAIN runs : runs[k].radar = r /\ runs[k].status = "completed"}
  IN {k \in completed : \A j \in completed : j <= k}

-----------------------------------------------------------------------------
\* the server

\* A call is served: what the answer says.  "queue" makes a run; the run copy of
\* "select", "poll" and "review" is read now, that of an output is the caller's.
Serve(c) ==
  /\ c \in calls /\ c.at = "sent"
  /\ LET queued == c.op = "queue"
         k == IF queued THEN Len(runs) + 1 ELSE c.run.id
         run == IF queued THEN Copy(k, "queued")
                ELSE IF c.op \in {"select", "poll", "review"} THEN Copy(k, runs[k].status)
                ELSE c.run
         conflict == c.op = "output" /\ runs[k].status # "completed"
     IN /\ runs' = IF queued THEN Append(runs, [radar |-> c.radar, status |-> "queued"]) ELSE runs
        /\ Instead(c, {[c EXCEPT !.at = IF conflict THEN "conflict" ELSE "answered", !.run = run,
                        !.basis = IF c.op = "catalog" THEN UNION {LatestCompleted(r) : r \in Radars}
                                  ELSE {}]})
  /\ UNCHANGED <<connection, busy, definitions, selection, shown, used>>

\* the worker, as RadarRunContract says
RunProgress(k, status) ==
  /\ k \in DOMAIN runs
  /\ <<runs[k].status, status>> \in {<<"queued", "running">>, <<"queued", "failed">>} \cup
                                    ({"running"} \X terminalStatuses)
  /\ runs' = [runs EXCEPT ![k].status = status]
  /\ UNCHANGED <<calls, connection, busy, definitions, selection, shown, used>>

-----------------------------------------------------------------------------
\* the catalog request

\* refreshRadarCatalog: the request in flight is shared, else one is sent
MayRequest == catalog.request = 0
CatalogCall == Call("catalog", "all", NoRun, catalog.generation + 1)
CatalogSent == [catalog EXCEPT !.generation = @ + 1, !.request = catalog.generation + 1, !.timer = FALSE]
RefreshCalls == IF MayRequest THEN {CatalogCall} ELSE {}
RefreshCatalog ==
  /\ catalog' = IF MayRequest THEN CatalogSent ELSE catalog
  /\ catalogState' = IF ~ MayRequest THEN catalogState
                     ELSE IF catalog.attempt = 0 THEN "loading" ELSE "retrying"

\* Mutated form: the finished request stays the current one.
RequestKept(generation) == catalog.request
\* finally: the request is over if it is still the current one
RequestAfter(generation) == IF catalog.request = generation THEN 0 ELSE catalog.request

\* Mutated form: a summary replaces every definition.
SummaryOnly(r) == "summary"
\* a loaded definition stays in the catalog, which itself only has summaries
SummaryDefinition(r) == IF definition[r].loaded THEN details[r] ELSE "summary"

\* applyCatalogSummaries
ApplySummaries(basis) ==
  LET summaries == [r \in Radars |-> SummaryDefinition(r)]
      Of(r) == {k \in basis : runs[k].radar = r}
      Defaults == {r \in Radars : Of(r) # {} /\ ~ explicit[r]}
      Run(r) == Copy(CHOOSE k \in Of(r) : TRUE, "completed")
  IN /\ apiCatalog' = summaries /\ details' = summaries
     /\ latest' = [r \in Radars |-> IF Of(r) # {} THEN Run(r) ELSE latest[r]]
     /\ selected' = [r \in Radars |-> IF r \in Defaults THEN Run(r) ELSE selected[r]]
     /\ active' = [r \in Radars |-> IF r \in Defaults THEN Run(r).id ELSE active[r]]

\* an abandoned request's answer is dropped
CatalogAnswered(c) ==
  /\ c \in Answered("catalog") /\ Instead(c, {})
  /\ IF c.n # catalog.generation
     THEN UNCHANGED <<connection, definitions, selection>>
     ELSE /\ ApplySummaries(c.basis) /\ mode' = "api" /\ catalogState' = "loaded"
          /\ catalog' = [catalog EXCEPT !.attempt = 0, !.request = RequestAfter(c.n)]
          /\ UNCHANGED <<definition, explicit>>
  /\ UNCHANGED <<runs, busy, shown, used>>

\* a call is lost, before the server has served it or with its answer
Fails(c) ==
  /\ c \in calls /\ c.at # "timer" /\ used.failures < MaxFailures /\ Instead(c, {})
  /\ used' = [used EXCEPT !.failures = @ + 1]

\* a failed catalog falls back to the demo and is asked for again if the error may pass
CatalogFails(c, retryable) ==
  /\ c.op = "catalog" /\ Fails(c)
  /\ IF c.n # catalog.generation
     THEN UNCHANGED connection
     ELSE /\ mode' = "fallback" /\ catalogState' = IF retryable THEN "retrying" ELSE "failed"
          /\ catalog' = [catalog EXCEPT !.attempt = 1, !.timer = retryable,
                                        !.request = RequestAfter(c.n)]
  /\ UNCHANGED <<runs, busy, definitions, selection, shown>>

RetryTimer ==
  /\ catalog.timer /\ RefreshCatalog /\ calls' = calls \cup RefreshCalls
  /\ UNCHANGED <<runs, mode, busy, definitions, selection, shown, used>>

-----------------------------------------------------------------------------
\* a user's action, or an effect of the screens, is a step of its own
Acts ==
  /\ used.actions < MaxActions /\ Cardinality(calls) <= MaxCalls
  /\ used' = [used EXCEPT !.actions = @ + 1]

\* the tab is visible again; reconnect also starts counting again
Refresh ==
  /\ Acts /\ RefreshCatalog /\ calls' = calls \cup RefreshCalls
  /\ UNCHANGED <<runs, mode, busy, definitions, selection, shown>>

Reconnect ==
  /\ Acts /\ calls' = calls \cup RefreshCalls
  /\ catalog' = [(IF MayRequest THEN CatalogSent ELSE catalog) EXCEPT !.attempt = 0, !.timer = FALSE]
  /\ catalogState' = IF MayRequest THEN "loading" ELSE catalogState
  /\ UNCHANGED <<runs, mode, busy, definitions, selection, shown>>

\* the effect is cleaned up and runs again: the request in flight is abandoned
Remount ==
  LET next == catalog.generation + 2
  IN /\ Acts /\ calls' = calls \cup {[CatalogCall EXCEPT !.n = next]}
     /\ catalog' = [catalog EXCEPT !.generation = next, !.request = next, !.timer = FALSE]
     /\ catalogState' = IF catalog.attempt = 0 THEN "loading" ELSE "retrying"
     /\ UNCHANGED <<runs, mode, busy, definitions, selection, shown>>

-----------------------------------------------------------------------------
\* definitions

LoadRadarDefinition(r) ==
  /\ Acts /\ ~ definition[r].loaded
  /\ definition' = [definition EXCEPT ![r].request = @ + 1, ![r].state = "loading"]
  /\ calls' = calls \cup {Call("definition", r, NoRun, definition[r].request + 1)}
  /\ UNCHANGED <<runs, connection, busy, apiCatalog, details, selection, shown>>

\* the item of a radar that is shown or known is replaced by its definition
ShowDefinition(r) ==
  /\ details' = [details EXCEPT ![r] = "full"]
  /\ apiCatalog' = [apiCatalog EXCEPT ![r] = IF @ = "unknown" THEN @ ELSE "full"]

DefinitionAnswered(c) ==
  /\ c \in Answered("definition") /\ Instead(c, {})
  /\ IF c.n # definition[c.radar].request
     THEN UNCHANGED definitions
     ELSE /\ ShowDefinition(c.radar)
          /\ definition' = [definition EXCEPT ![c.radar].loaded = TRUE, ![c.radar].state = "loaded"]
  /\ UNCHANGED <<runs, connection, busy, selection, shown, used>>

SaveRadarDefinition(r) ==
  /\ Acts /\ mode = "api" /\ calls' = calls \cup {Call("save", r, NoRun, used.actions)}
  /\ UNCHANGED <<runs, connection, busy, definitions, selection, shown>>

SaveAnswered(c) ==
  /\ c \in Answered("save") /\ Instead(c, {}) /\ ShowDefinition(c.radar)
  /\ UNCHANGED <<runs, connection, busy, definition, selection, shown, used>>

-----------------------------------------------------------------------------
\* the selected run and its output

\* activeRunByRadarId, when the run becomes the selected one
ActiveAfter(r, run) == [active EXCEPT ![r] = run.id]
SelectRun(r, run) == selected' = [selected EXCEPT ![r] = run] /\ active' = ActiveAfter(r, run)

\* refreshRunOutput up to its request: nothing for a radar that is not known
OutputCalls(r, run) ==
  IF details[r] = "unknown" THEN {} ELSE {Call("output", r, run, used.actions)}

\* the output becomes what is shown of the radar, whatever was selected meanwhile
OutputAnswered(c) ==
  LET newest == c.run.id >= latest[c.radar].id
  IN /\ c \in Answered("output") /\ SelectRun(c.radar, c.run) /\ busy' = FALSE
     /\ artifact' = [artifact EXCEPT ![c.radar] = [run |-> c.run.id, dossier |-> FALSE]]
     /\ latest' = [latest EXCEPT ![c.radar] = IF newest THEN c.run ELSE @]
     /\ IF newest THEN RefreshCatalog /\ Instead(c, RefreshCalls)
        ELSE Instead(c, {}) /\ UNCHANGED <<catalog, catalogState>>
     /\ UNCHANGED <<runs, mode, definitions, explicit, resources, used>>

\* the server has no output of the run
OutputConflicts(c) ==
  /\ c \in calls /\ c.at = "conflict" /\ Instead(c, {})
  /\ SelectRun(c.radar, c.run) /\ busy' = FALSE
  /\ artifact' = [artifact EXCEPT ![c.radar] = NoArtifact]
  /\ UNCHANGED <<runs, connection, definitions, latest, explicit, resources, used>>

SelectedOrLatest(r) == IF selected[r] # NoRun THEN selected[r] ELSE latest[r]

LoadRadarRunArtifact(r) ==
  /\ Acts /\ mode = "api"
  /\ ~ (artifact[r].dossier /\ artifact[r].run = SelectedOrLatest(r).id)
  /\ SelectedOrLatest(r).status = "completed"
  /\ calls' = calls \cup OutputCalls(r, SelectedOrLatest(r))
  /\ UNCHANGED <<runs, connection, busy, definitions, selection, shown>>

LoadRadarRunResource(r) ==
  /\ Acts /\ details[r] # "unknown" /\ SelectedOrLatest(r).status = "completed"
  /\ SelectedOrLatest(r).id \notin resources
  /\ calls' = calls \cup {Call("resource", r, SelectedOrLatest(r), 0)}
  /\ UNCHANGED <<runs, connection, busy, definitions, selection, shown>>

\* the selection the answer is compared with is the one the call was made from
ResourceAnswered(c) ==
  /\ c \in Answered("resource") /\ Instead(c, {})
  /\ artifact' = [artifact EXCEPT ![c.radar] = [run |-> c.run.id, dossier |-> TRUE]]
  /\ resources' = resources \cup {c.run.id}
  /\ UNCHANGED <<runs, connection, busy, definitions, selection, used>>

-----------------------------------------------------------------------------
\* a run is selected

SelectRadarRun(r, k) ==
  /\ Acts /\ k \in DOMAIN runs /\ calls' = calls \cup {Call("select", r, Copy(k, "none"), used.actions)}
  /\ UNCHANGED <<runs, connection, busy, definitions, selection, shown>>

\* Mutated form: whatever run the address names is selected.
AnyRunIsSelectable(c) == TRUE
\* run.radar_id = radarId
Selectable(c) == runs[c.run.id].radar = c.radar

SelectionRefused(c) ==
  /\ c \in Answered("select") /\ ~ Selectable(c) /\ Instead(c, {})
  /\ mode' = "api" /\ busy' = FALSE
  /\ UNCHANGED <<runs, catalog, catalogState, definitions, selection, shown, used>>

\* a radar that is not known yet is asked for before its run is selected
SelectionNeedsRadar(c) ==
  /\ c \in Answered("select") /\ Selectable(c) /\ details[c.radar] = "unknown"
  /\ Instead(c, {[c EXCEPT !.op = "radar", !.at = "sent"]})
  /\ UNCHANGED <<runs, connection, busy, definitions, selection, shown, used>>

SelectionAnswered(c) ==
  /\ c \in Answered("radar") \cup {d \in Answered("select") : Selectable(d) /\ details[d.radar] # "unknown"}
  /\ details' = IF c.op = "radar" THEN [details EXCEPT ![c.radar] = "full"] ELSE details
  /\ explicit' = [explicit EXCEPT ![c.radar] = TRUE] /\ SelectRun(c.radar, c.run)
  /\ mode' = "api" /\ busy' = (c.run.status \notin terminalStatuses)
  /\ IF c.run.status = "completed"
     THEN Instead(c, {Call("output", c.radar, c.run, used.actions)}) /\ UNCHANGED artifact
     ELSE Instead(c, {}) /\ artifact' = [artifact EXCEPT ![c.radar] = NoArtifact]
  /\ UNCHANGED <<runs, catalog, catalogState, apiCatalog, definition, latest, resources, used>>

-----------------------------------------------------------------------------
\* a run is started and polled

RunRadar(r) ==
  /\ Acts /\ Len(runs) + Cardinality({c \in calls : c.op = "queue"}) < MaxRuns
  /\ ~ busy /\ busy' = TRUE /\ mode' = "api" /\ explicit' = [explicit EXCEPT ![r] = TRUE]
  /\ calls' = calls \cup {Call("queue", r, NoRun, used.actions)}
  /\ UNCHANGED <<runs, catalog, catalogState, definitions, selected, active, latest, shown>>

QueueAnswered(c) ==
  /\ c \in Answered("queue") /\ SelectRun(c.radar, c.run) /\ busy' = TRUE
  /\ latest' = [latest EXCEPT ![c.radar] = c.run]
  /\ Instead(c, {Call("poll", c.radar, c.run, 0)})
  /\ UNCHANGED <<runs, connection, definitions, explicit, shown, used>>

\* Mutated form: every poll starts the deadline again.
DeadlineRestarts(c) == 0
PollsSoFar(c) == c.n + 1

\* pollRun: show what the run says, and ask again later unless it has ended or taken too long
PollAnswered(c) ==
  /\ c \in Answered("poll") /\ mode' = "api"
  /\ LET again == c.run.status \notin terminalStatuses /\ c.n < MaxPolls
     IN /\ busy' = again
        /\ Instead(c, IF c.run.status = "completed" THEN OutputCalls(c.radar, c.run)
                      ELSE IF again THEN {[c EXCEPT !.at = "timer", !.n = PollsSoFar(c)]} ELSE {})
  /\ UNCHANGED <<runs, catalog, catalogState, definitions, selection, shown, used>>

PollTimer(c) ==
  /\ c \in calls /\ c.at = "timer" /\ Instead(c, {[c EXCEPT !.at = "sent"]})
  /\ UNCHANGED <<runs, connection, busy, definitions, selection, shown, used>>

-----------------------------------------------------------------------------
\* a qualification or signal review is saved, deleted or reset for the active run, and the run read

SaveReview(r) ==
  /\ Acts /\ mode = "api" /\ active[r] # 0
  /\ calls' = calls \cup {Call("review", r, Copy(active[r], "none"), used.actions)}
  /\ UNCHANGED <<runs, connection, busy, definitions, selection, shown>>

ReviewAnswered(c) ==
  /\ c \in Answered("review") /\ Instead(c, OutputCalls(c.radar, c.run))
  /\ UNCHANGED <<runs, connection, busy, definitions, selection, shown, used>>

\* any other call fails: most are no longer busy, a save or review tells its caller
CallFails(c) ==
  /\ c.op # "catalog" /\ Fails(c)
  /\ busy' = (busy /\ c.op \notin {"output", "select", "radar", "queue", "poll"})
  /\ mode' = IF c.op = "queue" \/ (c.op \in {"select", "radar"} /\ mode = "loading") THEN "fallback" ELSE mode
  /\ definition' = IF c.op = "definition" /\ c.n = definition[c.radar].request
                   THEN [definition EXCEPT ![c.radar].state = "failed"] ELSE definition
  /\ UNCHANGED <<runs, catalog, catalogState, apiCatalog, details, selection, shown>>

-----------------------------------------------------------------------------
\* the first mount has sent its request
Init ==
  /\ runs = FirstRuns /\ calls = {Call("catalog", "all", NoRun, 1)}
  /\ catalog = [generation |-> 1, request |-> 1, timer |-> FALSE, attempt |-> 0]
  /\ catalogState = "loading" /\ mode = "loading" /\ busy = FALSE
  /\ apiCatalog = [r \in Radars |-> "unknown"] /\ details = apiCatalog
  /\ definition = [r \in Radars |-> [request |-> 0, loaded |-> FALSE, state |-> "none"]]
  /\ selected = [r \in Radars |-> NoRun] /\ active = [r \in Radars |-> 0] /\ latest = selected
  /\ explicit = [r \in Radars |-> FALSE] /\ artifact = [r \in Radars |-> NoArtifact]
  /\ resources = {} /\ used = [actions |-> 0, failures |-> 0]

UserActs ==
  \/ Refresh \/ Reconnect \/ Remount
  \/ \E r \in Opened :
       \/ LoadRadarDefinition(r) \/ SaveRadarDefinition(r) \/ LoadRadarRunArtifact(r)
       \/ LoadRadarRunResource(r) \/ RunRadar(r) \/ SaveReview(r)
       \/ \E k \in DOMAIN runs : SelectRadarRun(r, k)

ServerActs == (\E c \in calls : Serve(c)) \/ (\E k \in DOMAIN runs, s \in Statuses : RunProgress(k, s))

Handles(c) ==
  \/ CatalogAnswered(c) \/ DefinitionAnswered(c) \/ SaveAnswered(c)
  \/ OutputAnswered(c) \/ OutputConflicts(c) \/ ResourceAnswered(c)
  \/ SelectionRefused(c) \/ SelectionNeedsRadar(c) \/ SelectionAnswered(c)
  \/ QueueAnswered(c) \/ PollAnswered(c) \/ ReviewAnswered(c) \/ PollTimer(c)

NetworkFails == \E c \in calls : CallFails(c) \/ \E retryable \in BOOLEAN : CatalogFails(c, retryable)

Next == UserActs \/ ServerActs \/ (\E c \in calls : Handles(c)) \/ NetworkFails \/ RetryTimer

\* every call is answered, every answer handled, every timer fires; no run need ever end
Spec ==
  /\ Init /\ [][Next]_vars
  /\ WF_vars(\E c \in calls : Serve(c)) /\ WF_vars(\E c \in calls : Handles(c)) /\ WF_vars(RetryTimer)

-----------------------------------------------------------------------------
\* Every variable has its kind; the catalog request that is current is in flight, and
\* there is no other but abandoned ones (catalogRequest in refreshRadarCatalog).
TypeOK ==
  LET copies == {NoRun} \cup [id : 1 .. MaxRuns, status : Statuses]
      current == {c \in calls : c.op = "catalog" /\ c.n = catalog.generation}
  IN /\ runs \in Seq([radar : Radars, status : Statuses]) /\ Len(runs) <= MaxRuns
     /\ catalog \in [generation : Nat, request : {0, catalog.generation}, timer : BOOLEAN, attempt : {0, 1}]
     /\ Cardinality(current) = IF catalog.request = 0 THEN 0 ELSE 1
     /\ catalogState \in {"loading", "loaded", "retrying", "failed"}
     /\ mode \in {"loading", "api", "fallback"} /\ busy \in BOOLEAN
     /\ {apiCatalog, details} \subseteq [Radars -> Knowledge]
     /\ definition \in [Radars -> [request : Nat, loaded : BOOLEAN,
                                   state : {"none", "loading", "loaded", "failed"}]]
     /\ {selected, latest} \subseteq [Radars -> copies] /\ active \in [Radars -> 0 .. MaxRuns]
     /\ explicit \in [Radars -> BOOLEAN] /\ resources \subseteq 1 .. MaxRuns
     /\ artifact \in [Radars -> [run : 0 .. MaxRuns, dossier : BOOLEAN]]

\* In whatever order calls are answered, what the screens show as selected is the run that
\* reviews are saved for, it belongs to the radar, and what is shown of a radar is the output
\* of a completed run of its own (selectedRunByRadarId and activeRunByRadarId are written
\* one by one in five places; DEVELOPER_GUIDE asks for the exact run).
SelectionIsSound ==
  \A r \in Radars :
    /\ active[r] = selected[r].id
    /\ {selected[r].id, latest[r].id, artifact[r].run} \ {0} \subseteq {k \in DOMAIN runs : runs[k].radar = r}
    /\ artifact[r].run # 0 => runs[artifact[r].run].status = "completed"

\* A definition reported as loaded is what the catalog shows, although catalog answers only
\* carry summaries and a save or a selection may replace the item (applyCatalogSummaries).
LoadedDefinitionStays ==
  \A r \in Radars : definition[r].state = "loaded" /\ apiCatalog[r] # "unknown" => apiCatalog[r] = "full"

\* When the user stops acting and the network stops failing, the page comes to rest: nothing
\* is in flight or due, the catalog is loaded or reported as failed, and polling has ended
\* although the run may not (pollingDeadlineMs, catalogRetryDelaysMs).
ComesToRest ==
  <>[](calls = {} /\ ~ catalog.timer /\ catalogState \in {"loaded", "failed"})
=============================================================================
