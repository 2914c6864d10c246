-------------------------- MODULE RadarRunContract --------------------------
(***************************************************************************)
(* What the Radar run API promises to a client that polls a run: a run     *)
(* appears as queued, may be seen running, ends once as completed or       *)
(* failed, and what it ended with never changes afterwards.  A completed   *)
(* run always carries its output.                                          *)
(***************************************************************************)
CONSTANT Runs

VARIABLES
  status,      \* [Runs -> RunStatus]: what GET /radar-runs/{run_id} shows
  published    \* the runs whose output a GET returns

vars == <<status, published>>

TerminalStatus == {"completed", "failed"}
RunStatus == {"absent", "queued", "running"} \cup TerminalStatus

Init ==
  /\ status = [r \in Runs |-> "absent"]
  /\ published = {}

Accept(r) ==
  /\ status[r] = "absent"
  /\ status' = [status EXCEPT ![r] = "queued"]
  /\ UNCHANGED published

Begin(r) ==
  /\ status[r] = "queued"
  /\ status' = [status EXCEPT ![r] = "running"]
  /\ UNCHANGED published

\* Status and output become visible in one step.
Complete(r) ==
  /\ status[r] = "running"
  /\ status' = [status EXCEPT ![r] = "completed"]
  /\ published' = published \cup {r}

Fail(r) ==
  /\ status[r] \in {"queued", "running"}
  /\ status' = [status EXCEPT ![r] = "failed"]
  /\ \/ UNCHANGED published
     \/ status[r] = "running" /\ published' = published \cup {r}

Next == \E r \in Runs : Accept(r) \/ Begin(r) \/ Complete(r) \/ Fail(r)

Spec == Init /\ [][Next]_vars
=============================================================================
