------------------------ MODULE MCSignalMonitoringRun -----------------------
(***************************************************************************)
(* Inputs for TLC.  Candidates and criteria are numbers, so that their     *)
(* order is the order of their ids.                                        *)
(***************************************************************************)
EXTENDS SignalMonitoringRun

P == INSTANCE SignalMonitoringPlan

AllLanes == <<"known_source", "official_company", "open_web", "signal_specific">>
Rule(code) == [code |-> code, enabled |-> TRUE, lanes |-> AllLanes, sources |-> {},
               manyTerms |-> FALSE, extraTerms |-> FALSE]
Candidate(id, refs) == [id |-> id, refs |-> refs, monitorable |-> TRUE]
Source(ref, owner) == [ref |-> ref, id |-> "none", url |-> TRUE, owner |-> owner,
                       capable |-> TRUE, useful |-> TRUE]
WebCard == [id |-> "web", signal |-> TRUE, broad |-> TRUE]
SiteCard == [id |-> "site", signal |-> TRUE, broad |-> FALSE]
Policy == [enabled |-> TRUE, reuse |-> TRUE, official |-> <<>>, required |-> <<>>,
           preferred |-> <<>>, fallback |-> <<>>, hints |-> <<>>, allowed |-> {}, openWeb |-> TRUE]
Base == [candidates |-> <<Candidate(1, <<>>)>>, rules |-> <<Rule(1)>>, cards |-> <<WebCard>>,
         known |-> {}, configured |-> {}, policy |-> Policy]
Limits == [tasks |-> 3, calls |-> 5, retriesPerTask |-> 1, retries |-> 1, backup |-> TRUE,
           backups |-> 1, verifications |-> 3, lookbacks |-> 3, revisions |-> 1]

Inputs == {
  \* a known source and the open web, with room for retries and a revision
  <<[Base EXCEPT !.candidates = <<Candidate(1, <<"a">>)>>, !.known = {Source("a", 1)}], Limits>>,
  \* two criteria of one candidate; the search of one may serve the other
  <<[Base EXCEPT !.rules = <<Rule(1), Rule(2)>>],
    [Limits EXCEPT !.calls = 3, !.verifications = 2, !.backup = FALSE]>>,
  \* an official site, coverage queries and budgets that run out
  <<[Base EXCEPT !.rules = <<[Rule(1) EXCEPT !.manyTerms = TRUE, !.extraTerms = TRUE]>>,
                 !.cards = <<SiteCard, WebCard>>, !.configured = {"site"},
                 !.policy.official = <<"site">>],
    [Limits EXCEPT !.tasks = 2, !.calls = 2, !.retries = 0, !.verifications = 1, !.lookbacks = 2]>>,
  <<[Base EXCEPT !.rules = <<[Rule(1) EXCEPT !.manyTerms = TRUE]>>],
    [Limits EXCEPT !.lookbacks = 1, !.revisions = 0, !.retriesPerTask = 0]>>,
  \* the open web is excluded, and the second search finds no call left
  <<[Base EXCEPT !.candidates = <<Candidate(1, <<"a">>), Candidate(2, <<"b">>)>>,
                 !.known = {Source("a", 1), Source("b", 1)},
                 !.policy.openWeb = FALSE],
    [Limits EXCEPT !.calls = 1, !.retries = 0]>>,
  \* a candidate that cannot be monitored, a criterion bound to one source,
  \* an official site without a URL
  <<[Base EXCEPT !.candidates = <<[Candidate(1, <<>>) EXCEPT !.monitorable = FALSE], Candidate(2, <<>>)>>,
                 !.rules = <<[Rule(1) EXCEPT !.sources = {"press"}]>>,
                 !.cards = <<[SiteCard EXCEPT !.id = "press"], SiteCard>>, !.configured = {"press"},
                 !.policy.preferred = <<"press">>, !.policy.official = <<"site">>,
                 !.policy.openWeb = FALSE],
    [Limits EXCEPT !.retries = 0]>>,
  \* the source policy is switched off
  <<[Base EXCEPT !.policy.enabled = FALSE], Limits>>}

\* the stages of the planning pipeline, each over the results of the last
Selections == {<<input, P!SelectSources(input[1])>> : input \in Inputs}
Drafts == {<<s[1], s[2], P!PlanTasks(s[1][1], s[2])>> : s \in Selections}
MCPlans == {P!BuildPlan(d[1][1], d[1][2], d[2], d[3]) : d \in Drafts}
PlannedTasks == UNION {Elements(made.tasks) : made \in MCPlans}
MCTasks == PlannedTasks \cup
  {[t EXCEPT !.lane = "open_web", !.source = "none", !.ref = "none", !.required = FALSE,
             !.revision = 1] : t \in PlannedTasks}
=============================================================================
