------------------------ MODULE SignalMonitoringPlan ------------------------
(***************************************************************************)
(* The pure part of signal monitoring: which sources are selected, which   *)
(* search tasks that makes, which of them are accepted and which the task  *)
(* budget schedules.  Source ids, references and texts are opaque values;  *)
(* a query is told apart only by the part of the rule it was built from.   *)
(*                                                                         *)
(* input: [candidates, rules, cards: sequences, known: set of sources,     *)
(*         configured: set of ids with a URL, policy: record].             *)
(***************************************************************************)
EXTENDS Naturals, FiniteSets, SequencesExt

NoSource == "none"
Lanes == {"official_company", "open_web", "known_source", "signal_specific"}
LaneOrder == [official_company |-> 0, open_web |-> 1, known_source |-> 2, signal_specific |-> 3]

-----------------------------------------------------------------------------
(* Source strategy *)

\* the elements of s at the positions in S, those that satisfy P, and first
\* occurrences, each in order
SubSeqAt(s, S) ==
  [k \in 1..Cardinality(S) |-> s[CHOOSE i \in S : Cardinality({j \in S : j < i}) = k - 1]]
Those(s, P(_)) == SubSeqAt(s, {i \in DOMAIN s : P(s[i])})
OrderedUnique(s) == SubSeqAt(s, {i \in DOMAIN s : \A j \in 1..(i - 1) : s[j] # s[i]})

SourceAllowed(id, policy) == policy.allowed = {} \/ id \in policy.allowed

\* the binding service: the source has a URL, belongs to the candidate and
\* is neither a registry nor an identity page
ScheduledAsKnownSource(candidate, source) ==
  source.url /\ source.owner = candidate.id /\ source.capable

CardsOf(input, id) == {i \in DOMAIN input.cards : input.cards[i].id = id}
SignalCapable(input, id) ==
  \E i \in CardsOf(input, id) : input.cards[i].signal
OpenWebCard(input, id) ==
  \E i \in CardsOf(input, id) : input.cards[i].broad

\* a source found with the candidate is searched again for signals
KnownUsable(input, candidate, source) ==
  /\ source.useful
  /\ ScheduledAsKnownSource(candidate, source)
  /\ source.id = NoSource \/ SourceAllowed(source.id, input.policy)
  /\ CardsOf(input, source.id) # {} => SignalCapable(input, source.id)

KnownDecisions(input) ==
  LET Of(candidate) ==
        LET usable == Those(OrderedUnique(candidate.refs), LAMBDA ref :
              \E s \in input.known : s.ref = ref /\ KnownUsable(input, candidate, s))
        IN  [i \in DOMAIN usable |->
              [lane |-> "known_source", candidate |-> candidate.id, ref |-> usable[i], required |-> TRUE,
               source |-> (CHOOSE s \in input.known : s.ref = usable[i]).id]]
  IN  IF input.policy.reuse
      THEN FlattenSeq([i \in DOMAIN input.candidates |-> Of(input.candidates[i])])
      ELSE <<>>

\* an official, signal-specific or hinted source, chosen once
CardUsable(input, id, taken) ==
  /\ id \notin taken
  /\ SourceAllowed(id, input.policy)
  /\ SignalCapable(input, id)

CardDecision(input, lane, id) ==
  [lane |-> lane, candidate |-> NoSource, source |-> id, required |-> TRUE,
   ref |-> IF lane # "open_web" /\ id \in input.configured THEN id ELSE NoSource]

CardDecisions(input, lane, ids, taken) ==
  LET usable == Those(ids, LAMBDA id : CardUsable(input, id, taken))
  IN  [i \in DOMAIN usable |-> CardDecision(input, lane, usable[i])]

OpenWebIds(input) ==
  LET policy == input.policy
      named == OrderedUnique(policy.preferred \o policy.fallback)
      all == named \o Those([i \in DOMAIN input.cards |-> input.cards[i].id],
                            LAMBDA id : ~ Contains(named, id))
  IN  Those(all, LAMBDA id : OpenWebCard(input, id))

SourcesOf(decisions) == {decisions[i].source : i \in DOMAIN decisions} \ {NoSource}

\* the sources each shared lane considers, in the order of the lanes
LaneIds(input) ==
  LET policy == input.policy
      official == OrderedUnique(policy.official)
      bound == Those(OrderedUnique(policy.required \o policy.preferred \o policy.fallback),
                     LAMBDA id : ~ Contains(official, id) /\ ~ OpenWebCard(input, id))
      hinted == Those(OrderedUnique(policy.hints), LAMBDA id : ~ OpenWebCard(input, id))
  IN  <<<<"official_company", official>>, <<"signal_specific", bound>>, <<"signal_specific", hinted>>,
        <<"open_web", IF policy.openWeb THEN OpenWebIds(input) ELSE <<>> >> >>

\* select_sources: the selected decisions, in order
Considering(input, chosen, lane) ==
  chosen \o CardDecisions(input, lane[1], lane[2], SourcesOf(chosen))
SelectSources(input) ==
  LET lanes == LaneIds(input)
      official == Considering(input, KnownDecisions(input), lanes[1])
      bound == Considering(input, official, lanes[2])
      hinted == Considering(input, bound, lanes[3])
  IN  Considering(input, hinted, lanes[4])

-----------------------------------------------------------------------------
(* Planning *)

\* at most two of the candidate's known sources, then the shared lanes
CandidateDecisions(candidate, rule, selected) ==
  LET known == Those(selected, LAMBDA d :
        /\ d.lane = "known_source"
        /\ d.candidate = candidate.id
        /\ Contains(candidate.refs, d.ref))
      generic == Those(selected, LAMBDA d :
        /\ d.lane # "known_source"
        /\ d.lane = "signal_specific" /\ rule.sources # {} => d.source \in rule.sources)
  IN  OrderedUnique(SubSeq(known, 1, IF Len(known) < 2 THEN Len(known) ELSE 2) \o generic)

LaneDecisions(candidate, rule, selected) ==
  LET fitting == Those(CandidateDecisions(candidate, rule, selected),
                       LAMBDA d : d.lane \in ToSet(rule.lanes))
      fallback == [lane |-> IF Contains(rule.lanes, "open_web") THEN "open_web" ELSE rule.lanes[1],
                   candidate |-> NoSource, source |-> NoSource, ref |-> NoSource, required |-> TRUE]
  IN  IF fitting = <<>> /\ rule.lanes # <<>> THEN <<fallback>> ELSE fitting

\* the base task of a lane and, on the open web, its coverage queries
LaneTasks(candidate, rule, decision) ==
  LET Task(part, required) ==
        [candidate |-> candidate.id, code |-> rule.code, lane |-> decision.lane,
         source |-> decision.source, ref |-> decision.ref, part |-> part,
         required |-> required, revision |-> 0]
      web == decision.lane = "open_web"
  IN  <<Task("base", decision.required)>>
      \o (IF web /\ rule.manyTerms THEN <<Task("coverage", FALSE)>> ELSE <<>>)
      \o (IF web /\ rule.extraTerms THEN <<Task("coverage-2", FALSE)>> ELSE <<>>)

PairTasks(candidate, rule, selected) ==
  LET decisions == LaneDecisions(candidate, rule, selected)
  IN  IF rule.enabled
      THEN FlattenSeq([i \in DOMAIN decisions |-> LaneTasks(candidate, rule, decisions[i])])
      ELSE <<>>

PlanTasks(input, selected) ==
  FlattenSeq([c \in DOMAIN input.candidates |->
    FlattenSeq([r \in DOMAIN input.rules |->
      PairTasks(input.candidates[c], input.rules[r], selected)])])

\* acceptance takes a task up once; a known source needs a URL, an official site
\* a domain
Acceptable(input, task) ==
  CASE task.lane = "known_source" -> \E s \in input.known : s.ref = task.ref /\ s.url
    [] task.lane = "official_company" -> task.ref \in input.configured
    [] OTHER -> TRUE

\* scheduling order: required first, then lane, candidate and criterion
Precedes(tasks, i, j) ==
  LET Key(t) == <<IF t.required THEN 0 ELSE 1, LaneOrder[t.lane], t.candidate, t.code>>
      a == Key(tasks[i])
      b == Key(tasks[j])
  IN  \/ \E k \in 1..4 : a[k] < b[k] /\ \A m \in 1..(k - 1) : a[m] = b[m]
      \/ a = b /\ i < j

\* the tasks the task budget takes, in plan order
ScheduleTasks(tasks, limit) ==
  SubSeqAt(tasks, {i \in DOMAIN tasks :
                    Cardinality({j \in DOMAIN tasks : Precedes(tasks, j, i)}) < limit})

\* SignalMonitoringPlanningPipeline.build with the executor's `executable`
BuildPlan(input, limits, selected, tasks) ==
  LET accepted == Those(OrderedUnique(tasks), LAMBDA t : Acceptable(input, t))
  IN  [tasks |-> tasks,
       accepted |-> ToSet(accepted),
       scheduled |-> ScheduleTasks(accepted, limits.tasks),
       limits |-> limits,
       openWeb |-> input.policy.openWeb,
       monitorable |-> {input.candidates[i].id : i \in {j \in DOMAIN input.candidates :
                                                        input.candidates[j].monitorable}},
       executable |-> /\ selected # <<>>
                      /\ accepted # <<>>
                      /\ input.policy.enabled]
=============================================================================
