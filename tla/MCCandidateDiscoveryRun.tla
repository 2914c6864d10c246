----------------------- MODULE MCCandidateDiscoveryRun -----------------------
EXTENDS CandidateDiscoveryRun

CONSTANTS d1, g1, c1, n1, n2, rule, gateRule, radar, target, cross

MCDiscovery == <<d1>>
MCGates == <<g1>>
MCCoverage == {<<>>, <<c1>>}
MCSubjects == {rule, gateRule, radar, target, cross}
MCSubjectOf == [t \in {d1, g1, c1} |-> CASE t = d1 -> rule [] t = g1 -> gateRule [] t = c1 -> radar]

NoAnswer == [names |-> {}, rejects |-> {}, linked |-> FALSE, issues |-> {}, gaps |-> FALSE, risk |-> FALSE]
MCAnswers == {
  NoAnswer,
  [NoAnswer EXCEPT !.names = {n1}, !.linked = TRUE],
  [NoAnswer EXCEPT !.names = {n2}, !.issues = {"linking"}, !.gaps = TRUE],
  [NoAnswer EXCEPT !.issues = {"schema"}],
  [NoAnswer EXCEPT !.rejects = {n1}, !.risk = TRUE]}

MCSettings == {
  [total |-> 0, perKey |-> 3, reserve |-> 0, useful |-> 0, retries |-> 1, revisions |-> 1, hints |-> FALSE],
  [total |-> 3, perKey |-> 2, reserve |-> 1, useful |-> 1, retries |-> 1, revisions |-> 0, hints |-> TRUE],
  [total |-> 0, perKey |-> 1, reserve |-> 1, useful |-> 0, retries |-> 0, revisions |-> 1, hints |-> FALSE]}
=============================================================================
