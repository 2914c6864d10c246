-------------------------- MODULE MCPowerWebHandoff --------------------------
EXTENDS PowerWebHandoff, TLC

Symmetry == Permutations(Editors) \cup Permutations(Callers) \cup Permutations(Keys)

\* bound: how often a draft is revised beside callers
RevisionsBesideCallers == 4

Untouched == signals = 0 /\ policies = <<>> /\ \A c \in Callers : caller[c] = Waiting
OneEditorAtATime == \A e, f \in Editors : editor[e] = Idle \/ editor[f] = Idle \/ e = f
RevisionOf(e) == IF editor[e].at = "loaded" THEN editor[e].newDraft.revision ELSE 0

\* bound: a candidate that is not eligible has no handoff, so the behaviours
\* about one are those of editors alone, two at once and up to MaxRevision; in
\* the others callers overlap freely with one editor at a time
Bounded ==
  IF candidate = "ineligible" THEN Untouched
  ELSE OneEditorAtATime /\ \A e \in Editors : RevisionOf(e) <= RevisionsBesideCallers
=============================================================================
