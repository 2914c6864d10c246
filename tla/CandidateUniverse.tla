--------------------------- MODULE CandidateUniverse ---------------------------
(***************************************************************************)
(* What a candidate-discovery run knows of the companies it has met: the   *)
(* sources, observations and gaps its tasks merge one after the other, and *)
(* the public surface, universe and ledger the finalization makes of them  *)
(* when the last task is done.                                             *)
(*                                                                         *)
(* A provider answer cites pages in rank order, and a source reference is  *)
(* the rank of the page in its own answer: it starts again with every      *)
(* call.  A registry record keeps one reference.  Spellings are the names  *)
(* the code tells apart without regard to case.  Scores, confidences,      *)
(* reasons and the signals of a candidate are left out: neither what is    *)
(* visible nor what is accepted depends on them.                           *)
(***************************************************************************)
EXTENDS Naturals, Sequences, FiniteSets, FiniteSetsExt, SequencesExt

CONSTANTS
  Spellings,       \* of entity names
  None,            \* no name, no registry identity
  Bare,            \* [Spellings -> Spellings]: the spelling without its legal form
  Within,          \* <<n, m>>: n is part of the text of m
  NamedType,       \* [Spellings -> Types]: the type a name alone suggests
  Ids,             \* INN and OGRN numbers
  Pages,           \* web pages and registry records
  Records,         \* the registry records among them
  LegalNames,      \* [Pages -> Seq(Spellings)]: legal names in a page's text
  SiteNames,       \* [Pages -> Seq(Spellings)]: sites, branches, projects in it
  Rules,           \* qualification criteria
  Required,        \* the required ones
  ProviderAnswers, \* what a provider may answer
  SmokeLimit,      \* smoke_max_candidates; 0: no cap
  MaxTasks         \* bound: executed tasks

\* "site" stands for branch, production_site, project and asset
Types == {"legal_entity", "site", "unknown_entity"}
Refs == Nat \cup Records
Given == {"confirmed", "weak", "unknown", "rejected"}
Verdicts == [Rules -> [status : Given \cup {"none"}, refs : SUBSET Refs]]
NoVerdicts == [r \in Rules |-> [status |-> "none", refs |-> {}]]
Observations == [name : Spellings, type : Types \cup {None}, id : Ids \cup {None},
                 refs : SUBSET Refs, verdicts : Verdicts, hint : Spellings \cup {None}]
Gaps == [name : Spellings, type : Types, refs : SUBSET Refs, blocked : BOOLEAN]
AnswerShape(a) ==
  /\ a.pages \in Seq(Pages) /\ a.usable \subseteq DOMAIN a.pages
  /\ a.found \in Seq(Observations) /\ a.gaps \in Seq(Gaps)

ASSUME UniverseConstants ==
  /\ Bare \in [Spellings -> Spellings] /\ Within \subseteq Spellings \X Spellings
  /\ NamedType \in [Spellings -> Types]
  /\ LegalNames \in [Pages -> Seq(Spellings)] /\ SiteNames \in [Pages -> Seq(Spellings)]
  /\ Records \subseteq Pages /\ Required \subseteq Rules
  /\ Spellings \cap Ids = {} /\ None \notin Spellings \cup Ids /\ Records \cap Nat = {}
  /\ SmokeLimit \in Nat /\ MaxTasks \in Nat
ASSUME AnswersAreShaped == \A a \in ProviderAnswers : AnswerShape(a)

VARIABLES
  phase,         \* "discovery", "coverage", "closing", "finalized", "saved"
  tasks,         \* tasks executed so far
  sources,       \* state.sources: Seq([ref, page])
  retrieved,     \* provider_metadata.retrieved_sources
  observations,  \* state.observations, in merge order
  gaps,          \* provider_metadata.candidate_universe_gaps
  review,        \* provider_metadata.upstream_disambiguation_results
  linked,        \* provider_metadata.linked_entity_facts: [site, account]
  delivered,     \* history: what was delivered: [name, key, as], as a type or "gap"
  surface,       \* user_visible_candidates: Seq([name, accepted, refs, noise])
  ledger,        \* product_acceptance_ledger: [name, collection]
  rejected,      \* rejected_candidates
  stored         \* the rows the stored-surface projector keeps

collected == <<sources, retrieved, observations, gaps, review, linked, delivered>>
projected == <<surface, ledger, rejected, stored>>
universeVars == <<phase, tasks, collected, projected>>

-----------------------------------------------------------------------------
\* helpers
Where(s, P(_)) == {k \in DOMAIN s : P(s[k])}
\* the elements of s at the positions in S, and those with P, in their order
SubSeqAt(s, S) ==
  FoldLeftDomain(LAMBDA kept, k : IF k \in S THEN Append(kept, s[k]) ELSE kept, <<>>, s)
Those(s, P(_)) == SubSeqAt(s, Where(s, P))
NamesIn(s) == {x.name : x \in Range(s)}

\* the references of an answer's pages: a rank, or the record's own
RefOf(pages, k) == IF pages[k] \in Records THEN pages[k] ELSE k
Cited(pages, K) == SubSeqAt([k \in DOMAIN pages |-> [ref |-> RefOf(pages, k), page |-> pages[k]]], K)
KnownRefs(src) == {s.ref : s \in Range(src)}

\* Mutated form: sources are appended.
DedupeSourcesNone(src) == src

\* dedupe_sources: one source per reference and url
DedupeSources(src) ==
  SubSeqAt(src, {k \in DOMAIN src : \A j \in 1 .. k - 1 : src[j] # src[k]})

-----------------------------------------------------------------------------
\* entity resolution
InferType(o) ==
  IF o.type \in Types THEN o.type
  ELSE IF o.id # None THEN "legal_entity" ELSE NamedType[o.name]
IsSite(o) == o.type = "site"

WithTypes(obs) == [k \in DOMAIN obs |-> [obs[k] EXCEPT !.type = InferType(obs[k])]]
Accounts(obs) == Those(WithTypes(obs), LAMBDA o : ~ IsSite(o))
SitesOf(obs) == Those(WithTypes(obs), IsSite)

SameText(hint, name) == hint = name \/ <<hint, name>> \in Within \/ <<name, hint>> \in Within
RefsOfAccount(accounts, name) == accounts[Max(Where(accounts, LAMBDA o : o.name = name))].refs

\* the account a site is linked to: the one it names, the first that shares a
\* source reference with it, the only one there is if a cited text names it
LinkOf(site, accounts, src) ==
  LET hinted == Where(accounts, LAMBDA o : site.hint # None /\ SameText(site.hint, o.name))
      sharing == Where(accounts, LAMBDA o : site.refs \cap RefsOfAccount(accounts, o.name) # {})
      named == {s.page : s \in {t \in Range(src) : t.ref \in site.refs}}
  IN IF hinted # {} THEN accounts[Min(hinted)].name
     ELSE IF sharing # {} THEN accounts[Min(sharing)].name
     ELSE IF Len(accounts) = 1 /\ \E p \in named : accounts[1].name \in Range(LegalNames[p])
          THEN accounts[1].name
     ELSE None

Links(obs, src) ==
  {[site |-> s.name, account |-> LinkOf(s, Accounts(obs), src)] : s \in Range(SitesOf(obs))}
UnresolvedGaps(obs, src) ==
  LET open == Those(SitesOf(obs), LAMBDA s : LinkOf(s, Accounts(obs), src) = None)
  IN [k \in DOMAIN open |-> [name |-> open[k].name, type |-> "site",
                             refs |-> open[k].refs, blocked |-> FALSE]]

-----------------------------------------------------------------------------
\* merging
MergeKey(o) == IF o.id # None THEN o.id ELSE Bare[o.name]

\* Mutated form: the last answer's references replace the collected ones.
MergedIntoLatest(target, o) == [target EXCEPT !.refs = o.refs]

\* the first name, type and identity stay, references add up, a later verdict
\* on a rule replaces an earlier one
MergedInto(target, o) ==
  [target EXCEPT
     !.refs = @ \cup o.refs,
     !.verdicts = [r \in Rules |->
                     IF o.verdicts[r].status # "none" THEN o.verdicts[r] ELSE target.verdicts[r]]]

MergeObservation(merged, o) ==
  LET same == Where(merged, LAMBDA t : MergeKey(t) = MergeKey(o))
  IN IF same = {} THEN Append(merged, [o EXCEPT !.hint = None])
     ELSE [merged EXCEPT ![Min(same)] = MergedInto(@, o)]

MergeObservations(obs) == FoldLeft(MergeObservation, <<>>, obs)

\* Mutated form: a result's gaps replace the collected ones.
MergeGapsLatest(old, new) == new
MergeGaps(old, new) == old \o new

\* merge_result: the sources of all tasks, every observation resolved again
MergeResult(newSources, found, newGaps) ==
  LET src == DedupeSources(sources \o newSources)
      all == observations \o found
  IN /\ sources' = src
     /\ observations' = MergeObservations(Accounts(all))
     /\ gaps' = MergeGaps(MergeGaps(gaps, newGaps), UnresolvedGaps(all, src))
     /\ linked' = linked \cup {l \in Links(all, src) : l.account # None}

\* gap_observations: only the name and the references of a gap are kept
GapObservations(some) ==
  [k \in DOMAIN some |-> [name |-> some[k].name, type |-> None, id |-> None, refs |-> some[k].refs,
                          verdicts |-> NoVerdicts, hint |-> None]]

Deliveries(found) == {[name |-> o.name, key |-> MergeKey(o), as |-> InferType(o)] : o \in Range(found)}

-----------------------------------------------------------------------------
UniverseInit ==
  /\ phase = "discovery" /\ tasks = 0
  /\ sources = <<>> /\ retrieved = <<>> /\ observations = <<>> /\ gaps = <<>>
  /\ review = <<>> /\ linked = {} /\ delivered = {}
  /\ surface = <<>> /\ ledger = {} /\ rejected = {} /\ stored = <<>>

Answered(a, found) ==
  /\ tasks < MaxTasks /\ tasks' = tasks + 1
  /\ MergeResult(Cited(a.pages, a.usable), found, a.gaps)
  /\ retrieved' = retrieved \o Cited(a.pages, DOMAIN a.pages)
  /\ delivered' = delivered \cup Deliveries(a.found)
                    \cup {[name |-> g.name, key |-> Bare[g.name], as |-> "gap"] : g \in Range(a.gaps)}
  /\ UNCHANGED <<phase, review, projected>>

\* a discovery task, a gate task or a cross-check, the last one after coverage
RunTask(a) == phase \in {"discovery", "coverage", "closing"} /\ Answered(a, a.found)

\* a coverage or expansion task: its gaps are observations too
RunCoverageTask(a) == phase = "coverage" /\ Answered(a, a.found \o GapObservations(a.gaps))

\* candidates_from_retrieved_sources: what the texts name and nobody has named
MentionsOf(s) ==
  [k \in DOMAIN LegalNames[s.page] |->
     [name |-> LegalNames[s.page][k], ref |-> s.ref, type |-> "legal_entity"]]
  \o [k \in DOMAIN SiteNames[s.page] |->
     [name |-> SiteNames[s.page][k], ref |-> s.ref, type |-> "site"]]

AllMentions(told) == FoldLeft(LAMBDA all, s : all \o MentionsOf(s), <<>>, told)

FreshMentions(all) ==
  SubSeqAt(all, {k \in DOMAIN all :
    /\ all[k].name \notin NamesIn(observations)
    /\ \A j \in 1 .. k - 1 : all[j].name = all[k].name =>
                               all[j].type = "site" /\ all[k].type = "legal_entity"})

\* once before coverage and once after it
AfterExtraction == [discovery |-> "coverage", coverage |-> "closing"]
ExtractRetrieved ==
  LET telling == Those(retrieved, LAMBDA s : MentionsOf(s) # <<>>)
      unknown == SubSeqAt(telling, {k \in DOMAIN telling :
                   /\ telling[k].ref \notin KnownRefs(sources)
                   /\ \A j \in 1 .. k - 1 : telling[j].ref # telling[k].ref})
      fresh == FreshMentions(AllMentions(telling))
      legal == Those(fresh, LAMBDA m : m.type = "legal_entity")
      sites == Those(fresh, LAMBDA m : m.type = "site")
      found == [k \in DOMAIN legal |->
                  [name |-> legal[k].name, type |-> "legal_entity", id |-> None,
                   refs |-> {legal[k].ref}, hint |-> None,
                   verdicts |-> [r \in Rules |-> [status |-> "unknown", refs |-> {legal[k].ref}]]]]
      open == [k \in DOMAIN sites |->
                 [name |-> sites[k].name, type |-> "site", refs |-> {sites[k].ref}, blocked |-> TRUE]]
  IN /\ phase \in DOMAIN AfterExtraction /\ phase' = AfterExtraction[phase]
     /\ IF found = <<>>
        THEN UNCHANGED <<sources, observations, gaps, linked, review, delivered>>
        ELSE /\ MergeResult(unknown, found, open)
             /\ review' = review \o open
             /\ delivered' = delivered \cup Deliveries(found)
     /\ UNCHANGED <<tasks, retrieved, projected>>

-----------------------------------------------------------------------------
\* finalization
IsNoise(o) == Rules # {} /\ \A r \in Rules : o.verdicts[r].status = "rejected"
IsRejected(o) == \E r \in Required : o.verdicts[r].status = "rejected"

\* candidate.evidence_refs: those of the observation, and those of its
\* verdicts that some source answers to
EvidenceRefs(o) ==
  o.refs \cup UNION {o.verdicts[r].refs \cap KnownRefs(sources) : r \in Rules}

Promoted ==
  IF SmokeLimit = 0 \/ Len(observations) <= SmokeLimit THEN observations
  ELSE SubSeq(observations, 1, SmokeLimit)
SmokeGaps == NamesIn(SubSeq(observations, Len(Promoted) + 1, Len(observations)))

\* _should_promote: a public row with evidence is accepted
IsAccepted(o) == EvidenceRefs(o) # {}
PublicRows ==
  [k \in DOMAIN Promoted |->
     [name |-> Promoted[k].name, accepted |-> IsAccepted(Promoted[k]),
      refs |-> EvidenceRefs(Promoted[k]), noise |-> IsNoise(Promoted[k])]]

\* candidate_universe_entries with the entity metadata of the observations
TypeOfName(name) ==
  LET kept == Those(observations, LAMBDA o : o.name \in NamesIn(Promoted))
  IN kept[Max(Where(kept, LAMBDA o : o.name = name))].type
UniverseEntries ==
  [k \in DOMAIN PublicRows |->
     [name |-> PublicRows[k].name, type |-> TypeOfName(PublicRows[k].name),
      refs |-> PublicRows[k].refs, blocked |-> FALSE, noise |-> PublicRows[k].noise]]

ReviewSources == review \o Those(gaps, LAMBDA g : g.refs # {} \/ g.type = "site")

\* an entry takes the type it lacked, and a site is blocked
Reviewed(e, g) ==
  LET type == IF e.type = "unknown_entity" THEN g.type ELSE e.type
  IN [e EXCEPT !.type = type, !.refs = @ \cup g.refs, !.blocked = @ \/ g.blocked \/ type = "site"]

\* a name without an entry gets one, blocked unless it is a legal entity's
MergeReview(entries, g) ==
  LET same == Where(entries, LAMBDA e : e.name = g.name)
  IN IF same # {} THEN [entries EXCEPT ![Max(same)] = Reviewed(@, g)]
     ELSE Append(entries, [name |-> g.name, type |-> g.type, refs |-> g.refs,
                           blocked |-> g.blocked \/ g.type # "legal_entity", noise |-> FALSE])

Universe == FoldLeft(MergeReview, UniverseEntries, ReviewSources)

\* Mutated form: neither the entity type nor a blocking reason is asked for.
SurfacesAnyEntity(e) == ~ e.noise

\* the public surface: public rows, and the universe's unblocked legal entities
Surfaces(e) == e.type = "legal_entity" /\ ~ e.noise /\ ~ e.blocked
ReviewRows ==
  LET visible == Those(Universe, Surfaces)
  IN [k \in DOMAIN visible |-> [name |-> visible[k].name, accepted |-> FALSE,
                                refs |-> visible[k].refs, noise |-> FALSE]]

\* rows of one candidate id, that is of one name, are one row
AppendRow(rows, row) ==
  LET same == Where(rows, LAMBDA t : t.name = row.name)
  IN IF same = {} THEN Append(rows, row)
     ELSE [rows EXCEPT ![Min(same)].refs = @ \cup row.refs,
                       ![Min(same)].accepted = @ \/ row.accepted]

Surface == FoldLeft(AppendRow, <<>>, PublicRows \o ReviewRows)

LedgerOf(names, collection) == {[name |-> n, collection |-> collection] : n \in names}

Finalize ==
  /\ phase = "closing" /\ phase' = "finalized"
  /\ surface' = Surface
  /\ ledger' = LedgerOf(NamesIn(PublicRows), "public_candidates")
                 \cup LedgerOf(NamesIn(Universe), "candidate_universe")
                 \cup LedgerOf(NamesIn(gaps) \cup SmokeGaps, "unresolved_candidate_gaps")
  /\ rejected' = NamesIn(Those(Promoted, IsRejected))
  /\ UNCHANGED <<tasks, collected, stored>>

\* upsert: the stored-surface projector drops what is marked as noise
Save ==
  /\ phase = "finalized" /\ phase' = "saved"
  /\ stored' = Those(surface, LAMBDA row : ~ row.noise)
  /\ UNCHANGED <<tasks, collected, surface, ledger, rejected>>

UniverseNext ==
  \/ \E a \in ProviderAnswers : RunTask(a) \/ RunCoverageTask(a)
  \/ ExtractRetrieved
  \/ Finalize
  \/ Save

UniverseSpec == UniverseInit /\ [][UniverseNext]_universeVars

-----------------------------------------------------------------------------
\* The types of the variables; sources and observations are without duplicates
\* (dedupe_sources, _merge_observation).
UniverseTypeOK ==
  /\ phase \in {"discovery", "coverage", "closing", "finalized", "saved"} /\ tasks \in 0 .. MaxTasks
  /\ sources \in Seq([ref : Refs, page : Pages]) /\ IsInjective(sources)
  /\ retrieved \in Seq([ref : Refs, page : Pages])
  /\ observations \in Seq(Observations)
  /\ \A j, k \in DOMAIN observations :
       /\ observations[j].type \in {"legal_entity", "unknown_entity"}
       /\ MergeKey(observations[j]) = MergeKey(observations[k]) => j = k
  /\ gaps \in Seq(Gaps) /\ review \in Seq(Gaps)
  /\ linked \subseteq [site : Spellings, account : Spellings]
  /\ delivered \subseteq [name : Spellings, key : Spellings \cup Ids, as : Types \cup {"gap"}]
  /\ {surface, stored} \subseteq Seq([name : Spellings, accepted : BOOLEAN, refs : SUBSET Refs, noise : BOOLEAN])
  /\ ledger \subseteq [name : Spellings, collection : {"public_candidates", "candidate_universe",
                                                   "unresolved_candidate_gaps"}]
  /\ rejected \subseteq Spellings

Listed(name) == \E row \in ledger : row.name = name
ListedAs(d) == \E o \in Range(observations) : MergeKey(o) = d.key /\ Listed(o.name)
LinkedTo(d) == \E l \in linked : l.site = d.name /\
                 \E e \in delivered : e.name = l.account /\ e.as # "site" /\ (Listed(e.name) \/ ListedAs(e))

\* Nothing a provider delivered disappears: once the run is finalized, an entity
\* is in the ledger, under its own name or that of the observation it was merged
\* into, or it is a site linked to an account that is (merge_result, the smoke
\* cap, the gaps and CandidateDiscoveryOutcomeReconciler together).
NothingDisappears ==
  phase \in {"finalized", "saved"} =>
    \A d \in delivered : Listed(d.name) \/ ListedAs(d) \/ LinkedTo(d)

\* An entity known only as a branch, a site, a project or an asset never
\* becomes a visible row, whatever is merged, linked or appended to the
\* universe after it (entity resolution, retrieved candidates, finalization).
SitesStayOffSurface ==
  \A row \in Range(surface) : \E d \in delivered : d.name = row.name /\ d.as # "site"

\* No later answer takes a collected observation away, renames it or drops
\* evidence it has (merge_candidate_observations over every task's result).
EvidenceIsKept ==
  [][\A o \in Range(observations) : \E p \in Range(observations') :
        MergeKey(p) = MergeKey(o) /\ p.name = o.name /\ o.refs \subseteq p.refs]_universeVars

\* The product-acceptance promoter "does not promote ... rejected entities": no
\* stored row is accepted that the run lists as rejected by a required rule.
RejectedIsNotAccepted ==
  \A row \in Range(stored) : row.accepted => row.name \notin rejected

=============================================================================
