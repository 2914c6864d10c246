------------------------- MODULE MCCandidateUniverse -------------------------
(***************************************************************************)
(* A company under two spellings that differ in the legal form, one known  *)
(* to the registry, a plant with its own name and a name that says nothing *)
(* of its type; two web pages and a registry record; two criteria.         *)
(***************************************************************************)
EXTENDS CandidateUniverse

CONSTANTS ao, ooo, plant, bare, i1, p1, p2, record, q1, q2

MCNames == {ao, ooo, plant, bare}
MCBare == [n \in MCNames |-> IF n = ooo THEN ao ELSE n]
MCWithin == {<<plant, plant>>}
MCNamedType == [n \in MCNames |-> CASE n = plant -> "site" [] n = bare -> "unknown_entity"
                                       [] OTHER -> "legal_entity"]
MCPages == {p1, p2, record}
MCLegalNames == [p \in MCPages |-> IF p = p2 THEN <<ooo>> ELSE <<>>]
MCSiteNames == [p \in MCPages |-> IF p = record THEN <<>> ELSE <<plant>>]

Judged(R, status) ==
  [r \in {q1, q2} |-> IF r \in R THEN [status |-> status, refs |-> {1}] ELSE [status |-> "none", refs |-> {}]]
Found(name, id, refs, verdicts, hint) ==
  [name |-> name, type |-> None, id |-> id, refs |-> refs, verdicts |-> verdicts, hint |-> hint]
Answer(pages, found, some) ==
  [pages |-> pages, usable |-> DOMAIN pages, found |-> found, gaps |-> some]

MCAnswers ==
  { \* a company with evidence for the first criterion
    Answer(<<p1>>, <<Found(ao, None, {1}, Judged({q1}, "confirmed"), None)>>, <<>>),
    \* the other spelling, rejected on the second criterion
    Answer(<<p2>>, <<Found(ooo, None, {1}, Judged({q2}, "rejected"), None)>>, <<>>),
    \* rejected on both
    Answer(<<p2>>, <<Found(ooo, None, {1}, Judged({q1, q2}, "rejected"), None)>>, <<>>),
    \* a site on a page of its own, and one that names its company
    Answer(<<p1>>, <<Found(plant, None, {1}, Judged({}, "none"), None)>>, <<>>),
    Answer(<<p1, p2>>, <<Found(plant, None, {2}, Judged({}, "none"), ao), Found(bare, None, {1}, Judged({}, "none"), None)>>, <<>>),
    \* a registry record of the company
    Answer(<<record>>, <<Found(ao, i1, {record}, Judged({}, "none"), None)>>, <<>>),
    \* gaps: a site with its type and page, and a name without evidence
    Answer(<<p2>>, <<>>, <<[name |-> plant, type |-> "site", refs |-> {1}, blocked |-> FALSE],
                           [name |-> bare, type |-> "legal_entity", refs |-> {}, blocked |-> FALSE]>>),
    \* pages only
    [Answer(<<p1, p2>>, <<>>, <<>>) EXCEPT !.usable = {}] }
=============================================================================
