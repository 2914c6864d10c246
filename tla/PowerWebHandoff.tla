--------------------------- MODULE PowerWebHandoff ---------------------------
(***************************************************************************)
(* From a Radar to a Power Web handoff.  A Radar's policy binds products;  *)
(* it is replaced by numbered versions, each made against the version its  *)
(* requester has seen.  Creating a handoff inspects the policy, the        *)
(* candidate and the products, reads them again, and freezes the policy    *)
(* version, the active version of every selected product and the latest    *)
(* signal run under the request's idempotency key.                         *)
(*                                                                         *)
(* The products are those of SalesPlaybook, whose editors are at work at   *)
(* the same time.  One Radar and one candidate of a completed candidate    *)
(* run are modelled; signal runs are numbered in the order of completion.  *)
(***************************************************************************)
EXTENDS SalesPlaybook

CONSTANTS
  Callers,      \* policy and handoff requests that may be in progress at once
  Keys,         \* idempotency keys
  Candidates,   \* surface statuses the candidate may have
  MaxPolicies,  \* bound: policy versions
  MaxSignals    \* bound: completed signal runs about the candidate

\* a candidate that is not found, not completed or without provenance is "ineligible"
ASSUME CandidatesAssumption ==
  Candidates \subseteq {"ineligible", "review_needed_candidate", "accepted_candidate"}
ASSUME HandoffBounds == MaxPolicies \in Nat /\ MaxSignals \in Nat

VARIABLES
  candidate,  \* surface status of the candidate
  signals,    \* completed signal runs so far
  policies,   \* policy versions by number: Seq([products, seen]); the head is the
              \*  last one.  seen, the version its requester expected to replace,
              \*  is kept for the properties
  handoffs,   \* persisted handoffs by idempotency key: [Keys -> handoff]
  caller      \* requests in progress, and the last answer of each caller

handoffVars == <<candidate, signals, policies, handoffs, caller>>
vars == <<product, draft, versions, editor, candidate, signals, policies, handoffs, caller>>

-----------------------------------------------------------------------------
NoHandoff == [policy |-> 0, admitted |-> 0, pins |-> [p \in Products |-> 0], signal |-> 0, fingerprint |-> <<>>]
Waiting == [at |-> "idle"]

PolicyHead == Len(policies)
Bound(n) == IF n = 0 THEN {} ELSE policies[n].products
Active(p) == product[p].lifecycle = "active" /\ product[p].active # 0

Begin(c, request) ==
  /\ caller' = [caller EXCEPT ![c] = request]
  /\ UNCHANGED <<candidate, signals, policies, handoffs>>
CallerIsFree(c) == caller[c].at \in {"idle", "answered"}

HandoffInit ==
  /\ candidate \in Candidates
  /\ signals = 0
  /\ policies = <<>>
  /\ handoffs = [k \in Keys |-> NoHandoff]
  /\ caller = [c \in Callers |-> Waiting]

\* a signal-monitoring run about the candidate completes
CompleteSignalRun ==
  /\ signals < MaxSignals
  /\ signals' = signals + 1
  /\ UNCHANGED <<candidate, policies, handoffs, caller>>

-----------------------------------------------------------------------------
(* Policy *)

\* RadarPowerWebPolicyService.update: the head is the version the requester
\* expects; a requester that has seen another one is refused
ReadPolicy(c, bindings) ==
  /\ CallerIsFree(c) /\ PolicyHead < MaxPolicies
  /\ Begin(c, [at |-> "policy read", products |-> bindings, seen |-> PolicyHead])

\* every product to be bound is active
CheckProducts(c) ==
  /\ caller[c].at = "policy read"
  /\ \A p \in caller[c].products : Active(p)
  /\ Begin(c, [caller[c] EXCEPT !.at = "policy checked"])

\* Mutated form: versions may share a number, the head is the last one saved.
AnyNumberIsFree(c) == TRUE
\* next_policy_version numbers it; the numbers of a Radar's versions are unique
NumberIsFree(c) == caller[c].seen + 1 = PolicyHead + 1

SavePolicy(c) ==
  /\ caller[c].at = "policy checked"
  /\ NumberIsFree(c)
  /\ policies' = Append(policies, [products |-> caller[c].products, seen |-> caller[c].seen])
  /\ caller' = [caller EXCEPT ![c] = Waiting]
  /\ UNCHANGED <<candidate, signals, handoffs>>

\* a product is not active, the number is taken, or an input of a handoff is gone
Refuse(c) ==
  /\ ~ CallerIsFree(c)
  /\ Begin(c, Waiting)

-----------------------------------------------------------------------------
(* Handoff *)

\* Mutated form: products the policy does not bind are admitted.
BoundOrNot(selected) == selected # {}
Selectable(selected) == selected # {} /\ selected \subseteq Bound(PolicyHead)

\* inspect reads the policy and the candidate; selected is what was asked for,
\* all bound products unless the request names them
Inspect(c, key, named, everything, acknowledged, withSignal) ==
  LET selected == IF everything THEN Bound(PolicyHead) ELSE named
  IN  /\ CallerIsFree(c)
      /\ Selectable(selected)
      /\ candidate # "ineligible"
      /\ candidate = "review_needed_candidate" => acknowledged
      /\ Begin(c, [at |-> "inspected", key |-> key, selected |-> selected, withSignal |-> withSignal,
                   admitted |-> PolicyHead])

\* ... and the products, each active with a version to compile demands from
AdmitProducts(c) ==
  /\ caller[c].at = "inspected"
  /\ \A p \in caller[c].selected : Active(p)
  /\ Begin(c, [caller[c] EXCEPT !.at = "admitted"])

\* create reads the policy again
RereadPolicy(c) ==
  /\ caller[c].at = "admitted"
  /\ Begin(c, [at |-> "reread", key |-> caller[c].key, selected |-> caller[c].selected,
               withSignal |-> caller[c].withSignal, admitted |-> caller[c].admitted,
               policy |-> PolicyHead])

Fingerprint(policy, selected, signal) == <<policy, selected, signal>>

\* ... and the products, without their lifecycle, and the latest signal run
CompileHandoff(c) ==
  LET r == caller[c]
      signal == IF r.withSignal THEN signals ELSE 0
  IN  /\ r.at = "reread"
      /\ Begin(c, [at |-> "compiled", key |-> r.key,
                   handoff |-> [policy |-> r.policy, admitted |-> r.admitted,
                                pins |-> [p \in Products |-> IF p \in r.selected THEN product[p].active ELSE 0],
                                signal |-> signal,
                                fingerprint |-> Fingerprint(r.policy, r.selected, signal)]])

Answer(c) == [at |-> "answered", key |-> caller[c].key, asked |-> caller[c].handoff.fingerprint]

\* Mutated form: whatever is stored under the key is the answer.
AnyReplayMatches(c) == TRUE
ReplayMatches(c) == handoffs[caller[c].key].fingerprint = caller[c].handoff.fingerprint

\* the key has been used: the stored handoff is the answer, if it was made for
\* the same inputs
ReplayHandoff(c) ==
  /\ caller[c].at = "compiled"
  /\ handoffs[caller[c].key] # NoHandoff
  /\ ReplayMatches(c)
  /\ Begin(c, Answer(c))

MissHandoff(c) ==
  /\ caller[c].at = "compiled"
  /\ handoffs[caller[c].key] = NoHandoff
  /\ Begin(c, [caller[c] EXCEPT !.at = "missed"])

\* the unique constraint on idempotency keys
KeyIsFree(c) == handoffs[caller[c].key] = NoHandoff

InsertHandoff(c) ==
  /\ caller[c].at = "missed"
  /\ KeyIsFree(c)
  /\ handoffs' = [handoffs EXCEPT ![caller[c].key] = caller[c].handoff]
  /\ caller' = [caller EXCEPT ![c] = Answer(c)]
  /\ UNCHANGED <<candidate, signals, policies>>

HandoffNext ==
  \/ CompleteSignalRun
  \/ \E c \in Callers :
       \/ \E bindings \in SUBSET Products : ReadPolicy(c, bindings)
       \/ CheckProducts(c)
       \/ SavePolicy(c)
       \/ Refuse(c)
       \/ \E key \in Keys, named \in SUBSET Products, everything, acknowledged, withSignal \in BOOLEAN :
            Inspect(c, key, named, everything, acknowledged, withSignal)
       \/ AdmitProducts(c)
       \/ RereadPolicy(c)
       \/ CompileHandoff(c)
       \/ ReplayHandoff(c)
       \/ MissHandoff(c)
       \/ InsertHandoff(c)

-----------------------------------------------------------------------------
Init == PlaybookInit /\ HandoffInit

Next ==
  \/ PlaybookNext /\ UNCHANGED handoffVars
  \/ HandoffNext /\ UNCHANGED playbookVars

Spec == Init /\ [][Next]_vars

-----------------------------------------------------------------------------
(* Properties *)

HandoffType ==
  [policy : Nat, admitted : Nat, pins : [Products -> Nat], signal : Nat,
   fingerprint : {<<>>} \cup (Nat \X (SUBSET Products) \X Nat)]

PolicyRequest == [at : {"policy read", "policy checked"}, products : SUBSET Products, seen : Nat]
PreflightRequest == [at : {"inspected", "admitted"}, key : Keys, selected : SUBSET Products,
                     withSignal : BOOLEAN, admitted : Nat]
RereadRequest == [at : {"reread"}, key : Keys, selected : SUBSET Products, withSignal : BOOLEAN,
                  admitted : Nat, policy : Nat]
CompiledRequest == [at : {"compiled", "missed"}, key : Keys, handoff : HandoffType]
AnsweredRequest == [at : {"answered"}, key : Keys, asked : Nat \X (SUBSET Products) \X Nat]

CallerType == {Waiting} \cup PolicyRequest \cup PreflightRequest \cup RereadRequest
              \cup CompiledRequest \cup AnsweredRequest

\* The playbook's rows, the policies, the handoffs and the requests about them.
TypeOK ==
  /\ PlaybookTypeOK
  /\ candidate \in Candidates
  /\ signals \in 0..MaxSignals
  /\ policies \in Seq([products : SUBSET Products, seen : Nat])
  /\ handoffs \in [Keys -> HandoffType]
  /\ caller \in [Callers -> CallerType]

\* PW-HO-POL-01: each policy version replaces the one its requester had seen.
\* Two requesters who have seen the same version never both succeed, so no
\* binding is dropped by an update made in ignorance of it.
PolicyHistoryIsLinear == \A n \in DOMAIN policies : policies[n].seen = n - 1

\* PW-HO-IDEM-01: a key stands for one request.  Whoever was answered under a
\* key finds there the handoff made for the inputs of that request, also when
\* requests with the same key overlap or inputs change between them.
KeyAnswersOneRequest ==
  \A c \in Callers : caller[c].at = "answered" =>
    handoffs[caller[c].key].fingerprint = caller[c].asked

\* PW-HO-PROD-01: whatever editors do meanwhile, a handoff pins a published,
\* complete version of each of its products, and the policy that admitted the
\* products binds them; the policy it names may only be a later one.
HandoffIsAdmitted ==
  \A k \in Keys : handoffs[k] # NoHandoff =>
    LET h == handoffs[k]
        pinned == {p \in Products : h.pins[p] # 0}
    IN  /\ pinned # {} /\ pinned = h.fingerprint[2] /\ pinned \subseteq Bound(h.admitted)
        /\ \A p \in pinned : /\ h.pins[p] \in DOMAIN versions[p]
                              /\ versions[p][h.pins[p]].body \in Publishable
        /\ h.admitted <= h.policy /\ h.policy <= PolicyHead
=============================================================================
