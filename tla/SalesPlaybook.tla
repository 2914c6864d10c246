---------------------------- MODULE SalesPlaybook ----------------------------
(***************************************************************************)
(* Products and their sales playbooks: one mutable draft per product,      *)
(* immutable published versions, one active version.  Every request of an  *)
(* editor runs in a session of its own.  Reads take no snapshot, so other  *)
(* requests may commit between them; nothing is written before the flush   *)
(* at the end of the request, and the database lets one writer at a time   *)
(* from its flush to its commit.  A flush writes the columns the request   *)
(* has changed since it loaded the row, and only those.                    *)
(*                                                                         *)
(* Requests that are refused when they load the rows change nothing and    *)
(* have no step here.                                                      *)
(***************************************************************************)
EXTENDS Naturals, Sequences, FiniteSets

CONSTANTS
  Products,     \* product ids
  Codes,        \* product codes
  Bodies,       \* what else a draft says, roles included
  Blank,        \* the body of a new draft
  Publishable,  \* the bodies validate_publishable accepts
  Editors,      \* requests that may be in progress at once
  MaxRevision,  \* bound: revisions of a draft
  MaxVersions   \* bound: versions of a product

ASSUME BodiesAssumption == Publishable \subseteq Bodies /\ Blank \in Bodies \ Publishable
ASSUME PlaybookBounds == MaxRevision \in Nat /\ MaxVersions \in Nat

VARIABLES
  product,   \* product rows: [Products -> [code, lifecycle, active]]
  draft,     \* draft rows: [Products -> [revision, base, content]]
  versions,  \* published contents, by version number: [Products -> Seq([code, body])]
  editor     \* requests in progress

playbookVars == <<product, draft, versions, editor>>

-----------------------------------------------------------------------------
Lifecycles == {"draft", "active", "archived"}
NoCode == "no code"
Absent == [code |-> NoCode, lifecycle |-> "draft", active |-> 0]
NoDraft == [revision |-> 0, base |-> 0, content |-> [code |-> NoCode, body |-> Blank]]
Exists(p) == product[p] # Absent

Contents == [code : Codes, body : Bodies]

Idle == [at |-> "idle"]
Reading(op, p, read, version) ==
  [at |-> "read", op |-> op, p |-> p, read |-> read, version |-> version]
\* a request that has loaded its rows and assigned new values; number is that
\* of the version it adds, 0 for none
Loaded(p, newProduct, newDraft, number) ==
  [at |-> "loaded", p |-> p, number |-> number,
   oldProduct |-> product[p], newProduct |-> newProduct,
   oldDraft |-> draft[p], newDraft |-> newDraft]

\* the unit of work: columns that differ from what was loaded are written
Changed(row, old, new) == [f \in DOMAIN row |-> IF new[f] # old[f] THEN new[f] ELSE row[f]]

Start(e, request) == editor' = [editor EXCEPT ![e] = request] /\ UNCHANGED <<product, draft, versions>>

-----------------------------------------------------------------------------
PlaybookInit ==
  /\ product = [p \in Products |-> Absent]
  /\ draft = [p \in Products |-> NoDraft]
  /\ versions = [p \in Products |-> <<>>]
  /\ editor = [e \in Editors |-> Idle]

CodeIsFree(p, code) == \A q \in Products \ {p} : product[q].code # code

\* create_product: product codes are unique
CreateProduct(p, code) ==
  /\ ~ Exists(p) /\ CodeIsFree(p, code)
  /\ product' = [product EXCEPT ![p] = [code |-> code, lifecycle |-> "draft", active |-> 0]]
  /\ draft' = [draft EXCEPT ![p] = [revision |-> 1, base |-> 0,
                                         content |-> [code |-> code, body |-> Blank]]]
  /\ UNCHANGED <<versions, editor>>

\* save_draft: the revision the client has seen is the one in the row it loads
LoadSave(e, p, content) ==
  /\ editor[e] = Idle /\ Exists(p)
  /\ draft[p].revision < MaxRevision
  /\ product[p].active # 0 => content.code = product[p].code
  /\ Start(e, Loaded(p, [product[p] EXCEPT !.code = content.code],
                     [draft[p] EXCEPT !.revision = @ + 1, !.content = content], 0))

\* publish reads the draft and validates it
ReadForPublish(e, p) ==
  /\ editor[e] = Idle /\ Exists(p)
  /\ draft[p].content.body \in Publishable
  /\ draft[p].revision < MaxRevision /\ Len(versions[p]) < MaxVersions
  /\ Start(e, Reading("publish", p, draft[p], 0))

\* Mutated form: the draft found when the rows are loaded is frozen, whatever
\* was validated.
DraftFoundLater(e) == draft[editor[e].p]
DraftToPublish(e) == editor[e].read

\* ... and then loads the rows and takes the next version number
LoadPublish(e, activate) ==
  LET p == editor[e].p
      number == Len(versions[p]) + 1
  IN  /\ editor[e].at = "read" /\ editor[e].op = "publish"
      /\ Start(e, Loaded(p, IF activate
                            THEN [product[p] EXCEPT !.active = number, !.lifecycle = "active"]
                            ELSE product[p],
                         [DraftToPublish(e) EXCEPT !.revision = draft[p].revision + 1, !.base = number],
                         number))

\* restore_as_draft reads the version and the revision of the draft
ReadForRestore(e, p, v) ==
  /\ editor[e] = Idle
  /\ v \in DOMAIN versions[p]
  /\ draft[p].revision < MaxRevision
  /\ Start(e, Reading("restore", p, draft[p], v))

LoadRestore(e) ==
  LET p == editor[e].p
      v == editor[e].version
  IN  /\ editor[e].at = "read" /\ editor[e].op = "restore"
      /\ Start(e, Loaded(p, product[p],
                         [revision |-> editor[e].read.revision + 1, base |-> v,
                          content |-> versions[p][v]], 0))

LoadActivate(e, p, v) ==
  /\ editor[e] = Idle
  /\ v \in DOMAIN versions[p]
  /\ Start(e, Loaded(p, [product[p] EXCEPT !.active = v, !.lifecycle = "active"], draft[p], 0))

LoadArchive(e, p) ==
  /\ editor[e] = Idle /\ Exists(p)
  /\ Start(e, Loaded(p, [product[p] EXCEPT !.lifecycle = "archived"], draft[p], 0))

\* the unique constraints on product codes and on version numbers
Conflicts(e) ==
  LET r == editor[e]
  IN  \/ r.newProduct.code # r.oldProduct.code /\ ~ CodeIsFree(r.p, r.newProduct.code)
      \/ r.number # 0 /\ r.number \in DOMAIN versions[r.p]

Frozen(r) == r.newDraft.content

FlushAndCommit(e) ==
  LET r == editor[e]
  IN  /\ r.at = "loaded" /\ ~ Conflicts(e)
      /\ product' = [product EXCEPT ![r.p] = Changed(@, r.oldProduct, r.newProduct)]
      /\ draft' = [draft EXCEPT ![r.p] = Changed(@, r.oldDraft, r.newDraft)]
      /\ versions' = [versions EXCEPT ![r.p] =
                        IF r.number = 0 THEN @ ELSE Append(@, Frozen(r))]
      /\ editor' = [editor EXCEPT ![e] = Idle]

\* the flush violates a constraint, or the request fails: the session rolls back
RollBack(e) ==
  /\ editor[e].at = "loaded"
  /\ editor' = [editor EXCEPT ![e] = Idle]
  /\ UNCHANGED <<product, draft, versions>>

PlaybookNext ==
  \/ \E p \in Products, code \in Codes : CreateProduct(p, code)
  \/ \E e \in Editors :
       \/ \E p \in Products, content \in Contents : LoadSave(e, p, content)
       \/ \E p \in Products : ReadForPublish(e, p)
       \/ \E activate \in BOOLEAN : LoadPublish(e, activate)
       \/ \E p \in Products, v \in 1..MaxVersions : ReadForRestore(e, p, v)
       \/ LoadRestore(e)
       \/ \E p \in Products, v \in 1..MaxVersions : LoadActivate(e, p, v)
       \/ \E p \in Products : LoadArchive(e, p)
       \/ FlushAndCommit(e)
       \/ RollBack(e)

PlaybookSpec == PlaybookInit /\ [][PlaybookNext]_playbookVars

-----------------------------------------------------------------------------
(* Properties *)

ProductRow == [code : Codes \cup {NoCode}, lifecycle : Lifecycles, active : Nat]
DraftRow == [revision : Nat, base : Nat, content : Contents \cup {NoDraft.content}]

EditorType ==
  {Idle}
  \cup [at : {"read"}, op : {"publish", "restore"}, p : Products, read : DraftRow, version : Nat]
  \cup [at : {"loaded"}, p : Products, number : Nat, oldProduct : ProductRow, newProduct : ProductRow,
        oldDraft : DraftRow, newDraft : DraftRow]

\* The rows, and the rows that requests in progress hold.
PlaybookTypeOK ==
  /\ product \in [Products -> ProductRow]
  /\ draft \in [Products -> DraftRow]
  /\ versions \in [Products -> Seq(Contents)]
  /\ editor \in [Editors -> EditorType]

\* Publishing validates exactly what it freezes: whatever is saved, restored
\* or published between its reads, no version holds an incomplete playbook,
\* and the active version is one of the published ones.
OnlyValidIsPublished ==
  \A p \in Products :
    /\ \A v \in DOMAIN versions[p] : versions[p][v].body \in Publishable
    /\ product[p].lifecycle = "active" => product[p].active \in DOMAIN versions[p]

\* PWF-VERS-01, "stale drafts return a conflict": a save or a restore only
\* ever replaces the revision its client has seen.
StaleDraftsConflict ==
  [][\A e \in Editors :
       FlushAndCommit(e) /\ editor[e].number = 0 /\ editor[e].newDraft # editor[e].oldDraft
         => draft[editor[e].p].revision = editor[e].oldDraft.revision]_playbookVars
=============================================================================
