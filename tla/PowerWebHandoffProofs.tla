------------------------ MODULE PowerWebHandoffProofs ------------------------
(***************************************************************************)
(* Proofs, for any number of products, editors, callers and keys, of what  *)
(* SalesPlaybook promises about published versions and PowerWebHandoff     *)
(* about policies and handoffs.  The rows a request has loaded may be out  *)
(* of date by the time it flushes them; the invariants say what remains    *)
(* true of them, since versions and policies only grow and an activated    *)
(* product never loses its active version.                                 *)
(***************************************************************************)
EXTENDS PowerWebHandoff, SequenceTheorems, TLAPS

-----------------------------------------------------------------------------
(* The playbook *)

Valid(content) == content \in Contents /\ content.body \in Publishable

VersionsAreValid ==
  \A p \in Products : \A v \in DOMAIN versions[p] : versions[p][v].body \in Publishable

ProductsAreSound ==
  \A p \in Products : /\ product[p].active = 0 \/ product[p].active \in DOMAIN versions[p]
                      /\ product[p].lifecycle = "active" => product[p].active # 0

\* what a request that has read a draft or a version still knows of it
ReadersAreSound ==
  \A e \in Editors : editor[e].at = "read" =>
    /\ editor[e].op = "publish" => Valid(editor[e].read.content)
    /\ editor[e].op = "restore" => editor[e].version \in DOMAIN versions[editor[e].p]

\* what a request that has loaded its rows is about to write
WriterIsSound(r) ==
  /\ r.number # 0 => /\ r.number <= Len(versions[r.p]) + 1
                     /\ Valid(r.newDraft.content)
  /\ \/ r.newProduct.active = r.oldProduct.active
     \/ r.newProduct.active # 0 /\ r.newProduct.active = r.number
     \/ r.newProduct.active \in DOMAIN versions[r.p]
  /\ r.oldProduct.active # 0 => product[r.p].active # 0
  /\ r.newProduct.lifecycle = "active" => r.newProduct.active # 0

WritersAreSound == \A e \in Editors : editor[e].at = "loaded" => WriterIsSound(editor[e])

PlaybookInv ==
  /\ PlaybookTypeOK
  /\ VersionsAreValid
  /\ ProductsAreSound
  /\ ReadersAreSound
  /\ WritersAreSound

\* Versions are appended to and never changed, and an active version is only
\* ever replaced by another.
RowsGrow ==
  \A p \in Products :
    /\ Len(versions[p]) <= Len(versions'[p])
    /\ \A v \in DOMAIN versions[p] : v \in DOMAIN versions'[p] /\ versions'[p][v] = versions[p][v]
    /\ product[p].active # 0 => product'[p].active # 0

LEMMA ChangedProduct ==
  ASSUME NEW row \in ProductRow, NEW old \in ProductRow, NEW new \in ProductRow
  PROVE  /\ Changed(row, old, new) \in ProductRow
         /\ Changed(row, old, new).code = IF new.code # old.code THEN new.code ELSE row.code
         /\ Changed(row, old, new).lifecycle =
              IF new.lifecycle # old.lifecycle THEN new.lifecycle ELSE row.lifecycle
         /\ Changed(row, old, new).active = IF new.active # old.active THEN new.active ELSE row.active
<1>1. DOMAIN row = {"code", "lifecycle", "active"}
  BY DEF ProductRow
<1>2. Changed(row, old, new) =
        [code |-> IF new.code # old.code THEN new.code ELSE row.code,
         lifecycle |-> IF new.lifecycle # old.lifecycle THEN new.lifecycle ELSE row.lifecycle,
         active |-> IF new.active # old.active THEN new.active ELSE row.active]
  BY <1>1 DEF Changed
<1>. QED
  BY <1>2 DEF ProductRow

LEMMA ChangedDraft ==
  ASSUME NEW row \in DraftRow, NEW old \in DraftRow, NEW new \in DraftRow
  PROVE  Changed(row, old, new) \in DraftRow
<1>1. DOMAIN row = {"revision", "base", "content"}
  BY DEF DraftRow
<1>2. Changed(row, old, new) =
        [revision |-> IF new.revision # old.revision THEN new.revision ELSE row.revision,
         base |-> IF new.base # old.base THEN new.base ELSE row.base,
         content |-> IF new.content # old.content THEN new.content ELSE row.content]
  BY <1>1 DEF Changed
<1>. QED
  BY <1>2 DEF DraftRow

\* New values of several columns.
LEMMA EditedProduct ==
  ASSUME NEW row \in ProductRow, NEW n \in Nat
  PROVE  /\ [row EXCEPT !.active = n, !.lifecycle = "active"] \in ProductRow
         /\ [row EXCEPT !.active = n, !.lifecycle = "active"].active = n
<1>. DEFINE active == [row EXCEPT !.active = n]
            edited == [active EXCEPT !.lifecycle = "active"]
<1>1. active \in ProductRow /\ active.active = n
  BY DEF ProductRow
<1>2. edited \in ProductRow /\ edited.active = active.active
  <2>. HIDE DEF active
  <2>. QED
    BY <1>1 DEF ProductRow, Lifecycles
<1>3. [row EXCEPT !.active = n, !.lifecycle = "active"] = edited
  OBVIOUS
<1>. QED
  BY <1>1, <1>2, <1>3

LEMMA EditedDraft ==
  ASSUME NEW row \in DraftRow, NEW n \in Nat, NEW b \in Nat, NEW content \in Contents
  PROVE  /\ [row EXCEPT !.revision = n, !.content = content] \in DraftRow
         /\ [row EXCEPT !.revision = n, !.base = b] \in DraftRow
         /\ [row EXCEPT !.revision = n, !.base = b].content = row.content
<1>. DEFINE next == [row EXCEPT !.revision = n]
<1>1. next \in DraftRow /\ next.content = row.content
  BY DEF DraftRow
<1>2. /\ [next EXCEPT !.content = content] \in DraftRow
      /\ [next EXCEPT !.base = b] \in DraftRow
      /\ [next EXCEPT !.base = b].content = next.content
  <2>. HIDE DEF next
  <2>. QED
    BY <1>1 DEF DraftRow
<1>3. /\ [row EXCEPT !.revision = n, !.content = content] = [next EXCEPT !.content = content]
      /\ [row EXCEPT !.revision = n, !.base = b] = [next EXCEPT !.base = b]
  OBVIOUS
<1>. QED
  BY <1>1, <1>2, <1>3

LEMMA PlaybookStarts == PlaybookInit => PlaybookInv
<1>. SUFFICES ASSUME PlaybookInit PROVE PlaybookInv
  OBVIOUS
<1>1. PlaybookTypeOK
  BY BodiesAssumption
  DEF PlaybookInit, PlaybookTypeOK, Absent, NoDraft, ProductRow, DraftRow, Lifecycles, EditorType
<1>2. VersionsAreValid /\ ProductsAreSound /\ ReadersAreSound /\ WritersAreSound
  BY DEF PlaybookInit, VersionsAreValid, ProductsAreSound, ReadersAreSound, WritersAreSound, Absent, Idle
<1>. QED
  BY <1>1, <1>2 DEF PlaybookInv

\* A request that takes its next step without writing.
LEMMA EditorStarts ==
  ASSUME PlaybookInv, NEW e \in Editors, NEW request \in EditorType, Start(e, request),
         request.at = "read" =>
           /\ request.op = "publish" => Valid(request.read.content)
           /\ request.op = "restore" => request.version \in DOMAIN versions[request.p],
         request.at = "loaded" => WriterIsSound(request)
  PROVE  PlaybookInv' /\ RowsGrow
<1>1. /\ UNCHANGED <<product, draft, versions>>
      /\ editor \in [Editors -> EditorType]
      /\ editor' = [editor EXCEPT ![e] = request]
  BY DEF PlaybookInv, PlaybookTypeOK, Start
<1>2. PlaybookTypeOK'
  BY <1>1 DEF PlaybookInv, PlaybookTypeOK
<1>3. VersionsAreValid' /\ ProductsAreSound'
  BY <1>1 DEF PlaybookInv, VersionsAreValid, ProductsAreSound
<1>4. ReadersAreSound'
  BY <1>1 DEF PlaybookInv, ReadersAreSound
<1>5. WritersAreSound'
  BY <1>1 DEF PlaybookInv, WritersAreSound, WriterIsSound
<1>6. RowsGrow
  BY <1>1 DEF RowsGrow, PlaybookInv, PlaybookTypeOK
<1>. QED
  BY <1>2, <1>3, <1>4, <1>5, <1>6 DEF PlaybookInv

\* A request that has loaded its rows.
LEMMA EditorLoads ==
  ASSUME PlaybookInv, NEW e \in Editors, NEW p \in Products, NEW newProduct \in ProductRow,
         NEW newDraft \in DraftRow, NEW number \in Nat,
         Start(e, Loaded(p, newProduct, newDraft, number)),
         number # 0 => number <= Len(versions[p]) + 1 /\ Valid(newDraft.content),
         \/ newProduct.active = product[p].active
         \/ newProduct.active # 0 /\ newProduct.active = number
         \/ newProduct.active \in DOMAIN versions[p],
         newProduct.lifecycle = "active" => newProduct.active # 0
  PROVE  PlaybookInv' /\ RowsGrow
<1>. DEFINE request == Loaded(p, newProduct, newDraft, number)
<1>1. product[p] \in ProductRow /\ draft[p] \in DraftRow
  BY DEF PlaybookInv, PlaybookTypeOK
<1>2. request \in EditorType
  BY <1>1 DEF Loaded, EditorType
<1>3. request.at = "loaded" /\ WriterIsSound(request)
  BY DEF Loaded, WriterIsSound
<1>. QED
  BY <1>2, <1>3, EditorStarts

LEMMA ProductIsCreated ==
  ASSUME PlaybookInv, NEW p \in Products, NEW code \in Codes, CreateProduct(p, code)
  PROVE  PlaybookInv' /\ RowsGrow
<1>1. /\ product' = [product EXCEPT ![p] = [code |-> code, lifecycle |-> "draft", active |-> 0]]
      /\ draft' = [draft EXCEPT ![p] = [revision |-> 1, base |-> 0,
                                        content |-> [code |-> code, body |-> Blank]]]
      /\ UNCHANGED <<versions, editor>>
      /\ product[p].active = 0
  BY DEF CreateProduct, Exists, Absent
<1>2. PlaybookTypeOK'
  BY <1>1, BodiesAssumption
  DEF PlaybookInv, PlaybookTypeOK, ProductRow, DraftRow, Lifecycles, Contents
<1>3. VersionsAreValid' /\ ReadersAreSound'
  BY <1>1 DEF PlaybookInv, VersionsAreValid, ReadersAreSound
<1>4. \A q \in Products : product'[q].active = product[q].active
  BY <1>1 DEF PlaybookInv, PlaybookTypeOK
<1>5. ProductsAreSound'
  BY <1>1, <1>4 DEF PlaybookInv, PlaybookTypeOK, ProductsAreSound
<1>6. \A r \in Editors : editor[r].at = "loaded" => editor[r].p \in Products
  BY DEF PlaybookInv, PlaybookTypeOK, EditorType, Idle
<1>7. WritersAreSound'
  BY <1>1, <1>4, <1>6 DEF PlaybookInv, WritersAreSound, WriterIsSound
<1>8. RowsGrow
  BY <1>1, <1>4 DEF RowsGrow, PlaybookInv, PlaybookTypeOK
<1>. QED
  BY <1>2, <1>3, <1>5, <1>7, <1>8 DEF PlaybookInv

\* The requests of an editor up to their flush.
LEMMA EditorReads ==
  ASSUME PlaybookInv, NEW e \in Editors,
         \/ \E p \in Products, content \in Contents : LoadSave(e, p, content)
         \/ \E p \in Products : ReadForPublish(e, p)
         \/ \E p \in Products, v \in 1..MaxVersions : ReadForRestore(e, p, v)
         \/ \E p \in Products, v \in 1..MaxVersions : LoadActivate(e, p, v)
         \/ \E p \in Products : LoadArchive(e, p)
  PROVE  PlaybookInv' /\ RowsGrow
<1>. /\ product \in [Products -> ProductRow] /\ draft \in [Products -> DraftRow]
     /\ versions \in [Products -> Seq(Contents)]
  BY DEF PlaybookInv, PlaybookTypeOK
<1>s. ProductsAreSound
  BY DEF PlaybookInv
<1>1. ASSUME NEW p \in Products, NEW content \in Contents, LoadSave(e, p, content)
      PROVE  PlaybookInv' /\ RowsGrow
  <2>. DEFINE np == [product[p] EXCEPT !.code = content.code]
              nd == [draft[p] EXCEPT !.revision = @ + 1, !.content = content]
  <2>1. np \in ProductRow /\ np.active = product[p].active /\ np.lifecycle = product[p].lifecycle
    BY DEF ProductRow, Contents
  <2>2. nd \in DraftRow
    <3>1. draft[p] \in DraftRow /\ draft[p].revision + 1 \in Nat
      BY DEF DraftRow
    <3>. QED
      BY <3>1, EditedDraft
  <2>3. Start(e, Loaded(p, np, nd, 0))
    BY <1>1 DEF LoadSave
  <2>. HIDE DEF np, nd
  <2>. QED
    BY <2>1, <2>2, <2>3, <1>s, EditorLoads DEF ProductsAreSound
<1>2. ASSUME NEW p \in Products, ReadForPublish(e, p)
      PROVE  PlaybookInv' /\ RowsGrow
  <2>. DEFINE request == Reading("publish", p, draft[p], 0)
  <2>1. request \in EditorType /\ request.at = "read" /\ request.op = "publish" /\ request.read = draft[p]
    BY DEF EditorType, Reading
  <2>2. Valid(draft[p].content)
    BY <1>2, BodiesAssumption DEF ReadForPublish, Valid, DraftRow, NoDraft
  <2>3. Start(e, request)
    BY <1>2 DEF ReadForPublish
  <2>. HIDE DEF request
  <2>. QED
    BY <2>1, <2>2, <2>3, EditorStarts
<1>3. ASSUME NEW p \in Products, NEW v \in 1..MaxVersions, ReadForRestore(e, p, v)
      PROVE  PlaybookInv' /\ RowsGrow
  <2>. DEFINE request == Reading("restore", p, draft[p], v)
  <2>1. /\ request \in EditorType /\ request.at = "read" /\ request.op = "restore"
        /\ request.version = v /\ request.p = p
    BY PlaybookBounds DEF EditorType, Reading
  <2>2. v \in DOMAIN versions[p] /\ Start(e, request)
    BY <1>3 DEF ReadForRestore
  <2>. HIDE DEF request
  <2>. QED
    BY <2>1, <2>2, EditorStarts
<1>4. ASSUME NEW p \in Products, NEW v \in 1..MaxVersions, LoadActivate(e, p, v)
      PROVE  PlaybookInv' /\ RowsGrow
  <2>. DEFINE np == [product[p] EXCEPT !.active = v, !.lifecycle = "active"]
  <2>1. np \in ProductRow /\ np.active = v /\ v # 0
    <3>1. v \in Nat /\ v # 0
      BY PlaybookBounds
    <3>. QED
      BY <3>1, EditedProduct
  <2>2. v \in DOMAIN versions[p] /\ Start(e, Loaded(p, np, draft[p], 0))
    BY <1>4 DEF LoadActivate
  <2>. HIDE DEF np
  <2>. QED
    BY <2>1, <2>2, EditorLoads
<1>5. ASSUME NEW p \in Products, LoadArchive(e, p)
      PROVE  PlaybookInv' /\ RowsGrow
  <2>. DEFINE np == [product[p] EXCEPT !.lifecycle = "archived"]
  <2>1. np \in ProductRow /\ np.active = product[p].active /\ np.lifecycle = "archived"
    BY DEF ProductRow, Lifecycles
  <2>2. Start(e, Loaded(p, np, draft[p], 0))
    BY <1>5 DEF LoadArchive
  <2>. HIDE DEF np
  <2>. QED
    BY <2>1, <2>2, EditorLoads
<1>. QED
  BY <1>1, <1>2, <1>3, <1>4, <1>5

\* What was validated is what is loaded for the new version.
LEMMA PublishLoads ==
  ASSUME PlaybookInv, NEW e \in Editors, NEW activate \in BOOLEAN, LoadPublish(e, activate)
  PROVE  PlaybookInv' /\ RowsGrow
<1>. DEFINE p == editor[e].p
            number == Len(versions[p]) + 1
            np == IF activate THEN [product[p] EXCEPT !.active = number, !.lifecycle = "active"]
                              ELSE product[p]
            nd == [DraftToPublish(e) EXCEPT !.revision = draft[p].revision + 1, !.base = number]
<1>1. /\ product \in [Products -> ProductRow] /\ draft \in [Products -> DraftRow]
      /\ versions \in [Products -> Seq(Contents)] /\ editor[e] \in EditorType
      /\ ProductsAreSound
  BY DEF PlaybookInv, PlaybookTypeOK
<1>2. editor[e].at = "read" /\ editor[e].op = "publish"
  BY DEF LoadPublish
<1>3. p \in Products /\ editor[e].read \in DraftRow
  BY <1>1, <1>2 DEF EditorType, Idle
<1>4. Valid(editor[e].read.content)
  BY <1>2 DEF PlaybookInv, ReadersAreSound
<1>5. number \in Nat /\ number # 0
  BY <1>1, <1>3
<1>6. np \in ProductRow /\ (np.active = number \/ np = product[p])
  BY <1>1, <1>3, <1>5 DEF ProductRow, Lifecycles
<1>7. nd \in DraftRow /\ nd.content = editor[e].read.content
  <2>1. draft[p].revision + 1 \in Nat
    BY <1>1, <1>3 DEF DraftRow
  <2>2. editor[e].read.content \in Contents
    BY <1>4 DEF Valid
  <2>. QED
    BY <1>3, <1>5, <2>1, <2>2, EditedDraft DEF DraftToPublish
<1>8. Start(e, Loaded(p, np, nd, number))
  BY DEF LoadPublish
<1>9. np.lifecycle = "active" => np.active # 0
  BY <1>1, <1>3, <1>5, <1>6 DEF ProductsAreSound
<1>10. number <= Len(versions[p]) + 1
  BY <1>5
<1>. HIDE DEF np, nd, number, p
<1>. QED
  BY <1>3, <1>4, <1>5, <1>6, <1>7, <1>8, <1>9, <1>10, EditorLoads

LEMMA RestoreLoads ==
  ASSUME PlaybookInv, NEW e \in Editors, LoadRestore(e)
  PROVE  PlaybookInv' /\ RowsGrow
<1>. DEFINE p == editor[e].p
            v == editor[e].version
            nd == [revision |-> editor[e].read.revision + 1, base |-> v, content |-> versions[p][v]]
<1>1. /\ product \in [Products -> ProductRow] /\ draft \in [Products -> DraftRow]
      /\ versions \in [Products -> Seq(Contents)] /\ editor[e] \in EditorType
      /\ ProductsAreSound
  BY DEF PlaybookInv, PlaybookTypeOK
<1>2. editor[e].at = "read" /\ editor[e].op = "restore"
  BY DEF LoadRestore
<1>3. p \in Products /\ editor[e].read \in DraftRow /\ v \in Nat
  BY <1>1, <1>2 DEF EditorType, Idle
<1>4. v \in DOMAIN versions[p]
  BY <1>2 DEF PlaybookInv, ReadersAreSound
<1>5. versions[p][v] \in Contents
  BY <1>1, <1>3, <1>4
<1>6. nd \in DraftRow
  BY <1>3, <1>5 DEF DraftRow
<1>7. Start(e, Loaded(p, product[p], nd, 0))
  BY DEF LoadRestore
<1>8. product[p] \in ProductRow /\ (product[p].lifecycle = "active" => product[p].active # 0)
  BY <1>1, <1>3 DEF ProductsAreSound
<1>. HIDE DEF nd, p, v
<1>. QED
  BY <1>3, <1>6, <1>7, <1>8, EditorLoads

LEMMA EditorRollsBack ==
  ASSUME PlaybookInv, NEW e \in Editors, RollBack(e)
  PROVE  PlaybookInv' /\ RowsGrow
<1>1. Start(e, Idle)
  BY DEF RollBack, Start
<1>2. Idle \in EditorType /\ Idle.at = "idle"
  BY DEF EditorType, Idle
<1>. QED
  BY <1>1, <1>2, EditorStarts

\* What a flush writes over rows that may have changed since they were loaded.
LEMMA RowsAreFlushed ==
  ASSUME PlaybookInv, NEW e \in Editors, FlushAndCommit(e)
  PROVE  PlaybookInv' /\ RowsGrow
<1>. DEFINE r == editor[e]
            number == r.number
<1>1. /\ product \in [Products -> ProductRow] /\ draft \in [Products -> DraftRow]
      /\ versions \in [Products -> Seq(Contents)] /\ editor \in [Editors -> EditorType]
      /\ ProductsAreSound
  BY DEF PlaybookInv, PlaybookTypeOK
<1>2. r.at = "loaded" /\ ~ Conflicts(e)
  BY DEF FlushAndCommit
<1>3. /\ r.p \in Products /\ number \in Nat
      /\ r.oldProduct \in ProductRow /\ r.newProduct \in ProductRow
      /\ r.oldDraft \in DraftRow /\ r.newDraft \in DraftRow
  BY <1>1, <1>2 DEF EditorType, Idle
<1>4. WriterIsSound(r)
  BY <1>2 DEF PlaybookInv, WritersAreSound
<1>. DEFINE p == r.p
            np == Changed(product[p], r.oldProduct, r.newProduct)
            nd == Changed(draft[p], r.oldDraft, r.newDraft)
            nv == IF number = 0 THEN versions[p] ELSE Append(versions[p], r.newDraft.content)
<1>5. /\ product' = [product EXCEPT ![p] = np]
      /\ draft' = [draft EXCEPT ![p] = nd]
      /\ versions' = [versions EXCEPT ![p] = nv]
      /\ editor' = [editor EXCEPT ![e] = Idle]
  BY DEF FlushAndCommit, Frozen
<1>6. np \in ProductRow /\ nd \in DraftRow
  BY <1>1, <1>3, ChangedProduct, ChangedDraft
<1>7. /\ nv \in Seq(Contents)
      /\ Len(versions[p]) <= Len(nv)
      /\ \A v \in DOMAIN versions[p] : v \in DOMAIN nv /\ nv[v] = versions[p][v]
      /\ number # 0 => number \in DOMAIN nv
      /\ \A v \in DOMAIN nv : nv[v].body \in Publishable
  <2>1. versions[p] \in Seq(Contents) /\ \A v \in DOMAIN versions[p] : versions[p][v].body \in Publishable
    BY <1>1, <1>3 DEF PlaybookInv, VersionsAreValid
  <2>2. CASE number = 0
    BY <2>1, <2>2
  <2>3. CASE number # 0
    <3>1. Valid(r.newDraft.content) /\ number <= Len(versions[p]) + 1
      BY <1>4, <2>3 DEF WriterIsSound
    <3>2. number \notin DOMAIN versions[p]
      BY <1>2, <2>3 DEF Conflicts
    <3>3. number = Len(versions[p]) + 1
      BY <1>3, <2>1, <2>3, <3>1, <3>2
    <3>4. nv = Append(versions[p], r.newDraft.content) /\ r.newDraft.content \in Contents
      BY <2>3, <3>1 DEF Valid
    <3>5. /\ Len(nv) = Len(versions[p]) + 1 /\ nv \in Seq(Contents)
          /\ \A v \in DOMAIN versions[p] : nv[v] = versions[p][v]
          /\ nv[Len(versions[p]) + 1] = r.newDraft.content
      BY <2>1, <3>4
    <3>6. DOMAIN nv = 1..(Len(versions[p]) + 1) /\ DOMAIN versions[p] = 1..Len(versions[p])
      BY <2>1, <3>5
    <3>. HIDE DEF nv, number, r, p
    <3>. QED
      BY <2>1, <3>1, <3>3, <3>5, <3>6 DEF Valid
  <2>. HIDE DEF nv, number, r, p
  <2>. QED
    BY <2>2, <2>3
<1>8. /\ np.active = 0 \/ np.active \in DOMAIN nv
      /\ np.lifecycle = "active" => np.active # 0
      /\ product[p].active # 0 => np.active # 0
  <2>1. /\ product[p] \in ProductRow
        /\ product[p].active = 0 \/ product[p].active \in DOMAIN versions[p]
        /\ product[p].lifecycle = "active" => product[p].active # 0
    BY <1>1, <1>3 DEF ProductsAreSound
  <2>2. /\ np.lifecycle = IF r.newProduct.lifecycle # r.oldProduct.lifecycle
                          THEN r.newProduct.lifecycle ELSE product[p].lifecycle
        /\ np.active = IF r.newProduct.active # r.oldProduct.active
                       THEN r.newProduct.active ELSE product[p].active
    BY <1>3, <2>1, ChangedProduct
  <2>3. \A v \in DOMAIN versions[p] : v # 0
    BY <1>1, <1>3
  <2>4. r.newProduct.active # r.oldProduct.active =>
          r.newProduct.active # 0 /\ r.newProduct.active \in DOMAIN nv
    <3>. HIDE DEF nv
    <3>. QED
      BY <1>4, <1>7, <2>3 DEF WriterIsSound
  <2>5. r.newProduct.active = r.oldProduct.active /\ r.newProduct.lifecycle = "active"
          => product[p].active # 0
    BY <1>4 DEF WriterIsSound
  <2>. HIDE DEF nv, np, r, p
  <2>. QED
    BY <1>7, <2>1, <2>2, <2>4, <2>5
<1>9. RowsGrow
  <2>. HIDE DEF nv, np, p
  <2>. QED
    BY <1>1, <1>3, <1>5, <1>7, <1>8 DEF RowsGrow
<1>. HIDE DEF nv, np, nd, p, number
<1>10. PlaybookTypeOK'
  BY <1>1, <1>5, <1>6, <1>7 DEF PlaybookTypeOK, EditorType
<1>11. VersionsAreValid'
  BY <1>1, <1>5, <1>7 DEF PlaybookInv, VersionsAreValid
<1>12. ProductsAreSound'
  BY <1>1, <1>5, <1>8 DEF ProductsAreSound
<1>13. ReadersAreSound'
  <2>1. ASSUME NEW q \in Editors, editor'[q].at = "read"
        PROVE  editor'[q] = editor[q] /\ editor[q].p \in Products
    BY <1>1, <1>5, <2>1 DEF Idle, EditorType
  <2>. QED
    BY <1>9, <2>1 DEF PlaybookInv, ReadersAreSound, RowsGrow
<1>14. WritersAreSound'
  <2>1. ASSUME NEW q \in Editors, editor'[q].at = "loaded"
        PROVE  editor'[q] = editor[q] /\ editor[q].p \in Products /\ editor[q].number \in Nat
    BY <1>1, <1>5, <2>1 DEF Idle, EditorType
  <2>2. ASSUME NEW q \in Editors, editor'[q].at = "loaded"
        PROVE  WriterIsSound(editor[q])'
    <3>1. WriterIsSound(editor[q])
      BY <2>1, <2>2 DEF PlaybookInv, WritersAreSound
    <3>2. /\ Len(versions[editor[q].p]) <= Len(versions'[editor[q].p])
          /\ Len(versions[editor[q].p]) \in Nat /\ Len(versions'[editor[q].p]) \in Nat
      BY <1>1, <1>9, <1>10, <2>1, <2>2 DEF RowsGrow, PlaybookTypeOK
    <3>3. editor'[q] = editor[q] /\ editor[q].p \in Products /\ editor[q].number \in Nat
      BY <2>1, <2>2
    <3>4. /\ \A v \in DOMAIN versions[editor[q].p] : v \in DOMAIN versions'[editor[q].p]
          /\ product[editor[q].p].active # 0 => product'[editor[q].p].active # 0
      BY <1>9, <3>3 DEF RowsGrow
    <3>. DEFINE w == editor[q]
    <3>5. w.number # 0 => w.number <= Len(versions'[w.p]) + 1 /\ Valid(w.newDraft.content)
      <4>1. w.number # 0 => w.number <= Len(versions[w.p]) + 1 /\ Valid(w.newDraft.content)
        BY <3>1, Zenon DEF WriterIsSound
      <4>2. w.number \in Nat /\ Len(versions[w.p]) <= Len(versions'[w.p])
            /\ Len(versions[w.p]) \in Nat /\ Len(versions'[w.p]) \in Nat
        BY <3>2, <3>3
      <4>. HIDE DEF w
      <4>. QED
        BY <4>1, <4>2
    <3>6. \/ w.newProduct.active = w.oldProduct.active
          \/ w.newProduct.active # 0 /\ w.newProduct.active = w.number
          \/ w.newProduct.active \in DOMAIN versions'[w.p]
      <4>1. \/ w.newProduct.active = w.oldProduct.active
            \/ w.newProduct.active # 0 /\ w.newProduct.active = w.number
            \/ w.newProduct.active \in DOMAIN versions[w.p]
        BY <3>1 DEF WriterIsSound
      <4>2. \A v \in DOMAIN versions[w.p] : v \in DOMAIN versions'[w.p]
        BY <3>4
      <4>. QED
        BY <4>1, <4>2, Zenon
    <3>7. /\ w.oldProduct.active # 0 => product'[w.p].active # 0
          /\ w.newProduct.lifecycle = "active" => w.newProduct.active # 0
      BY <3>1, <3>4 DEF WriterIsSound
    <3>. QED
      BY <3>3, <3>5, <3>6, <3>7 DEF WriterIsSound, Valid
  <2>. QED
    BY <2>2 DEF WritersAreSound
<1>. QED
  BY <1>9, <1>10, <1>11, <1>12, <1>13, <1>14 DEF PlaybookInv

LEMMA PlaybookStep ==
  ASSUME PlaybookInv, [PlaybookNext]_playbookVars
  PROVE  PlaybookInv' /\ RowsGrow
<1>1. CASE UNCHANGED playbookVars
  <2>. USE <1>1 DEF playbookVars
  <2>1. PlaybookTypeOK' /\ VersionsAreValid' /\ ProductsAreSound'
    BY DEF PlaybookInv, PlaybookTypeOK, VersionsAreValid, ProductsAreSound
  <2>2. ReadersAreSound' /\ WritersAreSound'
    BY DEF PlaybookInv, ReadersAreSound, WritersAreSound, WriterIsSound
  <2>3. RowsGrow
    BY DEF RowsGrow, PlaybookInv, PlaybookTypeOK
  <2>. QED
    BY <2>1, <2>2, <2>3 DEF PlaybookInv
<1>2. ASSUME NEW p \in Products, NEW code \in Codes, CreateProduct(p, code)
      PROVE  PlaybookInv' /\ RowsGrow
  BY <1>2, ProductIsCreated
<1>3. ASSUME NEW e \in Editors,
             \/ \E p \in Products, content \in Contents : LoadSave(e, p, content)
             \/ \E p \in Products : ReadForPublish(e, p)
             \/ \E p \in Products, v \in 1..MaxVersions : ReadForRestore(e, p, v)
             \/ \E p \in Products, v \in 1..MaxVersions : LoadActivate(e, p, v)
             \/ \E p \in Products : LoadArchive(e, p)
      PROVE  PlaybookInv' /\ RowsGrow
  BY <1>3, EditorReads
<1>4. ASSUME NEW e \in Editors, NEW activate \in BOOLEAN, LoadPublish(e, activate)
      PROVE  PlaybookInv' /\ RowsGrow
  BY <1>4, PublishLoads
<1>5. ASSUME NEW e \in Editors, LoadRestore(e) PROVE PlaybookInv' /\ RowsGrow
  BY <1>5, RestoreLoads
<1>6. ASSUME NEW e \in Editors, FlushAndCommit(e) PROVE PlaybookInv' /\ RowsGrow
  BY <1>6, RowsAreFlushed
<1>7. ASSUME NEW e \in Editors, RollBack(e) PROVE PlaybookInv' /\ RowsGrow
  BY <1>7, EditorRollsBack
<1>. QED
  BY <1>1, <1>2, <1>3, <1>4, <1>5, <1>6, <1>7 DEF PlaybookNext

LEMMA PlaybookInvGivesValid == PlaybookInv => OnlyValidIsPublished
BY DEF PlaybookInv, VersionsAreValid, ProductsAreSound, OnlyValidIsPublished

\* The rows of the playbook tables, and those that requests hold, are well
\* formed: sales_playbook_repositories.py.
THEOREM PlaybookTypeIsCorrect == PlaybookSpec => []PlaybookTypeOK
<1>1. PlaybookInv /\ [PlaybookNext]_playbookVars => PlaybookInv'
  BY PlaybookStep
<1>2. PlaybookInv => PlaybookTypeOK
  BY DEF PlaybookInv
<1>. QED
  BY <1>1, <1>2, PlaybookStarts, PTL DEF PlaybookSpec

\* Whatever editors save, restore, publish, activate and archive at the same
\* time, no version holds an incomplete playbook and an active product has a
\* published version (service.py publish, sales_playbook_repositories.py publish).
THEOREM OnlyValidVersionsArePublished == PlaybookSpec => []OnlyValidIsPublished
<1>1. PlaybookInv /\ [PlaybookNext]_playbookVars => PlaybookInv'
  BY PlaybookStep
<1>. QED
  BY <1>1, PlaybookInvGivesValid, PlaybookStarts, PTL DEF PlaybookSpec

-----------------------------------------------------------------------------
(* Policies and handoffs *)

\* what HandoffIsAdmitted says of one handoff
Admitted(h) ==
  LET pinned == {p \in Products : h.pins[p] # 0}
  IN  /\ pinned # {} /\ pinned = h.fingerprint[2] /\ pinned \subseteq Bound(h.admitted)
      /\ \A p \in pinned : /\ h.pins[p] \in DOMAIN versions[p]
                            /\ versions[p][h.pins[p]].body \in Publishable
      /\ h.admitted <= h.policy /\ h.policy <= PolicyHead

\* what a request knows of the rows it has read
CallerIsSound(r) ==
  /\ r.at \in {"inspected", "admitted", "reread"} =>
       r.selected # {} /\ r.selected \subseteq Bound(r.admitted) /\ r.admitted <= PolicyHead
  /\ r.at \in {"admitted", "reread"} => \A p \in r.selected : product[p].active # 0
  /\ r.at = "reread" => r.admitted <= r.policy /\ r.policy <= PolicyHead
  /\ r.at \in {"compiled", "missed"} =>
       Admitted(r.handoff) /\ r.handoff.fingerprint \in Nat \X (SUBSET Products) \X Nat
  /\ r.at = "answered" => handoffs[r.key] # NoHandoff /\ handoffs[r.key].fingerprint = r.asked

HandoffTypeOK ==
  /\ candidate \in Candidates
  /\ signals \in 0..MaxSignals
  /\ policies \in Seq([products : SUBSET Products, seen : Nat])
  /\ handoffs \in [Keys -> HandoffType]
  /\ caller \in [Callers -> CallerType]

Inv ==
  /\ PlaybookInv
  /\ HandoffTypeOK
  /\ PolicyHistoryIsLinear
  /\ HandoffIsAdmitted
  /\ \A c \in Callers : CallerIsSound(caller[c])

PoliciesGrow ==
  /\ Len(policies) <= Len(policies')
  /\ \A n \in DOMAIN policies : n \in DOMAIN policies' /\ policies'[n] = policies[n]

LEMMA HandoffStarts == Init => Inv
<1>. SUFFICES ASSUME Init PROVE Inv
  OBVIOUS
<1>1. PlaybookInv
  BY PlaybookStarts DEF Init
<1>2. HandoffTypeOK
  BY HandoffBounds DEF Init, HandoffInit, HandoffTypeOK, HandoffType, NoHandoff, CallerType
<1>3. PolicyHistoryIsLinear /\ HandoffIsAdmitted /\ \A c \in Callers : CallerIsSound(caller[c])
  BY DEF Init, HandoffInit, PolicyHistoryIsLinear, HandoffIsAdmitted, CallerIsSound, Waiting
<1>. QED
  BY <1>1, <1>2, <1>3 DEF Inv

LEMMA CallerFields ==
  ASSUME NEW r \in CallerType
  PROVE  /\ r.at \in {"idle", "policy read", "policy checked", "inspected", "admitted", "reread",
                      "compiled", "missed", "answered"}
         /\ r.at \in {"policy read", "policy checked"} => r \in PolicyRequest
         /\ r.at \in {"inspected", "admitted"} => r \in PreflightRequest
         /\ r.at = "reread" => r \in RereadRequest
         /\ r.at \in {"compiled", "missed"} => r \in CompiledRequest
         /\ r.at = "answered" => r \in AnsweredRequest
<1>1. Waiting.at = "idle"
  BY DEF Waiting
<1>2. /\ \A q \in PolicyRequest : q.at \in {"policy read", "policy checked"}
      /\ \A q \in PreflightRequest : q.at \in {"inspected", "admitted"}
      /\ \A q \in RereadRequest : q.at = "reread"
      /\ \A q \in CompiledRequest : q.at \in {"compiled", "missed"}
      /\ \A q \in AnsweredRequest : q.at = "answered"
  BY DEF PolicyRequest, PreflightRequest, RereadRequest, CompiledRequest, AnsweredRequest
<1>. QED
  BY <1>1, <1>2 DEF CallerType

\* The policies a request has seen still bind what they bound.
LEMMA BoundStays ==
  ASSUME policies \in Seq([products : SUBSET Products, seen : Nat]), PoliciesGrow,
         NEW n \in Nat, n <= PolicyHead
  PROVE  Bound(n)' = Bound(n)
<1>1. n = 0 \/ n \in DOMAIN policies
  BY DEF PolicyHead
<1>. QED
  BY <1>1 DEF Bound, PoliciesGrow

LEMMA AdmittedStays ==
  ASSUME Inv, RowsGrow, PoliciesGrow, HandoffTypeOK', NEW h \in HandoffType, Admitted(h)
  PROVE  Admitted(h)'
<1>. DEFINE pinned == {p \in Products : h.pins[p] # 0}
<1>1. h.admitted \in Nat /\ h.policy \in Nat /\ PolicyHead \in Nat /\ PolicyHead' \in Nat
  BY DEF Inv, HandoffTypeOK, HandoffType, PolicyHead
<1>2. PolicyHead <= PolicyHead'
  BY DEF PoliciesGrow, PolicyHead
<1>3. h.admitted <= h.policy /\ h.policy <= PolicyHead
  BY DEF Admitted
<1>4. Bound(h.admitted)' = Bound(h.admitted)
  BY <1>1, <1>3, BoundStays DEF Inv, HandoffTypeOK
<1>5. pinned # {} /\ pinned = h.fingerprint[2] /\ pinned \subseteq Bound(h.admitted)'
  BY <1>4 DEF Admitted
<1>6. \A p \in pinned : /\ h.pins[p] \in DOMAIN versions'[p]
                         /\ versions'[p][h.pins[p]].body \in Publishable
  BY DEF Admitted, RowsGrow
<1>7. h.policy <= PolicyHead'
  BY <1>1, <1>2, <1>3
<1>. QED
  BY <1>3, <1>5, <1>6, <1>7 DEF Admitted

\* A request that waits while others take steps.
LEMMA CallerStays ==
  ASSUME Inv, RowsGrow, PoliciesGrow, HandoffTypeOK',
         \A k \in Keys : handoffs[k] # NoHandoff => handoffs'[k] = handoffs[k],
         NEW r \in CallerType, CallerIsSound(r)
  PROVE  CallerIsSound(r)'
<1>0. PolicyHead \in Nat /\ PolicyHead' \in Nat /\ PolicyHead <= PolicyHead'
  BY DEF Inv, HandoffTypeOK, PoliciesGrow, PolicyHead
<1>1. CASE r.at \in {"inspected", "admitted", "reread"}
  <2>1. /\ r.admitted \in Nat /\ r.selected \subseteq Products
        /\ r.at = "reread" => r.policy \in Nat
    BY <1>1, CallerFields DEF PreflightRequest, RereadRequest
  <2>2. r.selected # {} /\ r.selected \subseteq Bound(r.admitted) /\ r.admitted <= PolicyHead
    BY <1>1 DEF CallerIsSound
  <2>3. Bound(r.admitted)' = Bound(r.admitted)
    BY <2>1, <2>2, BoundStays DEF Inv, HandoffTypeOK
  <2>4. r.admitted <= PolicyHead'
    BY <1>0, <2>1, <2>2
  <2>5. r.at \in {"admitted", "reread"} => \A p \in r.selected : product'[p].active # 0
    BY <2>1 DEF CallerIsSound, RowsGrow
  <2>6. r.at = "reread" => r.admitted <= r.policy /\ r.policy <= PolicyHead'
    BY <1>0, <2>1 DEF CallerIsSound
  <2>. QED
    BY <1>1, <2>2, <2>3, <2>4, <2>5, <2>6 DEF CallerIsSound
<1>2. CASE r.at \in {"compiled", "missed"}
  <2>1. r.handoff \in HandoffType
    BY <1>2, CallerFields DEF CompiledRequest
  <2>2. Admitted(r.handoff) /\ r.handoff.fingerprint \in Nat \X (SUBSET Products) \X Nat
    BY <1>2 DEF CallerIsSound
  <2>3. Admitted(r.handoff)'
    BY <2>1, <2>2, AdmittedStays
  <2>. QED
    BY <1>2, <2>2, <2>3 DEF CallerIsSound
<1>3. CASE r.at = "answered"
  <2>1. r.key \in Keys
    BY <1>3, CallerFields DEF AnsweredRequest
  <2>. QED
    BY <1>3, <2>1 DEF CallerIsSound
<1>4. CASE r.at \in {"idle", "policy read", "policy checked"}
  BY <1>4 DEF CallerIsSound
<1>5. r.at \in {"idle", "policy read", "policy checked", "inspected", "admitted", "reread",
                "compiled", "missed", "answered"}
  BY CallerFields
<1>. QED
  BY <1>1, <1>2, <1>3, <1>4, <1>5

\* What every step has to show.
LEMMA InvFrame ==
  ASSUME Inv, PlaybookInv', RowsGrow, PoliciesGrow, HandoffTypeOK', PolicyHistoryIsLinear',
         \A k \in Keys : \/ handoffs'[k] = handoffs[k]
                         \/ handoffs[k] = NoHandoff /\ Admitted(handoffs[k])',
         \A c \in Callers : caller'[c] = caller[c] \/ CallerIsSound(caller[c])'
  PROVE  Inv'
<1>1. HandoffIsAdmitted'
  <2>1. ASSUME NEW k \in Keys, handoffs'[k] # NoHandoff
        PROVE  Admitted(handoffs[k])'
    <3>1. CASE handoffs'[k] = handoffs[k]
      <4>1. Admitted(handoffs[k])
        BY <2>1, <3>1 DEF Inv, HandoffIsAdmitted, Admitted
      <4>2. handoffs[k] \in HandoffType
        BY DEF Inv, HandoffTypeOK
      <4>. QED
        BY <3>1, <4>1, <4>2, AdmittedStays
    <3>. QED
      BY <2>1, <3>1
  <2>. QED
    BY <2>1 DEF HandoffIsAdmitted, Admitted
<1>2. \A c \in Callers : CallerIsSound(caller[c])'
  <2>1. ASSUME NEW c \in Callers, caller'[c] = caller[c] PROVE CallerIsSound(caller[c])'
    <3>1. caller[c] \in CallerType /\ CallerIsSound(caller[c])
      BY DEF Inv, HandoffTypeOK
    <3>2. \A k \in Keys : handoffs[k] # NoHandoff => handoffs'[k] = handoffs[k]
      OBVIOUS
    <3>3. \A r \in CallerType : CallerIsSound(r) => CallerIsSound(r)'
      BY <3>2, CallerStays
    <3>. QED
      BY <2>1, <3>1, <3>3
  <2>. QED
    BY <2>1
<1>. QED
  BY <1>1, <1>2 DEF Inv

\* A request that takes its next step without writing.
LEMMA CallerBegins ==
  ASSUME Inv, UNCHANGED playbookVars, NEW c \in Callers, NEW r \in CallerType, Begin(c, r),
         CallerIsSound(r)
  PROVE  Inv'
<1>1. /\ caller' = [caller EXCEPT ![c] = r]
      /\ UNCHANGED <<candidate, signals, policies, handoffs, product, draft, versions, editor>>
  BY DEF Begin, playbookVars
<1>2. PlaybookInv' /\ RowsGrow
  BY PlaybookStep DEF Inv
<1>3. HandoffTypeOK' /\ PolicyHistoryIsLinear' /\ PoliciesGrow
  BY <1>1 DEF Inv, HandoffTypeOK, PolicyHistoryIsLinear, PoliciesGrow
<1>4. CallerIsSound(r)'
  BY <1>1, <1>2, <1>3, CallerStays
<1>5. \A q \in Callers : caller'[q] = caller[q] \/ caller'[q] = r
  BY <1>1 DEF Inv, HandoffTypeOK
<1>6. \A q \in Callers : caller'[q] = caller[q] \/ CallerIsSound(caller[q])'
  BY <1>4, <1>5
<1>. QED
  BY <1>1, <1>2, <1>3, <1>6, InvFrame

LEMMA PolicyIsRead ==
  ASSUME Inv, UNCHANGED playbookVars, NEW c \in Callers, NEW bindings \in SUBSET Products,
         ReadPolicy(c, bindings)
  PROVE  Inv'
<1>. DEFINE r == [at |-> "policy read", products |-> bindings, seen |-> PolicyHead]
<1>0. PolicyHead \in Nat
  BY DEF Inv, HandoffTypeOK, PolicyHead
<1>1. r \in CallerType
  BY <1>0 DEF CallerType, PolicyRequest
<1>2. CallerIsSound(r)
  BY DEF CallerIsSound
<1>3. Begin(c, r)
  BY DEF ReadPolicy
<1>. QED
  BY <1>1, <1>2, <1>3, CallerBegins

LEMMA ProductsAreChecked ==
  ASSUME Inv, UNCHANGED playbookVars, NEW c \in Callers, CheckProducts(c)
  PROVE  Inv'
<1>. DEFINE r == [caller[c] EXCEPT !.at = "policy checked"]
<1>1. caller[c] \in PolicyRequest
  BY CallerFields DEF Inv, HandoffTypeOK, CheckProducts
<1>2. r \in CallerType /\ r.at = "policy checked"
  BY <1>1 DEF CallerType, PolicyRequest
<1>3. CallerIsSound(r)
  BY <1>2 DEF CallerIsSound
<1>4. Begin(c, r)
  BY DEF CheckProducts
<1>. QED
  BY <1>2, <1>3, <1>4, CallerBegins

\* The version is numbered after the one its requester has seen.
LEMMA PolicyIsSaved ==
  ASSUME Inv, UNCHANGED playbookVars, NEW c \in Callers, SavePolicy(c)
  PROVE  Inv'
<1>. DEFINE version == [products |-> caller[c].products, seen |-> caller[c].seen]
<1>1. caller[c] \in PolicyRequest /\ policies \in Seq([products : SUBSET Products, seen : Nat])
  BY CallerFields DEF Inv, HandoffTypeOK, SavePolicy
<1>2. /\ policies' = Append(policies, version)
      /\ caller' = [caller EXCEPT ![c] = Waiting]
      /\ UNCHANGED <<candidate, signals, handoffs>>
  BY DEF SavePolicy
<1>3. version \in [products : SUBSET Products, seen : Nat]
  BY <1>1 DEF PolicyRequest
<1>4. PlaybookInv' /\ RowsGrow
  BY PlaybookStep DEF Inv
<1>5. version.seen = Len(policies)
  <2>1. caller[c].seen \in Nat /\ Len(policies) \in Nat
    <3>1. \A r \in PolicyRequest : r.seen \in Nat
      BY DEF PolicyRequest
    <3>. QED
      BY <1>1, <3>1
  <2>2. caller[c].seen + 1 = Len(policies) + 1
    BY DEF SavePolicy, NumberIsFree, PolicyHead
  <2>. QED
    BY <2>1, <2>2
<1>6. /\ Len(policies') = Len(policies) + 1
      /\ policies' \in Seq([products : SUBSET Products, seen : Nat])
      /\ \A n \in 1..Len(policies) : policies'[n] = policies[n]
      /\ policies'[Len(policies) + 1] = version
  BY <1>1, <1>2, <1>3
<1>7. PoliciesGrow
  BY <1>1, <1>6, SMTT(30) DEF PoliciesGrow
<1>8. PolicyHistoryIsLinear'
  <2>1. DOMAIN policies = 1..Len(policies) /\ DOMAIN policies' = 1..(Len(policies) + 1)
    BY <1>1, <1>6
  <2>2. \A n \in 1..Len(policies) : policies'[n].seen = n - 1
    BY <1>6, <2>1 DEF PolicyHistoryIsLinear, Inv
  <2>3. policies'[Len(policies) + 1].seen = Len(policies) /\ Len(policies) \in Nat
    BY <1>1, <1>5, <1>6
  <2>. HIDE DEF version
  <2>. QED
    BY <2>1, <2>2, <2>3 DEF PolicyHistoryIsLinear
<1>9. HandoffTypeOK'
  BY <1>2, <1>6 DEF Inv, HandoffTypeOK, CallerType
<1>10. \A q \in Callers : caller'[q] = caller[q] \/ caller'[q] = Waiting
  BY <1>2 DEF Inv, HandoffTypeOK
<1>11. \A q \in Callers : caller'[q] = caller[q] \/ CallerIsSound(caller[q])'
  BY <1>10 DEF CallerIsSound, Waiting
<1>. QED
  BY <1>2, <1>4, <1>7, <1>8, <1>9, <1>11, InvFrame

LEMMA RequestIsRefused ==
  ASSUME Inv, UNCHANGED playbookVars, NEW c \in Callers, Refuse(c)
  PROVE  Inv'
<1>1. Waiting \in CallerType /\ CallerIsSound(Waiting)
  BY DEF CallerType, CallerIsSound, Waiting
<1>2. Begin(c, Waiting)
  BY DEF Refuse
<1>. QED
  BY <1>1, <1>2, CallerBegins

LEMMA SignalRunCompletes ==
  ASSUME Inv, UNCHANGED playbookVars, CompleteSignalRun
  PROVE  Inv'
<1>1. /\ UNCHANGED <<candidate, policies, handoffs, caller>>
      /\ signals < MaxSignals /\ signals' = signals + 1
  BY DEF CompleteSignalRun
<1>2. PlaybookInv' /\ RowsGrow
  BY PlaybookStep DEF Inv
<1>3. HandoffTypeOK' /\ PolicyHistoryIsLinear' /\ PoliciesGrow
  BY <1>1, HandoffBounds DEF Inv, HandoffTypeOK, PolicyHistoryIsLinear, PoliciesGrow
<1>. QED
  BY <1>1, <1>2, <1>3, InvFrame

\* Preflight: the products asked for are bound by the policy read.
LEMMA InputsAreInspected ==
  ASSUME Inv, UNCHANGED playbookVars, NEW c \in Callers, NEW key \in Keys,
         NEW named \in SUBSET Products, NEW everything \in BOOLEAN, NEW acknowledged \in BOOLEAN,
         NEW withSignal \in BOOLEAN, Inspect(c, key, named, everything, acknowledged, withSignal)
  PROVE  Inv'
<1>. DEFINE selected == IF everything THEN Bound(PolicyHead) ELSE named
            r == [at |-> "inspected", key |-> key, selected |-> selected, withSignal |-> withSignal,
                  admitted |-> PolicyHead]
<1>1. Selectable(selected) /\ Begin(c, r)
  BY DEF Inspect
<1>2. PolicyHead \in Nat /\ (PolicyHead # 0 => PolicyHead \in DOMAIN policies)
  BY DEF Inv, HandoffTypeOK, PolicyHead
<1>3. Bound(PolicyHead) \subseteq Products
  <2>1. \A n \in DOMAIN policies : policies[n] \in [products : SUBSET Products, seen : Nat]
    <3>1. policies \in Seq([products : SUBSET Products, seen : Nat])
      BY DEF Inv, HandoffTypeOK
    <3>. DEFINE Version == [products : SUBSET Products, seen : Nat]
    <3>2. policies \in Seq(Version) => \A n \in DOMAIN policies : policies[n] \in Version
      <4>. HIDE DEF Version, r
      <4>. QED
        OBVIOUS
    <3>. QED
      BY <3>1, <3>2
  <2>. QED
    BY <1>2, <2>1 DEF Bound
<1>4. selected \subseteq Products /\ selected # {} /\ selected \subseteq Bound(PolicyHead)
  BY <1>1, <1>3 DEF Selectable
<1>5. r \in CallerType
  BY <1>2, <1>4 DEF CallerType, PreflightRequest
<1>6. CallerIsSound(r)
  BY <1>2, <1>4 DEF CallerIsSound
<1>. QED
  BY <1>1, <1>5, <1>6, CallerBegins

LEMMA ProductsAreAdmitted ==
  ASSUME Inv, UNCHANGED playbookVars, NEW c \in Callers, AdmitProducts(c)
  PROVE  Inv'
<1>. DEFINE r == [caller[c] EXCEPT !.at = "admitted"]
<1>1. caller[c] \in PreflightRequest /\ CallerIsSound(caller[c]) /\ caller[c].at = "inspected"
  BY CallerFields DEF Inv, HandoffTypeOK, AdmitProducts
<1>2. /\ r \in CallerType /\ r.at = "admitted" /\ r.selected = caller[c].selected
      /\ r.admitted = caller[c].admitted
  BY <1>1 DEF CallerType, PreflightRequest
<1>3. \A p \in caller[c].selected : product[p].active # 0
  BY DEF AdmitProducts, Active
<1>4. CallerIsSound(r)
  BY <1>1, <1>2, <1>3 DEF CallerIsSound
<1>5. Begin(c, r)
  BY DEF AdmitProducts
<1>. QED
  BY <1>2, <1>4, <1>5, CallerBegins

LEMMA PolicyIsReread ==
  ASSUME Inv, UNCHANGED playbookVars, NEW c \in Callers, RereadPolicy(c)
  PROVE  Inv'
<1>. DEFINE r == [at |-> "reread", key |-> caller[c].key, selected |-> caller[c].selected,
                  withSignal |-> caller[c].withSignal, admitted |-> caller[c].admitted,
                  policy |-> PolicyHead]
<1>1. caller[c] \in PreflightRequest /\ CallerIsSound(caller[c]) /\ caller[c].at = "admitted"
  BY CallerFields DEF Inv, HandoffTypeOK, RereadPolicy
<1>2. r \in CallerType
  BY <1>1 DEF CallerType, PreflightRequest, RereadRequest, Inv, HandoffTypeOK, PolicyHead
<1>3. PolicyHead \in Nat
  BY DEF Inv, HandoffTypeOK, PolicyHead
<1>4. CallerIsSound(r)
  BY <1>1, <1>3 DEF CallerIsSound
<1>5. Begin(c, r)
  BY DEF RereadPolicy
<1>. QED
  BY <1>2, <1>4, <1>5, CallerBegins

\* The products have an active version still, and it is published and complete.
LEMMA HandoffIsCompiled ==
  ASSUME Inv, UNCHANGED playbookVars, NEW c \in Callers, CompileHandoff(c)
  PROVE  Inv'
<1>. DEFINE q == caller[c]
            signal == IF q.withSignal THEN signals ELSE 0
            h == [policy |-> q.policy, admitted |-> q.admitted,
                  pins |-> [p \in Products |-> IF p \in q.selected THEN product[p].active ELSE 0],
                  signal |-> signal,
                  fingerprint |-> Fingerprint(q.policy, q.selected, signal)]
            r == [at |-> "compiled", key |-> q.key, handoff |-> h]
<1>1. q \in RereadRequest /\ CallerIsSound(q) /\ q.at = "reread"
  BY CallerFields DEF Inv, HandoffTypeOK, CompileHandoff
<1>2. /\ q.policy \in Nat /\ q.admitted \in Nat /\ q.selected \subseteq Products
      /\ q.key \in Keys /\ q.withSignal \in BOOLEAN
  BY <1>1 DEF RereadRequest
<1>3. signal \in Nat
  BY HandoffBounds DEF Inv, HandoffTypeOK
<1>4. h.fingerprint = <<q.policy, q.selected, signal>>
  BY DEF Fingerprint
<1>5. product \in [Products -> ProductRow]
  BY DEF Inv, PlaybookInv, PlaybookTypeOK
<1>6. h \in HandoffType /\ h.fingerprint \in Nat \X (SUBSET Products) \X Nat
  BY <1>2, <1>3, <1>4, <1>5 DEF HandoffType, ProductRow
<1>7. r \in CallerType
  BY <1>2, <1>6 DEF CallerType, CompiledRequest
<1>8. \A p \in q.selected : product[p].active # 0
  BY <1>1 DEF CallerIsSound
<1>9. {p \in Products : h.pins[p] # 0} = q.selected
  BY <1>2, <1>8
<1>10. \A p \in q.selected : /\ product[p].active \in DOMAIN versions[p]
                              /\ versions[p][product[p].active].body \in Publishable
  BY <1>2, <1>8 DEF Inv, PlaybookInv, ProductsAreSound, VersionsAreValid
<1>11. Admitted(h)
  <2>1. \A p \in q.selected : h.pins[p] = product[p].active
    BY <1>2
  <2>2. q.selected # {} /\ q.selected \subseteq Bound(h.admitted) /\ h.fingerprint[2] = q.selected
    BY <1>1, <1>4 DEF CallerIsSound
  <2>3. h.admitted <= h.policy /\ h.policy <= PolicyHead
    BY <1>1 DEF CallerIsSound
  <2>. HIDE DEF h
  <2>. QED
    BY <1>9, <1>10, <2>1, <2>2, <2>3 DEF Admitted
<1>12. CallerIsSound(r)
  <2>. HIDE DEF h
  <2>. QED
    BY <1>6, <1>11 DEF CallerIsSound
<1>13. Begin(c, r)
  BY DEF CompileHandoff
<1>. HIDE DEF r
<1>. QED
  BY <1>7, <1>12, <1>13, CallerBegins

LEMMA CompiledCaller ==
  ASSUME Inv, NEW c \in Callers, caller[c].at \in {"compiled", "missed"}
  PROVE  /\ caller[c] \in CompiledRequest /\ Admitted(caller[c].handoff)
         /\ caller[c].handoff.fingerprint \in Nat \X (SUBSET Products) \X Nat
         /\ Answer(c) \in CallerType /\ Answer(c).at = "answered" /\ Answer(c).key = caller[c].key
         /\ Answer(c).asked = caller[c].handoff.fingerprint
<1>1. caller[c] \in CompiledRequest /\ CallerIsSound(caller[c])
  BY CallerFields DEF Inv, HandoffTypeOK
<1>2. /\ Admitted(caller[c].handoff)
      /\ caller[c].handoff.fingerprint \in Nat \X (SUBSET Products) \X Nat
  BY <1>1 DEF CallerIsSound
<1>. QED
  BY <1>1, <1>2 DEF CompiledRequest, Answer, CallerType, AnsweredRequest

LEMMA HandoffIsReplayed ==
  ASSUME Inv, UNCHANGED playbookVars, NEW c \in Callers, ReplayHandoff(c)
  PROVE  Inv'
<1>1. CallerIsSound(Answer(c)) /\ Answer(c) \in CallerType
  BY CompiledCaller DEF ReplayHandoff, ReplayMatches, CallerIsSound
<1>2. Begin(c, Answer(c))
  BY DEF ReplayHandoff
<1>. QED
  BY <1>1, <1>2, CallerBegins

LEMMA HandoffIsMissed ==
  ASSUME Inv, UNCHANGED playbookVars, NEW c \in Callers, MissHandoff(c)
  PROVE  Inv'
<1>. DEFINE r == [caller[c] EXCEPT !.at = "missed"]
<1>1. /\ caller[c] \in CompiledRequest /\ Admitted(caller[c].handoff)
      /\ caller[c].handoff.fingerprint \in Nat \X (SUBSET Products) \X Nat
  BY CompiledCaller DEF MissHandoff
<1>2. r \in CallerType /\ r.at = "missed" /\ r.handoff = caller[c].handoff
  BY <1>1 DEF CallerType, CompiledRequest
<1>3. CallerIsSound(r)
  BY <1>1, <1>2 DEF CallerIsSound
<1>4. Begin(c, r)
  BY DEF MissHandoff
<1>. QED
  BY <1>2, <1>3, <1>4, CallerBegins

\* A key that is taken is never written again.
LEMMA HandoffIsInserted ==
  ASSUME Inv, UNCHANGED playbookVars, NEW c \in Callers, InsertHandoff(c)
  PROVE  Inv'
<1>1. caller[c] \in CompiledRequest
  BY CompiledCaller DEF InsertHandoff
<1>2. PICK key \in Keys, h \in HandoffType : key = caller[c].key /\ h = caller[c].handoff
  BY <1>1 DEF CompiledRequest
<1>3. PICK answer \in CallerType : answer = Answer(c)
  BY CompiledCaller DEF InsertHandoff
<1>4. /\ Admitted(h) /\ h.fingerprint \in Nat \X (SUBSET Products) \X Nat
      /\ answer.at = "answered" /\ answer.key = key /\ answer.asked = h.fingerprint
  BY <1>2, <1>3, CompiledCaller DEF InsertHandoff
<1>5. /\ handoffs[key] = NoHandoff
      /\ handoffs' = [handoffs EXCEPT ![key] = h]
      /\ caller' = [caller EXCEPT ![c] = answer]
      /\ UNCHANGED <<candidate, signals, policies>>
  BY <1>2, <1>3 DEF InsertHandoff, KeyIsFree
<1>6. PlaybookInv' /\ RowsGrow
  BY PlaybookStep DEF Inv
<1>7. HandoffTypeOK' /\ PolicyHistoryIsLinear' /\ PoliciesGrow
  BY <1>5 DEF Inv, HandoffTypeOK, PolicyHistoryIsLinear, PoliciesGrow
<1>8. handoffs'[key] = h /\ \A k \in Keys \ {key} : handoffs'[k] = handoffs[k]
  BY <1>5 DEF Inv, HandoffTypeOK
<1>9. Admitted(handoffs[key])'
  <2>1. Admitted(h)'
    BY <1>4, <1>6, <1>7, AdmittedStays
  <2>. QED
    BY <1>8, <2>1 DEF Admitted
<1>10. h # NoHandoff
  <2>1. \A p \in Products : NoHandoff.pins[p] = 0
    BY DEF NoHandoff
  <2>2. \E p \in Products : h.pins[p] # 0
    BY <1>4 DEF Admitted
  <2>. QED
    BY <2>1, <2>2
<1>11. CallerIsSound(answer)'
  BY <1>4, <1>8, <1>10 DEF CallerIsSound
<1>12. \A q \in Callers : caller'[q] = caller[q] \/ caller'[q] = answer
  BY <1>5 DEF Inv, HandoffTypeOK
<1>13. \A q \in Callers : caller'[q] = caller[q] \/ CallerIsSound(caller[q])'
  BY <1>11, <1>12
<1>14. \A k \in Keys : handoffs'[k] = handoffs[k] \/ (handoffs[k] = NoHandoff /\ Admitted(handoffs[k])')
  BY <1>5, <1>8, <1>9
<1>. QED
  BY <1>6, <1>7, <1>13, <1>14, InvFrame

LEMMA HandoffStep ==
  ASSUME Inv, [Next]_vars
  PROVE  Inv'
<1>1. CASE UNCHANGED vars
  <2>1. PlaybookInv' /\ RowsGrow
    BY <1>1, PlaybookStep DEF Inv, vars, playbookVars
  <2>2. HandoffTypeOK' /\ PolicyHistoryIsLinear' /\ PoliciesGrow
    BY <1>1 DEF Inv, HandoffTypeOK, PolicyHistoryIsLinear, PoliciesGrow, vars
  <2>. QED
    BY <1>1, <2>1, <2>2, InvFrame DEF vars
<1>2. ASSUME PlaybookNext, UNCHANGED handoffVars PROVE Inv'
  <2>1. PlaybookInv' /\ RowsGrow
    BY <1>2, PlaybookStep DEF Inv
  <2>2. HandoffTypeOK' /\ PolicyHistoryIsLinear' /\ PoliciesGrow
    BY <1>2 DEF Inv, HandoffTypeOK, PolicyHistoryIsLinear, PoliciesGrow, handoffVars
  <2>. QED
    BY <1>2, <2>1, <2>2, InvFrame DEF handoffVars
<1>3. ASSUME HandoffNext, UNCHANGED playbookVars PROVE Inv'
  <2>1. CASE CompleteSignalRun
    BY <1>3, <2>1, SignalRunCompletes
  <2>2. ASSUME NEW c \in Callers, NEW bindings \in SUBSET Products, ReadPolicy(c, bindings)
        PROVE  Inv'
    BY <1>3, <2>2, PolicyIsRead
  <2>3. ASSUME NEW c \in Callers, CheckProducts(c) PROVE Inv'
    BY <1>3, <2>3, ProductsAreChecked
  <2>4. ASSUME NEW c \in Callers, SavePolicy(c) PROVE Inv'
    BY <1>3, <2>4, PolicyIsSaved
  <2>5. ASSUME NEW c \in Callers, Refuse(c) PROVE Inv'
    BY <1>3, <2>5, RequestIsRefused
  <2>6. ASSUME NEW c \in Callers, NEW key \in Keys, NEW named \in SUBSET Products,
               NEW everything \in BOOLEAN, NEW acknowledged \in BOOLEAN, NEW withSignal \in BOOLEAN,
               Inspect(c, key, named, everything, acknowledged, withSignal)
        PROVE  Inv'
    BY <1>3, <2>6, InputsAreInspected
  <2>7. ASSUME NEW c \in Callers, AdmitProducts(c) PROVE Inv'
    BY <1>3, <2>7, ProductsAreAdmitted
  <2>8. ASSUME NEW c \in Callers, RereadPolicy(c) PROVE Inv'
    BY <1>3, <2>8, PolicyIsReread
  <2>9. ASSUME NEW c \in Callers, CompileHandoff(c) PROVE Inv'
    BY <1>3, <2>9, HandoffIsCompiled
  <2>10. ASSUME NEW c \in Callers, ReplayHandoff(c) PROVE Inv'
    BY <1>3, <2>10, HandoffIsReplayed
  <2>11. ASSUME NEW c \in Callers, MissHandoff(c) PROVE Inv'
    BY <1>3, <2>11, HandoffIsMissed
  <2>12. ASSUME NEW c \in Callers, InsertHandoff(c) PROVE Inv'
    BY <1>3, <2>12, HandoffIsInserted
  <2>. QED
    BY <1>3, <2>1, <2>2, <2>3, <2>4, <2>5, <2>6, <2>7, <2>8, <2>9, <2>10, <2>11, <2>12 DEF HandoffNext
<1>. QED
  BY <1>1, <1>2, <1>3 DEF Next

LEMMA HandoffInvariant == Spec => []Inv
<1>1. Inv /\ [Next]_vars => Inv'
  BY HandoffStep
<1>. QED
  BY <1>1, HandoffStarts, PTL DEF Spec

\* Rows, policies, handoffs and requests are well formed.
THEOREM HandoffTypeIsCorrect == Spec => []TypeOK
<1>1. Inv => TypeOK
  BY DEF Inv, PlaybookInv, HandoffTypeOK, TypeOK
<1>. QED
  BY <1>1, HandoffInvariant, PTL

\* PW-HO-POL-01: of two requesters who have seen the same policy version only
\* one succeeds (handoff.py next_policy_version, power_web_handoff_repositories.py
\* save).
THEOREM PolicyHistoriesAreLinear == Spec => []PolicyHistoryIsLinear
<1>1. Inv => PolicyHistoryIsLinear
  BY DEF Inv
<1>. QED
  BY <1>1, HandoffInvariant, PTL

\* PW-HO-IDEM-01: whoever was answered under a key finds there the handoff made
\* for the inputs of that request (handoff.py create).
THEOREM KeysAnswerOneRequest == Spec => []KeyAnswersOneRequest
<1>1. Inv => KeyAnswersOneRequest
  BY DEF Inv, CallerIsSound, KeyAnswersOneRequest
<1>. QED
  BY <1>1, HandoffInvariant, PTL

\* PW-HO-PROD-01: every handoff pins published, complete versions of products
\* that the policy which admitted them binds (handoff.py inspect, create).
THEOREM HandoffsAreAdmitted == Spec => []HandoffIsAdmitted
<1>1. Inv => HandoffIsAdmitted
  BY DEF Inv
<1>. QED
  BY <1>1, HandoffInvariant, PTL

\* Published contents are never changed and an active version is only replaced
\* by another, whatever requests about policies and handoffs do meanwhile.
THEOREM VersionsAreImmutable == Spec => [][RowsGrow]_vars
<1>1. Inv /\ [Next]_vars => [RowsGrow]_vars
  <2>. SUFFICES ASSUME Inv, [Next]_vars, ~ UNCHANGED vars PROVE RowsGrow
    OBVIOUS
  <2>. QED
    BY PlaybookStep DEF Next, Inv
<1>. QED
  BY <1>1, HandoffInvariant, PTL DEF Spec
=============================================================================
