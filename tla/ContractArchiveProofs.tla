------------------------ MODULE ContractArchiveProofs -----------------------
(***************************************************************************)
(* Theorems of ContractArchive, for every number of editors, extractions   *)
(* and versions.                                                           *)
(***************************************************************************)
EXTENDS ContractArchive, TLAPS

(* What the row lock gives an open edit: the row is still as it was read,  *)
(* there is room for one more version, and nobody else edits the archive.  *)
EditHasRow ==
    \A e \in Editors : tx[e].op \in Edits =>
        /\ tx[e].loaded = row[tx[e].on]
        /\ row[tx[e].on].version \in 1..(MaxVersion - 1)

OneEditPerArchive ==
    \A e, f \in Editors :
        tx[e].op \in Edits /\ tx[f].op \in Edits /\ tx[e].on = tx[f].on => e = f

ArchiveInv == TypeOK /\ EditHasRow /\ OneEditPerArchive

-----------------------------------------------------------------------------
(* Types of the operators *)

LEMMA SystemBindingType ==
    ASSUME NEW n \in Results
    PROVE  SystemBinding(n) \subseteq Binding
BY ResultsAssumption DEF SystemBinding, Normalized, AnyNumber, Binding, SystemSources

LEMMA RefreshedContentType ==
    ASSUME NEW n \in Results, NEW c \in Content
    PROVE  RefreshedContent(c, n) \in Content
<1>1. PICK I \in SUBSET Items : n.items \in [I -> Texts]
  BY ResultsAssumption DEF Normalized, TextMap
<1>2. \A i \in I : ManualBindings(c, i) \subseteq Binding
  BY DEF ManualBindings, Content, Item
<1>3. \A i \in I : [text |-> n.items[i],
                    bindings |-> ManualBindings(c, i) \cup SystemBinding(n)] \in Item
  BY <1>1, <1>2, SystemBindingType DEF Item
<1>4. RefreshedContent(c, n) \in [I -> Item]
  BY <1>1, <1>3 DEF RefreshedContent
<1>5. QED
  BY <1>4 DEF Content

LEMMA EmptyContent == <<>> \in Content
<1>1. <<>> \in [{} -> Item]
  OBVIOUS
<1>2. QED
  BY <1>1 DEF Content

LEMMA SavedRowType ==
    ASSUME NEW r \in Row, r.version \in 1..(MaxVersion - 1),
           NEW s \in {"archived", "dictionary_dirty"}
    PROVE  /\ SavedRow(r, s) \in Row
           /\ SavedRow(r, s).version = r.version + 1
           /\ SavedRow(r, s).version \in 1..MaxVersion
           /\ SavedRow(r, s).number \in AnyNumber
<1>1. r.version + 1 \in 1..MaxVersion /\ r.version + 1 \in 0..MaxVersion
  BY VersionAssumption
<1>2. r.number \in AnyNumber
  BY DEF Row
<1>3. QED
  BY <1>1, <1>2 DEF SavedRow, Row

(* Every transaction is of one of the five kinds. *)
LEMMA TransactionFields ==
    ASSUME NEW t \in Transaction
    PROVE  /\ t.op \in Edits => t.on \in Extractions /\ t.loaded \in Row
           /\ t.op = "archive" => t.on \in Extractions /\ t.source \in Results
           /\ t.op = "patchItem" => t.arg \in TextMap
           /\ t.op = "bind" => t.arg \in [item : Items, bindings : BindInputs]
           /\ t.op = "refresh" => t.arg \in Results
BY DEF Transaction, NoTx, Edit, Edits

-----------------------------------------------------------------------------
(* Every step keeps the invariant *)

(* The commit of an edit, whatever content c it writes. *)
LEMMA CommitVersionKeeps ==
    ASSUME ArchiveInv, NEW e \in Editors, tx[e].op \in Edits,
           NEW s \in {"archived", "dictionary_dirty"}, NEW c \in Content,
           CommitVersion(e, s, c)
    PROVE  ArchiveInv'
<1> DEFINE x == tx[e].on
           r == SavedRow(tx[e].loaded, s)
<1>1. x \in Extractions /\ tx[e].loaded \in Row
  BY TransactionFields DEF ArchiveInv, TypeOK
<1>2. tx[e].loaded.version \in 1..(MaxVersion - 1)
  BY DEF ArchiveInv, EditHasRow
<1>3. r \in Row /\ r.version \in 1..MaxVersion /\ r.number \in AnyNumber
  BY <1>1, <1>2, SavedRowType
<1>4. /\ row' = [row EXCEPT ![x] = r]
      /\ content' = [content EXCEPT ![x] = c]
      /\ versions' = [versions EXCEPT ![x] = @ \cup {r.version}]
      /\ newest' = [newest EXCEPT ![x] = [number |-> r.number, content |-> c]]
      /\ tx' = [tx EXCEPT ![e] = NoTx]
      /\ normalized' = normalized
  BY DEF CommitVersion, SnapshotAfter
<1>5. TypeOK'
  <2>1. [number |-> r.number, content |-> c] \in Snapshot
    BY <1>3 DEF Snapshot
  <2>2. NoTx \in Transaction
    BY DEF Transaction
  <2>3. versions' \in [Extractions -> SUBSET (1..MaxVersion)]
    BY <1>1, <1>3, <1>4 DEF ArchiveInv, TypeOK
  <2>4. QED
    BY <1>1, <1>3, <1>4, <2>1, <2>2, <2>3 DEF ArchiveInv, TypeOK
<1>6. \A f \in Editors : tx'[f].op \in Edits =>
          f # e /\ tx'[f] = tx[f] /\ tx[f].on # x /\ tx[f].on \in Extractions
  BY <1>4, TransactionFields DEF ArchiveInv, TypeOK, OneEditPerArchive, NoTx, Edits
<1>7. EditHasRow' /\ OneEditPerArchive'
  BY <1>1, <1>4, <1>6 DEF ArchiveInv, TypeOK, EditHasRow, OneEditPerArchive
<1>8. QED
  BY <1>5, <1>7 DEF ArchiveInv

LEMMA EditStatus ==
    ASSUME ArchiveInv, NEW e \in Editors, tx[e].op \in Edits
    PROVE  /\ tx[e].on \in Extractions
           /\ tx[e].loaded.status \in {"archived", "dictionary_dirty"}
           /\ content[tx[e].on] \in Content
<1>1. tx[e].on \in Extractions /\ tx[e].loaded \in Row
  BY TransactionFields DEF ArchiveInv, TypeOK
<1>2. QED
  BY <1>1 DEF ArchiveInv, TypeOK, Row

(* Every commit of an edit is CommitVersion with some content. *)
LEMMA CommitsAreVersions ==
    ASSUME ArchiveInv, NEW e \in Editors, Commit(e), ~CommitArchive(e)
    PROVE  /\ tx[e].op \in Edits
           /\ \E s \in {"archived", "dictionary_dirty"}, c \in Content :
                  CommitVersion(e, s, c)
<1> DEFINE x == tx[e].on
           c0 == content[x]
<1>1. CASE CommitPatchDocInfo(e)
  BY <1>1, EditStatus DEF CommitPatchDocInfo, Edits
<1>2. CASE CommitPatchItem(e)
  <2>1. tx[e].op \in Edits /\ tx[e].arg \in TextMap
    BY <1>2, TransactionFields DEF CommitPatchItem, Edits, ArchiveInv, TypeOK
  <2>2. PICK I \in SUBSET Items : c0 \in [I -> Item]
    BY <2>1, EditStatus DEF Content
  <2>3. PICK J \in SUBSET Items : tx[e].arg \in [J -> Texts]
    BY <2>1 DEF TextMap
  <2> DEFINE c == [i \in DOMAIN c0 |->
                     IF i \in DOMAIN tx[e].arg
                     THEN [c0[i] EXCEPT !.text = tx[e].arg[i]] ELSE c0[i]]
  <2>4. c \in [I -> Item]
    BY <2>2, <2>3 DEF Item
  <2>5. c \in Content
    BY <2>4 DEF Content
  <2>6. CommitVersion(e, tx[e].loaded.status, c)
    BY <1>2 DEF CommitPatchItem
  <2>7. QED
    BY <2>1, <2>5, <2>6, EditStatus
<1>3. CASE CommitBind(e)
  <2>1. tx[e].op \in Edits /\ tx[e].arg \in [item : Items, bindings : BindInputs]
    BY <1>3, TransactionFields DEF CommitBind, Edits, ArchiveInv, TypeOK
  <2>2. PICK I \in SUBSET Items : c0 \in [I -> Item]
    BY <2>1, EditStatus DEF Content
  <2> DEFINE c == [c0 EXCEPT ![tx[e].arg.item].bindings = tx[e].arg.bindings]
  <2>3. tx[e].arg.bindings \in SUBSET Binding
    BY <2>1, BindAssumption
  <2>4. c \in [I -> Item]
    BY <2>2, <2>3 DEF Item
  <2>5. c \in Content
    BY <2>4 DEF Content
  <2>6. CommitVersion(e, tx[e].loaded.status, c)
    BY <1>3 DEF CommitBind
  <2>7. QED
    BY <2>1, <2>5, <2>6, EditStatus
<1>4. CASE CommitRefresh(e)
  <2>1. tx[e].op \in Edits /\ tx[e].arg \in Results
    BY <1>4, TransactionFields DEF CommitRefresh, Edits, ArchiveInv, TypeOK
  <2>2. RefreshedContent(c0, tx[e].arg) \in Content
    BY <2>1, EditStatus, RefreshedContentType
  <2>3. QED
    BY <1>4, <2>1, <2>2 DEF CommitRefresh
<1>5. QED
  BY <1>1, <1>2, <1>3, <1>4 DEF Commit

LEMMA CommitArchiveKeeps ==
    ASSUME ArchiveInv, NEW e \in Editors, CommitArchive(e)
    PROVE  ArchiveInv'
<1> DEFINE x == tx[e].on
           n == tx[e].source
           c == RefreshedContent(<<>>, n)
<1>1. x \in Extractions /\ n \in Results
  BY TransactionFields DEF ArchiveInv, TypeOK, CommitArchive
<1>2. c \in Content /\ n.number \in AnyNumber
  BY <1>1, EmptyContent, RefreshedContentType, ResultsAssumption DEF Normalized
<1>3. [status |-> "archived", number |-> n.number, version |-> 1] \in Row
  BY <1>2, VersionAssumption DEF Row
<1>4. TypeOK'
  <2>1. [number |-> n.number, content |-> c] \in Snapshot
    BY <1>2 DEF Snapshot
  <2>2. NoTx \in Transaction
    BY DEF Transaction
  <2>3. {1} \in SUBSET (1..MaxVersion)
    BY VersionAssumption
  <2>4. QED
    BY <1>1, <1>2, <1>3, <2>1, <2>2, <2>3 DEF ArchiveInv, TypeOK, CommitArchive
<1>5. \A f \in Editors : tx'[f].op \in Edits =>
          f # e /\ tx'[f] = tx[f] /\ tx[f].on # x /\ tx[f].on \in Extractions
  BY TransactionFields
     DEF ArchiveInv, TypeOK, EditHasRow, CommitArchive, Exists, NoTx, Edits
<1>6. EditHasRow' /\ OneEditPerArchive'
  BY <1>1, <1>5 DEF ArchiveInv, TypeOK, EditHasRow, OneEditPerArchive, CommitArchive
<1>7. QED
  BY <1>4, <1>6 DEF ArchiveInv

LEMMA BeginEditKeeps ==
    ASSUME ArchiveInv, NEW e \in Editors, NEW x \in Extractions,
           NEW op \in Edits, NEW arg, BeginEdit(e, x, op, arg),
           [op |-> op, on |-> x, loaded |-> row[x], arg |-> arg] \in Transaction
    PROVE  ArchiveInv'
<1>1. TypeOK'
  BY DEF ArchiveInv, TypeOK, BeginEdit, archiveVars
<1>2. row' = row /\ row[x] \in Row /\ row[x].version \in 1..(MaxVersion - 1)
  BY VersionAssumption DEF ArchiveInv, TypeOK, Row, BeginEdit, Exists, archiveVars
<1>3. /\ tx' = [tx EXCEPT ![e] = [op |-> op, on |-> x, loaded |-> row[x], arg |-> arg]]
      /\ \A f \in Editors : tx[f].op \in Edits => tx[f].on # x
  BY DEF BeginEdit, Free
<1>4. EditHasRow' /\ OneEditPerArchive'
  BY <1>2, <1>3 DEF ArchiveInv, TypeOK, EditHasRow, OneEditPerArchive
<1>5. QED
  BY <1>1, <1>4 DEF ArchiveInv

(* What a request may ask of an existing archive is a transaction. *)
LEMMA BeginRequestKeeps ==
    ASSUME ArchiveInv, NEW e \in Editors, NEW x \in Extractions, BeginRequest(e, x)
    PROVE  ArchiveInv'
<1> DEFINE T(op, arg) == [op |-> op, on |-> x, loaded |-> row[x], arg |-> arg]
<1>1. row[x] \in Row /\ content[x] \in Content /\ normalized[x] \in Results
  BY DEF ArchiveInv, TypeOK
<1>2. CASE BeginArchive(e, x)
  <2>1. [op |-> "archive", on |-> x, source |-> normalized[x]] \in Transaction
    BY <1>1 DEF Transaction
  <2>2. TypeOK'
    BY <1>2, <2>1 DEF ArchiveInv, TypeOK, BeginArchive, archiveVars
  <2>3. \A f \in Editors : tx'[f].op \in Edits => tx'[f] = tx[f]
    BY <1>2 DEF ArchiveInv, TypeOK, BeginArchive, Edits
  <2>4. EditHasRow' /\ OneEditPerArchive'
    BY <1>2, <2>3 DEF ArchiveInv, EditHasRow, OneEditPerArchive, BeginArchive, archiveVars
  <2>5. QED
    BY <2>2, <2>4 DEF ArchiveInv
<1>3. CASE \E n \in AnyNumber : BeginEdit(e, x, "patchDocInfo", n)
  <2>1. PICK n \in AnyNumber : BeginEdit(e, x, "patchDocInfo", n)
    BY <1>3
  <2>2. T("patchDocInfo", n) \in Edit("patchDocInfo", AnyNumber)
    BY <1>1 DEF Edit
  <2>3. T("patchDocInfo", n) \in Transaction
    BY <2>2 DEF Transaction
  <2>4. QED
    BY <2>1, <2>3, BeginEditKeeps DEF Edits
<1>4. CASE \E i \in DOMAIN content[x], t \in Texts :
             BeginEdit(e, x, "patchItem", PatchedTexts(content[x], i, t))
  <2>1. PICK i \in DOMAIN content[x], t \in Texts :
             BeginEdit(e, x, "patchItem", PatchedTexts(content[x], i, t))
    BY <1>4
  <2>2. PICK I \in SUBSET Items : content[x] \in [I -> Item]
    BY <1>1 DEF Content
  <2>3. PatchedTexts(content[x], i, t) \in [I -> Texts]
    BY <2>1, <2>2 DEF PatchedTexts, Item
  <2>4. PatchedTexts(content[x], i, t) \in TextMap
    BY <2>3 DEF TextMap
  <2>5. T("patchItem", PatchedTexts(content[x], i, t)) \in Edit("patchItem", TextMap)
    BY <1>1, <2>4 DEF Edit
  <2>6. T("patchItem", PatchedTexts(content[x], i, t)) \in Transaction
    BY <2>5 DEF Transaction
  <2>7. QED
    BY <2>1, <2>6, BeginEditKeeps DEF Edits
<1>5. CASE \E i \in DOMAIN content[x], B \in BindInputs :
             BeginEdit(e, x, "bind", [item |-> i, bindings |-> B])
  <2>1. PICK i \in DOMAIN content[x], B \in BindInputs :
             BeginEdit(e, x, "bind", [item |-> i, bindings |-> B])
    BY <1>5
  <2>2. i \in Items
    BY <1>1, <2>1 DEF Content
  <2>3. T("bind", [item |-> i, bindings |-> B])
            \in Edit("bind", [item : Items, bindings : BindInputs])
    BY <1>1, <2>2 DEF Edit
  <2>4. T("bind", [item |-> i, bindings |-> B]) \in Transaction
    BY <2>3 DEF Transaction
  <2>5. QED
    BY <2>1, <2>4, BeginEditKeeps DEF Edits
<1>6. CASE BeginEdit(e, x, "refresh", normalized[x])
  <2>1. T("refresh", normalized[x]) \in Edit("refresh", Results)
    BY <1>1 DEF Edit
  <2>2. T("refresh", normalized[x]) \in Transaction
    BY <2>1 DEF Transaction
  <2>3. QED
    BY <1>6, <2>2, BeginEditKeeps DEF Edits
<1>7. QED
  BY <1>2, <1>3, <1>4, <1>5, <1>6 DEF BeginRequest

(* A dirty mark waits for the lock, a rollback gives it back, and          *)
(* normalization does not touch the archive.                               *)
LEMMA OtherStepsKeep ==
    ASSUME ArchiveInv,
           \/ \E x \in Extractions, n \in Results : Normalize(x, n)
           \/ \E x \in Extractions : MarkDirty(x)
           \/ \E e \in Editors : Rollback(e)
           \/ UNCHANGED vars
    PROVE  ArchiveInv'
<1>1. CASE \E x \in Extractions, n \in Results : Normalize(x, n)
  <2>1. TypeOK'
    BY <1>1 DEF ArchiveInv, TypeOK, Normalize, archiveVars
  <2>2. QED
    BY <1>1, <2>1 DEF ArchiveInv, EditHasRow, OneEditPerArchive, Normalize, archiveVars
<1>2. CASE \E x \in Extractions : MarkDirty(x)
  <2>1. PICK x \in Extractions : MarkDirty(x)
    BY <1>2
  <2>2. [row[x] EXCEPT !.status = "dictionary_dirty"] \in Row
    BY DEF ArchiveInv, TypeOK, Row
  <2>3. row' = [row EXCEPT ![x] = [row[x] EXCEPT !.status = "dictionary_dirty"]]
    BY <2>1 DEF MarkDirty
  <2>4. TypeOK'
    BY <2>1, <2>2, <2>3 DEF ArchiveInv, TypeOK, MarkDirty
  <2>5. \A e \in Editors : tx[e].op \in Edits => tx[e].on # x
    BY <2>1 DEF MarkDirty, Free
  <2>6. EditHasRow' /\ OneEditPerArchive'
    BY <2>1, <2>3, <2>5, TransactionFields
       DEF ArchiveInv, TypeOK, EditHasRow, OneEditPerArchive, MarkDirty
  <2>7. QED
    BY <2>4, <2>6 DEF ArchiveInv
<1>3. CASE \E e \in Editors : Rollback(e)
  <2>1. PICK e \in Editors : Rollback(e)
    BY <1>3
  <2>2. NoTx \in Transaction /\ NoTx.op \notin Edits
    BY DEF Transaction, NoTx, Edits
  <2>3. TypeOK'
    BY <2>1, <2>2 DEF ArchiveInv, TypeOK, Rollback, archiveVars
  <2>4. \A f \in Editors : tx'[f].op \in Edits => tx'[f] = tx[f]
    BY <2>1, <2>2 DEF ArchiveInv, TypeOK, Rollback
  <2>5. QED
    BY <2>1, <2>3, <2>4 DEF ArchiveInv, EditHasRow, OneEditPerArchive, Rollback, archiveVars
<1>4. CASE UNCHANGED vars
  BY <1>4 DEF ArchiveInv, TypeOK, EditHasRow, OneEditPerArchive, vars, archiveVars
<1>5. QED
  BY <1>1, <1>2, <1>3, <1>4

LEMMA InitEstablishes == Init => ArchiveInv
<1> SUFFICES ASSUME Init PROVE ArchiveInv
  OBVIOUS
<1>1. NoRow \in Row
  BY VersionAssumption DEF NoRow, Row, AnyNumber
<1>2. [number |-> NoNumber, content |-> <<>>] \in Snapshot
  BY EmptyContent DEF Snapshot, AnyNumber
<1>3. NoTx \in Transaction /\ NoTx.op \notin Edits
  BY DEF Transaction, NoTx, Edits
<1>4. TypeOK
  BY <1>1, <1>2, <1>3, EmptyContent DEF Init, TypeOK
<1>5. QED
  BY <1>3, <1>4 DEF Init, ArchiveInv, EditHasRow, OneEditPerArchive

LEMMA NextKeeps == ArchiveInv /\ [Next]_vars => ArchiveInv'
<1> SUFFICES ASSUME ArchiveInv, [Next]_vars PROVE ArchiveInv'
  OBVIOUS
<1>1. CASE \E x \in Extractions, e \in Editors : BeginRequest(e, x)
  BY <1>1, BeginRequestKeeps
<1>2. CASE \E e \in Editors : Commit(e)
  <2>1. PICK e \in Editors : Commit(e)
    BY <1>2
  <2>2. CASE CommitArchive(e)
    BY <2>2, CommitArchiveKeeps
  <2>3. CASE ~CommitArchive(e)
    BY <2>1, <2>3, CommitsAreVersions, CommitVersionKeeps
  <2>4. QED
    BY <2>2, <2>3
<1>3. QED
  BY <1>1, <1>2, OtherStepsKeep DEF Next

(* Every variable keeps its type, however the requests interleave. *)
THEOREM ArchiveTypeCorrect == Spec => []TypeOK
<1>1. ArchiveInv => TypeOK
  BY DEF ArchiveInv
<1>2. QED
  BY <1>1, InitEstablishes, NextKeeps, PTL DEF Spec

-----------------------------------------------------------------------------
(* The version history *)

(* VersionsConsecutive for the archives alone, and what there is before    *)
(* the first version.                                                      *)
HistoryInv ==
    /\ \A x \in Extractions :
        /\ versions[x] = 1..row[x].version
        /\ row[x].version = 0 => content[x] = <<>>
    /\ NewestSnapshotIsCurrent

LEMMA CommitVersionHistory ==
    ASSUME ArchiveInv, HistoryInv, NEW e \in Editors, tx[e].op \in Edits,
           NEW s \in {"archived", "dictionary_dirty"}, NEW c \in Content,
           CommitVersion(e, s, c)
    PROVE  HistoryInv'
<1> DEFINE x == tx[e].on
           r == SavedRow(row[x], s)
<1>1. x \in Extractions /\ tx[e].loaded = row[x] /\ row[x] \in Row
      /\ row[x].version \in 1..(MaxVersion - 1)
  BY TransactionFields DEF ArchiveInv, TypeOK, EditHasRow
<1>2. /\ row' = [row EXCEPT ![x] = r]
      /\ content' = [content EXCEPT ![x] = c]
      /\ versions' = [versions EXCEPT ![x] = @ \cup {r.version}]
      /\ newest' = [newest EXCEPT ![x] = [number |-> r.number, content |-> c]]
  BY <1>1 DEF CommitVersion, SnapshotAfter
<1>3. r.version = row[x].version + 1
  BY <1>1, SavedRowType
<1>4. versions'[x] = 1..row[x].version \cup {row[x].version + 1}
  BY <1>1, <1>2, <1>3 DEF HistoryInv, ArchiveInv, TypeOK
<1>5. row'[x].version = row[x].version + 1 /\ row[x].version \in Nat
  BY <1>1, <1>2, <1>3, VersionAssumption DEF ArchiveInv, TypeOK
<1>6. versions'[x] = 1..row'[x].version /\ row'[x].version # 0
  BY <1>4, <1>5
<1>7. newest'[x] = [number |-> row'[x].number, content |-> content'[x]]
  BY <1>1, <1>2 DEF ArchiveInv, TypeOK
<1>8. \A y \in Extractions \ {x} :
          /\ versions'[y] = versions[y] /\ row'[y] = row[y]
          /\ content'[y] = content[y] /\ newest'[y] = newest[y]
  BY <1>2 DEF ArchiveInv, TypeOK
<1>9. QED
  BY <1>6, <1>7, <1>8 DEF HistoryInv, NewestSnapshotIsCurrent

LEMMA CommitArchiveHistory ==
    ASSUME ArchiveInv, HistoryInv, NEW e \in Editors, CommitArchive(e)
    PROVE  HistoryInv'
<1> DEFINE x == tx[e].on
<1>1. x \in Extractions
  BY TransactionFields DEF ArchiveInv, TypeOK, CommitArchive
<1>2. row'[x].version = 1 /\ versions'[x] = {1}
      /\ newest'[x] = [number |-> row'[x].number, content |-> content'[x]]
  BY <1>1 DEF CommitArchive, ArchiveInv, TypeOK
<1>3. versions'[x] = 1..row'[x].version /\ row'[x].version # 0
  BY <1>2
<1>4. \A y \in Extractions \ {x} :
          /\ versions'[y] = versions[y] /\ row'[y] = row[y]
          /\ content'[y] = content[y] /\ newest'[y] = newest[y]
  BY DEF CommitArchive, ArchiveInv, TypeOK
<1>5. QED
  BY <1>2, <1>3, <1>4 DEF HistoryInv, NewestSnapshotIsCurrent

LEMMA OtherStepsHistory ==
    ASSUME ArchiveInv, HistoryInv, [Next]_vars,
           ~ \E e \in Editors : Commit(e)
    PROVE  HistoryInv'
<1>1. CASE UNCHANGED archiveVars
  BY <1>1 DEF HistoryInv, NewestSnapshotIsCurrent, archiveVars
<1>2. CASE \E x \in Extractions : MarkDirty(x)
  <2>1. PICK x \in Extractions : MarkDirty(x)
    BY <1>2
  <2>2. /\ row' = [row EXCEPT ![x] = [row[x] EXCEPT !.status = "dictionary_dirty"]]
        /\ content' = content /\ versions' = versions /\ newest' = newest
    BY <2>1 DEF MarkDirty
  <2>3. \A y \in Extractions : row'[y].version = row[y].version
                             /\ row'[y].number = row[y].number
    BY <2>2 DEF ArchiveInv, TypeOK, Row
  <2>4. QED
    BY <2>2, <2>3 DEF HistoryInv, NewestSnapshotIsCurrent
<1>3. UNCHANGED archiveVars \/ \E x \in Extractions : MarkDirty(x)
  BY DEF Next, vars, BeginRequest, BeginArchive, BeginEdit, Normalize, Rollback
<1>4. QED
  BY <1>1, <1>2, <1>3

LEMMA NextKeepsHistory == ArchiveInv /\ HistoryInv /\ [Next]_vars => HistoryInv'
<1> SUFFICES ASSUME ArchiveInv, HistoryInv, [Next]_vars PROVE HistoryInv'
  OBVIOUS
<1>1. ASSUME NEW e \in Editors, Commit(e), ~CommitArchive(e) PROVE HistoryInv'
  BY <1>1, CommitsAreVersions, CommitVersionHistory
<1>2. QED
  BY <1>1, CommitArchiveHistory, OtherStepsHistory

LEMMA InitHistory == Init => HistoryInv
<1> SUFFICES ASSUME Init PROVE HistoryInv
  OBVIOUS
<1>1. 1..0 = {}
  OBVIOUS
<1>2. QED
  BY <1>1 DEF Init, HistoryInv, NewestSnapshotIsCurrent, NoRow

LEMMA InvariantsHold == Spec => [](ArchiveInv /\ HistoryInv)
<1>1. Init => ArchiveInv /\ HistoryInv
  BY InitEstablishes, InitHistory
<1>2. ArchiveInv /\ HistoryInv /\ [Next]_vars => (ArchiveInv /\ HistoryInv)'
  BY NextKeeps, NextKeepsHistory
<1>3. QED
  BY <1>1, <1>2, PTL DEF Spec

(* Versions are numbered without a gap and the next number is free.        *)
THEOREM VersionsAreConsecutive == Spec => []VersionsConsecutive
<1>1. ArchiveInv /\ HistoryInv => VersionsConsecutive
  <2> SUFFICES ASSUME ArchiveInv, HistoryInv PROVE VersionsConsecutive
    OBVIOUS
  <2>1. ASSUME NEW e \in Editors, tx[e].op \in Edits
        PROVE  tx[e].loaded.version + 1 \notin versions[tx[e].on]
    <3>1. tx[e].on \in Extractions /\ tx[e].loaded = row[tx[e].on]
          /\ row[tx[e].on].version \in 1..(MaxVersion - 1)
      BY <2>1, TransactionFields DEF ArchiveInv, TypeOK, EditHasRow
    <3>2. versions[tx[e].on] = 1..row[tx[e].on].version
      BY <3>1 DEF HistoryInv
    <3>3. QED
      BY <3>1, <3>2, VersionAssumption
  <2>2. QED
    BY <2>1 DEF HistoryInv, VersionsConsecutive
<1>2. QED
  BY <1>1, InvariantsHold, PTL

(* No change of an archive escapes its version history.                    *)
THEOREM HistoryIsComplete == Spec => []NewestSnapshotIsCurrent
<1>1. ArchiveInv /\ HistoryInv => NewestSnapshotIsCurrent
  BY DEF HistoryInv
<1>2. QED
  BY <1>1, InvariantsHold, PTL

-----------------------------------------------------------------------------
(* What a step may not do *)

(* Only a refresh clears the dirty mark: the status an edit writes back is *)
(* the one it read under the lock, and no mark can have come in between.   *)
THEOREM OnlyRefreshClears == Spec => OnlyRefreshCleansArchive
<1> DEFINE Cleaned(x) ==
        Exists(x) /\ row[x].status = "dictionary_dirty" /\ row'[x].status = "archived"
           RefreshEnds(x) ==
        \E e \in Editors : tx[e].op = "refresh" /\ tx[e].on = x /\ tx'[e] = NoTx
           Rule == \A x \in Extractions :
            Exists(x) /\ row[x].status = "dictionary_dirty" /\ row'[x].status = "archived" =>
                \E e \in Editors :
                    tx[e].op = "refresh" /\ tx[e].on = x /\ tx'[e] = NoTx
<1>1. ASSUME ArchiveInv, [Next]_vars, NEW x \in Extractions, Cleaned(x)
      PROVE  RefreshEnds(x)
  <2>1. row[x] \in Row /\ row'[x] # row[x]
    BY <1>1 DEF ArchiveInv, TypeOK
  <2>2. ASSUME NEW e \in Editors, Commit(e) PROVE RefreshEnds(x)
    <3>1. CASE CommitArchive(e)
      BY <1>1, <2>1, <3>1, TransactionFields
         DEF CommitArchive, ArchiveInv, TypeOK, Exists
    <3>2. CASE CommitRefresh(e)
      <4>1. tx[e].op = "refresh" /\ tx[e].op \in Edits
        BY <3>2 DEF CommitRefresh, Edits
      <4>2. tx[e].on = x /\ tx' = [tx EXCEPT ![e] = NoTx]
        BY <1>1, <2>1, <3>2 DEF CommitRefresh, CommitVersion, ArchiveInv, TypeOK
      <4>3. QED
        BY <1>1, <4>1, <4>2 DEF ArchiveInv, TypeOK
    <3>3. CASE CommitPatchDocInfo(e) \/ CommitPatchItem(e) \/ CommitBind(e)
      <4>1. tx[e].op \in Edits
        BY <3>3 DEF CommitPatchDocInfo, CommitPatchItem, CommitBind, Edits
      <4>2. tx[e].on \in Extractions /\ tx[e].loaded = row[tx[e].on]
        BY <1>1, <4>1, EditStatus DEF ArchiveInv, EditHasRow
      <4>3. row' = [row EXCEPT ![tx[e].on] =
                        SavedRow(row[tx[e].on], row[tx[e].on].status)]
        BY <3>3, <4>2 DEF CommitPatchDocInfo, CommitPatchItem, CommitBind, CommitVersion
      <4>4. row'[x].status = row[x].status
        BY <1>1, <4>2, <4>3 DEF ArchiveInv, TypeOK, SavedRow
      <4>5. QED
        BY <1>1, <4>4
    <3>4. QED
      BY <2>2, <3>1, <3>2, <3>3 DEF Commit
  <2>3. ASSUME NEW y \in Extractions, MarkDirty(y) PROVE RefreshEnds(x)
    <3>1. row' = [row EXCEPT ![y] = [row[y] EXCEPT !.status = "dictionary_dirty"]]
      BY <2>3 DEF MarkDirty
    <3>2. row'[x].status = "dictionary_dirty"
      BY <1>1, <3>1 DEF ArchiveInv, TypeOK, Row
    <3>3. QED
      BY <1>1, <3>2
  <2>4. row' = row \/ (\E e \in Editors : Commit(e)) \/ (\E y \in Extractions : MarkDirty(y))
    BY <1>1 DEF Next, vars, archiveVars, BeginRequest, BeginArchive, BeginEdit,
                Normalize, Rollback
  <2>5. QED
    BY <2>1, <2>2, <2>3, <2>4
<1>2. ArchiveInv /\ [Next]_vars => [Rule]_vars
  BY <1>1
<1>3. QED
  BY <1>2, InvariantsHold, PTL DEF OnlyRefreshCleansArchive, Spec

(* Bindings made by hand survive every refresh and every patch.            *)
THEOREM ManualBindingsStay == Spec => ManualBindingsSurvive
<1> DEFINE Rule == \A x \in Extractions, e \in Editors :
            tx[e] # NoTx /\ tx[e].op # "bind" /\ tx[e].on = x /\ tx'[e] = NoTx =>
                \A i \in DOMAIN content[x] \cap DOMAIN content'[x] :
                    ManualBindings(content'[x], i) = ManualBindings(content[x], i)
<1>1. ASSUME ArchiveInv, HistoryInv, [Next]_vars, NEW x \in Extractions,
             NEW e \in Editors, tx[e] # NoTx, tx[e].op # "bind", tx[e].on = x,
             tx'[e] = NoTx, NEW i \in DOMAIN content[x] \cap DOMAIN content'[x]
      PROVE  ManualBindings(content'[x], i) = ManualBindings(content[x], i)
  <2>1. CASE CommitArchive(e)
    BY <1>1, <2>1 DEF CommitArchive, Exists, HistoryInv, ArchiveInv, TypeOK, Row
  <2>2. CASE CommitPatchDocInfo(e)
    BY <1>1, <2>2 DEF CommitPatchDocInfo, CommitVersion, ArchiveInv, TypeOK
  <2>3. CASE CommitPatchItem(e)
    <3>1. PICK I \in SUBSET Items : content[x] \in [I -> Item]
      BY <1>1 DEF ArchiveInv, TypeOK, Content
    <3>2. content'[x] = [k \in DOMAIN content[x] |->
              IF k \in DOMAIN tx[e].arg
              THEN [content[x][k] EXCEPT !.text = tx[e].arg[k]] ELSE content[x][k]]
      BY <1>1, <2>3 DEF CommitPatchItem, CommitVersion, ArchiveInv, TypeOK
    <3>3. content'[x][i].bindings = content[x][i].bindings
      BY <1>1, <3>1, <3>2 DEF Item
    <3>4. QED
      BY <1>1, <3>3 DEF ManualBindings
  <2>4. CASE CommitRefresh(e)
    <3>1. content'[x] = RefreshedContent(content[x], tx[e].arg)
      BY <1>1, <2>4 DEF CommitRefresh, CommitVersion, ArchiveInv, TypeOK
    <3>2. content'[x][i].bindings =
              ManualBindings(content[x], i) \cup SystemBinding(tx[e].arg)
      BY <1>1, <3>1 DEF RefreshedContent
    <3>3. \A b \in SystemBinding(tx[e].arg) : b.source \in SystemSources
      BY DEF SystemBinding, SystemSources
    <3>4. QED
      BY <1>1, <3>2, <3>3 DEF ManualBindings
  <2>5. CASE CommitBind(e)
    BY <1>1, <2>5 DEF CommitBind
  <2>6. CASE ~Commit(e)
    <3>1. ASSUME NEW f \in Editors, Commit(f) PROVE FALSE
      <4>1. tx' = [tx EXCEPT ![f] = NoTx]
        BY <3>1 DEF Commit, CommitArchive, CommitPatchDocInfo, CommitPatchItem,
                    CommitBind, CommitRefresh, CommitVersion
      <4>2. f # e
        BY <2>6, <3>1
      <4>3. QED
        BY <1>1, <4>1, <4>2 DEF ArchiveInv, TypeOK
    <3>2. content' = content
      BY <1>1, <3>1 DEF Next, vars, archiveVars, BeginRequest, BeginArchive,
           BeginEdit, Normalize, MarkDirty, Rollback
    <3>3. QED
      BY <3>2
  <2>7. QED
    BY <2>1, <2>2, <2>3, <2>4, <2>5, <2>6 DEF Commit
<1>2. ArchiveInv /\ HistoryInv /\ [Next]_vars => [Rule]_vars
  BY <1>1
<1>3. QED
  BY <1>2, InvariantsHold, PTL DEF ManualBindingsSurvive, Spec
=============================================================================
