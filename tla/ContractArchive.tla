--------------------------- MODULE ContractArchive --------------------------
(***************************************************************************)
(* The archive of reviewed contracts, features/productConfigAgent/archive: *)
(* one row per archived extraction, its items with their product number    *)
(* bindings, and a version with a full snapshot for every change.          *)
(*                                                                         *)
(* Every mutation is one database transaction.  Those that change an       *)
(* existing archive begin with SELECT ... FOR UPDATE of its row            *)
(* (lockArchive), so a mutation is two steps here: the one that takes the  *)
(* lock and reads, and the one that commits all its writes.                *)
(* archiveDocument takes no lock; the unique key on (document, extraction) *)
(* stands in for one.                                                      *)
(*                                                                         *)
(* Abstractions.  docInfo and the columns summarised from it are the one   *)
(* product number; an item's name, quantity, fields and warnings are one   *)
(* text; a binding is its number and where it came from.  Archives are     *)
(* named by their extraction, as the unique key allows.  Of the versions,  *)
(* which nothing ever updates, the numbers and the newest snapshot are     *)
(* kept.                                                                   *)
(***************************************************************************)
EXTENDS Naturals, FiniteSets

CONSTANTS
    Editors,      \* concurrent requests and jobs
    Extractions,  \* extraction results with a normalized extraction
    Items,        \* item indexes
    Texts,        \* contents of an item
    Numbers,      \* product numbers
    NoNumber,     \* none recognised
    BindInputs,   \* lists of bindings a request may carry
    Results,      \* results normalization may compute
    MaxVersion    \* bound on the versions of one archive

ASSUME NumberAssumption  == NoNumber \notin Numbers
ASSUME VersionAssumption == MaxVersion \in Nat \ {0}

SystemSources == {"document", "inherited"}
Binding       == [number : Numbers, source : SystemSources \cup {"manual"}]

AnyNumber     == Numbers \cup {NoNumber}
TextMap       == UNION {[I -> Texts] : I \in SUBSET Items}
Normalized    == [number : AnyNumber, items : TextMap]

ASSUME ResultsAssumption == Results \subseteq Normalized
ASSUME BindAssumption == BindInputs \subseteq SUBSET Binding

VARIABLES
    normalized,  \* extraction_results.normalized_extraction_json
    row,         \* contract_archives; version 0 while there is no row
    content,     \* contract_archive_items with their item_products
    versions,    \* version numbers in contract_archive_versions
    newest,      \* snapshot_jsonb of the version inserted last
    tx           \* the open transaction of each editor

archiveVars == <<row, content, versions, newest>>
vars        == <<normalized, archiveVars, tx>>

Item          == [text : Texts, bindings : SUBSET Binding]
Content       == UNION {[I -> Item] : I \in SUBSET Items}
Row           == [status  : {"archived", "dictionary_dirty"},
                  number  : AnyNumber,
                  version : 0..MaxVersion]
Snapshot      == [number : AnyNumber, content : Content]

(* A transaction: what it does, on which archive, the row as it was read,  *)
(* and what is to be written.                                              *)
Edits == {"patchDocInfo", "patchItem", "bind", "refresh"}
NoTx  == [op |-> "none"]
Edit(op, Arg) == [op : {op}, on : Extractions, loaded : Row, arg : Arg]
Transaction ==
    UNION {{NoTx},
           [op : {"archive"}, on : Extractions, source : Results],
           Edit("patchDocInfo", AnyNumber),
           Edit("patchItem", TextMap),
           Edit("bind", [item : Items, bindings : BindInputs]),
           Edit("refresh", Results)}

TypeOK ==
    /\ normalized \in [Extractions -> Results]
    /\ row \in [Extractions -> Row]
    /\ content \in [Extractions -> Content]
    /\ versions \in [Extractions -> SUBSET (1..MaxVersion)]
    /\ newest \in [Extractions -> Snapshot]
    /\ tx \in [Editors -> Transaction]

-----------------------------------------------------------------------------
(* The archive's content computed from an extraction. *)

SystemBinding(n) ==
    IF n.number = NoNumber THEN {}
    ELSE {[number |-> n.number,
           source |-> IF Cardinality(DOMAIN n.items) > 1
                      THEN "inherited" ELSE "document"]}

ManualBindings(c, i) ==
    IF i \in DOMAIN c THEN {b \in c[i].bindings : b.source \notin SystemSources} ELSE {}

(* Mutant: the refresh replaces every binding of an item. *)
RefreshedContentAllBindings(c, n) ==
    [i \in DOMAIN n.items |->
        [text |-> n.items[i], bindings |-> SystemBinding(n)]]

(* persistNormalizedExtractionToArchive with syncSystemProductBinding:     *)
(* items of the extraction are rewritten, others deleted, and of their     *)
(* bindings only those the system made are replaced.                       *)
RefreshedContent(c, n) ==
    [i \in DOMAIN n.items |->
        [text |-> n.items[i],
         bindings |-> ManualBindings(c, i) \cup SystemBinding(n)]]

-----------------------------------------------------------------------------

NoRow == [status |-> "archived", number |-> NoNumber, version |-> 0]

Init ==
    /\ normalized \in [Extractions -> Results]
    /\ row = [x \in Extractions |-> NoRow]
    /\ content = [x \in Extractions |-> <<>>]
    /\ versions = [x \in Extractions |-> {}]
    /\ newest = [x \in Extractions |-> [number |-> NoNumber, content |-> <<>>]]
    /\ tx = [e \in Editors |-> NoTx]

Exists(x) == row[x].version > 0

(* Mutant: findOne without its pessimistic_write lock. *)
FreeAlways(x) == TRUE

(* The row is not locked by FOR UPDATE. *)
Free(x) == \A e \in Editors : tx[e].op \in Edits => tx[e].on # x

(* Normalization writes a new result to the extraction, dictionary changes *)
(* mark archives dirty: one UPDATE each, which waits for a row lock.       *)
Normalize(x, n) ==
    /\ normalized' = [normalized EXCEPT ![x] = n]
    /\ UNCHANGED <<archiveVars, tx>>

MarkDirty(x) ==
    /\ Exists(x) /\ Free(x)
    /\ row' = [row EXCEPT ![x].status = "dictionary_dirty"]
    /\ UNCHANGED <<normalized, content, versions, newest, tx>>

-----------------------------------------------------------------------------
(* archiveDocument *)

(* findNormalizedExtractionForArchive with checkExtraction, whose blockers *)
(* (pending candidates, no product number) a forced request overrides.     *)
Archivable(x) == DOMAIN normalized[x].items # {}

(* An extraction that has an archive is answered with it.                  *)
BeginArchive(e, x) ==
    /\ tx[e] = NoTx /\ ~Exists(x)
    /\ Archivable(x)
    /\ tx' = [tx EXCEPT ![e] = [op |-> "archive", on |-> x, source |-> normalized[x]]]
    /\ UNCHANGED <<normalized, archiveVars>>

(* Inserting a second row for the extraction violates the unique key and   *)
(* rolls back.                                                             *)
CommitArchive(e) ==
    LET x == tx[e].on
        n == tx[e].source
        c == RefreshedContent(<<>>, n)
    IN
    /\ tx[e].op = "archive" /\ ~Exists(x)
    /\ row' = [row EXCEPT
            ![x] = [status |-> "archived", number |-> n.number, version |-> 1]]
    /\ content' = [content EXCEPT ![x] = c]
    /\ versions' = [versions EXCEPT ![x] = {1}]
    /\ newest' = [newest EXCEPT ![x] = [number |-> n.number, content |-> c]]
    /\ tx' = [tx EXCEPT ![e] = NoTx]
    /\ UNCHANGED normalized

-----------------------------------------------------------------------------
(* Mutations of an existing archive *)

(* lockArchive and the reads that follow it.  A refresh is asked for by    *)
(* refreshDirtyArchivesForDocument, which found the row dirty earlier, or  *)
(* by refreshArchivesForDocuments, whatever its status: the status is not  *)
(* looked at again.                                                        *)
BeginEdit(e, x, op, arg) ==
    /\ tx[e] = NoTx
    /\ Exists(x) /\ row[x].version < MaxVersion
    /\ Free(x)
    /\ tx' = [tx EXCEPT ![e] =
            [op |-> op, on |-> x, loaded |-> row[x], arg |-> arg]]
    /\ UNCHANGED <<normalized, archiveVars>>

(* Mutant: saving an edit sets the row to "archived". *)
SavedRowArchived(loaded, status) ==
    [status |-> "archived", number |-> loaded.number, version |-> loaded.version + 1]

(* save(archive): the entity was loaded at the start of the transaction,   *)
(* and every column in which it differs from the row is written back.      *)
SavedRow(loaded, status) ==
    [status |-> status, number |-> loaded.number, version |-> loaded.version + 1]

(* Mutant: the version records the archive as it was before the change. *)
SnapshotBefore(x, r, c) == [number |-> row[x].number, content |-> content[x]]

(* getArchiveDetail, read after the save. *)
SnapshotAfter(x, r, c) == [number |-> r.number, content |-> c]

(* The end of every mutation: save(archive), read the archive back, insert *)
(* the version.  The unique key on (archive, version) may refuse it.       *)
CommitVersion(e, status, c) ==
    LET x == tx[e].on
        r == SavedRow(tx[e].loaded, status)
    IN
    /\ r.version \notin versions[x]
    /\ row' = [row EXCEPT ![x] = r]
    /\ content' = [content EXCEPT ![x] = c]
    /\ versions' = [versions EXCEPT ![x] = @ \cup {r.version}]
    /\ newest' = [newest EXCEPT ![x] = SnapshotAfter(x, r, c)]
    /\ tx' = [tx EXCEPT ![e] = NoTx]
    /\ UNCHANGED normalized

(* patchArchive of docInfo: the row's columns are updated, then save()     *)
(* writes the loaded ones over them.                                       *)
CommitPatchDocInfo(e) ==
    /\ tx[e].op = "patchDocInfo"
    /\ CommitVersion(e, tx[e].loaded.status, content[tx[e].on])

(* patchArchive of an item: persistSnapshot writes the text of every item  *)
(* of the snapshot taken under the lock, the changed one among them.       *)
PatchedTexts(c, i, t) == [k \in DOMAIN c |-> IF k = i THEN t ELSE c[k].text]

CommitPatchItem(e) ==
    LET c == content[tx[e].on]
        texts == tx[e].arg
    IN
    /\ tx[e].op = "patchItem"
    /\ CommitVersion(e, tx[e].loaded.status,
         [i \in DOMAIN c |->
            IF i \in DOMAIN texts THEN [c[i] EXCEPT !.text = texts[i]] ELSE c[i]])

(* replaceItemProductBindings *)
CommitBind(e) ==
    /\ tx[e].op = "bind"
    /\ CommitVersion(e, tx[e].loaded.status,
         [content[tx[e].on] EXCEPT ![tx[e].arg.item].bindings = tx[e].arg.bindings])

(* refreshArchiveFromNormalizedExtraction *)
CommitRefresh(e) ==
    /\ tx[e].op = "refresh"
    /\ CommitVersion(e, "archived", RefreshedContent(content[tx[e].on], tx[e].arg))

Rollback(e) ==
    /\ tx[e] # NoTx
    /\ tx' = [tx EXCEPT ![e] = NoTx]
    /\ UNCHANGED <<normalized, archiveVars>>

-----------------------------------------------------------------------------

BeginRequest(e, x) ==
    \/ BeginArchive(e, x)
    \/ \E n \in AnyNumber : BeginEdit(e, x, "patchDocInfo", n)
    \/ \E i \in DOMAIN content[x] :
        \/ \E t \in Texts :
            BeginEdit(e, x, "patchItem", PatchedTexts(content[x], i, t))
        \/ \E B \in BindInputs :
            BeginEdit(e, x, "bind", [item |-> i, bindings |-> B])
    \/ BeginEdit(e, x, "refresh", normalized[x])

Commit(e) ==
    \/ CommitArchive(e)
    \/ CommitPatchDocInfo(e)
    \/ CommitPatchItem(e)
    \/ CommitBind(e)
    \/ CommitRefresh(e)

Next ==
    \/ \E x \in Extractions :
        \/ \E n \in Results : Normalize(x, n)
        \/ MarkDirty(x)
        \/ \E e \in Editors : BeginRequest(e, x)
    \/ \E e \in Editors : Commit(e) \/ Rollback(e)

Spec == Init /\ [][Next]_vars

-----------------------------------------------------------------------------

(* "Each save creates a new version": the versions of an archive are       *)
(* numbered 1 to its current version without a gap, and the number an open *)
(* edit will use is free, so no edit ever fails on the version key.        *)
VersionsConsecutive ==
    /\ \A x \in Extractions : versions[x] = 1..row[x].version
    /\ \A e \in Editors : tx[e].op \in Edits =>
            tx[e].loaded.version + 1 \notin versions[tx[e].on]

(* The newest snapshot is what the archive holds: no change escapes the    *)
(* version history, and none is recorded that was not made.                *)
NewestSnapshotIsCurrent ==
    \A x \in Extractions :
        newest[x] = [number |-> row[x].number, content |-> content[x]]

(* Only a refresh clears the mark that an archive is out of date with the  *)
(* dictionary; an edit that began before the mark does not write its old   *)
(* status over it.                                                         *)
OnlyRefreshCleansArchive ==
    [][\A x \in Extractions :
            Exists(x) /\ row[x].status = "dictionary_dirty" /\ row'[x].status = "archived" =>
                \E e \in Editors :
                    tx[e].op = "refresh" /\ tx[e].on = x /\ tx'[e] = NoTx]_vars

(* Product numbers bound by hand are removed by a binding edit, or with    *)
(* their item, and by no refresh or patch.                                 *)
ManualBindingsSurvive ==
    [][\A x \in Extractions, e \in Editors :
            tx[e] # NoTx /\ tx[e].op # "bind" /\ tx[e].on = x /\ tx'[e] = NoTx =>
                \A i \in DOMAIN content[x] \cap DOMAIN content'[x] :
                    ManualBindings(content'[x], i) = ManualBindings(content[x], i)]_vars

(* "Edits archived contract fields": once a docInfo change is accepted and *)
(* its version appended, the archive has the new value.                    *)
DocInfoPatchTakesEffect ==
    [][\A e \in Editors :
            tx[e].op = "patchDocInfo" /\ versions' # versions /\ tx'[e] = NoTx =>
                row'[tx[e].on].number = tx[e].arg]_vars
=============================================================================
