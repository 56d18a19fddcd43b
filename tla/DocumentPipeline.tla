-------------------------- MODULE DocumentPipeline ---------------------------
(***************************************************************************)
(* How an uploaded file becomes a normalized document, in                  *)
(* features/productConfigAgent: the requests that parse, extract and       *)
(* normalize one document, the batch that parses many, and the pending LLM *)
(* job that extracts the documents for which that is missing.              *)
(*                                                                         *)
(* All of them can work on the same document at once, write its status     *)
(* outside any transaction, and mark it failed when a stage throws.  The   *)
(* status is also what the pending job looks for: what it does not select  *)
(* is extracted by no one.                                                 *)
(*                                                                         *)
(* Abstractions.  A document is a file, since the hash of a file is unique *)
(* among documents; its number is its id.  A file is parsed into the same  *)
(* blocks each time.  Every extraction is made with the same prompt, model *)
(* and dictionary version, so the status dictionary_dirty is left to       *)
(* DictionaryRefresh; the statuses of the planned extraction, a command    *)
(* line of its own, and the progress shown for the job are left out.       *)
(***************************************************************************)
EXTENDS Naturals, FiniteSets, Sequences

CONSTANTS
    Requests,       \* HTTP requests and single calls of a script
    Batches,        \* runs of parseAndSaveBlocksBatch
    Workers,        \* the workers of the pending LLM job
    Documents,
    Copies,         \* documents with one file name and one content
    Limit,          \* documents one pending job takes
    MaxExtractions, \* bound on the extractions of a document
    MaxFaults       \* bound on what may leave a document behind

ASSUME DocumentAssumption == Documents \subseteq Nat /\ IsFiniteSet(Documents)
ASSUME CopiesAssumption   == Copies \subseteq Documents
ASSUME BoundAssumption    == {Limit, MaxExtractions, MaxFaults} \subseteq Nat
ASSUME ActorAssumption    ==
    /\ Requests \cap Batches = {}
    /\ Workers \cap (Requests \cup Batches) = {}

VARIABLES
    status,      \* documents.status
    blocks,      \* documents with a row in document_blocks
    extractions, \* the statuses of a document's extraction_results, oldest first
    duplicates,  \* documents with a row in document_duplicates
    at,          \* the stage each request, worker and batch is in
    work,        \* what each request and worker works on
    batch,       \* what each batch works on
    job,         \* status of the pending LLM job
    queue,       \* documents its workers have still to take
    late,        \* writes still under way when their sibling failed
    disturbed,   \* documents left behind, see NothingIsForgotten
    faults

rows == <<status, blocks, extractions, duplicates>>
jobs == <<job, queue>>
vars == <<rows, at, work, batch, jobs, late, disturbed, faults>>

Statuses == {"none", "uploaded", "parsed_blocks", "extracted", "normalized", "failed"}
Stages   == {"idle", "find", "create", "blocks", "save", "parsed", "copies",
             "duplicates", "extract", "llm", "extracted", "write", "normalized", "mark"}
BatchStages == {"idle", "states", "create", "parse", "mark", "save", "parsed",
                "copies", "duplicates"}
Writes   == {"extraction", "status"}
Extractors == Requests \cup Workers
Work     == [doc : Documents,
             reparse   : BOOLEAN,  \* forceReparse
             reextract : BOOLEAN,  \* forceReextract
             marks     : BOOLEAN,  \* marks the document failed when it fails
             row       : Nat,      \* the extraction it normalizes
             todo      : SUBSET Writes,
             copies    : SUBSET Documents]
Write    == [part : Writes, doc : Documents, row : Nat]
Nothing  == [doing |-> "nothing"]
Batch    == [docs : SUBSET Documents, parse : SUBSET Documents,
             failed : SUBSET Documents, saved : BOOLEAN,
             copies : SUBSET Documents]

TypeOK ==
    /\ status \in [Documents -> Statuses]
    /\ blocks \subseteq Documents
    /\ extractions \in [Documents -> Seq({"parsed", "normalized"})]
    /\ duplicates \subseteq Documents
    /\ at \in [Extractors \cup Batches -> Stages \cup BatchStages]
    /\ work \in [Extractors -> Work \cup {Nothing}]
    /\ batch \in [Batches -> Batch]
    /\ job \in {"none", "select", "running"}
    /\ queue \subseteq Documents
    /\ late \subseteq Write
    /\ disturbed \subseteq Documents
    /\ faults \in 0..MaxFaults

NoBatch == [docs |-> {}, parse |-> {}, failed |-> {}, saved |-> FALSE, copies |-> {}]

Init ==
    /\ status = [d \in Documents |-> "none"]
    /\ blocks = {}
    /\ extractions = [d \in Documents |-> <<>>]
    /\ duplicates = {}
    /\ at = [a \in Extractors \cup Batches |-> "idle"]
    /\ work = [a \in Extractors |-> Nothing]
    /\ batch = [b \in Batches |-> NoBatch]
    /\ job = "none"
    /\ queue = {}
    /\ late = {}
    /\ disturbed = {}
    /\ faults = 0

Fault   == faults < MaxFaults /\ faults' = faults + 1
NoFault == UNCHANGED faults

Task(d, reparse, reextract) ==
    [doc |-> d, reparse |-> reparse, reextract |-> reextract, marks |-> TRUE,
     row |-> 0, todo |-> {}, copies |-> {}]

Go(a, stage)     == at' = [at EXCEPT ![a] = stage]
Turn(a, w)       == work' = [work EXCEPT ![a] = w]
Leave(a)         == Go(a, "idle") /\ Turn(a, Nothing)
SetStatus(d, s)  == status' = [status EXCEPT ![d] = s]
UnchangedLate    == UNCHANGED <<late, disturbed>>

WorksOn(a, d) == at[a] # "idle" /\ work[a].doc = d

(* Somebody will set the status of the document once more: to normalized,  *)
(* or to failed.                                                           *)
Owed(d) == \E a \in Extractors :
              WorksOn(a, d) /\ work[a].marks /\ at[a] \notin {"find", "create"}

(* A document that was extracted is called parsed_blocks again, and nobody *)
(* goes on to extract it.                                                  *)
Overtaken(S) == {d \in S : extractions[d] # <<>> /\ ~Owed(d)}

-----------------------------------------------------------------------------
(* Documents that are copies of one another *)

Extracted(d, s) == \E n \in DOMAIN extractions[d] : extractions[d][n] = s

extractionRank(d) ==
    IF Extracted(d, "normalized") THEN 0 ELSE IF extractions[d] # <<>> THEN 1 ELSE 3

chooseCanonicalDocument(S) ==
    CHOOSE d \in S : \A e \in S \ {d} :
        \/ extractionRank(d) < extractionRank(e)
        \/ extractionRank(d) = extractionRank(e) /\ d < e

(* buildDuplicateDocumentReport, for the file names of S: no mapping while *)
(* one of the copies has no blocks.                                        *)
DuplicatesAmong(S) ==
    LET present == {d \in Copies : status[d] # "none"} IN
    IF S \cap Copies = {} \/ Cardinality(present) < 2 \/ ~(present \subseteq blocks)
    THEN {}
    ELSE present \ {chooseCanonicalDocument(present)}

-----------------------------------------------------------------------------
(* One document: process, parseAndSaveBlocks, extractDocumentBlocksWithLlm *)
(* and generateDictionaryForDocument *)

Begin(a, stage, w) ==
    /\ at[a] = "idle"
    /\ Go(a, stage) /\ Turn(a, w)
    /\ UNCHANGED <<rows, batch, jobs>> /\ UnchangedLate /\ NoFault

(* Ids are given in the order in which files are first seen.               *)
MayUpload(S) == \A d \in S : \A e \in Documents : e < d => status[e] # "none" \/ e \in S

(* process: an upload forces both, the test tool only the extraction, or   *)
(* neither.                                                                *)
Upload(r) ==
    \E d \in Documents, reparse, reextract \in BOOLEAN :
        /\ MayUpload({d}) /\ (reparse => reextract)
        /\ Begin(r, "find", Task(d, reparse, reextract))

(* extractDocumentBlocksWithLlm; reextractDocumentWithLlm forces it.       *)
Extract(r) ==
    \E d \in blocks, reextract \in BOOLEAN :
        Begin(r, "extract", Task(d, FALSE, reextract))

(* The latest extraction; nothing is marked failed.                        *)
Generate(r) ==
    \E d \in blocks :
        /\ extractions[d] # <<>>
        /\ Begin(r, "write", [Task(d, FALSE, FALSE) EXCEPT
                !.marks = FALSE, !.row = Len(extractions[d]), !.todo = Writes])

FindDocument(a) ==
    /\ at[a] = "find"
    /\ Go(a, IF status[work[a].doc] = "none" THEN "create" ELSE "blocks")
    /\ UNCHANGED <<rows, work, batch, jobs>> /\ UnchangedLate /\ NoFault

(* file_hash is unique: whoever comes second fails, and marks nothing.     *)
CreateDocument(a) ==
    /\ at[a] = "create"
    /\ IF status[work[a].doc] = "none"
       THEN SetStatus(work[a].doc, "uploaded") /\ Go(a, "blocks") /\ UNCHANGED work
       ELSE Leave(a) /\ UNCHANGED status
    /\ UNCHANGED <<blocks, extractions, duplicates, batch, jobs>>
    /\ UnchangedLate /\ NoFault

FindBlocks(a) ==
    /\ at[a] = "blocks"
    /\ Go(a, IF ~work[a].reparse /\ work[a].doc \in blocks THEN "copies" ELSE "save")
    /\ Turn(a, [work[a] EXCEPT !.reparse = FALSE])
    /\ UNCHANGED <<rows, batch, jobs>> /\ UnchangedLate /\ NoFault

SaveBlocks(a) ==
    /\ at[a] = "save"
    /\ blocks' = blocks \cup {work[a].doc}
    /\ Go(a, "parsed")
    /\ UNCHANGED <<status, extractions, duplicates, work, batch, jobs>>
    /\ UnchangedLate /\ NoFault

(* Mutant: the status of an extraction, where a document has parsed_blocks. *)
MarkParsedAsExtraction(a) ==
    /\ at[a] = "parsed"
    /\ SetStatus(work[a].doc, "parsed")
    /\ Go(a, "copies")
    /\ UNCHANGED <<blocks, extractions, duplicates, work, batch, jobs>>
    /\ UnchangedLate /\ NoFault

MarkParsed(a) ==
    /\ at[a] = "parsed"
    /\ SetStatus(work[a].doc, "parsed_blocks")
    /\ Go(a, "copies")
    /\ UNCHANGED <<blocks, extractions, duplicates, work, batch, jobs>>
    /\ UnchangedLate /\ NoFault

(* applyDuplicateMappingsForFileNames reads, and writes what it has found; *)
(* an error in it is swallowed.                                            *)
FindCopies(a) ==
    /\ at[a] = "copies"
    /\ \E found \in {{}, DuplicatesAmong({work[a].doc})} :
          Turn(a, [work[a] EXCEPT !.copies = found])
    /\ Go(a, "duplicates")
    /\ UNCHANGED <<rows, batch, jobs>> /\ UnchangedLate /\ NoFault

StoreDuplicates(a) ==
    /\ at[a] = "duplicates"
    /\ duplicates' = duplicates \cup work[a].copies
    /\ Go(a, "extract") /\ Turn(a, [work[a] EXCEPT !.copies = {}])
    /\ UNCHANGED <<status, blocks, extractions, batch, jobs>>
    /\ UnchangedLate /\ NoFault

(* findLatestExtraction                                                    *)
FindExtraction(a) ==
    LET w == work[a]
        n == Len(extractions[w.doc])
    IN
    /\ at[a] = "extract"
    /\ IF ~w.reextract /\ n > 0
       THEN Go(a, "write") /\ Turn(a, [w EXCEPT !.row = n, !.todo = Writes])
       ELSE Go(a, "llm") /\ Turn(a, [w EXCEPT !.reextract = FALSE])
    /\ UNCHANGED <<rows, batch, jobs>> /\ UnchangedLate /\ NoFault

StoreExtraction(a) ==
    LET d == work[a].doc
        n == Len(extractions[d]) + 1
    IN
    /\ at[a] = "llm" /\ n <= MaxExtractions
    /\ extractions' = [extractions EXCEPT ![d] = Append(@, "parsed")]
    /\ Turn(a, [work[a] EXCEPT !.row = n])
    /\ Go(a, "extracted")
    /\ UNCHANGED <<status, blocks, duplicates, batch, jobs>>
    /\ UnchangedLate /\ NoFault

MarkExtracted(a) ==
    /\ at[a] = "extracted"
    /\ SetStatus(work[a].doc, "extracted")
    /\ Turn(a, [work[a] EXCEPT !.todo = Writes])
    /\ Go(a, "write")
    /\ UNCHANGED <<blocks, extractions, duplicates, batch, jobs>>
    /\ UnchangedLate /\ NoFault

Normalized(d, n) == [extractions EXCEPT ![d][n] = "normalized"]

(* generateDictionaryForExtraction: Promise.all of two statements.         *)
WriteLands(a) ==
    LET w == work[a] IN
    /\ at[a] = "write"
    /\ \E k \in w.todo :
        LET rest == w.todo \ {k} IN
        /\ IF k = "extraction"
           THEN extractions' = Normalized(w.doc, w.row) /\ UNCHANGED status
           ELSE SetStatus(w.doc, "normalized") /\ UNCHANGED extractions
        /\ IF rest = {} /\ ~w.marks
           THEN Leave(a)
           ELSE /\ Turn(a, [w EXCEPT !.todo = rest, !.row = IF rest = {} THEN 0 ELSE @])
                /\ Go(a, IF rest = {} THEN "normalized" ELSE "write")
    /\ UNCHANGED <<blocks, duplicates, batch, jobs>> /\ UnchangedLate /\ NoFault

(* normalizeExtractionForDocument writes the status once more.             *)
MarkNormalized(a) ==
    /\ at[a] = "normalized"
    /\ SetStatus(work[a].doc, "normalized")
    /\ Leave(a)
    /\ UNCHANGED <<blocks, extractions, duplicates, batch, jobs>>
    /\ UnchangedLate /\ NoFault

-----------------------------------------------------------------------------
(* Failures of one document *)

(* Mutant: the error is thrown on without a mark.                          *)
ThrowOn(a) == Leave(a)

AfterFailure(a) ==
    IF work[a].marks
    THEN Go(a, "mark") /\ Turn(a, Task(work[a].doc, FALSE, FALSE))
    ELSE Leave(a)

(* A query, the parser, the LLM or the normalizer throws.                  *)
Fails(a) ==
    /\ \/ at[a] \in {"blocks", "save", "parsed", "extract", "llm", "extracted", "normalized"}
       \/ at[a] = "write" /\ work[a].todo = Writes
    /\ AfterFailure(a)
    /\ UNCHANGED <<rows, batch, jobs>> /\ UnchangedLate /\ NoFault

(* One statement of the Promise.all fails.  The other has landed, or it is *)
(* under way still and nobody waits for it.                                *)
WriteFails(a) ==
    LET w == work[a] IN
    /\ at[a] = "write" /\ Fault
    /\ \E k \in w.todo :
        /\ late' = late \cup {[part |-> p, doc |-> w.doc, row |-> w.row] : p \in w.todo \ {k}}
        /\ disturbed' = IF k = "extraction" /\ ("status" \in w.todo \/ ~w.marks)
                        THEN disturbed \cup {w.doc} ELSE disturbed
        /\ UNCHANGED <<rows, batch, jobs>>
    /\ AfterFailure(a)

LateWriteLands ==
    \E l \in late :
        /\ late' = late \ {l}
        /\ IF l.part = "extraction"
           THEN extractions' = Normalized(l.doc, l.row) /\ UNCHANGED status
           ELSE SetStatus(l.doc, "normalized") /\ UNCHANGED extractions
        /\ UNCHANGED <<blocks, duplicates, at, work, batch, jobs, disturbed>> /\ NoFault

MarkFailed(a) ==
    /\ at[a] = "mark"
    /\ SetStatus(work[a].doc, "failed")
    /\ Leave(a)
    /\ UNCHANGED <<blocks, extractions, duplicates, batch, jobs>>
    /\ UnchangedLate /\ NoFault

(* markFailed swallows its own error.                                      *)
MarkIsLost(a) ==
    /\ at[a] = "mark" /\ Fault
    /\ disturbed' = disturbed \cup {work[a].doc}
    /\ Leave(a)
    /\ UNCHANGED <<rows, batch, jobs, late>>

-----------------------------------------------------------------------------
(* Many documents: parseAndSaveBlocksBatch, without forceReparse.  The     *)
(* stages of a batch: read the states, create the missing documents, read  *)
(* the states again, parse, mark what could not be parsed, save the rest,  *)
(* set their status, map the duplicates.                                   *)

Put(b, stage, x) == Go(b, stage) /\ batch' = [batch EXCEPT ![b] = x]
BatchEnds(b)     == Put(b, "idle", NoBatch)
BatchOnly        == UNCHANGED <<work, jobs>> /\ UnchangedLate /\ NoFault

StartBatch(b) ==
    /\ at[b] = "idle"
    /\ \E S \in SUBSET Documents \ {{}} :
          MayUpload(S) /\ Put(b, "states", [NoBatch EXCEPT !.docs = S])
    /\ UNCHANGED rows /\ BatchOnly

ReadStates(b) ==
    LET x == batch[b] IN
    /\ at[b] = "states"
    /\ IF \A d \in x.docs : status[d] # "none"
       THEN Put(b, "parse", [x EXCEPT !.parse = x.docs \ blocks])
       ELSE Put(b, "create", [x EXCEPT !.parse = {d \in x.docs : status[d] = "none"}])
    /\ UNCHANGED rows /\ BatchOnly

(* One INSERT for all: a document created meanwhile fails the whole batch, *)
(* and no document is marked.                                              *)
CreateDocuments(b) ==
    LET x == batch[b] IN
    /\ at[b] = "create"
    /\ IF \A d \in x.parse : status[d] = "none"
       THEN /\ status' = [d \in Documents |-> IF d \in x.parse THEN "uploaded" ELSE status[d]]
            /\ Put(b, "states", [x EXCEPT !.parse = {}])
       ELSE BatchEnds(b) /\ UNCHANGED status
    /\ UNCHANGED <<blocks, extractions, duplicates>> /\ BatchOnly

(* The query for the states throws.                                        *)
StatesFail(b) ==
    /\ at[b] \in {"states", "create"}
    /\ BatchEnds(b)
    /\ UNCHANGED rows /\ BatchOnly

(* Some of the files cannot be parsed.                                     *)
ParseBatch(b) ==
    /\ at[b] = "parse"
    /\ \E bad \in SUBSET batch[b].parse :
          Put(b, IF bad = {} THEN "save" ELSE "mark",
              [batch[b] EXCEPT !.parse = @ \ bad, !.docs = @ \ bad, !.failed = bad])
    /\ UNCHANGED rows /\ BatchOnly

(* What a save that failed leaves marked has nothing left to save.         *)
MarkOneFailed(b) ==
    LET x == batch[b] IN
    /\ at[b] = "mark"
    /\ \E d \in x.failed :
        /\ SetStatus(d, "failed")
        /\ Put(b, IF x.failed # {d} THEN "mark" ELSE IF x.saved THEN "copies" ELSE "save",
               [x EXCEPT !.failed = @ \ {d}])
    /\ UNCHANGED <<blocks, extractions, duplicates>> /\ BatchOnly

SaveAll(b) ==
    /\ at[b] = "save"
    /\ blocks' = blocks \cup batch[b].parse
    /\ Put(b, "parsed", [batch[b] EXCEPT !.saved = TRUE])
    /\ UNCHANGED <<status, extractions, duplicates>> /\ BatchOnly

MarkAllParsed(b) ==
    LET x == batch[b] IN
    /\ at[b] = "parsed"
    /\ status' = [d \in Documents |-> IF d \in x.parse THEN "parsed_blocks" ELSE status[d]]
    /\ disturbed' = disturbed \cup Overtaken(x.parse)
    /\ Put(b, "copies", [x EXCEPT !.parse = {}])
    /\ UNCHANGED <<blocks, extractions, duplicates, work, jobs, late>> /\ NoFault

(* Either statement throws: whatever was to be saved is marked failed.     *)
SaveFails(b) ==
    LET x == batch[b] IN
    /\ at[b] \in {"save", "parsed"}
    /\ Put(b, IF x.parse = {} THEN "copies" ELSE "mark",
           [x EXCEPT !.docs = @ \ x.parse, !.failed = x.parse, !.parse = {}, !.saved = TRUE])
    /\ UNCHANGED rows /\ BatchOnly

FindBatchCopies(b) ==
    /\ at[b] = "copies"
    /\ \E found \in {{}, DuplicatesAmong(batch[b].docs)} :
          Put(b, "duplicates", [NoBatch EXCEPT !.copies = found])
    /\ UNCHANGED rows /\ BatchOnly

StoreBatchDuplicates(b) ==
    /\ at[b] = "duplicates"
    /\ duplicates' = duplicates \cup batch[b].copies
    /\ BatchEnds(b)
    /\ UNCHANGED <<status, blocks, extractions>> /\ BatchOnly

-----------------------------------------------------------------------------
(* The pending LLM job *)

(* Mutant: what has any extraction is left alone, failed or not.           *)
NeverExtracted == {d \in blocks \ duplicates : extractions[d] = <<>>}

(* findDocumentsMissingExtraction                                          *)
MissingExtraction ==
    {d \in blocks \ duplicates : extractions[d] = <<>> \/ status[d] = "failed"}

FirstOf(S, n) == {d \in S : Cardinality({e \in S : e < d}) < n}

JobOnly == UNCHANGED <<rows, batch>> /\ UnchangedLate /\ NoFault

(* While a job is running, startPendingLlmUploadJob returns that one.      *)
StartPending ==
    /\ job = "none"
    /\ job' = "select"
    /\ UNCHANGED <<at, work, queue>> /\ JobOnly

SelectPending ==
    /\ job = "select"
    /\ job' = "running" /\ queue' = FirstOf(MissingExtraction, Limit)
    /\ UNCHANGED <<at, work>> /\ JobOnly

SelectFails ==
    /\ job = "select"
    /\ job' = "none"
    /\ UNCHANGED <<at, work, queue>> /\ JobOnly

(* Mutant: the cursor is not moved.                                        *)
TakeAgain(w) ==
    /\ at[w] = "idle" /\ queue # {}
    /\ Turn(w, Task(CHOOSE e \in queue : \A f \in queue : e <= f, FALSE, TRUE))
    /\ Go(w, "extract")
    /\ UNCHANGED <<job, queue>> /\ JobOnly

(* A worker takes the next document; it always extracts anew.              *)
TakeDocument(w) ==
    /\ at[w] = "idle" /\ queue # {}
    /\ LET d == CHOOSE e \in queue : \A f \in queue : e <= f IN
       /\ queue' = queue \ {d}
       /\ Turn(w, Task(d, FALSE, TRUE))
    /\ Go(w, "extract")
    /\ UNCHANGED job /\ JobOnly

EndPending ==
    /\ job = "running" /\ queue = {} /\ \A w \in Workers : at[w] = "idle"
    /\ job' = "none"
    /\ UNCHANGED <<at, work, queue>> /\ JobOnly

-----------------------------------------------------------------------------
(* Crashes *)

(* The server stops, with its requests and the pending job, or a script.   *)
ProcessStops ==
    /\ Fault
    /\ \E gone \in SUBSET Requests, server \in BOOLEAN :
        LET stopped == gone \cup (IF server THEN Workers ELSE {}) IN
        /\ disturbed' = disturbed \cup {d \in Documents : \E a \in stopped : WorksOn(a, d)}
        /\ at' = [a \in Extractors \cup Batches |-> IF a \in stopped THEN "idle" ELSE at[a]]
        /\ work' = [a \in Extractors |-> IF a \in stopped THEN Nothing ELSE work[a]]
        /\ job' = IF server THEN "none" ELSE job
        /\ queue' = IF server THEN {} ELSE queue
    /\ UNCHANGED <<rows, batch, late>>

(* A batch is run by a script: what it was about to mark stays unmarked.   *)
BatchStops(b) ==
    /\ at[b] # "idle" /\ Fault
    /\ BatchEnds(b)
    /\ UNCHANGED <<rows, work, jobs, late, disturbed>>

-----------------------------------------------------------------------------
Parse(a) ==
    \/ FindDocument(a) \/ CreateDocument(a) \/ FindBlocks(a) \/ SaveBlocks(a)
    \/ MarkParsed(a) \/ FindCopies(a) \/ StoreDuplicates(a)

ExtractAndNormalize(a) ==
    \/ FindExtraction(a) \/ StoreExtraction(a) \/ MarkExtracted(a)
    \/ WriteLands(a) \/ MarkNormalized(a)
    \/ Fails(a) \/ WriteFails(a) \/ MarkFailed(a) \/ MarkIsLost(a)

Request(r) == Upload(r) \/ Extract(r) \/ Generate(r) \/ Parse(r) \/ ExtractAndNormalize(r)
Worker(w)  == TakeDocument(w) \/ ExtractAndNormalize(w)

BatchStep(b) ==
    \/ StartBatch(b) \/ ReadStates(b) \/ CreateDocuments(b) \/ StatesFail(b)
    \/ ParseBatch(b) \/ MarkOneFailed(b) \/ SaveAll(b) \/ MarkAllParsed(b)
    \/ SaveFails(b) \/ FindBatchCopies(b) \/ StoreBatchDuplicates(b) \/ BatchStops(b)

PendingJob == SelectPending \/ SelectFails \/ EndPending

Next ==
    \/ \E r \in Requests : Request(r)
    \/ \E w \in Workers : Worker(w)
    \/ \E b \in Batches : BatchStep(b)
    \/ StartPending \/ PendingJob
    \/ LateWriteLands
    \/ ProcessStops

(* The event loop gets to every callback, and every call of a worker, to   *)
(* the database or to the LLM, answers or throws.                          *)
Fairness == WF_vars(PendingJob) /\ \A w \in Workers : WF_vars(Worker(w))

Spec == Init /\ [][Next]_vars /\ Fairness

-----------------------------------------------------------------------------
(* Properties *)

Busy(d) ==
    \/ \E a \in Extractors : WorksOn(a, d)
    \/ \E b \in Batches : at[b] # "idle" /\ d \in batch[b].parse \cup batch[b].failed

Finished(d) == status[d] = "normalized" /\ Extracted(d, "normalized")

(* A parsed document nobody works on is normalized, or a later pending job *)
(* will take it, or it is the copy of another: whatever stage failed in    *)
(* whatever order.  Not so for a document a crash left half done, one whose*)
(* failed mark was lost, one a batch has called parsed after it had been   *)
(* extracted, and one whose failed normalization still has its status      *)
(* write under way: those are the ones collected in disturbed.             *)
NothingIsForgotten ==
    \A d \in blocks \ disturbed :
        Busy(d) \/ Finished(d) \/ d \in MissingExtraction \/ d \in duplicates

(* A pending job ends, whatever it meets: only then can the next be        *)
(* started, since the one that is running is returned instead.             *)
PendingJobEnds == (job # "none") ~> (job = "none")

(* scripts/parseProductionDetailExcels.README.md: only the copies are      *)
(* written to document_duplicates, and skipped by the pending job.  So one *)
(* document of a group is not.                                             *)
SomeCopyIsNotSkipped ==
    LET present == {d \in Copies : status[d] # "none"} IN
    Cardinality(present) > 1 => ~(present \subseteq duplicates)

=============================================================================
