# Verification of jdy_backend

TLA+ modules for the parts of `jdy_backend` in which several requests, jobs or
processes work on the same rows, the TLC configurations that check them, and
proofs checked by TLAPS. The program is a TypeScript server (Express, TypeORM
over PostgreSQL, node-cron) that connects the form service Jiandaoyun with
WeChat Work, XFT, Fenbeitong, BestSign and the gates of the site, and that turns
contracts uploaded as Excel files into normalized product configurations
(`features/productConfigAgent`, two thirds of the code).

Paths below are relative to `src/src/`; `pca/` stands for
`features/productConfigAgent/`.

    module                     models                                 proofs
    BackgroundJobQueue         features/backgroundJob                 BackgroundJobQueueProofs
      JobLifecycle             what that queue promises
    ContractArchive            pca/archive                            ContractArchiveProofs
    DictionaryRefresh          marks, dirty refresh job               DictionaryRefreshProofs
      DailyMaintenance         that job every night, and archiving    DictionaryRefreshProofs
    DocumentPipeline           parse, extract, normalize, pending job DocumentPipelineProofs
    CandidateReview            reviews, batches, the recheck          CandidateReviewProofs
    HrContract                 a contract at BestSign and its form    HrContractProofs
    ExtractionNormalization    from raw fields to items               ExtractionNormalizationProofs
    RateLimiter                the limits of remote calls             PartsProofs
    AgentRuntime               a request to the agent                 PartsProofs
    ConceptResolver            what the dictionary makes of a value   PartsProofs
    DictionaryCache            the dictionary in memory               PartsProofs
    PlannedExtraction          extraction by items of a plan          PartsProofs
    AuthExchange               the exchange of a login code           PartsProofs
    TripCheckin                the check-ins of business trips        PartsProofs

`MC*` modules give the bounds. `MCParts`, `MCDocumentJobs` and
`MCDocumentPipeline` are sums: a behaviour belongs to the part it begins with,
which has bounds of its own, and the other parts rest.

How to run them, in this directory:

    tlc -workers 2 -config MCJobQueueSlow.cfg MCBackgroundJobQueue
    tlapm BackgroundJobQueueProofs.tla

---

## 1. The system

### 1.1 The parts

State that outlives a request is in PostgreSQL, in memory of one process (lost
on restart, not shared), or at a remote service. Every process runs the HTTP
server, all schedules and one loop of the job queue. Parts in bold have a module.

| Part | State | Operations | What makes it correct |
|---|---|---|---|
| **Background job queue** `features/backgroundJob` | table `background_jobs`: status, attempts, `locked_by`, `locked_until` | enqueue; claim (`FOR UPDATE SKIP LOCKED`); run the handler; progress; complete; fail or requeue | a job is run by one process at a time while handlers keep their lease; it is always finished in the end; a finished row stays, unless the process that completed it was not told so |
| **Contract archive** `pca/archive` | `contract_archives`, its items and bindings, one row in `contract_archive_versions` per change | archive a document; patch; bind products to an item; refresh from the extraction; mark dirty | versions have no gap; the newest is what the archive holds; marks and manual bindings are not lost |
| **Dictionary refresh** `pca/normalization`, `pca/workflow/dirtyDataRefreshJob`, `pca/dictionary/candidateReviewWorkflow` | `documents.status`, `extraction_results`, archive status, advisory lock 2001001 | review; mark documents dirty or refresh them; run the dirty refresh job | one job at a time; a marked document is refreshed in the end, with the dictionary it was marked for, where no older cache or write gets in between |
| **Document pipeline** `pca/service.ts`, `pca/workflow/blockParsing`, `pendingLlmJob` | `documents`, `document_blocks`, `extraction_results`, `document_duplicates`; the pending job in memory | upload; parse one or many; extract; normalize; find duplicates; pending LLM job; mark failed | no parsed document is forgotten by every later job; jobs end; one of a group of copies is extracted |
| **Dictionary cache** `pca/dictionary/dictionary.cache.ts` | maps and `loadedVersion` in memory; `dictionary_versions` | `ensureFresh` (single flight, 60 s), `reload`, `bumpVersion`, `mutateDictionary` | a reader sees the dictionary of one version; after a mutation, not of an older one |
| **Candidate review** `pca/dictionary/candidateReviewWorkflow`, `pca/service.ts:620-714` | progress of the job; timer and flags in memory | approve, retype, split or reject a candidate; apply operations one by one, resume from the progress; recheck at once or later | what is reported as done is in the dictionary and its documents are marked; a recorded operation is not repeated; the recheck is not lost |
| **Concept resolver** `pca/dictionary/conceptResolver.service.ts` | snapshot of the dictionary, its load under way, known patterns in memory; `concept_resolutions`, `concept_pattern_reviews` | resolve a candidate when it is recorded, or many by hand; review a pattern | a decision is made from the dictionary version it is recorded for; every pattern is offered for review; a verdict stays |
| **Planned extraction** `pca/workflow/plannedExtraction` | `llm_plan_json`, `extraction_json` | plan; extract items in batches, split on failure; merge by item index | no extracted item is overwritten; the model is asked for every planned item, or something says that it was not |
| **Daily maintenance** `pca/workflow/dailyMaintenance` | advisory locks 2001000 and 2001002 | dirty refresh, then archive what is normalized and not archived | every ready document is archived in the end, nothing archived twice; what a review marks reaches the archives made meanwhile |
| **Normalization** `pca/normalization` | the items under way, fields that wait for an item | cut items by numbered fields; cut, move and merge fields; notes | no field is lost, each is with the product it is about |
| Dictionary matching, Excel parser | none | functions from blocks and dictionary | agreement with their rules |
| LLM clients `llm/`, `features/llm`, `pca/extraction` | call logs | chat calls with validation and retry | – |
| **Agent runtime** `features/agentRuntime`, `pca/agent` | sessions, messages, runs, tool calls | send a message: plan, execute tools, answer | what a request leaves behind tells how it ended |
| **Rate limiter** `config/limiter.ts` | ring of the last send times, per service and per name | `tryBeforeRun` before every remote call | of `limit` + 1 calls two are a bucket apart, as far as timers are on time |
| **Authentication** `services/authService.ts`, `middleware/` | exchange cache, pending map; access tokens in memory | exchange a code, verify, refresh a token | a repeated code is answered from the first exchange; nobody waits for ever; the caps hold |
| **HR contracts, BestSign** `features/hr`, `features/bestsign` | `BestSignContractRecord` | events of the form service, notifications of the signing service, maintenance | the record says what was uploaded; a completed contract is shown as such; one form per contract |
| **Business trips, check-ins** `features/jdy`, `features/fbt`, `features/xft` | `XftTripCheckin`, `BusinessTrip` | schedules that import trips and start a check-in per day | a traveller is asked once a day; those already under way are asked too, unless one nobody knows is ahead of them |
| Attendance, leave, vehicles, CRM, WeChat copy, connectors, preferences, logs | copies of remote records, single rows | copies and single row edits | – |

### 1.2 How they interact

* A **request** that reviews candidates changes the dictionary
  (`mutateDictionary`), then marks the affected documents and archives
  `dictionary_dirty` or refreshes the documents itself. A batch of reviews is a
  **background job**.
* The **dirty refresh job** (a request, or the daily maintenance, in any
  process) holds advisory lock 2001001, normalizes each dirty document and
  refreshes its **archive**.
* The **daily maintenance** of each process tries lock 2001000, runs a dirty
  refresh or goes on beside one that is running, and then archives the
  normalized documents without an archive under lock 2001002, which a script of
  the command line also takes. Requests archive one document under none.
* Reviews raise the **dictionary version**, by which the **cache** of every
  process notices that it is old; normalizations read the cache and make new
  **candidates** of what they do not find. The **concept resolver** of the
  service decides at once what each new candidate may be, from its own snapshot
  of the dictionary; people review the patterns of these decisions.
* Schedules, notifications and webhooks of **remote services** (Jiandaoyun,
  BestSign, WeChat Work) act on one row each, with remote calls between the
  read and the write, all of which pass the **rate limiter**.
* The **pending LLM job** (one per process, in memory) selects documents with
  blocks and no extraction and takes them with several workers, while
  **requests** and the **batch** of the command line parse and extract the same
  documents. All of them write `documents.status`, which is what the jobs select
  by.
* Archives are edited by **requests** under a row lock, and refreshed by jobs
  under the same lock.

### 1.3 What is hard in it

Statements are separate awaits and mostly outside transactions. So the
behaviour that tests do not reach, and that the modules are about, is: two
writes of one `Promise.all` of which one fails; a status written by one actor
over the status another wrote in between; a row read before a lock or a remote
call and saved after it; a lease or lock that is passed or released late;
processes that stop between two statements; jobs that select by a status which a
failed step has left behind. `hazards` in `PROJECT.json` lists each at its line,
with the property that covers it or the reason why none does yet.

---

## 2. The modules

### 2.1 BackgroundJobQueue and JobLifecycle

`features/backgroundJob/service.ts`. State: the columns of a row that the code
decides by (`status`, `maxAttempts`, `attempts`, `lockedBy`, `lease`) and, per
process, where its loop is (`pc`), the row it holds (`cur`) and the snapshot of
`attempts` its claim returned (`att`).

| action | code |
|---|---|
| `Enqueue` | `enqueue`, with the clamping of `maxAttempts` (`EffectiveLimit`) |
| `LockRow`, `CommitClaim` | the transaction of `claimNextJob`: SELECT FOR UPDATE SKIP LOCKED, then UPDATE; the lock is held between them |
| `StartHandler`, `UpdateProgress`, `HandlerReturns`, `HandlerThrows` | `runClaimedJob`; a type without handler throws |
| `ReportCompleted`, `CompletionThrows`, `FailOrRequeue` | the UPDATE by id alone, the catch around it, the decision by the snapshot |
| `LoopExits`, `Crash`, `Restart`, `LeaseExpires` | a database error outside the handler, a process that dies and is started again, time |

The clock is what the queries ask of it: a lease is live or expired. A handler
that outlives its lease without `updateProgress` is possible in the code
(`SlowHandlers = TRUE`), and then two processes do run one job; so the
properties are divided into those that hold even then and those that rest on
timely handlers.

`JobLifecycle` is the promise to who enqueues a job: begun by one process at a
time, ended by that one, retried while attempts are left. The queue maps to it
by `runners[j] = {w : w holds j}`; claim maps to `Begin`, a report to `End`, a
crash or loop exit to `Lose`, everything else to a stutter.

The promise is weaker than "completed is final", for the code is: the UPDATE to
`completed` stands inside the `try`, so one that committed and whose answer was
lost is followed by the catch, which writes `queued` or `failed` over the
completed row (`CompletionThrows` has both outcomes). Whoever polls the job may
see it completed, then queued again. In `JobLifecycle` this is `EndUntold`: the
job shows as completed while its process is still at it, and that process alone
may `End` it otherwise. The same loss at the other statements adds nothing: a
report whose answer is lost is the report, for the loop leaves the job either
way.

### 2.2 ContractArchive

`pca/archive/service/contractArchiveMutation.service.ts`. Every mutation is a
transaction; it is modelled as two steps, the one that takes the row lock and
reads (`BeginEdit`: the loaded row and the arguments go to `tx[e]`) and the one
that commits all writes (`CommitPatchDocInfo`, `CommitPatchItem`, `CommitBind`,
`CommitRefresh`). Between them the extraction may be normalized again
(`Normalize`), the archive marked dirty (`MarkDirty`, which waits for the row
lock) and `Rollback` may happen. `archiveDocument` takes no lock, only the
unique key (`BeginArchive`, `CommitArchive`).

The commit is one idea for all of them, `CommitVersion`: the row is saved from
what was *loaded* (`SavedRow`), because TypeORM's `save()` writes back every
column in which the entity differs from the row; the snapshot is taken from what
is in the tables afterwards (`SnapshotAfter`).

Data: `docInfo` and its columns are one product number, an item is one text and
a set of bindings with their source (`document`, `inherited`, `manual`).

### 2.3 DictionaryRefresh

What a document's extraction and its archive hold is the dictionary version they
were computed with (`document[d].from`, `archive[d].from`), next to their status.
`cached[p]` is the version in the cache of process `p`. A normalization reads
that, and `ensureFresh` looks for a newer one only when its last look is a minute
old: so it goes by `cached[p]` or by the current version (`CachedDictionary`).
A review brings the cache of its own process up to date, and no other.

| action | code |
|---|---|
| `ChangeDictionary`, `Mark`, `RefreshAffected`, `AffectedRefreshed`, `MarkFails`, `RefreshAffectedFails` | `reviewCandidateAndRefresh`: the mutation, then `markDocumentsDictionaryDirty` or `generateDictionaryForDocument` for each affected document |
| `StartJob`, `TryLock`, `Unlock` | `withTryAdvisoryLock`, with an unlock that comes after the job ended |
| `SelectDirty`, `RefreshDocument`, `WriteLands`, `DocumentRefreshed`, `DocumentFails`, `FinishJob`, `JobFails` | `processDirtyDataRefreshJob` and `generateDictionaryForExtraction` with its two unordered writes |
| `FindDirtyArchive`, `LockArchive`, `CommitArchive` | `refreshArchiveFromNormalizedExtraction` for the archive of the document |
| `LateWriteLands`, `Crash` | the sibling of a failed write, still under way; a process that dies, which drops its lock |

`due` and `disturbed` are history variables. `due[d]` is the newest change `d`
was marked for. `disturbed` holds the documents for which the code gives no
guarantee: one marked while it was being normalized or archived, one normalized
twice at once, one normalized by a process whose cache was older than the mark,
which clears the mark all the same, one for which a write failed or a process
died. Each is a separate line in the hazards, and the first is also a finding.

### 2.4 DocumentPipeline

A document is a file; what is kept of it is its status, whether it has blocks,
the statuses of its extractions and whether it is in `document_duplicates`.
Requests, workers of the pending job and batches each have a stage (`at`) and
what they work on (`work`, `batch`).

| actions | code |
|---|---|
| `Upload`, `Extract`, `Generate` | the three entries: `process`, `extractDocumentBlocksWithLlm`, `generateDictionaryForDocument` |
| `FindDocument` .. `StoreDuplicates` | `parseAndSaveBlocks` and `applyDuplicateMappingsForFileNames` |
| `FindExtraction`, `StoreExtraction`, `MarkExtracted` | `extractBlocksWithLlm` |
| `WriteLands`, `MarkNormalized` | `normalizeExtractionForDocument`: two writes at once, then the status a third time |
| `Fails`, `WriteFails`, `LateWriteLands`, `MarkFailed`, `MarkIsLost` | every catch of the above, and `markFailed`, which logs and goes on when it fails itself |
| `StartBatch` .. `BatchStops` | `parseAndSaveBlocksBatch`: all files of the batch through each phase together |
| `StartPending` .. `EndPending` | `PendingLlmJobService`, with `findDocumentsMissingExtraction` (`MissingExtraction`) |
| `ProcessStops` | the process dies, and everything in its memory with it |

A function of the code that awaits is cut at its awaits. `chooseCanonicalDocument`
and `DuplicatesAmong` are the duplicate report.

### 2.5 DailyMaintenance

`pca/workflow/dailyMaintenance.service.ts`, over DictionaryRefresh, whose
archives may be missing here (`NoArchive`). `day` is where each process, script
or request is.

| actions | code |
|---|---|
| `BeginDay`, `RefreshNow`, `JobGoesOn`, `EndDay` | `runDailyMaintenance` with `runDirtyDataRefreshJobNow`: it waits for a job it starts, and goes on beside one it finds running |
| `TryArchiveLock`, `SelectCandidates`, `EndArchive` | `archiveExisting`, the oldest `ArchiveLimit` documents without an archive |
| `ReadDocument`, `CommitNewArchive` | `archiveDocument`, cut between what it reads and what it commits |
| `StartScript`, `RequestArchive` | the script `archiveExistingNormalizedContracts`, and the route |
| `ArchiveFails`, `SelectThrows`, `Dies`, `ScriptDies` | one document that fails, a query that throws, a process that dies and drops its locks |

`premature` is a history variable: documents archived while their refresh was
not over, for which a mark cannot reach the archive.

### 2.6 CandidateReview

`pca/dictionary`, `pca/service.ts`. A candidate is a row with a status and a key
(its normalized value or field name), of which several rows may exist. The
dictionary is the set of keys it settles: `known`, and those of them that a
raised version has made visible, `published`. `owed` are the marks an actor has
still to make.

| actions | code |
|---|---|
| `Find`, `Insert`, `Save` | `createValueCandidate`, `createTermTypeCandidate`, cut between the read and the write |
| `Request`, `Reject`, `ReviewTermType`, `WriteDictionary`, `SaveApproved`, `SaveResolutions` | one operation: the row of the candidate and what it teaches the dictionary |
| `Bump`, `Recheck`, `Resolve`, `Rechecked`, `Mark` | what follows it: the version, `recheckPendingCandidatesAfterDictionaryUpdate`, the marks |
| `Timer`, `EndDeferred` | `scheduleDeferredCandidateRecheck` |
| `Start`, `ReviewTermTypes`, `NextOperation`, `Record`, `AllProcessed` | `runCandidateReviewBatchBackgroundJob` with `reviewCandidatesBatch`: the names in one transaction, the rest one by one, a progress after each |
| `Throw`, `OperationThrows`, `Refused`, `AttemptThrows`, `DeferredThrows`, `Restart` | an error in each, and the process that stops |

### 2.7 DictionaryCache

`pca/dictionary/dictionary.cache.ts`. The content of a table is the number of
its last change. A load (`Begin`, `Query`, `Fill`, `Finish`, `Fails`) is
`reload`, cut at its queries; `EnsureFresh` and `Expire` are `ensureFresh` with
its age; `Mutate`, `Write`, `Raise`, `ReloadCache`, `Recheck` and `WriterFails`
are `mutateDictionary` and the reviews, of this service or another.
`disturbed` says that a change, an error or another load met the load that ended
last: loads of writers run outside the single flight.

### 2.8 PlannedExtraction

`pca/workflow/plannedExtraction.service.ts`. What a call of the model gives for
each item (two instances, nothing, text of another item, an error) is chosen
within `Faults`. `ReadOne` and `ReadBatch` read the row, with all items or those
of one product type (`Choices`); `SaveOne` and `SaveBatch` write it as a whole,
with `IndexOf` (the indices given to further instances), `Merges`
(`mergeExtractionJson`) and the statuses; `MarkBlocked` and `Normalize` end a
call. The document may have been normalized before it was planned, and then
stays so (`Init`).

The mark of an extracted item (`extracted_at`, `extracted` here) does not say
that the model was asked for it: when a type is chosen, a further instance of an
item gets the lowest free index, that may be the one of an item of another type,
and the marks go by index. So `answered`, a history variable, holds the items
the model was asked for and has answered, and `Displaced` the others that have
lost their index in this way. The properties are about these, not about the mark.

### 2.9 HrContract

`features/hr/service/hrContractService.ts`, `features/bestsign`. One contract:
`stage` and `signed` are BestSign's, `row` the record, `shown` what its forms
show, `uploaded` the files. `mail` holds the notifications sent so far, each of
which may be delivered any number of times, at any moment.

| actions | code |
|---|---|
| `PersonSigns`, `PersonRejects` | outside: the employee |
| `Deliver`, `Upsert`, `Load`, `Append1`, `Overview`, `CreateForm`, `Link` | `handleNotification`, `upsertContractRecord`, and the form made for a contract without one |
| `Unlinked`, `Rejected`, `Upload`, `SaveFlag`, `ShowNotified` | `handleBestSignOperationComplete`, `handleBestSignContractComplete` |
| `UserActs`, `Find`, `CallAccepted`, `CallRefused`, `SaveCalled`, `ShowCalled`, `ResetFlags` | `handleCreate`, `handleUpdate` and the handler of each act |
| `Fails` | an error or a stop at any of them |

A handler that has loaded the record saves all of it (`SaveHeld`). `crossed` is
history: the flags were reset while a handler held the record. `inOrder` is
history too: notifications have come one after the other, doubled or not.

### 2.10 ConceptResolver

`pca/dictionary/conceptResolver.service.ts`. A run is a call of
`resolveCandidate`: `stage` says how far it has come, `target` the version it
read, `got` the content of the dictionary it goes by. `snapshot`, `flight` and
`known` are the fields of a service that its runs share. `published` is history:
what the content was when a version was raised.

| actions | code |
|---|---|
| `MutateDictionary`, `ChangeContent`, `RaiseVersion` | changes of the dictionary, in one transaction with the version or before it |
| `Resolve`, `ReadVersion` | `enqueueCandidate`, or the next candidate of a manual run or the backfill; `resolveCandidate` |
| `UseSnapshot`, `JoinLoad`, `BeginLoad`, `ReadTables`, `TakeOver` | `loadDictionarySnapshot`: the snapshot, the load under way, or a load of its own |
| `SaveDecision`, `UpdateCandidateSnapshot` | `buildDecision`, the upsert on candidate and version, the copy at the candidate |
| `LoadKeys`, `NothingToInsert`, `IsUnknown`, `Insert` | `upsertPatternReview` with `loadKnownPatternKeys` |
| `FindReview`, `SaveReview` | `reviewPattern`, also as `applyPatternCandidates` calls it |
| `RunFails`, `RestartServices` | an error at any step, which `enqueueCandidate` logs; a process that stops |

When a load ends, the runs that wait for it go on in one turn of the event loop
(`LoadEnds`): those of its version take it, the others begin a load each. Then
`dictionarySnapshotPromise` is the last of these, and the first of them to end
clears it for all; so several loads may run, and an older snapshot may replace a
newer one. The version in the snapshot is what makes this harmless.

### 2.11 ExtractionNormalization

`pca/normalization/extractionNormalization.service.ts` and its rules. `source`
is the extraction with the splits made by people, `doc` the items after
`splitIndexedInstanceItems` with their routes, `finished` and `awaited` the
items done and `pendingRedirectedFields`. A raw field is a name, a value and its
parts; `Meaning` says of a name what the patterns of the rules find in it.
`ExtractionAssumption` says what an extraction is: lists of items, fields and
parts, down to the parts of a part, of which a part the model gives has none
(`validateSplitField` of `parseExtractResult.ts` and `rawFieldFromSplitField`
make no others). `Wanted` is where the rules of redirection lead: to a flat die
or to a hydraulic station.

| definitions | code |
|---|---|
| `CanSplit`, `Spread`, `FieldsOfInstance`, `Free`, `InstanceOf`, `Preprocessed` | `splitIndexedInstanceItems`, `distributeUngroupedFields`, `nextUnusedItemIndex` |
| `Route`, `Wanted`, `Goal` | `resolveItemProductTypeHint`, `getRawFieldProductTypeRedirect` |
| `Leaves`, `Piece`, `Taken`, `Chosen`, `Part`, `Manual`, `SplitByValue` | `expandRawField` and the choices around its two calls: notes, fields of the document, splits by people, options |
| `Halves`, `Pairings`, `Merged` | `mergeNumberUnitPartFields`, `mergeRangeBoundFields` |
| `Dropped` | `resolveCustomerNoteFieldConflicts` |
| `NormalizeItem` | one turn of the loop of `normalizeExtraction` |

### 2.12 The smaller modules

* **RateLimiter** (`config/limiter.ts`): `Call`, `CallAgain`, `TryName` and
  `Run` are `tryBeforeRun` of the shared limiter and then of the name, with the
  sleeps between; `Tick` is the clock, which passes a sleeping call as it likes:
  a timer fires at its time or at any time after it. `ran` is history, the times
  at which calls of a name ran, which `Spaced` is about, and `late` the longest
  that one of them has slept too long.
* **AuthExchange** (`services/authService.ts`): `Login` is `exchangeWechatCode`
  with its three answers (cached, joined to a pending exchange, a new one), of
  which the last two delete an expired result (`Delete`); `Ask`, `Store`,
  `Keep`, `Finally` and `Fails` are the exchange; `Expire` and `CleanUp` the
  cache, of which `Gone` results, the oldest, go when it is pruned.
* **TripCheckin** (`features/jdy/service/businessTripCheckinServices.ts`):
  `Start`, `Look`, `Make`, `CallRemote`, `Link`, `End` are one schedule;
  `RunFails` an error in it, which `guardedSchedule` catches; `UserMakesForm`
  and `DataProcess` a form and its report. `Throws` is what a traveller without
  a `User` or a `Department` (`Strangers`) does to every run that comes to him;
  that is no fault and happens as often as he is found.
* **AgentRuntime** (`features/agentRuntime/service.ts`): `Begin`, `SaveMessage`,
  `TouchSession`, `StartRun`, `CompleteRun`, `FailRun` are `run`; `OnToolStart`,
  `RunTool`, `OnToolFinish`, `RecordError` the executor of a plan; `Throws` and
  `Dies` end what they hit, `Catches` says where an error goes. `untold` holds
  the requests that could not record how they failed.


---

## 3. What is checked

TLC, in `MC*.cfg`. Each property below can be broken by a plausible change of
the code: `PROJECT.json` names one such change per property (`mutants`), which
is an operator beside the definition it replaces.

### 3.1 Runs that pass

**job_queue_slow** (`MCJobQueueSlow.cfg`): two processes, job 1 with a handler
and job 2 without, `maxAttempts` -1 (clamped to 1) or 2, handlers that may
outlive their lease, two faults. `AttemptIdentifiesRun` (two processes on one
job are different attempts), `EveryJobSettles` (every job finishes and stays
finished).

**job_queue_timely** (`MCJobQueueTimely.cfg`): the same with timely handlers and
three faults. `OneRunnerPerJob`, `FinishedRowsAreFinal` (no late report or
progress reaches a finished row; only the process that completed it and was not
told so may take that back, in the step in which it lets go of the job),
`ImplementsLifecycle` (the refinement).

**contract_archive** (`MCContractArchive.cfg`): two editors on one archive,
items 1 and 2, two texts, four results of normalization (none, one or two items,
no product number), four versions. `VersionsConsecutive` (no gap, and an open
edit's number is free, so no edit fails on the key), `NewestSnapshotIsCurrent`,
`OnlyRefreshCleansArchive`, `ManualBindingsSurvive`.

**document_jobs** (`MCDocumentJobs.cfg`), in four parts: the refresh with two
changes for one document, in two processes with a cache each; the refresh with
three documents, the oldest of which fails every time, and jobs of two; a night
without faults, with a review and a request for one document; nights with three
documents to archive, one refused every time, two per night, and a script.
`OneRefreshAtATime`; `MarksReachArchives` (documents, and archives, those made
meanwhile included, are as new as the change they were marked for, or marked;
`disturbed` and `premature` ones aside); `MarksAreWorkedOff` (every dirty
document or archive is refreshed in the end); `ReadyIsArchived` (every ready
document is archived in the end). The last two need `LimitAssumption` and
`ArchiveLimitAssumption`: with as many documents that always fail as one job
takes, the job takes the same ones each time and the others starve
(`db.service.ts:890`, `dailyMaintenance.service.ts:64`).

**document_pipeline** (`MCDocumentPipeline.cfg`), in three parts: a request, a
batch and a worker on one document, with two extractions and one fault; a batch
and the pending job with two workers on two documents; the same with one worker
on two copies. `NothingIsForgotten`: a parsed document nobody works on is
normalized, or the next pending job takes it, or it is the copy of another.
`PendingEnds`: a pending job ends.

**candidate_review** (`MCCandidateReview.cfg`): a request with any operation and
a batch that approves a value and a name, on two rows of one value and a name,
beside a normalization that finds them again. `ApprovedIsKnown`,
`AnsweredIsInForce` (what is reported as done is published, its documents are
marked), `RecordedIsNotRepeated` (an attempt leaves alone what the last one
recorded), `DeferredRecheckComes`.

**hr_contract** (`MCHrContract.cfg`): two handlers, four notifications, two acts
of users. `FlagsAreTrue` (whatever the order and the errors, unless a reset of
the flags was crossed); `CompleteIsShown` (the form the record names) and
`NoSecondForm`, which hold while events come in order, none beside another one,
and without errors: notifications may still be delivered twice.

**parts** (`MCParts.cfg`): eight parts that share no state. `TypesOK` is the
types of all.

| part | properties |
|---|---|
| rate limiter: three calls of one name, limits 1 and, shared, 2 | `EachGrantIsSpaced`; `NamedLimitHolds`: the calls that *run*, after both sleeps, are spaced as their own limiter asks, less the longest that a timer was late |
| dictionary cache: a writer of this service, one of another | `CurrentOfItsVersion`; `CatchesUp` |
| planned extraction: three items of two types, planned first or again | `NormalizedIsWhole` (no step settles the extraction or the document while an item is neither answered nor displaced, or lacks its mark); `EveryItemIsAnswered` (the same in the end, or an item was found to hold the text of another) |
| login: three requests, three codes, one cached, two pending | `RepeatIsNotRefused`; `LoginIsAnswered` |
| check-ins: two schedules, three travellers, one of them not known | `AskedOnce`; `EarlyTravellersAreFound` (unless runs end before they come to him again and again, for want of the user of another) |
| agent: two requests, plans of two steps | `EndIsTold` |
| concept resolver: two runs of one service, a change of the dictionary, a reviewer | `DecisionsHold` (a decision has all its version was raised for, and what a candidate shows is recorded); `ReviewIsKept` |
| normalization: three items, each with one of four lists of fields, in two orders of types, with and without splits by people; two items may have one number | `FieldsArePlaced` (each field is in one place, with its product if the numbers are distinct; nothing waits at the end; cutting an item loses nothing; a field read in a note contradicts none that was there with it) |

### 3.2 Disagreements with the documentation

Each is a run of one property that states what a document, a comment or a
warning of the repository says, and that TLC finds violated.

**doc_info_patch** - `DocInfoPatchTakesEffect`. `productConfigAgent.api.md:422`:
the patch "Edits archived contract fields and appends a new version."
`patchArchive` updates the columns with a statement and then saves the entity it
loaded before: the version is appended and the old `docInfo` is back.

**dirty_mark_lost** - `ReviewReachesDocument`. `FLOW.md:68`: after a review the
affected documents are refreshed or marked. A normalization that read the
dictionary before the review writes `normalized` over the mark after it. (The run
has one process; with two, a cache from before the review does the same to a
document whose refresh begins after it.)

**all_copies_skipped** - `SomeCopyIsNotSkipped`.
`parseProductionDetailExcels.README.md:119`: only copies are written to
`document_duplicates`. When a copy is extracted between two reports it becomes
the canonical one; the rows are only added to, so in the end every copy has one
and the pending job skips them all.

**planned_item_overwritten** - `NothingIsOverwritten`. The warning of
`plannedExtraction.service.ts:96`: a further item got an index that is not
taken, so that the merge overwrites nothing. Free means free in the row as read
and in its own result: a batch that asks for items 1 and 2 and gets two for item
2 gives the second index 1, and the merge takes it for item 1. A call for one
type can do so to an item nobody asks for any more, since it has the mark then.

### 3.3 Bounds, and why they are enough

* Two processes, editors, handlers, schedules or workers: every hazard listed is
  a race of two actors over one row; a third repeats one of the two. The proofs
  of section 4 have no such bound.
* `MaxFaults` (1 to 3): one failure is placed at every step of every actor; the
  queue has three, so that a crash, the failure of the takeover and the failure
  of its report can follow one another.
* `MaxVersion` 2 in the refresh: an old change, and a new one that races it. 4
  in contract_archive: archive, two edits and a refresh. 1 where a night or a
  backlog is the question.
* One reviewed document where there are two changes (`Few`), three in the backlog
  and in the archiving part: one that is refused, and two for the second place of
  a job. All reviews run in one of the two processes (`Host`): the other is the
  one that may have an old cache, and the two are otherwise alike.
* One document where a request, a batch and a worker meet: the stages of
  different documents meet only in the duplicate report and in a batch, which
  the other parts have with two. All on two documents exceed what TLC explores
  in five minutes. `MaxExtractions` 2: one that a forced new one overtakes.
* Two rows of one value in candidate_review, the least in which a save can meet
  the unique key, and one name. The batch has one operation of each kind of
  processing.
* `MaxMail` 4, `MaxActs` 2 in hr_contract: sent, both signatures, complete; an
  act in the middle. One notification may come late. States in which
  notifications came out of order *and* flags were crossed are cut off
  (`InOrderOrNotCrossed`): both stay so once they are, and all properties but
  the type have one of them as their premise.
* Three calls of one name with limit 1 behind the shared limiter of 2: both rings
  wrap, two callers wait at once, and one that wakes late runs close to the next.
  `MaxTime` is three buckets. A second name would share the first ring only.
* Three travellers: one who can be found, one who comes before him and one who is
  not known, in whatever order the loop takes them. `MaxForms` 3: one form the
  first makes unasked, and one for each schedule that asks him.
* Two runs of one service in the resolver: one that loads, and one with a newer
  version that joins its load. One change of the dictionary gives two versions.
  A second service adds what a person does here: a review this service does not
  know of.
* Three items in the normalization: one for which a field waits, one that is
  finished when a field comes, and one of another product between them. The
  four lists of fields have each kind of name, a field in two instances of an
  item and one in both halves. And an extraction without items.
* Three codes with room for one cached and two pending: each limit is met.
* Symmetry is used for editors, processes and handlers in runs of invariants and
  action properties only.
* Deadlock is not checked in the runs in which the system may stop: job_queue_*
  (both jobs are finished and polling is no step), candidate_review (everything
  is answered), hr_contract, parts and planned_item_overwritten (the bounds on
  acts, time, forms or changes are used up).

### 3.4 Fairness, and why the code justifies it

* Job queue: weak fairness of each step of a loop (the poll interval of
  `startWorker` starts it again, an awaited statement or handler ends), of
  `Restart` (the process manager) and of `LeaseExpires` (time passes). None of
  `Enqueue`.
* Dictionary refresh and maintenance: weak fairness of `JobStep` or `JobGoesOn`
  and of `Maintains` for each process (the schedule starts a night every day;
  what runs goes on), of `Unlock`, and of a script that was started. None of
  reviews, requests or late writes.
* Document pipeline: weak fairness of the pending job and of each worker (the
  event loop, and calls that answer or throw). None of requests, batches or of
  `StartPending`.
* Candidate review: weak fairness of the deferred recheck alone (a timer fires).
* Dictionary cache: queries are answered, time passes, requests ask
  (`EnsureFresh`), a writer that has changed a table raises the version.
* Planned extraction: the script runs the batch again (`ReadBatch`), and calls
  end. Check-ins: the schedules fire again, and calls end, with an answer or an
  error; nothing makes the loop take one traveller before another. Login: WeCom
  and the database answer. The limiter has none: timers may be as late as they
  like.

No fault is fair anywhere. A fault may happen, within its bound, at any step.

---

## 4. What is proved

TLAPS, for every number of processes, jobs, editors, items, versions, calls,
candidates and steps. The assumptions are those named in the modules (`ASSUME`):
constants are sets and numbers of the right kind, and the null values are no
members. 16420 obligations in eight modules.

### 4.1 BackgroundJobQueueProofs

| theorem | says |
|---|---|
| `TypeCorrect` | `Spec => []TypeOK` |
| `RunningLeased` | `Spec => []RunningHasLease`: a running row has a lease, so it can be claimed again when that is over |
| `AttemptsIdentifyRuns` | `Spec => []AttemptIdentifiesRun`, slow handlers included |
| `OneRunner` | `Spec => []OneRunnerPerJob`, if `~SlowHandlers` |
| `FinishedStays` | `Spec => FinishedRowsAreFinal`, if `~SlowHandlers` |
| `QueueImplementsLifecycle` | `Spec => Lifecycle!Spec`, if `~SlowHandlers` |

Two invariants. `RunInv` adds `AttemptCounted` to the type: the attempt a
process holds is at most the row's counter, from which it follows that a new
claim, which increments it, differs from every other holder.

`OwnerInv` is what a timely lease gives: the row of a process at work is its
own, running with a live lease, or completed by it without its knowing
(`RunnerOwnsRow`); one process holds a job; a row that is locked by a claim
stays claimable until it commits (`ClaimStands`); two claims lock different rows
(`ClaimsDistinct`); a finished row has no owner (`FinishedUnlocked`).
`OneRunnerPerJob` alone is not inductive: a report, addressed by id, would be
free to end a row that another process had claimed. The refinement is one lemma
per kind of step (`ClaimBegins`, `RunnerLeaves`, `ReportEnds`, `ThrowsIsUntold`,
`FaultLoses`, `QuietSteps`).

### 4.2 ContractArchiveProofs

| theorem | says |
|---|---|
| `ArchiveTypeCorrect` | `Spec => []TypeOK` |
| `VersionsAreConsecutive` | `Spec => []VersionsConsecutive` |
| `HistoryIsComplete` | `Spec => []NewestSnapshotIsCurrent` |
| `OnlyRefreshClears` | `Spec => OnlyRefreshCleansArchive` |
| `ManualBindingsStay` | `Spec => ManualBindingsSurvive` |

`ArchiveInv` is the type, that the archive of an open edit exists and is still
what the edit loaded (`EditHasRow`), and that an archive has one open edit at
most (`OneEditPerArchive`): the row lock as a fact about states. `HistoryInv` is
the inductive form of the first two safety properties. The lemmas go by the
shape of the code: all edits end in `CommitVersion`, so what a commit keeps is
proved once for it.

### 4.3 CandidateReviewProofs

| theorem | says |
|---|---|
| `ApprovalIsKnown` | `Spec => []ApprovedIsKnown` |
| `AnswerIsInForce` | `Spec => []AnsweredIsInForce` |
| `RecordIsKept` | `Spec => RecordedIsNotRepeated` |
| `ReviewTypeCorrect` | `Spec => []TypeOK` |

`ReviewInv` follows a change through its statements: what is published is known
(`PublishedIsKnown`); a value that waits to be saved is in the dictionary
(`WrittenBeforeSaved`); a request past its operation has learned its key, past
the version has published it, and owes nothing after its mark (`RequestInv`);
what an attempt has collected as done is known, and what it has not marked it
still has in its list of affected keys (`ReportedIsKnown`, `AttemptInv`); the
same for a batch between two attempts, where the record is all that is left
(`BatchInv`). The types need two facts more (`TypeInv`): who is in the middle of
an operation has one (`OpGiven`), and a queued job has an attempt left, counting
one more for every error or restart (`AttemptsLeft`). That the variables of the
queue, the archive and the reviews keep their types is left to these proofs; the
other runs check theirs.

### 4.4 DictionaryRefreshProofs

| theorem | says |
|---|---|
| `OneRefresh`, `RefreshTypeCorrect`, `MarksReachWhatIsRefreshed` | `Spec => []OneRefreshAtATime`, `[]TypeOK`, `[]MarksReachContent` |
| `MaintenanceTypeCorrect` | `MaintenanceSpec => []MaintenanceTypeOK` |
| `OneRefreshInMaintenance` | `MaintenanceSpec => []OneRefreshAtATime` |
| `MarksReachInMaintenance` | `MaintenanceSpec => []MarksReachArchives` |

`JobInv` is the shape of a process's stage, queue and work (`WorkInv`) and that
whoever works holds the lock (`LockInv`); an unlock that comes late is that of a
process which works no more. `MarkInv` says why a mark reaches what it is for:
an undisturbed document has one normalizer at most, which read a dictionary as
new as the mark or is met by it; what it has written or has still to write adds
up; an archive that is under way takes what the document holds. Nothing is said
of what caches hold: that a normalization has an older dictionary than the mark
is found out when it begins, and disturbs its document. The maintenance
adds where nights, scripts and requests are (`DaysInv`) and what an archive made
meanwhile was read from; `MarkInv` has the set of documents of which an archive
is being made as its parameter, so that the refresh alone and the maintenance
share its proof.

### 4.5 DocumentPipelineProofs

| theorem | says |
|---|---|
| `PipelineIsOrderly` | `Spec => []PipelineInv`, the inductive invariant |
| `PipelineTypeCorrect` | `Spec => []TypeOK` |
| `NoDocumentIsForgotten` | `Spec => []NothingIsForgotten` |

`PipelineInv` is the type, `AllInformed` (what an actor has in its memory of a
document is so: it found blocks, or the extraction it works on is there),
`LateInv` (a write that comes late is to a document of which it is true) and
`KnownInv`: a document that is not `disturbed` is settled (`Settled`). It was
never extracted, or somebody will set its status once more (`Owed`), or it
failed, or it is normalized and so is its extraction (`Whole`) - or will be when
a call that has written the status has written the extraction as well (`Half`).
`NothingIsForgotten` speaks of documents nobody works on, so by itself it does
not say what the last actor leaves behind.

### 4.6 HrContractProofs

| theorem | says |
|---|---|
| `ContractTypeCorrect` | `Spec => []TypeOK` |
| `FlagsStayTrue` | `Spec => []FlagsAreTrue` |
| `CompletedIsShown` | `Spec => []CompleteIsShown` |
| `OneForm` | `Spec => []NoSecondForm` |

`RecordInv`: flags that a record or a handler holds are of files that were
uploaded, unless crossed (`HeldInv`, `EarlyInv`), and handlers hold the links of
the record (`LinksInv`). For the other two: notifications that came in order
leave nothing to older ones (`OrderInv`, `OriginalInv`), a completed contract
was sent (`CompleteSent`), and what a handler tells the forms is what it saved
(`ToldInv`). These two are of one contract, of events that come in order without
one running beside another, and of no errors; what they rule out is that a
notification delivered twice does harm.

### 4.7 ExtractionNormalizationProofs

| theorem | says |
|---|---|
| `NormalizationTypeCorrect` | `NormalizationSpec => []NormalizationTypeOK` |
| `NoFieldIsLost` | `NormalizationSpec => []NothingIsLost` |
| `EveryFieldIsPlaced` | `NormalizationSpec => []FieldsArePlaced` |

`PlacesInv` has, besides the type and what is proved: a field waits for an item
not yet handled (`AwaitInv`), `itemsByIndex` knows only items that were handled
(`OnlyHandled`), no field is in two places (`AtMostOnce`), each is with the
product it is about, or on the way to it (`GoalInv`), and a note gives way to
what was there with it (`NotesYield`). `AtMostOnce` needs all of it: a field
that moves must not be there already.

The operators of the module are recursive functions over the fields of an item
and the items of an extraction: cutting (`FieldsAreKept`, `CutsKeepAll`), the
numbers given to instances (`InstancesAreDistinct`), expansion
(`LeavesAreApart`), merging (`MergedAlone`), each with a lemma of what it keeps.
The library's induction theorems take an operator as parameter and are of no use
to the provers here; but a set of numbers can stand for it: `LeastNumber` takes
the least number from the well-foundedness of `<`, `AllNumbers` is induction for
a set of numbers, and the lemmas about functions on numbers rest on these.

### 4.8 PartsProofs

| theorem | says |
|---|---|
| `TypeCorrect`, `RingStaysInOrder` | of the limiter, `Spec => []TypeOK`, `[]RingInOrder` |
| `GrantsAreSpaced` | `Spec => EachGrantIsSpaced` |
| `NamedLimitIsKept` | `Spec => []NamedLimitHolds` |
| `RowsAreTyped`, `EveryEndIsTold` | `AgentSpec => []AgentTypeOK`, `[]EndIsTold` |
| `EveryDecisionHolds` | `ResolverSpec => []DecisionsHold` |
| `EveryKnownIsListed` | `ResolverSpec => []KnownIsInTable`: a pattern a service takes for known has its review, whatever fails (proved only, no run lists it) |
| `ReviewsAreKept` | `ResolverSpec => ReviewIsKept` |
| `CacheIsCurrent` | `D!Spec => []CurrentOfItsVersion` |
| `NormalizedIsExtracted` | `OneCall /\ P!Spec => NormalizedIsWhole`: for one call at a time |
| `RepeatsAreNotRefused` | `A!Spec => []RepeatIsNotRefused` |
| `TravellersAreAskedOnce` | `T!Spec => []AskedOnce` |
| `PartsAreTyped` | `PartsSpec => []TypesOK`: the types of all eight parts, in the specification the run checks |
| `PartsAreSafe` | `PartsSpec =>` always all other invariants of that run, proved of one part each above, and `NormalizedIsWhole` for one call at a time |

*Limiter.* That one slot is enough to look at rests on the order of the whole
ring: `RingInOrder` says the slots are ordered from `seq` on, and that a newest
time in the future is at most a bucket past the oldest. It is inductive. That
the calls which *run* are spaced needs more, since they sleep between the grant
and the run, and timers wake them late and in any order. Of a name the i-th call
to run does so no earlier than the i-th grant and no later than that and `late`
(`TraceInv`, with `Served`): counted in order, not call by call, for a call that
wakes late may be overtaken. From the spacing of the grants follows that of the
runs, less `late`. No timer is assumed to be on time.

*Agent.* `ToldInv` says, for each request that is not in `untold`, how far its
rows have come when it stands where it stands: `Begins`, `Works`, `Answers`,
`Fails`, `Tells`. A step of a plan has completed calls before it and none after
it, which is what makes `Completed` of the run true of all calls.

*Resolver.* `DecisionIsOfItsVersion` is not inductive, because a decision is
made from a snapshot somebody else may have loaded. `Resolving` says the same of
everything on the way to it: what is loaded, held by the service and gone by in
a run covers its version (`Covers`: it has what the version was raised for).
`RunsCover` and `SnapshotsCover` follow from the comparison of versions in
`loadDictionarySnapshot`, whichever load ends first. `RunsRecorded` adds that a
run past `SaveDecision` finds a decision of its candidate and version, which
another run may have replaced, and `KnownListed` that a known pattern has a
review.

*Dictionary cache.* `LoadsInv`: a load that nothing has met runs by itself, has
in the maps the tables it is past as they still are, and the aliases empty until
it comes to them (`Undisturbed`); and no load has read a version that was not
raised yet. So a change after the load leaves the cache with an older version.

*Planned extraction.* While a call waits for the model, the marks it has read
are those of the row and some item has none (`CallInv`), so what the call counts
as whole is so. Of every mark there is a reason (`Marked`): the item was
answered, or what the row holds under its index is from another item. That stays
true when a call is saved (`SavedGrows`): an item it marks without having asked
for it is one whose index a further instance got, and indices that are taken are
not given again. The property is of the steps that settle the row or the document
(`PlanStepIsWhole`), for a document planned again is normalized from the
beginning. This is of one call at a time (`OneCall`). With two it is not so: one
that read the row earlier takes back the marks of the other, which then sets the
status `normalized`.

*Login.* `CodeInv`: WeCom is asked only for codes whose result is not kept; of a
code it has accepted the result is kept, or comes, or was lost.

*Check-ins.* A check-in is stored before its traveller is asked (`Stored`), so
of the schedules that have found a traveller without one and have not asked him
yet there is one only (`OneAsks`), unless they looked at the same moment.

*Types.* Four parts have bounds in their types that no single step explains. In
the planned extraction a further item gets the lowest free index, and a `CHOOSE`
with nothing to choose from would be an index of no type: `PlanRow` says that
the row, and what a call has read of it, has at most two items for each one
marked as extracted; so of two indices for each item of the plan there is one
free for every further item a call can find (`FreeNumber`, `IndexIsThere`), and
`Grows` says what both ways of merging an answer add to the row. In the login
the cache is one longer than its limit at most because a code whose result is on
its way has none kept (`LoginTypes`), so keeping one never leaves two. In the
check-ins the forms linked to a check-in and the schedules about to link one
are together no more than it counts (`TripTypes`, `Linking`). In the dictionary
cache a table is changed as often as changes were allowed, and what was read of
it is no newer (`CacheBounds`).

*Composition.* `PartsTakeTurns`: a step of `PartsSpec` is a step or a stutter of
each part, so what is inductive for a part is so for all of them together. The
assumption is `PartsAssumption`: bounds are numbers, and the items of a plan are
finitely many, numbered from 1 on.

### 4.9 Only model-checked

Liveness (`EveryJobSettles`, `MarksAreWorkedOff`, `ReadyIsArchived`,
`PendingEnds`, `DeferredRecheckComes`, `CatchesUp`, `EveryItemIsAnswered`,
`LoginIsAnswered`, `EarlyTravellersAreFound`) is out of the prover's reach. All
invariants and all action properties of the runs that pass are proved, with two
premises that the runs have as well: timely handlers for the last three of the
job queue, and one call at a time for `NormalizedIsWhole`.

---

## 5. What is not modelled, and why

* Text: the patterns of the normalization rules, matching against the
  dictionary, the Excel parser and the LLM clients compute a value the models
  take as an input. They are sequential and have tests of their own. Of the
  normalization also left out: qualifiers, lip gaps, grouped layers of
  extruders, fields derived from one (voltage, heating, both sides of a mold),
  models matched by attributes, and which of several values of the document wins.
* In the modelled parts: the progress counters of jobs (nothing is decided by
  them), paging and filters of queries, logging, the contents of payloads. In
  ContractArchive the JSON patch of a change (the snapshot stands for it). In
  DictionaryRefresh several extractions per document (DocumentPipeline has
  them). In DocumentPipeline the status `dictionary_dirty` (DictionaryRefresh has
  it). In CandidateReview moving a value to another term type, a value created
  without the alias of its candidate, field names as document information, and
  candidates for units. In PlannedExtraction how the plan is made. In HrContract
  repairs by hand, reminders and the employee archive. In TripCheckin the import
  and the changes of trips. In AgentRuntime owners, renaming and archiving of
  sessions.
* The composition of DictionaryRefresh and DocumentPipeline: a mark and a first
  extraction of the same document, and the third status write of
  `service.ts:798` over the mark.
* The parts of section 1.1 with no module: `PROJECT.json` says of each why it is
  left out. CRM, vehicles, attendance and the copies of WeChat users hold no
  state over several steps of their own; the services they talk to are not in
  the repository.

---

## 6. Plan

1. The composition of marks with first extractions, over the status of
   DocumentPipeline; with it what `MarksReachContent` says of documents that are
   normalized for the first time.
2. **DocumentPipeline** as an implementation of a document's life: uploaded,
   parsed, extracted, normalized, with the failures as the way back, so that
   what the jobs of every day may expect is one module.
3. **ExtractionNormalization**: the fields derived from one and the grouping of
   layers, as further parts of a field.
