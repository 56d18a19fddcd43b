-------------------------- MODULE DictionaryRefresh -------------------------
(***************************************************************************)
(* How a change of the dictionary reaches the documents it affects, in     *)
(* features/productConfigAgent.                                            *)
(*                                                                         *)
(* A review of a candidate changes the dictionary, and then either marks   *)
(* the affected documents and their archives dictionary_dirty or           *)
(* normalizes the documents again itself.  The dirty refresh job, of which *)
(* every process can run one and an advisory lock admits one at a time,    *)
(* takes up to Limit dirty documents, oldest first, normalizes each again  *)
(* and refreshes its archive.                                              *)
(*                                                                         *)
(* Abstractions.  What a document or an archive holds is the dictionary    *)
(* version it was computed with.  A document has one extraction and at     *)
(* most one archive, which is made elsewhere (DailyMaintenance).  A        *)
(* normalization reads the dictionary when it begins, from the cache of    *)
(* its process, which may be older than the dictionary; how the cache is   *)
(* loaded is in DictionaryCache, and one step here.  The job's progress    *)
(* counters are left out.                                                  *)
(***************************************************************************)
EXTENDS Naturals, FiniteSets

CONSTANTS
    Processes,   \* server processes, each with its DirtyDataRefreshJobService
    Reviewers,   \* requests that review candidates
    Documents,   \* numbered in the order they were created
    Archived,    \* documents that have an archive at first
    Broken,      \* documents whose normalization always fails
    Limit,       \* documents one job takes
    NoProcess,
    MaxVersion,  \* bound on dictionary changes
    MaxFaults    \* bound on failed writes and crashes

ASSUME DocumentAssumption == Documents \subseteq Nat /\ IsFiniteSet(Documents)
ASSUME ArchiveAssumption  == Archived \subseteq Documents
ASSUME LimitAssumption    == Limit \in Nat \ {0} /\ Cardinality(Broken) < Limit
ASSUME BoundAssumption    == MaxVersion \in Nat /\ MaxFaults \in Nat
ASSUME ActorAssumption    == NoProcess \notin Processes /\ Processes \cap Reviewers = {}

VARIABLES
    dictionary,  \* dictionary_versions.version_value
    cached,      \* the version that the cache of each process holds
    document,    \* documents.status, and what its normalized extraction is from
    archive,     \* contract_archives.status, if any, and what its content is from
    lock,        \* advisory lock 2001001
    at,          \* where each process is in its job
    queue,       \* the documents its job has still to do
    work,        \* the normalization or archive transaction each actor is in
    late,        \* writes whose normalization has failed without them
    review,      \* what each reviewer has still to do
    due,         \* per document, the newest change it was marked for
    disturbed,   \* documents whose refresh was overtaken, interrupted or stale
    faults

rows  == <<dictionary, cached, document, archive>>
jobs  == <<lock, at, queue>>
ghost == <<due, disturbed>>
vars  == <<rows, jobs, work, late, review, ghost, faults>>

Versions == 0..MaxVersion
Actors   == Processes \cup Reviewers
Content(s) == [status : {s, "dictionary_dirty"}, from : Versions]
NoArchive == [status |-> "none", from |-> 0]
Writes   == {"extraction", "status"}
Write    == [doc : Documents, write : Writes, from : Versions]
Stages   == {"idle", "lock", "select", "next", "normalize", "find", "refresh", "commit"}
Idle     == [doing |-> "nothing"]
Work     == [doing : {"normalizing", "archiving"}, doc : Documents, from : Versions,
             todo : SUBSET Writes]
Reviewing == [doing : {"mark", "refresh"}, docs : SUBSET Documents, version : Versions,
              in : Processes]

TypeOK ==
    /\ dictionary \in Versions
    /\ cached \in [Processes -> Versions]
    /\ document \in [Documents -> Content("normalized")]
    /\ archive \in [Documents -> Content("archived") \cup {NoArchive}]
    /\ lock \in Processes \cup {NoProcess}
    /\ at \in [Processes -> Stages]
    /\ queue \in [Processes -> SUBSET Documents]
    /\ work \in [Actors -> Work \cup {Idle}]
    /\ late \subseteq Write
    /\ review \in [Reviewers -> Reviewing \cup {Idle}]
    /\ due \in [Documents -> Versions]
    /\ disturbed \subseteq Documents
    /\ faults \in 0..MaxFaults

Init ==
    /\ dictionary = 0
    /\ cached = [p \in Processes |-> 0]
    /\ document = [d \in Documents |-> [status |-> "normalized", from |-> 0]]
    /\ archive = [d \in Documents |->
                     IF d \in Archived THEN [status |-> "archived", from |-> 0] ELSE NoArchive]
    /\ lock = NoProcess
    /\ at = [p \in Processes |-> "idle"]
    /\ queue = [p \in Processes |-> {}]
    /\ work = [a \in Actors |-> Idle]
    /\ late = {}
    /\ review = [r \in Reviewers |-> Idle]
    /\ due = [d \in Documents |-> 0]
    /\ disturbed = {}
    /\ faults = 0

Fault   == faults < MaxFaults /\ faults' = faults + 1
NoFault == UNCHANGED faults

(* Documents are taken in the order of their creation.                     *)
Current(p) == CHOOSE d \in queue[p] : \A e \in queue[p] : d <= e

BeingNormalized(d) ==
    \/ \E a \in Actors : work[a].doing = "normalizing" /\ work[a].doc = d
    \/ \E w \in late : w.doc = d

BeingArchived(d) ==
    \E p \in Processes : at[p] \in {"find", "refresh", "commit"} /\ Current(p) = d

-----------------------------------------------------------------------------
(* generateDictionaryForExtraction, by a job or by a review *)

(* Mutant: the version is taken to be the one after a change.              *)
NextDictionary(p) == {cached[p], dictionary + 1}

(* ensureFresh: for a minute after the last look the cache is used as it   *)
(* is; then it is brought up to date.                                      *)
CachedDictionary(p) == {cached[p], dictionary}

(* A review runs in a process, with its cache.                             *)
ProcessOf(a) == IF a \in Processes THEN a ELSE review[a].in

(* Whoever normalizes with a dictionary older than the mark clears the     *)
(* mark all the same.                                                      *)
Normalize(a, d) ==
    \E v \in CachedDictionary(ProcessOf(a)) :
        /\ cached' = [cached EXCEPT ![ProcessOf(a)] = v]
        /\ work' = [work EXCEPT ![a] = [doing |-> "normalizing", doc |-> d,
                                        from |-> v, todo |-> Writes]]
        /\ disturbed' = IF BeingNormalized(d) \/ v < due[d]
                        THEN disturbed \cup {d} ELSE disturbed

(* Mutant: the mark is cleared and the new extraction is not stored.       *)
WrittenStatusOnly(old, write, from) ==
    IF write = "extraction" THEN old ELSE [old EXCEPT !.status = "normalized"]

(* updateExtractionDictionary and updateDocumentStatus.                    *)
Written(old, write, from) ==
    IF write = "extraction" THEN [old EXCEPT !.from = from]
                            ELSE [old EXCEPT !.status = "normalized"]

(* Promise.all sends both statements at once, outside a transaction.       *)
WriteLands(a) ==
    LET n == work[a] IN
    /\ n.doing = "normalizing" /\ n.doc \notin Broken
    /\ \E w \in n.todo :
        /\ document' = [document EXCEPT ![n.doc] = Written(@, w, n.from)]
        /\ work' = [work EXCEPT ![a].todo = @ \ {w}]
    /\ UNCHANGED <<dictionary, cached, archive, jobs, late, review, ghost>>
    /\ NoFault

Normalized(a) == work[a].doing = "normalizing" /\ work[a].todo = {}

(* The normalization throws before it writes.                              *)
Throws(a) ==
    /\ work[a].doing = "normalizing" /\ work[a].todo = Writes
    /\ IF work[a].doc \in Broken THEN NoFault ELSE Fault
    /\ work' = [work EXCEPT ![a] = Idle]
    /\ UNCHANGED <<late, disturbed>>

Writing(a) ==
    /\ work[a].doing = "normalizing"
    /\ work[a].doc \notin Broken /\ work[a].todo # {}

(* A write fails, or the process dies: the writes in K that were under way *)
(* may land later.                                                         *)
Interrupted(a) ==
    LET n == work[a] IN
    /\ Writing(a)
    /\ Fault
    /\ work' = [work EXCEPT ![a] = Idle]
    /\ disturbed' = disturbed \cup {n.doc}
    /\ \E K \in SUBSET n.todo :
        late' = late \cup {[doc |-> n.doc, write |-> w, from |-> n.from] : w \in K}

NormalizationFails(a) == Throws(a) \/ Interrupted(a)

LateWriteLands ==
    /\ \E w \in late :
        /\ document' = [document EXCEPT ![w.doc] = Written(@, w.write, w.from)]
        /\ late' = late \ {w}
    /\ UNCHANGED <<dictionary, cached, archive, jobs, work, review, ghost>>
    /\ NoFault

-----------------------------------------------------------------------------
(* Reviews *)

(* The dictionary change and its new version commit together, and the      *)
(* process of the review reloads its cache (bumpVersion); the affected     *)
(* documents are those the candidate occurred in.                          *)
ChangeDictionary(r) ==
    /\ review[r] = Idle /\ dictionary < MaxVersion
    /\ dictionary' = dictionary + 1
    /\ \E S \in SUBSET Documents \ {{}}, doing \in {"mark", "refresh"}, p \in Processes :
        /\ cached' = [cached EXCEPT ![p] = dictionary + 1]
        /\ review' = [review EXCEPT
                ![r] = [doing |-> doing, docs |-> S, version |-> dictionary + 1, in |-> p]]
    /\ UNCHANGED <<document, archive, jobs, work, late, ghost>>
    /\ NoFault

MarkedDocuments(S) ==
    [d \in Documents |-> IF d \in S
        THEN [document[d] EXCEPT !.status = "dictionary_dirty"] ELSE document[d]]
MarkedArchives(S) ==
    [d \in Documents |-> IF d \in S /\ archive[d] # NoArchive
        THEN [archive[d] EXCEPT !.status = "dictionary_dirty"] ELSE archive[d]]

(* markDocumentsDictionaryDirty, one transaction, which waits for the row  *)
(* lock of an archive being refreshed.                                     *)
Mark(r) ==
    LET S == review[r].docs
        v == review[r].version
    IN
    /\ review[r].doing = "mark"
    /\ ~ \E p \in Processes : at[p] = "commit" /\ Current(p) \in S
    /\ document' = MarkedDocuments(S)
    /\ archive' = MarkedArchives(S)
    /\ due' = [d \in Documents |-> IF d \in S /\ v > due[d] THEN v ELSE due[d]]
    /\ disturbed' = disturbed \cup {d \in S : BeingNormalized(d) \/ BeingArchived(d)}
    /\ review' = [review EXCEPT ![r] = Idle]
    /\ UNCHANGED <<dictionary, cached, jobs, work, late>>
    /\ NoFault

(* refreshAffectedDocuments: one after the other, archives not marked.     *)
RefreshAffected(r) ==
    /\ review[r].doing = "refresh" /\ work[r] = Idle
    /\ \E d \in review[r].docs : Normalize(r, d)
    /\ UNCHANGED <<dictionary, document, archive, jobs, late, review, due>>
    /\ NoFault

AffectedRefreshed(r) ==
    LET rest == review[r].docs \ {work[r].doc} IN
    /\ Normalized(r)
    /\ review' = [review EXCEPT
            ![r] = IF rest = {} THEN Idle ELSE [@ EXCEPT !.docs = rest]]
    /\ work' = [work EXCEPT ![r] = Idle]
    /\ UNCHANGED <<rows, jobs, late, ghost>>
    /\ NoFault

(* The mark or a normalization throws: the dictionary stays changed.       *)
MarkFails(r) ==
    /\ review[r].doing = "mark" /\ Fault
    /\ review' = [review EXCEPT ![r] = Idle]
    /\ UNCHANGED <<rows, jobs, work, late, ghost>>

RefreshAffectedFails(r) ==
    /\ NormalizationFails(r)
    /\ review' = [review EXCEPT ![r] = Idle]
    /\ UNCHANGED <<rows, jobs, due>>

-----------------------------------------------------------------------------
(* DirtyDataRefreshJobService *)

(* A process starts a job only when its last one is over.                  *)
StartJob(p) ==
    /\ at[p] = "idle"
    /\ at' = [at EXCEPT ![p] = "lock"]
    /\ UNCHANGED <<rows, lock, queue, work, late, review, ghost>>
    /\ NoFault

(* Mutant: the answer of pg_try_advisory_lock is not looked at.            *)
LockIgnored == TRUE

LockFree == lock = NoProcess

(* withTryAdvisoryLock; without the lock the job has failed.               *)
TryLock(p) ==
    /\ at[p] = "lock"
    /\ IF LockFree
       THEN lock' = p /\ at' = [at EXCEPT ![p] = "select"]
       ELSE at' = [at EXCEPT ![p] = "idle"] /\ UNCHANGED lock
    /\ UNCHANGED <<rows, queue, work, late, review, ghost>>
    /\ NoFault

(* Mutant: a document whose archive alone is dirty is not found.           *)
DirtyDocumentsOnly == {d \in Documents : document[d].status = "dictionary_dirty"}

Dirty(d) == "dictionary_dirty" \in {document[d].status, archive[d].status}

DirtyDocuments == {d \in Documents : Dirty(d)}

(* ORDER BY created_at LIMIT                                               *)
Oldest(D) == {d \in D : Cardinality({e \in D : e < d}) < Limit}

(* findDictionaryDirtyDocuments                                            *)
SelectDirty(p) ==
    /\ at[p] = "select"
    /\ queue' = [queue EXCEPT ![p] = Oldest(DirtyDocuments)]
    /\ at' = [at EXCEPT ![p] = "next"]
    /\ UNCHANGED <<rows, lock, work, late, review, ghost>>
    /\ NoFault

RefreshDocument(p) ==
    /\ at[p] = "next" /\ queue[p] # {}
    /\ Normalize(p, Current(p))
    /\ at' = [at EXCEPT ![p] = "normalize"]
    /\ UNCHANGED <<dictionary, document, archive, lock, queue, late, review, due>>
    /\ NoFault

DocumentRefreshed(p) ==
    /\ Normalized(p)
    /\ work' = [work EXCEPT ![p] = Idle]
    /\ at' = [at EXCEPT ![p] = "find"]
    /\ UNCHANGED <<rows, lock, queue, late, review, ghost>>
    /\ NoFault

GoOn(p) ==
    /\ queue' = [queue EXCEPT ![p] = @ \ {Current(p)}]
    /\ at' = [at EXCEPT ![p] = "next"]

(* refreshDirtyArchivesForDocument: the archive is refreshed if it is      *)
(* dirty at this moment.                                                   *)
FindDirtyArchive(p) ==
    /\ at[p] = "find"
    /\ IF archive[Current(p)].status = "dictionary_dirty"
       THEN at' = [at EXCEPT ![p] = "refresh"] /\ UNCHANGED queue
       ELSE GoOn(p)
    /\ UNCHANGED <<rows, lock, work, late, review, ghost>>
    /\ NoFault

(* refreshArchiveFromNormalizedExtraction: lock, read, ...                 *)
LockArchive(p) ==
    LET d == Current(p) IN
    /\ at[p] = "refresh"
    /\ work' = [work EXCEPT ![p] = [doing |-> "archiving", doc |-> d,
                                    from |-> document[d].from, todo |-> {}]]
    /\ at' = [at EXCEPT ![p] = "commit"]
    /\ UNCHANGED <<rows, lock, queue, late, review, ghost>>
    /\ NoFault

(* ... and commit.                                                         *)
CommitArchive(p) ==
    /\ at[p] = "commit"
    /\ archive' = [archive EXCEPT
            ![Current(p)] = [status |-> "archived", from |-> work[p].from]]
    /\ work' = [work EXCEPT ![p] = Idle]
    /\ GoOn(p)
    /\ UNCHANGED <<dictionary, cached, document, lock, late, review, ghost>>
    /\ NoFault

(* A document that fails is counted and the job goes on.                   *)
DocumentFails(p) ==
    /\ \/ at[p] = "normalize" /\ NormalizationFails(p)
       \/ /\ at[p] \in {"find", "refresh", "commit"} /\ Fault
          /\ work' = [work EXCEPT ![p] = Idle]
          /\ UNCHANGED <<late, disturbed>>
    /\ GoOn(p)
    /\ UNCHANGED <<rows, lock, review, due>>

(* The job is completed before the advisory lock is released, ...          *)
FinishJob(p) ==
    /\ at[p] = "next" /\ queue[p] = {}
    /\ at' = [at EXCEPT ![p] = "idle"]
    /\ UNCHANGED <<rows, lock, queue, work, late, review, ghost>>
    /\ NoFault

(* ... and released before the job has failed, if its query threw.         *)
JobFails(p) ==
    /\ at[p] = "select" /\ Fault
    /\ at' = [at EXCEPT ![p] = "idle"]
    /\ lock' = NoProcess
    /\ UNCHANGED <<rows, queue, work, late, review, ghost>>

Unlock(p) ==
    /\ lock = p /\ at[p] \in {"idle", "lock"}
    /\ lock' = NoProcess
    /\ UNCHANGED <<rows, at, queue, work, late, review, ghost>>
    /\ NoFault

(* The database drops the advisory lock with the connection, and the       *)
(* process begins anew with an empty cache.                                *)
CacheLost(p) ==
    /\ cached' = [cached EXCEPT ![p] = dictionary]
    /\ UNCHANGED <<dictionary, document, archive>>

Crash(p) ==
    /\ at[p] # "idle"
    /\ \/ Interrupted(p)
       \/ /\ ~Writing(p) /\ Fault
          /\ work' = [work EXCEPT ![p] = Idle]
          /\ UNCHANGED <<late, disturbed>>
    /\ at' = [at EXCEPT ![p] = "idle"]
    /\ queue' = [queue EXCEPT ![p] = {}]
    /\ lock' = IF lock = p THEN NoProcess ELSE lock
    /\ CacheLost(p)
    /\ UNCHANGED <<review, due>>

-----------------------------------------------------------------------------

ReviewStep(r) ==
    \/ ChangeDictionary(r) \/ Mark(r) \/ RefreshAffected(r) \/ AffectedRefreshed(r)
    \/ MarkFails(r) \/ RefreshAffectedFails(r)

JobStep(p) ==
    \/ StartJob(p) \/ TryLock(p) \/ SelectDirty(p) \/ RefreshDocument(p)
    \/ WriteLands(p) \/ DocumentRefreshed(p) \/ FindDirtyArchive(p)
    \/ LockArchive(p) \/ CommitArchive(p) \/ DocumentFails(p) \/ FinishJob(p)
    \/ JobFails(p)

Next ==
    \/ \E r \in Reviewers : ReviewStep(r) \/ WriteLands(r)
    \/ \E p \in Processes : JobStep(p) \/ Unlock(p) \/ Crash(p)
    \/ LateWriteLands

(* The maintenance schedule starts a job every day, and a process that is  *)
(* up goes on with its job.                                                *)
Fairness == \A p \in Processes : WF_vars(JobStep(p)) /\ WF_vars(Unlock(p))

Spec == Init /\ [][Next]_vars /\ Fairness

-----------------------------------------------------------------------------

(* One dirty refresh job works at a time, in whatever order processes      *)
(* start, finish, release the lock late and die.                           *)
OneRefreshAtATime ==
    \A p, q \in Processes :
        {at[p], at[q]} \cap {"idle", "lock"} = {} => p = q /\ lock = p

(* What a mark promises: unless the refresh of a document was overtaken by *)
(* a mark or another refresh of it, or a write of it failed, or a process  *)
(* did it that had an older dictionary in its cache, its extraction and    *)
(* archive are at least as new as the change it was last marked for, or    *)
(* still marked; of the archives all are but those excused.                *)
MarksReach(excused) ==
    \A d \in DOMAIN document \ disturbed :
        /\ document[d].status = "normalized" /\ ~BeingNormalized(d) =>
               document[d].from >= due[d]
        /\ archive[d].status = "archived" /\ d \notin excused => archive[d].from >= due[d]

(* Where only the refresh makes archives, none is excused.                 *)
MarksReachContent == MarksReach({})

(* "After a candidate review, refresh the affected documents or mark them  *)
(* dictionary_dirty": once a review has marked a document, it is dirty     *)
(* until it is normalized with the reviewed dictionary.                    *)
ReviewReachesDocument ==
    \A d \in Documents :
        document[d].status = "normalized" /\ ~BeingNormalized(d) =>
            document[d].from >= due[d]
=============================================================================
