-------------------------- MODULE DailyMaintenance --------------------------
(***************************************************************************)
(* The maintenance of every night, in features/productConfigAgent/         *)
(* workflow/dailyMaintenance.service.ts, with the dirty refresh job it     *)
(* runs (DictionaryRefresh): one process at a time refreshes what is       *)
(* dirty, and then archives the normalized documents that have no archive, *)
(* oldest first, up to a limit.  A script archives them too, under the     *)
(* same lock, and requests archive single documents under none.            *)
(*                                                                         *)
(* runDirtyDataRefreshJobNow waits for a job it starts and not for one it  *)
(* finds running, and a document is archived whether it is dirty or not.   *)
(*                                                                         *)
(* Abstractions.  Documents are archived in the order of their creation,   *)
(* which is that of their extractions.  Those with blockers stay blocked.  *)
(* Only requests force an archive, and the script has the limit of a night.*)
(***************************************************************************)
EXTENDS DictionaryRefresh

CONSTANTS
    Scripts,     \* runs of the script that archives
    Callers,     \* requests that archive a document
    Unready,     \* documents with blockers, see checkExtraction
    ArchiveLimit \* documents one run archives

ASSUME ArchiverAssumption ==
    /\ Scripts \cap Processes = {} /\ NoProcess \notin Scripts \cup Callers
    /\ Callers \cap (Processes \cup Scripts) = {}
ASSUME ArchiveLimitAssumption ==
    ArchiveLimit \in Nat \ {0} /\ Cardinality(Unready) < ArchiveLimit

VARIABLES
    dayLock,     \* advisory lock 2001000
    archiveLock, \* advisory lock 2001002
    day,         \* what the maintenance of each archiver does
    premature    \* documents archived before their refresh was over

days      == <<dayLock, archiveLock, day, premature>>
maintVars == <<vars, days>>

Archivers == Processes \cup Scripts \cup Callers
Resting   == [at |-> "idle"]
Day == [at : {"refresh", "wait", "archive", "select", "end"}]
       \cup [at : {"next"}, todo : SUBSET Documents, force : BOOLEAN]
       \cup [at : {"commit"}, todo : SUBSET Documents, force : BOOLEAN, doc : Documents,
             read : Content("normalized"), settled : BOOLEAN]

MaintenanceTypeOK ==
    /\ TypeOK
    /\ dayLock \in Processes \cup {NoProcess}
    /\ archiveLock \in Archivers \cup {NoProcess}
    /\ day \in [Archivers -> Day \cup {Resting}]
    /\ premature \subseteq Documents

DaysInit ==
    /\ dayLock = NoProcess /\ archiveLock = NoProcess
    /\ day = [a \in Archivers |-> Resting]
    /\ premature = {}

MaintenanceInit == Init /\ DaysInit

Today(a, value) == day' = [day EXCEPT ![a] = value]
At(a, stage)    == Today(a, [at |-> stage])
Rest(a, todo, force) == Today(a, [at |-> "next", todo |-> todo, force |-> force])

-----------------------------------------------------------------------------
(* runDailyMaintenance: without the lock the day is skipped, ...           *)
BeginDay(p) ==
    /\ day[p] = Resting
    /\ dayLock = NoProcess /\ dayLock' = p
    /\ At(p, "refresh")
    /\ UNCHANGED <<vars, archiveLock, premature>>

(* ... runDirtyDataRefreshJobNow.                                          *)
RefreshNow(p) ==
    /\ day[p].at = "refresh"
    /\ IF at[p] = "idle" THEN StartJob(p) /\ At(p, "wait")
                         ELSE At(p, "archive") /\ UNCHANGED vars
    /\ UNCHANGED <<dayLock, archiveLock, premature>>

(* The maintenance goes on when the job it waits for is over, whether it   *)
(* was completed or failed.                                                *)
JobGoesOn(p) ==
    /\ JobStep(p)
    /\ IF day[p].at = "wait" /\ at'[p] = "idle" THEN At(p, "archive") ELSE UNCHANGED day
    /\ UNCHANGED <<dayLock, archiveLock, premature>>

-----------------------------------------------------------------------------
(* archiveExisting, the script, and single requests *)

StartScript(a) ==
    /\ day[a] = Resting
    /\ At(a, "archive")
    /\ UNCHANGED <<vars, dayLock, archiveLock, premature>>

RequestArchive(a, d, force) ==
    /\ day[a] = Resting
    /\ Rest(a, {d}, force)
    /\ UNCHANGED <<vars, dayLock, archiveLock, premature>>

Over(a) == IF a \in Processes THEN At(a, "end") ELSE Today(a, Resting)

TryArchiveLock(a) ==
    /\ day[a].at = "archive"
    /\ IF archiveLock = NoProcess THEN archiveLock' = a /\ At(a, "select")
                                  ELSE Over(a) /\ UNCHANGED archiveLock
    /\ UNCHANGED <<vars, dayLock, premature>>

(* Mutant: documents that have an archive are not left out.                *)
AllDocuments == Documents

WithoutArchive == {d \in Documents : archive[d] = NoArchive}

(* findArchiveCandidates                                                   *)
SelectCandidates(a) ==
    /\ day[a].at = "select"
    /\ Rest(a, {d \in WithoutArchive :
                   Cardinality({e \in WithoutArchive : e < d}) < ArchiveLimit}, FALSE)
    /\ UNCHANGED <<vars, dayLock, archiveLock, premature>>

Candidate(a) == CHOOSE d \in day[a].todo : \A e \in day[a].todo : d <= e
Skip(a)      == Rest(a, day[a].todo \ {Candidate(a)}, day[a].force)

(* archiveDocument, a transaction: a document with blockers is refused and *)
(* one that has an archive is left alone; ...                              *)
ReadDocument(a) ==
    LET d == Candidate(a) IN
    /\ day[a].at = "next" /\ day[a].todo # {}
    /\ IF (d \in Unready /\ ~day[a].force) \/ archive[d] # NoArchive
       THEN Skip(a)
       ELSE Today(a, [at |-> "commit", todo |-> day[a].todo, force |-> day[a].force, doc |-> d,
                      read |-> document[d],
                      settled |-> document[d].status = "normalized" /\ ~BeingNormalized(d)])
    /\ UNCHANGED <<vars, dayLock, archiveLock, premature>>

(* ... the rest is archived, unless another has done it by then.           *)
CommitNewArchive(a) ==
    LET d == day[a].doc IN
    /\ day[a].at = "commit"
    /\ IF archive[d] = NoArchive
       THEN /\ archive' = [archive EXCEPT ![d] = [status |-> "archived", from |-> day[a].read.from]]
            /\ premature' = IF day[a].settled /\ document[d] = day[a].read /\ ~BeingNormalized(d)
                            THEN premature ELSE premature \cup {d}
       ELSE UNCHANGED <<archive, premature>>
    /\ Skip(a)
    /\ UNCHANGED <<dictionary, cached, document, jobs, work, late, review, ghost, faults,
                   dayLock, archiveLock>>

ArchiveFails(a) ==
    /\ day[a].at = "commit" /\ Fault
    /\ Skip(a)
    /\ UNCHANGED <<rows, jobs, work, late, review, ghost, dayLock, archiveLock, premature>>

Released(lockHeld, a) == IF lockHeld = a THEN NoProcess ELSE lockHeld

EndArchive(a) ==
    /\ day[a].at = "next" /\ day[a].todo = {}
    /\ archiveLock' = Released(archiveLock, a)
    /\ Over(a)
    /\ UNCHANGED <<vars, dayLock, premature>>

(* The query throws, and with it the day.                                  *)
SelectThrows(a) ==
    /\ day[a].at = "select" /\ Fault
    /\ archiveLock' = Released(archiveLock, a)
    /\ Over(a)
    /\ UNCHANGED <<rows, jobs, work, late, review, ghost, dayLock, premature>>

EndDay(p) ==
    /\ day[p].at = "end"
    /\ dayLock' = NoProcess
    /\ Today(p, Resting)
    /\ UNCHANGED <<vars, archiveLock, premature>>

(* The process dies, and the database drops the locks of its connections.  *)
Dies(p) ==
    /\ \/ Crash(p)
       \/ /\ at[p] = "idle" /\ day[p] # Resting /\ Fault
          /\ lock' = Released(lock, p)
          /\ CacheLost(p)
          /\ UNCHANGED <<at, queue, work, late, review, ghost>>
    /\ dayLock' = Released(dayLock, p) /\ archiveLock' = Released(archiveLock, p)
    /\ Today(p, Resting)
    /\ UNCHANGED premature

ScriptDies(a) ==
    /\ day[a] # Resting /\ Fault
    /\ archiveLock' = Released(archiveLock, a)
    /\ Today(a, Resting)
    /\ UNCHANGED <<rows, jobs, work, late, review, ghost, dayLock, premature>>

-----------------------------------------------------------------------------
Archives(a) ==
    \/ TryArchiveLock(a) \/ SelectCandidates(a) \/ ReadDocument(a) \/ CommitNewArchive(a)
    \/ EndArchive(a)

Maintains(p) == BeginDay(p) \/ RefreshNow(p) \/ Archives(p) \/ EndDay(p)

MaintenanceNext ==
    \/ \E p \in Processes : Maintains(p) \/ JobGoesOn(p) \/ Dies(p)
    \/ \E a \in Scripts : StartScript(a) \/ ScriptDies(a)
    \/ \E a \in Callers, d \in Documents, force \in BOOLEAN : RequestArchive(a, d, force)
    \/ \E a \in Scripts \cup Callers : Archives(a)
    \/ \E a \in Archivers : ArchiveFails(a) \/ SelectThrows(a)
    \/ /\ \/ \E r \in Reviewers : ReviewStep(r) \/ WriteLands(r)
          \/ \E p \in Processes : Unlock(p)
          \/ LateWriteLands
       /\ UNCHANGED days

(* The schedule fires every night, and what runs goes on.                  *)
MaintenanceFairness ==
    /\ \A p \in Processes :
          /\ WF_maintVars(Maintains(p)) /\ WF_maintVars(JobGoesOn(p))
          /\ WF_maintVars(Unlock(p) /\ UNCHANGED days)
    /\ \A a \in Scripts : WF_maintVars(Archives(a))

MaintenanceSpec == MaintenanceInit /\ [][MaintenanceNext]_maintVars /\ MaintenanceFairness

-----------------------------------------------------------------------------
(* Every document that is ready is archived in the end, although others    *)
(* are refused each night, processes die, nights meet scripts, requests    *)
(* and one another, and more documents wait than one night takes.          *)
EveryReadyDocumentIsArchived == \A d \in Documents \ Unready : <>(archive[d] # NoArchive)

(* Documents and archives are as new as the change they were last marked   *)
(* for, or marked, also archives the maintenance makes, unless it made one *)
(* of a document whose refresh was not over.                               *)
MarksReachArchives == MarksReach(premature)
=============================================================================
